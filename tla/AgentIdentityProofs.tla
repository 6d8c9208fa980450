------------------------ MODULE AgentIdentityProofs ------------------------
(***************************************************************************)
(* Proofs about AgentIdentity, for any number of machines, host names,     *)
(* enrolment tokens, agent tokens and processes under way.                 *)
(*                                                                         *)
(* Two arguments carry it.  A transaction that has consumed an enrolment   *)
(* token is alone with it until it ends (Consumed).  A token on its way to *)
(* a machine is nowhere else (Unshared), and it is the one the backend     *)
(* knows (Latest) unless a registration of the machine has overtaken it:   *)
(* a rotation that replaced it would have had it in hand.  Where the host  *)
(* is another machine's, nothing in hand opens it (Owned).                 *)
(***************************************************************************)
EXTENDS AgentIdentity, FiniteSetTheorems, TLAPS

Command == Registration \cup Rotation
Is(c) == commands[c] # None
Server(m) == servers[HostOf[m]]

(* A token is on its way to a process that waits for it.                   *)
Waits(c) == Is(c) /\ commands[c].token # None

(* Command c has token n in hand.                                          *)
Uses(c, n) ==
    /\ Is(c)
    /\ \/ commands[c].token = n
       \/ commands[c].kind = "rotate" /\ commands[c].loaded = n

Answered ==
    \A c \in Commands : Is(c) =>
        /\ commands[c].stage = "answered" <=> commands[c].token # None
        /\ commands[c].token # None => commands[c].alive

Served ==
    /\ \A c \in Commands : At(c, "rotate", "checked") =>
          Server(commands[c].machine) # None
    /\ \A h \in Hosts : holder[h] # None => servers[h] # None

(* The transaction of command c holds its enrolment token.                 *)
Holding(c) == At(c, "register", "consumed") \/ At(c, "register", "loaded")

Consumed ==
    \A c \in Commands : Holding(c) =>
        /\ enrolments[commands[c].enrolment] \in {"open", "expired"}
        /\ \A d \in Commands :
              /\ Holding(d)
              /\ commands[d].enrolment = commands[c].enrolment
              => d = c

Single ==
    \A e \in Enrolments :
        /\ \A m, n \in paired[e] : m = n
        /\ enrolments[e] = "used" <=> paired[e] # {}

(* Nobody has a token that was not issued.                                 *)
Fresh ==
    \A n \in Tokens : n > issued =>
        /\ \A m \in Machines : files[m] # n
        /\ \A c \in Commands : ~Uses(c, n)

Unshared ==
    \A c \in Commands : Waits(c) =>
        /\ \A m \in Machines : files[m] # commands[c].token
        /\ \A d \in Commands : d # c => ~Uses(d, commands[c].token)

Latest ==
    \A c \in Commands :
        /\ Waits(c) /\ ~commands[c].overtaken
        /\ holder[HostOf[commands[c].machine]] = commands[c].machine
        => commands[c].token = Server(commands[c].machine).token

Owned ==
    \A m \in Machines :
        holder[HostOf[m]] # m /\ Server(m) # None =>
            /\ files[m] # Server(m).token
            /\ \A c \in Commands :
                  Is(c) /\ commands[c].machine = m => ~Uses(c, Server(m).token)

Inv ==
    /\ TypeOK
    /\ Answered
    /\ Served
    /\ Consumed
    /\ Single
    /\ Fresh
    /\ Unshared
    /\ Latest
    /\ Owned
    /\ FileFollowsBackend

-----------------------------------------------------------------------------

(* A command under way has the fields of its kind.                         *)
LEMMA CommandShape ==
    ASSUME TypeOK, NEW c \in Commands, Is(c)
    PROVE  /\ commands[c] \in Command
           /\ commands[c].machine \in Machines
           /\ HostOf[commands[c].machine] \in Hosts
           /\ commands[c].kind \in {"register", "rotate"}
           /\ commands[c].alive \in BOOLEAN
           /\ commands[c].overtaken \in BOOLEAN
           /\ commands[c].token \in Tokens \cup {None}
           /\ commands[c].kind = "register" => commands[c] \in Registration
           /\ commands[c].kind = "rotate" => commands[c] \in Rotation
  <1>1. commands[c] \in Command
    BY DEF TypeOK, Is, Command
  <1> QED
    BY <1>1, IdentityAssumption DEF Command, Registration, Rotation

(* What a command may become without an answer: it carries on with what it *)
(* had in hand, or it begins.                                              *)
Sound(c, x) ==
    /\ x \in Command /\ x.token = None /\ x.stage # "answered"
    /\ x.kind = "rotate" =>
          \/ x.loaded = files[x.machine]
          \/ Is(c) /\ commands[c].kind = "rotate"
                   /\ commands[c].loaded = x.loaded
                   /\ commands[c].machine = x.machine
    /\ x.kind = "rotate" /\ x.stage = "checked" => Server(x.machine) # None
    /\ x.kind = "register" /\ x.stage \in {"consumed", "loaded"} =>
          /\ enrolments[x.enrolment] \in {"open", "expired"}
          /\ \A d \in Commands : d # c /\ Holding(d)
                                 => commands[d].enrolment # x.enrolment

(* A command begins, carries on or ends without an answer.                 *)
LEMMA QuietKeeps ==
    ASSUME Inv, NEW c \in Commands, NEW x,
           commands' = [commands EXCEPT ![c] = x],
           x = None \/ Sound(c, x),
           ~Waits(c), UNCHANGED <<backend, disk, history>>
    PROVE  Inv'
  <1> USE DEF Inv, backend, disk, history
  <1>1. /\ commands' \in [Commands -> Registration \cup Rotation \cup {None}]
        /\ commands'[c] = x
        /\ \A d \in Commands : d # c => commands'[d] = commands[d]
    BY DEF TypeOK, Sound, Command
  <1>2. TypeOK'
    BY <1>1 DEF TypeOK
  <1>3. Answered'
    BY <1>1 DEF Answered, Sound, Is
  <1>4. Served'
    BY <1>1 DEF Served, Sound, At, Is, Server
  <1>5. Consumed'
    BY <1>1 DEF Consumed, Holding, Sound, At
  <1>7. Single'
    BY DEF Single
  <1>8. \A d \in Commands : (commands'[d] # None /\ commands'[d].token # None)
            => /\ d # c /\ Waits(d) /\ commands'[d] = commands[d]
    BY <1>1 DEF Sound, Waits, Is
  <1>9. \A m \in Machines, n \in Tokens :
            (x # None /\ x.machine = m /\ (x.token = n \/
                (x.kind = "rotate" /\ x.loaded = n))) =>
              \/ files[m] = n
              \/ Is(c) /\ commands[c].machine = m /\ Uses(c, n)
    BY IdentityAssumption DEF Sound, Uses, Tokens
  <1>10. x # None => x.machine \in Machines
    BY DEF Sound, Command, Registration, Rotation
  <1>11. Fresh'
    <2>1. ASSUME NEW n \in Tokens, n > issued, NEW d \in Commands
          PROVE  ~(/\ commands'[d] # None
                   /\ \/ commands'[d].token = n
                      \/ commands'[d].kind = "rotate" /\ commands'[d].loaded = n)
      BY <1>1, <1>9, <1>10, <2>1 DEF Fresh, Uses, Is
    <2> QED BY <2>1 DEF Fresh, Uses, Is
  <1>12. \A d \in Commands : Waits(d) => commands[d].token \in Tokens
                                 /\ commands[d].machine \in Machines
    BY CommandShape DEF Waits
  <1>13. Unshared'
    <2>1. ASSUME NEW d \in Commands, d # c, Waits(d),
                 NEW e \in Commands, e # d
          PROVE  ~(/\ commands'[e] # None
                   /\ \/ commands'[e].token = commands[d].token
                      \/ commands'[e].kind = "rotate"
                            /\ commands'[e].loaded = commands[d].token)
      <3>1. CASE e = c
        BY <1>1, <1>9, <1>10, <1>12, <2>1, <3>1 DEF Unshared
      <3>2. CASE e # c
        BY <1>1, <2>1, <3>2 DEF Unshared, Uses, Is
      <3> QED BY <3>1, <3>2
    <2> QED BY <1>8, <2>1 DEF Unshared, Waits, Uses, Is
  <1>14. Latest'
    BY <1>8 DEF Latest, Waits, Is, Server
  <1>16. Owned'
    <2>1. ASSUME NEW m \in Machines, holder[HostOf[m]] # m, Server(m) # None,
                 NEW d \in Commands, commands'[d] # None,
                 commands'[d].machine = m
          PROVE  ~(\/ commands'[d].token = Server(m).token
                   \/ commands'[d].kind = "rotate"
                         /\ commands'[d].loaded = Server(m).token)
      <3>1. Server(m) \in Identity
        BY <2>1, IdentityAssumption DEF TypeOK, Server
      <3>2. Server(m).token \in Tokens
        BY <3>1 DEF Identity
      <3>3. CASE d = c
        BY <1>1, <1>9, <2>1, <3>2, <3>3 DEF Owned
      <3>4. CASE d # c
        BY <1>1, <2>1, <3>4 DEF Owned, Uses, Is
      <3> QED BY <3>3, <3>4
    <2> QED BY <2>1 DEF Owned, Uses, Is, Server
  <1>15. FileFollowsBackend'
    <2>1. \A d \in Commands, n \in Tokens :
             commands[d] # None /\ commands[d].token = n =>
                d # c /\ commands'[d] = commands[d]
      BY <1>1, IdentityAssumption DEF Waits, Is, Tokens
    <2>2. ASSUME NEW m \in Machines, holder[HostOf[m]] = m
          PROVE  Server(m).token \in Tokens
      <3>1. HostOf[m] \in Hosts /\ m # None
        BY IdentityAssumption
      <3>2. Server(m) \in Identity
        BY <2>2, <3>1 DEF Served, Server, TypeOK
      <3> QED BY <3>2 DEF Identity
    <2> QED BY <2>1, <2>2 DEF FileFollowsBackend, Server
  <1> QED BY <1>2, <1>3, <1>4, <1>5, <1>7, <1>11, <1>13, <1>14, <1>15, <1>16

-----------------------------------------------------------------------------
(* The administrator and the clock.                                        *)

(* An identity that is revoked or expires keeps its token.                 *)
LEMMA MarkedKeeps ==
    ASSUME Inv, NEW h \in Hosts, servers[h] # None,
           RevokeAgent(h) \/ IdentityExpires(h)
    PROVE  Inv'
  <1> USE DEF Inv, disk, history
  <1>1. /\ servers[h] \in Identity
        /\ \E x \in Identity : servers' = [servers EXCEPT ![h] = x]
                              /\ x.token = servers[h].token
        /\ UNCHANGED <<enrolments, configured, files, commands, issued, paired,
                       holder, unanswered, outdated>>
    <2>1. servers[h] \in Identity
      BY DEF TypeOK
    <2>2. /\ [servers[h] EXCEPT !.revoked = TRUE] \in Identity
          /\ [servers[h] EXCEPT !.expired = TRUE] \in Identity
          /\ [servers[h] EXCEPT !.revoked = TRUE].token = servers[h].token
          /\ [servers[h] EXCEPT !.expired = TRUE].token = servers[h].token
      BY <2>1 DEF Identity
    <2>3. CASE RevokeAgent(h)
      BY <2>1, <2>2, <2>3 DEF RevokeAgent
    <2>4. CASE IdentityExpires(h)
      BY <2>1, <2>2, <2>4 DEF IdentityExpires
    <2> QED BY <2>3, <2>4
  <1>2. PICK x \in Identity : servers' = [servers EXCEPT ![h] = x]
                              /\ x.token = servers[h].token
    BY <1>1
  <1>3. None \notin Identity
    BY NoneAssumption
  <1>4. \A g \in Hosts : /\ servers'[g] = None <=> servers[g] = None
                        /\ servers'[g].token = servers[g].token
    BY <1>1, <1>2, <1>3 DEF TypeOK
  <1>5. TypeOK'
    BY <1>1, <1>2 DEF TypeOK
  <1>6. Answered' /\ Consumed' /\ Single' /\ Fresh' /\ Unshared'
    BY <1>1 DEF Answered, Consumed, Holding, Single, Fresh, Unshared, Waits,
                Uses, Is, At
  <1>7. \A c \in Commands : Is(c) => HostOf[commands[c].machine] \in Hosts
    BY CommandShape
  <1>8. Served'
    BY <1>1, <1>4, <1>7 DEF Served, At, Is, Server
  <1>9. Latest' /\ Owned'
    BY <1>1, <1>4, <1>7, IdentityAssumption
       DEF Latest, Owned, Waits, Uses, Is, Server
  <1>10. FileFollowsBackend'
    BY <1>1, <1>4, IdentityAssumption DEF FileFollowsBackend
  <1> QED BY <1>5, <1>6, <1>8, <1>9, <1>10

LEMMA EnrolmentKeeps ==
    ASSUME Inv, NEW e \in Enrolments,
           CreateEnrolmentToken(e) \/ EnrolmentExpires(e)
    PROVE  Inv'
  <1> USE DEF Inv, disk, history
  <1>1. /\ enrolments' \in [Enrolments -> {"none", "open", "used", "expired"}]
        /\ \A f \in Enrolments : f # e => enrolments'[f] = enrolments[f]
        /\ enrolments[e] \in {"none", "open"}
        /\ enrolments'[e] \in {"open", "expired"}
        /\ UNCHANGED <<servers, configured, files, commands, issued, paired,
                       holder, unanswered, outdated>>
    BY DEF CreateEnrolmentToken, EnrolmentExpires, TypeOK
  <1>2. TypeOK'
    BY <1>1 DEF TypeOK
  <1>3. Answered' /\ Served' /\ Fresh' /\ Unshared' /\ Latest' /\ Owned'
           /\ FileFollowsBackend'
    BY <1>1 DEF Answered, Served, Fresh, Unshared, Latest, Owned,
                FileFollowsBackend, Waits, Uses, Is, At, Server
  <1>4. \A c \in Commands : Holding(c) =>
           commands[c].enrolment \in Enrolments
    BY CommandShape DEF Holding, At, Is, Registration
  <1>5. Consumed'
    BY <1>1, <1>4 DEF Consumed, Holding, At
  <1>6. Single'
    BY <1>1 DEF Single
  <1> QED BY <1>2, <1>3, <1>5, <1>6

LEMMA ConfigureKeeps ==
    ASSUME Inv, NEW m \in Machines, NEW e \in Enrolments, Configure(m, e)
    PROVE  Inv'
  <1> USE DEF Inv, backend, history
  <1>1. /\ configured' \in [Machines -> Enrolments \cup {None}]
        /\ UNCHANGED <<enrolments, servers, files, commands, issued, paired,
                       holder, unanswered, outdated>>
    BY DEF Configure, TypeOK
  <1>2. TypeOK'
    BY <1>1 DEF TypeOK
  <1> QED
    BY <1>1, <1>2
       DEF Answered, Served, Consumed, Holding, Single, Fresh, Unshared,
           Latest, Owned, FileFollowsBackend, Waits, Uses, Is, At, Server

-----------------------------------------------------------------------------
(* Registration and rotation without an answer.                            *)

LEMMA StartRegistrationKeeps ==
    ASSUME Inv, NEW c \in Commands, NEW m \in Machines, StartRegistration(c, m)
    PROVE  Inv'
  <1> DEFINE x == [kind |-> "register", machine |-> m, stage |-> "posted",
                   alive |-> TRUE, enrolment |-> configured[m],
                   loaded |-> None, token |-> None, overtaken |-> FALSE]
  <1>1. x \in Command
    BY DEF Command, Registration, StartRegistration, Inv, TypeOK
  <1>2. Sound(c, x)
    BY <1>1 DEF Sound, StartRegistration, Is
  <1>3. ~Waits(c)
    BY DEF StartRegistration, Waits, Is
  <1> QED BY <1>2, <1>3, QuietKeeps DEF StartRegistration

LEMMA StartRotationKeeps ==
    ASSUME Inv, NEW c \in Commands, NEW m \in Machines, StartRotation(c, m)
    PROVE  Inv'
  <1> DEFINE x == [kind |-> "rotate", machine |-> m, stage |-> "posted",
                   alive |-> TRUE, loaded |-> files[m], token |-> None,
                   overtaken |-> FALSE]
  <1>1. x \in Command
    BY DEF Command, Rotation, StartRotation, Inv, TypeOK
  <1>2. Sound(c, x)
    BY <1>1 DEF Sound, StartRotation, Is
  <1>3. ~Waits(c)
    BY DEF StartRotation, Waits, Is
  <1> QED BY <1>2, <1>3, QuietKeeps DEF StartRotation

(* A step of one command from one stage to another, before its answer.     *)
LEMMA StageKeeps ==
    ASSUME Inv, NEW c \in Commands, Is(c), commands[c].stage # "answered",
           NEW x, x = None \/ /\ x \in Command
                              /\ x.kind = commands[c].kind
                              /\ x.machine = commands[c].machine
                              /\ x.alive => commands[c].alive
                              /\ x.token = None /\ x.stage # "answered"
                              /\ x.kind = "rotate" =>
                                    x.loaded = commands[c].loaded
                              /\ x.kind = "register" =>
                                    x.enrolment = commands[c].enrolment,
           x # None /\ x.kind = "rotate" /\ x.stage = "checked" =>
               Server(x.machine) # None,
           x # None /\ x.kind = "register"
                    /\ x.stage \in {"consumed", "loaded"} =>
               \/ Holding(c)
               \/ /\ enrolments[x.enrolment] = "open"
                  /\ ~Locked(x.enrolment),
           commands' = [commands EXCEPT ![c] = x],
           UNCHANGED <<backend, disk, history>>
    PROVE  Inv'
  <1>1. ~Waits(c)
    BY DEF Inv, Answered, Waits
  <1>2. ASSUME x # None
        PROVE  Sound(c, x)
    <2>1. x.kind = "register" /\ x.stage \in {"consumed", "loaded"} =>
          /\ enrolments[x.enrolment] \in {"open", "expired"}
          /\ \A d \in Commands : d # c /\ Holding(d)
                                 => commands[d].enrolment # x.enrolment
      <3>1. CASE Holding(c)
        BY <1>2, <3>1 DEF Inv, Consumed, Holding, At
      <3>2. CASE ~Holding(c)
        BY <1>2, <3>2 DEF Locked, Holding
      <3> QED BY <3>1, <3>2
    <2>3. x.kind = "rotate" =>
             Is(c) /\ commands[c].kind = "rotate"
                   /\ commands[c].loaded = x.loaded
                   /\ commands[c].machine = x.machine
      BY <1>2
    <2> QED BY <1>2, <2>1, <2>3 DEF Sound
  <1> QED BY <1>1, <1>2, QuietKeeps

-----------------------------------------------------------------------------
(* Answers.                                                                *)

(* What command d may become by the step of another one: it is marked.     *)
Alike(d, x) ==
    /\ x # None <=> Is(d)
    /\ Is(d) =>
          /\ x \in Command
          /\ x.kind = commands[d].kind /\ x.machine = commands[d].machine
          /\ x.stage = commands[d].stage /\ x.alive = commands[d].alive
          /\ x.token = commands[d].token
          /\ x.kind = "rotate" => x.loaded = commands[d].loaded
          /\ x.kind = "register" => x.enrolment = commands[d].enrolment
          /\ ~x.overtaken => ~commands[d].overtaken

(* A registration marks the answers on their way to its machine.           *)
LEMMA OvertakenMarks ==
    ASSUME TypeOK, NEW c \in Commands, NEW d \in Commands
    PROVE  /\ Alike(d, Overtaken(c)[d])
           /\ Is(d) /\ commands[d].machine = commands[c].machine
                 /\ commands[d].stage = "answered" => Overtaken(c)[d].overtaken
           /\ commands[d] = None \/ commands[d].stage # "answered" =>
                 Overtaken(c)[d] = commands[d]
  <1> DEFINE y == [commands[d] EXCEPT !.overtaken = TRUE]
  <1>1. \/ /\ Overtaken(c)[d] = commands[d]
           /\ ~(/\ Is(d) /\ commands[d].machine = commands[c].machine
                /\ commands[d].stage = "answered")
        \/ /\ Overtaken(c)[d] = y
           /\ Is(d) /\ commands[d].stage = "answered"
    BY DEF Overtaken, Is
  <1>2. ASSUME Overtaken(c)[d] = commands[d]
        PROVE  Alike(d, Overtaken(c)[d])
    BY <1>2, CommandShape DEF Alike, Is
  <1>3. ASSUME Overtaken(c)[d] = y, Is(d)
        PROVE  Alike(d, Overtaken(c)[d]) /\ Overtaken(c)[d].overtaken
    <2>1. CASE commands[d].kind = "register"
      <3>1. commands[d] \in Registration
        BY <1>3, <2>1, CommandShape
      <3>2. y \in Registration /\ y.overtaken /\ y.kind = commands[d].kind
              /\ y.machine = commands[d].machine /\ y.stage = commands[d].stage
              /\ y.alive = commands[d].alive /\ y.token = commands[d].token
              /\ y.enrolment = commands[d].enrolment
        BY <3>1 DEF Registration
      <3> HIDE DEF y
      <3> QED BY <1>3, <2>1, <3>2, NoneAssumption DEF Alike, Command
    <2>2. CASE commands[d].kind = "rotate"
      <3>1. commands[d] \in Rotation
        BY <1>3, <2>2, CommandShape
      <3>2. y \in Rotation /\ y.overtaken /\ y.kind = commands[d].kind
              /\ y.machine = commands[d].machine /\ y.stage = commands[d].stage
              /\ y.alive = commands[d].alive /\ y.token = commands[d].token
              /\ y.loaded = commands[d].loaded
        BY <3>1 DEF Rotation
      <3> HIDE DEF y
      <3> QED BY <1>3, <2>2, <3>2, NoneAssumption DEF Alike, Command
    <2> QED BY <1>3, <2>1, <2>2, CommandShape
  <1> HIDE DEF y
  <1> QED BY <1>1, <1>2, <1>3 DEF Is

(* A handler issues a token to the machine of command c.  Whoever else of  *)
(* that machine waits for one is overtaken, if c registers; and if c       *)
(* rotates, waits for the one c has in hand, which is nowhere else.        *)
LEMMA IssueKeeps ==
    ASSUME Inv, NEW c \in Commands, NEW identity \in Identity, Is(c),
           commands[c].stage # "answered",
           identity.token = issued + 1,
           NEW others \in [Commands -> Command \cup {None}],
           others[c] = commands[c],
           \A d \in Commands : Alike(d, others[d]),
           Issue(c, identity, others),
           commands[c].kind = "rotate" =>
               /\ Server(commands[c].machine) # None
               /\ Server(commands[c].machine).token = commands[c].loaded,
           commands[c].kind = "register" =>
               \A d \in Commands :
                  Waits(d) /\ commands[d].machine = commands[c].machine =>
                      others[d].overtaken,
           UNCHANGED disk,
           enrolments' \in [Enrolments -> {"none", "open", "used", "expired"}],
           paired' \in [Enrolments -> SUBSET Machines],
           Single',
           \A e \in Enrolments : enrolments'[e] = enrolments[e] \/
               (Holding(c) /\ commands[c].enrolment = e)
    PROVE  Inv'
  <1> USE DEF Inv, disk
  <1> DEFINE m == commands[c].machine
             h == HostOf[m]
             n == issued + 1
  <1>1. /\ m \in Machines /\ h \in Hosts /\ commands[c] \in Command
        /\ commands[c].alive \in BOOLEAN
        /\ commands[c].kind \in {"register", "rotate"}
        /\ commands[c].kind = "register" => commands[c] \in Registration
        /\ commands[c].kind = "rotate" => commands[c] \in Rotation
    BY CommandShape
  <1>2. ~Waits(c) /\ commands[c].token = None
    BY DEF Answered, Waits
  <1> DEFINE y == [commands[c] EXCEPT !.stage = "answered", !.token = n]
             x == IF commands[c].alive THEN y ELSE None
  <1>3. /\ n \in Tokens /\ issued' = n
        /\ servers' = [servers EXCEPT ![h] = identity]
        /\ holder' = [holder EXCEPT ![h] = m]
        /\ commands' = [others EXCEPT ![c] = x]
        /\ unanswered' = IF commands[c].alive THEN unanswered
                         ELSE unanswered \cup {n}
        /\ UNCHANGED <<configured, files, outdated>>
    BY <1>1 DEF Issue
  <1>4. /\ n \in Nat /\ n \in 0 .. MaxToken /\ n > issued /\ n # None
        /\ None \notin Tokens
    BY <1>3, IdentityAssumption DEF Tokens, TypeOK
  <1>5. /\ y \in Command /\ y.machine = m /\ y.kind = commands[c].kind
        /\ y.alive = commands[c].alive /\ y.token = n
        /\ y.stage = "answered" /\ y # None
        /\ y.kind = "rotate" => y.loaded = commands[c].loaded
    <2>1. CASE commands[c].kind = "register"
      BY <1>1, <1>3, <2>1, NoneAssumption DEF Registration, Rotation, Command
    <2>2. CASE commands[c].kind = "rotate"
      BY <1>1, <1>3, <2>2, NoneAssumption DEF Registration, Rotation, Command
    <2> QED BY <1>1, <2>1, <2>2
  <1>6. /\ commands'[c] = x
        /\ \A d \in Commands : d # c => commands'[d] = others[d]
        /\ commands' \in [Commands -> Registration \cup Rotation \cup {None}]
        /\ x # None <=> commands[c].alive
        /\ x # None => x = y
    BY <1>1, <1>3, <1>5 DEF Command
  <1> HIDE DEF x, y, m, h, n
  <1>21. \A d \in Commands : d # c => Alike(d, commands'[d])
    BY <1>6
  <1>7. /\ servers'[h] = identity
        /\ \A g \in Hosts : g # h => servers'[g] = servers[g]
        /\ holder'[h] = m
        /\ \A g \in Hosts : g # h => holder'[g] = holder[g]
        /\ identity # None /\ identity.token = n
    BY <1>1, <1>3, NoneAssumption DEF TypeOK, n
  <1>8. TypeOK'
    <2>1. unanswered' \subseteq Tokens
      BY <1>1, <1>3 DEF TypeOK
    <2>2. /\ servers' \in [Hosts -> Identity \cup {None}]
          /\ holder' \in [Hosts -> Machines \cup {None}]
      BY <1>1, <1>3 DEF TypeOK
    <2> QED BY <1>3, <1>4, <1>6, <2>1, <2>2 DEF TypeOK
  <1>9. Answered'
    BY <1>4, <1>5, <1>6, <1>21 DEF Answered, Alike, Is
  <1>10. \A d \in Commands : Is(d) => /\ commands[d].machine \in Machines
                                      /\ HostOf[commands[d].machine] \in Hosts
    BY CommandShape
  <1>11. Served'
    <2>1. \A g \in Hosts : servers[g] # None => servers'[g] # None
      BY <1>7
    <2>2. ASSUME NEW d \in Commands, At(d, "rotate", "checked")'
          PROVE  /\ d # c /\ At(d, "rotate", "checked")
                 /\ commands'[d].machine = commands[d].machine
      BY <1>5, <1>6, <1>21, <2>2 DEF At, Alike, Is
    <2>3. \A d \in Commands : At(d, "rotate", "checked")' =>
             servers'[HostOf[commands'[d].machine]] # None
      BY <1>10, <2>1, <2>2 DEF Served, Server, At, Is
    <2>4. \A g \in Hosts : holder'[g] # None => servers'[g] # None
      BY <1>7, <2>1 DEF Served
    <2> QED BY <1>3, <2>3, <2>4 DEF Served, Server
  <1>12. Consumed'
    <2>1. ASSUME NEW d \in Commands, Holding(d)'
          PROVE  /\ d # c /\ Holding(d)
                 /\ commands'[d].enrolment = commands[d].enrolment
      BY <1>5, <1>6, <1>21, <2>1 DEF Holding, At, Alike, Is
    <2>2. ASSUME NEW d \in Commands, d # c, Holding(d)
          PROVE  enrolments'[commands[d].enrolment]
                    = enrolments[commands[d].enrolment]
      <3>1. commands[d].enrolment \in Enrolments
        BY <2>2, CommandShape DEF Holding, At, Is, Registration
      <3> QED BY <2>2, <3>1 DEF Consumed
    <2> QED BY <2>1, <2>2 DEF Consumed
  <1>14. \A d \in Commands : commands'[d] # None /\ commands'[d].token # None
            => \/ d = c /\ commands'[d].token = n /\ commands[c].alive
                           /\ commands'[d].machine = m
               \/ /\ d # c /\ Waits(d)
                  /\ commands'[d].token = commands[d].token
                  /\ commands'[d].machine = commands[d].machine
                  /\ ~commands'[d].overtaken => ~commands[d].overtaken
    BY <1>5, <1>6, <1>21 DEF Waits, Is, Alike
  (* Nobody but c has n.                                                   *)
  <1>15. /\ \A k \in Machines : files[k] # n
         /\ \A d \in Commands : d # c /\ Is(d) =>
                /\ commands[d].token # n
                /\ commands[d].kind = "rotate" => commands[d].loaded # n
    BY <1>3, <1>4 DEF Fresh, Uses
  (* What another command has in hand it had before.                       *)
  <1>22. \A d \in Commands, k \in Tokens :
            /\ d # c /\ commands'[d] # None
            /\ \/ commands'[d].token = k
               \/ commands'[d].kind = "rotate" /\ commands'[d].loaded = k
            => Uses(d, k) /\ commands'[d].machine = commands[d].machine
    BY <1>21 DEF Alike, Uses, Is
  <1>16. Fresh'
    <2>1. ASSUME NEW k \in Tokens, k > n, NEW d \in Commands
          PROVE  ~(/\ commands'[d] # None
                   /\ \/ commands'[d].token = k
                      \/ commands'[d].kind = "rotate" /\ commands'[d].loaded = k)
      <3>1. k > issued /\ issued \in Nat
        BY <2>1, IdentityAssumption DEF n, TypeOK, Tokens
      <3>2. CASE d # c
        BY <1>22, <2>1, <3>1, <3>2 DEF Fresh
      <3>3. CASE d = c
        <4>1. k # n
          BY <1>4, <2>1
        <4>2. ~Uses(c, k)
          BY <2>1, <3>1 DEF Fresh
        <4> QED BY <1>5, <1>6, <3>3, <4>1, <4>2 DEF Uses
      <3> QED BY <3>2, <3>3
    <2>2. \A k \in Tokens : k > n => \A g \in Machines : files[g] # k
      BY IdentityAssumption DEF Fresh, n, TypeOK, Tokens
    <2> QED BY <1>3, <2>1, <2>2 DEF Fresh, Uses, Is
  <1>23. \A d \in Commands : Waits(d) => commands[d].token \in Tokens
    BY CommandShape DEF Waits
  <1>17. Unshared'
    <2>1. ASSUME NEW d \in Commands, d # c, Waits(d)
          PROVE  /\ \A k \in Machines : files[k] # commands[d].token
                 /\ commands[d].token # n
                 /\ \A e \in Commands :
                       /\ e # d /\ commands'[e] # None
                       => /\ commands'[e].token # commands[d].token
                          /\ commands'[e].kind = "rotate" =>
                                commands'[e].loaded # commands[d].token
      <3>1. /\ \A k \in Machines : files[k] # commands[d].token
            /\ \A e \in Commands : e # d => ~Uses(e, commands[d].token)
            /\ commands[d].token # n
        BY <1>15, <2>1 DEF Unshared, Waits
      <3>2. ASSUME NEW e \in Commands, e # d, commands'[e] # None
            PROVE  /\ commands'[e].token # commands[d].token
                   /\ commands'[e].kind = "rotate" =>
                         commands'[e].loaded # commands[d].token
        <4>1. CASE e = c
          BY <1>5, <1>6, <3>1, <3>2, <4>1 DEF Uses
        <4>2. CASE e # c
          BY <1>22, <1>23, <2>1, <3>1, <3>2, <4>2
        <4> QED BY <4>1, <4>2
      <3> QED BY <3>1, <3>2
    <2>2. ASSUME NEW e \in Commands, e # c, commands'[e] # None
          PROVE  /\ commands'[e].token # n
                 /\ commands'[e].kind = "rotate" => commands'[e].loaded # n
      BY <1>3, <1>15, <1>22, <2>2 DEF Uses
    <2>3. ASSUME NEW d \in Commands, commands'[d] # None,
                 commands'[d].token # None
          PROVE  /\ \A k \in Machines : files[k] # commands'[d].token
                 /\ \A e \in Commands : e # d /\ commands'[e] # None =>
                       /\ commands'[e].token # commands'[d].token
                       /\ commands'[e].kind = "rotate" =>
                             commands'[e].loaded # commands'[d].token
      <3>1. CASE d = c
        BY <1>14, <1>15, <2>2, <2>3, <3>1
      <3>2. CASE d # c
        <4>1. Waits(d) /\ commands'[d].token = commands[d].token
          BY <1>14, <2>3, <3>2
        <4> QED BY <2>1, <3>2, <4>1
      <3> QED BY <3>1, <3>2
    <2> QED BY <1>3, <2>3 DEF Unshared, Waits, Uses, Is
  (* Of the same machine nobody else waits for a token that is not         *)
  (* overtaken.                                                            *)
  <1>18. ASSUME NEW d \in Commands, d # c, Waits(d), commands[d].machine = m,
                ~commands'[d].overtaken
         PROVE  FALSE
    <2>1. ~others[d].overtaken /\ ~commands[d].overtaken
      BY <1>6, <1>18, <1>21 DEF Alike, Waits
    <2>2. CASE commands[c].kind = "register"
      BY <1>18, <2>1, <2>2 DEF m
    <2>3. CASE commands[c].kind = "rotate"
      <3>1. Server(m) # None /\ Server(m).token = commands[c].loaded
        BY <2>3 DEF m
      <3>2. Uses(c, Server(m).token)
        BY <2>3, <3>1 DEF Uses
      <3>3. commands[d].token # Server(m).token
        BY <1>18, <3>2 DEF Unshared
      <3>4. holder[HostOf[m]] = m
        BY <1>1, <3>1, <3>2 DEF Owned, m
      <3> QED BY <1>18, <2>1, <3>3, <3>4 DEF Latest, m
    <2> QED BY <1>1, <2>2, <2>3
  <1>19. Latest'
    <2>1. ASSUME NEW d \in Commands, commands'[d] # None,
                 commands'[d].token # None, ~commands'[d].overtaken,
                 holder'[HostOf[commands'[d].machine]] = commands'[d].machine
          PROVE  commands'[d].token
                     = servers'[HostOf[commands'[d].machine]].token
      <3>1. CASE d = c
        BY <1>7, <1>14, <2>1, <3>1 DEF h
      <3>2. CASE d # c
        <4>1. /\ Waits(d) /\ commands'[d].token = commands[d].token
              /\ commands'[d].machine = commands[d].machine
              /\ ~commands[d].overtaken
          BY <1>14, <2>1, <3>2
        <4>2. commands[d].machine # m
          BY <1>18, <2>1, <3>2, <4>1
        <4>3. HostOf[commands[d].machine] # h
          BY <1>7, <2>1, <4>1, <4>2
        <4>4. HostOf[commands[d].machine] \in Hosts
          BY <1>10, <4>1 DEF Waits
        <4> QED BY <1>7, <2>1, <4>1, <4>3, <4>4 DEF Latest, Server
      <3> QED BY <3>1, <3>2
    <2> QED BY <2>1 DEF Latest, Waits, Is, Server
  <1>24. Owned'
    <2>1. ASSUME NEW k \in Machines, holder'[HostOf[k]] # k,
                 servers'[HostOf[k]] # None
          PROVE  /\ files[k] # servers'[HostOf[k]].token
                 /\ \A d \in Commands :
                       commands'[d] # None /\ commands'[d].machine = k =>
                          /\ commands'[d].token # servers'[HostOf[k]].token
                          /\ commands'[d].kind = "rotate" =>
                                commands'[d].loaded # servers'[HostOf[k]].token
      <3>1. HostOf[k] \in Hosts
        BY IdentityAssumption
      <3>2. CASE HostOf[k] = h
        <4>1. servers'[HostOf[k]].token = n /\ k # m
          BY <1>7, <2>1, <3>2
        <4>2. ASSUME NEW d \in Commands, commands'[d] # None,
                     commands'[d].machine = k
              PROVE  /\ commands'[d].token # n
                     /\ commands'[d].kind = "rotate" => commands'[d].loaded # n
          <5>1. d # c
            BY <1>5, <1>6, <4>1, <4>2
          <5> QED BY <1>3, <1>15, <1>22, <4>2, <5>1 DEF Uses
        <4> QED BY <1>15, <4>1, <4>2
      <3>3. CASE HostOf[k] # h
        <4>1. /\ servers'[HostOf[k]] = Server(k)
              /\ holder[HostOf[k]] # k /\ Server(k) # None
          BY <1>7, <2>1, <3>1, <3>3 DEF Server
        <4>2. Server(k) \in Identity
          BY <3>1, <4>1 DEF TypeOK, Server
        <4>3. Server(k).token \in Tokens
          BY <4>2 DEF Identity
        <4>4. ASSUME NEW d \in Commands, commands'[d] # None,
                     commands'[d].machine = k
              PROVE  /\ commands'[d].token # Server(k).token
                     /\ commands'[d].kind = "rotate" =>
                           commands'[d].loaded # Server(k).token
          <5>1. d # c
            BY <1>5, <1>6, <3>3, <4>4 DEF h
          <5>2. Is(d) /\ commands[d].machine = k
            BY <1>21, <4>4, <5>1 DEF Alike
          <5> QED BY <1>22, <4>1, <4>3, <4>4, <5>1, <5>2 DEF Owned
        <4> QED BY <4>1, <4>4 DEF Owned
      <3> QED BY <3>2, <3>3
    <2> QED BY <1>3, <2>1 DEF Owned, Uses, Is, Server
  <1>20. FileFollowsBackend'
    <2>1. ASSUME NEW k \in Machines, holder'[HostOf[k]] = k
          PROVE  \/ files[k] = servers'[HostOf[k]].token
                 \/ servers'[HostOf[k]].token \in unanswered'
                 \/ k \in outdated
                 \/ \E d \in Commands :
                       /\ commands'[d] # None
                       /\ commands'[d].machine = k
                       /\ commands'[d].token = servers'[HostOf[k]].token
      <3>1. CASE HostOf[k] = h
        <4>1. k = m /\ servers'[HostOf[k]].token = n
          BY <1>7, <2>1, <3>1
        <4>2. CASE commands[c].alive
          BY <1>5, <1>6, <4>1, <4>2
        <4>3. CASE ~commands[c].alive
          BY <1>3, <4>1, <4>3
        <4> QED BY <1>1, <4>2, <4>3
      <3>2. CASE HostOf[k] # h
        <4>1. HostOf[k] \in Hosts
          BY IdentityAssumption
        <4>2. /\ holder[HostOf[k]] = k
              /\ servers'[HostOf[k]] = servers[HostOf[k]]
          BY <1>7, <2>1, <3>2, <4>1
        <4>3. \A d \in Commands : Is(d) /\ commands[d].machine = k => d # c
          BY <3>2 DEF h, m
        <4>4. \A d \in Commands : Is(d) /\ commands[d].machine = k =>
                 /\ commands'[d] # None /\ commands'[d].machine = k
                 /\ commands'[d].token = commands[d].token
          BY <1>21, <4>3 DEF Alike
        <4> QED BY <1>3, <4>2, <4>4 DEF FileFollowsBackend, Is
      <3> QED BY <3>1, <3>2
    <2> QED BY <1>3, <2>1 DEF FileFollowsBackend
  <1> QED BY <1>8, <1>9, <1>11, <1>12, <1>16, <1>17, <1>19, <1>20, <1>24

(* A command that waits for a token ends: it is saved, or is lost.         *)
LEMMA AnswerKeeps ==
    ASSUME Inv, NEW c \in Commands, Waits(c), Ends(c),
           UNCHANGED backend,
           configured' \in [Machines -> Enrolments \cup {None}],
           \/ /\ files' = [files EXCEPT ![commands[c].machine] =
                                commands[c].token]
              /\ outdated' = IF commands[c].overtaken
                             THEN outdated \cup {commands[c].machine}
                             ELSE outdated \ {commands[c].machine}
              /\ UNCHANGED unanswered
           \/ /\ UNCHANGED <<files, outdated>>
              /\ unanswered' = unanswered \cup {commands[c].token}
    PROVE  Inv'
  <1> USE DEF Inv, backend
  <1> DEFINE m == commands[c].machine
             n == commands[c].token
  <1>1. m \in Machines /\ n \in Tokens
    BY CommandShape DEF Waits
  <1>2. /\ commands' \in [Commands -> Registration \cup Rotation \cup {None}]
        /\ commands'[c] = None
        /\ \A d \in Commands : d # c => commands'[d] = commands[d]
    BY DEF Ends, TypeOK
  <1> HIDE DEF m, n
  <1>3. /\ \A k \in Machines : files'[k] = files[k] \/ (k = m /\ files'[k] = n)
        /\ files' \in [Machines -> Tokens \cup {None}]
        /\ unanswered' \subseteq Tokens /\ unanswered \subseteq unanswered'
        /\ \/ /\ files'[m] = n
              /\ commands[c].overtaken => m \in outdated'
           \/ n \in unanswered' /\ UNCHANGED <<files, outdated>>
        /\ outdated' \subseteq Machines
        /\ \A k \in Machines : k \in outdated /\ k # m => k \in outdated'
    BY <1>1 DEF TypeOK, m, n
  <1>4. TypeOK'
    BY <1>2, <1>3 DEF TypeOK
  <1>5. Answered' /\ Served' /\ Consumed'
    BY <1>2 DEF Answered, Served, Consumed, Holding, Is, At, Server
  <1>6. Single'
    BY DEF Single
  <1>7. Uses(c, n) /\ Is(c)
    BY DEF Waits, Uses, n
  <1>8. Fresh'
    BY <1>1, <1>2, <1>3, <1>7 DEF Fresh, Uses, Is
  <1>9. \A d \in Commands : commands'[d] # None /\ commands'[d].token # None
            => d # c /\ Waits(d) /\ commands'[d] = commands[d]
    BY <1>2 DEF Waits, Is
  <1>10. Unshared'
    <2>1. ASSUME NEW d \in Commands, d # c, Waits(d)
          PROVE  /\ \A k \in Machines : files'[k] # commands[d].token
                 /\ \A e \in Commands :
                       /\ e # d /\ commands'[e] # None
                       => /\ commands'[e].token # commands[d].token
                          /\ commands'[e].kind = "rotate" =>
                                commands'[e].loaded # commands[d].token
      <3>1. commands[d].token # n
        BY <1>7, <2>1 DEF Unshared, n, Uses, Waits
      <3> QED BY <1>2, <1>3, <2>1, <3>1 DEF Unshared, Uses, Is
    <2> QED BY <1>9, <2>1 DEF Unshared, Waits, Uses, Is
  <1>11. Latest'
    BY <1>9 DEF Latest, Waits, Is, Server
  <1>13. Owned'
    <2>1. ASSUME NEW k \in Machines, holder[HostOf[k]] # k, Server(k) # None
          PROVE  files'[k] # Server(k).token
      BY <1>3, <1>7, <2>1 DEF Owned, m
    <2>2. ASSUME NEW k \in Machines, holder[HostOf[k]] # k, Server(k) # None,
                 NEW d \in Commands, commands'[d] # None,
                 commands'[d].machine = k
          PROVE  ~(\/ commands'[d].token = Server(k).token
                   \/ commands'[d].kind = "rotate"
                         /\ commands'[d].loaded = Server(k).token)
      BY <1>2, <2>2 DEF Owned, Uses, Is
    <2> QED BY <2>1, <2>2 DEF Owned, Uses, Is, Server
  <1>12. FileFollowsBackend'
    <2>1. ASSUME NEW k \in Machines, holder[HostOf[k]] = k
          PROVE  \/ files'[k] = Server(k).token
                 \/ Server(k).token \in unanswered'
                 \/ k \in outdated'
                 \/ \E d \in Commands : /\ commands'[d] # None
                                        /\ commands'[d].machine = k
                                        /\ commands'[d].token = Server(k).token
      <3>1. CASE /\ k = m /\ files'[m] = n
                 /\ commands[c].overtaken => m \in outdated'
        <4>1. CASE commands[c].overtaken
          BY <3>1, <4>1
        <4>2. CASE ~commands[c].overtaken
          BY <2>1, <3>1, <4>2 DEF Latest, m, n
        <4> QED BY <4>1, <4>2
      <3>2. CASE \/ k # m
                 \/ UNCHANGED <<files, outdated>> /\ n \in unanswered'
        <4>1. CASE \E d \in Commands : /\ Is(d) /\ commands[d].machine = k
                                      /\ commands[d].token = Server(k).token
          <5>1. PICK d \in Commands : /\ Is(d) /\ commands[d].machine = k
                                     /\ commands[d].token = Server(k).token
            BY <4>1
          <5>2. CASE d = c
            BY <3>2, <5>1, <5>2 DEF m, n
          <5>3. CASE d # c
            BY <1>2, <5>1, <5>3 DEF Is
          <5> QED BY <5>2, <5>3
        <4>2. files[k] = Server(k).token => files'[k] = Server(k).token
          BY <1>3, <3>2
        <4>3. k \in outdated => k \in outdated'
          BY <1>3, <3>2
        <4> QED BY <1>3, <2>1, <4>1, <4>2, <4>3
                DEF FileFollowsBackend, Server, Is
      <3> QED BY <1>3, <3>1, <3>2
    <2> QED BY <2>1 DEF FileFollowsBackend, Server
  <1> QED BY <1>4, <1>5, <1>6, <1>8, <1>10, <1>11, <1>12, <1>13

-----------------------------------------------------------------------------
(* The handlers and the processes.                                         *)

(* The records of a command that moves from stage to stage.                *)
LEMMA Restaged ==
    ASSUME TypeOK, NEW c \in Commands, Is(c),
           NEW stage \in {"checked"}
    PROVE  LET x == [commands[c] EXCEPT !.stage = stage]
           IN  /\ x \in Command /\ x # None
               /\ x.kind = commands[c].kind /\ x.machine = commands[c].machine
               /\ x.alive = commands[c].alive /\ x.token = commands[c].token
               /\ x.stage = stage
               /\ x.kind = "rotate" => x.loaded = commands[c].loaded
               /\ x.kind = "register" => x.enrolment = commands[c].enrolment
  <1>1. CASE commands[c].kind = "register"
    <2>1. commands[c] \in Registration
      BY <1>1, CommandShape
    <2> QED BY <1>1, <2>1, NoneAssumption DEF Registration, Command
  <1>2. CASE commands[c].kind = "rotate"
    <2>1. commands[c] \in Rotation
      BY <1>2, CommandShape
    <2> QED BY <1>2, <2>1, NoneAssumption DEF Rotation, Command
  <1> QED BY <1>1, <1>2, CommandShape

LEMMA CheckEnrolmentKeeps ==
    ASSUME Inv, NEW c \in Commands, CheckEnrolment(c)
    PROVE  Inv'
  <1>1. Is(c) /\ commands[c].stage = "posted" /\ commands[c].kind = "register"
            /\ commands[c].token = None
    BY DEF CheckEnrolment, At, Is, Inv, Answered
  <1> DEFINE y == [commands[c] EXCEPT !.stage = "checked"]
  <1>2. /\ y \in Command /\ y.kind = "register"
        /\ y.machine = commands[c].machine /\ y.alive = commands[c].alive
        /\ y.token = None /\ y.stage = "checked"
        /\ y.enrolment = commands[c].enrolment
    BY <1>1, Restaged DEF Inv
  <1>3. /\ \/ commands' = [commands EXCEPT ![c] = y]
           \/ commands' = [commands EXCEPT ![c] = None]
        /\ UNCHANGED <<backend, disk, history>>
    BY DEF CheckEnrolment, Ends
  <1> HIDE DEF y
  <1> QED BY <1>1, <1>2, <1>3, StageKeeps

LEMMA ConsumeEnrolmentKeeps ==
    ASSUME Inv, NEW c \in Commands, ConsumeEnrolment(c)
    PROVE  Inv'
  <1>1. Is(c) /\ commands[c].stage = "checked" /\ commands[c].kind = "register"
            /\ commands[c].token = None
    BY DEF ConsumeEnrolment, At, Is, Inv, Answered
  <1> DEFINE y == [commands[c] EXCEPT !.stage = "consumed"]
  <1>2. commands[c] \in Registration
    BY <1>1, CommandShape DEF Inv
  <1>3. /\ y \in Command /\ y.kind = "register"
        /\ y.machine = commands[c].machine /\ y.alive = commands[c].alive
        /\ y.token = None /\ y.stage = "consumed"
        /\ y.enrolment = commands[c].enrolment
    BY <1>1, <1>2 DEF Registration, Command
  <1>4. /\ \/ /\ commands' = [commands EXCEPT ![c] = y]
              /\ enrolments[y.enrolment] = "open" /\ ~Locked(y.enrolment)
           \/ commands' = [commands EXCEPT ![c] = None]
        /\ UNCHANGED <<backend, disk, history>>
    BY <1>3 DEF ConsumeEnrolment, Ends
  <1> HIDE DEF y
  <1> QED BY <1>1, <1>3, <1>4, StageKeeps

LEMMA LoadIdentityKeeps ==
    ASSUME Inv, NEW c \in Commands, LoadIdentity(c)
    PROVE  Inv'
  <1>1. Is(c) /\ commands[c].stage = "consumed" /\ commands[c].kind = "register"
            /\ commands[c].token = None /\ Holding(c)
    BY DEF LoadIdentity, Holding, At, Is, Inv, Answered
  <1> DEFINE y == [commands[c] EXCEPT !.stage = "loaded", !.loaded = Stored(c)]
  <1>2. commands[c] \in Registration /\ Stored(c) \in Identity \cup {None}
    BY <1>1, CommandShape DEF Inv, TypeOK, Stored
  <1>3. /\ y \in Command /\ y.kind = "register"
        /\ y.machine = commands[c].machine /\ y.alive = commands[c].alive
        /\ y.token = None /\ y.stage = "loaded"
        /\ y.enrolment = commands[c].enrolment
    BY <1>1, <1>2 DEF Registration, Command
  <1>4. /\ commands' = [commands EXCEPT ![c] = y]
        /\ UNCHANGED <<backend, disk, history>>
    BY DEF LoadIdentity
  <1> HIDE DEF y
  <1> QED BY <1>1, <1>3, <1>4, StageKeeps

LEMMA CheckAgentKeeps ==
    ASSUME Inv, NEW c \in Commands, CheckAgent(c)
    PROVE  Inv'
  <1>1. Is(c) /\ commands[c].stage = "posted" /\ commands[c].kind = "rotate"
            /\ commands[c].token = None
    BY DEF CheckAgent, At, Is, Inv, Answered
  <1> DEFINE y == [commands[c] EXCEPT !.stage = "checked"]
  <1>2. /\ y \in Command /\ y.kind = "rotate"
        /\ y.machine = commands[c].machine /\ y.alive = commands[c].alive
        /\ y.token = None /\ y.stage = "checked"
        /\ y.loaded = commands[c].loaded
    BY <1>1, Restaged DEF Inv
  <1>3. /\ \/ commands' = [commands EXCEPT ![c] = y] /\ Server(y.machine) # None
           \/ commands' = [commands EXCEPT ![c] = None]
        /\ UNCHANGED <<backend, disk, history>>
    BY <1>2 DEF CheckAgent, Ends, Admitted, Server
  <1> HIDE DEF y
  <1> QED BY <1>1, <1>2, <1>3, StageKeeps

(* An attempt that fails leaves nothing behind.                            *)
LEMMA FailureKeeps ==
    ASSUME Inv, NEW c \in Commands,
           RegisterConflict(c) \/ RotateConflict(c) \/ CallLost(c)
    PROVE  Inv'
  <1>1. Is(c) /\ commands[c].stage # "answered"
    BY DEF RegisterConflict, RotateConflict, CallLost, At, Is
  <1>2. /\ commands' = [commands EXCEPT ![c] = None]
        /\ UNCHANGED <<backend, disk, history>>
    BY DEF RegisterConflict, RotateConflict, CallLost, Ends
  <1> QED BY <1>1, <1>2, StageKeeps

LEMMA SaveIdentityKeeps ==
    ASSUME Inv, NEW c \in Commands, SaveIdentity(c)
    PROVE  Inv'
  <1>1. Waits(c) /\ commands[c].machine \in Machines
    BY CommandShape DEF SaveIdentity, Inv, Answered, Waits, Is
  <1>2. /\ Ends(c) /\ UNCHANGED backend /\ UNCHANGED unanswered
        /\ files' = [files EXCEPT ![commands[c].machine] = commands[c].token]
        /\ outdated' = IF commands[c].overtaken
                       THEN outdated \cup {commands[c].machine}
                       ELSE outdated \ {commands[c].machine}
    BY DEF SaveIdentity
  <1>3. configured' \in [Machines -> Enrolments \cup {None}]
    BY <1>1 DEF SaveIdentity, Inv, TypeOK
  <1> QED BY <1>1, <1>2, <1>3, AnswerKeeps

LEMMA GiveUpKeeps ==
    ASSUME Inv, NEW c \in Commands, GiveUp(c)
    PROVE  Inv'
  <1>1. Is(c) /\ UNCHANGED <<backend, disk, outdated>>
    BY DEF GiveUp, Is
  <1>2. CASE commands[c].stage = "answered"
    <2>1. Waits(c)
      BY <1>1, <1>2 DEF Waits, Inv, Answered
    <2>2. /\ Ends(c) /\ unanswered' = unanswered \cup {commands[c].token}
      BY <1>2 DEF GiveUp
    <2>3. /\ UNCHANGED <<files, outdated>>
          /\ configured' \in [Machines -> Enrolments \cup {None}]
      BY <1>1 DEF disk, Inv, TypeOK
    <2> QED BY <1>1, <2>1, <2>2, <2>3, AnswerKeeps
  <1>3. CASE commands[c].stage # "answered"
    <2> DEFINE y == [commands[c] EXCEPT !.alive = FALSE]
    <2>1. commands[c].token = None
      BY <1>1, <1>3 DEF Inv, Answered
    <2>2. /\ y \in Command /\ y.kind = commands[c].kind
          /\ y.machine = commands[c].machine /\ y.alive = FALSE
          /\ y.token = None /\ y.stage = commands[c].stage
          /\ y.kind = "rotate" => y.loaded = commands[c].loaded
          /\ y.kind = "register" => y.enrolment = commands[c].enrolment
      <3>1. CASE commands[c].kind = "register"
        <4>1. commands[c] \in Registration
          BY <1>1, <3>1, CommandShape DEF Inv
        <4> QED BY <2>1, <3>1, <4>1 DEF Registration, Command
      <3>2. CASE commands[c].kind = "rotate"
        <4>1. commands[c] \in Rotation
          BY <1>1, <3>2, CommandShape DEF Inv
        <4> QED BY <2>1, <3>2, <4>1 DEF Rotation, Command
      <3> QED BY <1>1, <3>1, <3>2, CommandShape DEF Inv
    <2>3. commands' = [commands EXCEPT ![c] = y] /\ UNCHANGED <<unanswered, outdated>>
      BY <1>1, <1>3 DEF GiveUp
    <2> HIDE DEF y
    <2>4. y.kind = "rotate" /\ y.stage = "checked" => Server(y.machine) # None
      BY <1>1, <2>2 DEF Inv, Served, At, Is
    <2>5. y.kind = "register" /\ y.stage \in {"consumed", "loaded"} =>
             Holding(c)
      BY <1>1, <2>2 DEF Holding, At, Is
    <2> QED BY <1>1, <1>3, <2>2, <2>3, <2>4, <2>5, StageKeeps DEF history
  <1> QED BY <1>2, <1>3

(* What the row of a server becomes.                                       *)
LEMMA IdentityShape ==
    ASSUME Inv, NEW c \in Commands, Is(c), issued + 1 \in Tokens
    PROVE  /\ At(c, "register", "loaded") =>
                 Paired(c) \in Identity /\ Paired(c).token = issued + 1
           /\ At(c, "rotate", "checked") =>
                 Rotated(c) \in Identity /\ Rotated(c).token = issued + 1
  <1>1. HostOf[commands[c].machine] \in Hosts
    BY CommandShape DEF Inv
  <1>2. Stored(c) \in Identity \cup {None}
    BY <1>1 DEF Inv, TypeOK, Stored
  <1>3. ASSUME At(c, "register", "loaded")
        PROVE  Paired(c) \in Identity /\ Paired(c).token = issued + 1
    <2>1. (Stored(c) # None /\ Stored(c).revoked
             /\ ~(commands[c].loaded # None /\ commands[c].loaded.revoked))
             \in BOOLEAN
      OBVIOUS
    <2> QED BY <2>1 DEF Paired, Identity
  <1>4. ASSUME At(c, "rotate", "checked")
        PROVE  Rotated(c) \in Identity /\ Rotated(c).token = issued + 1
    <2>1. Stored(c) \in Identity
      BY <1>2, <1>4 DEF Inv, Served, Server, Stored
    <2> QED BY <2>1 DEF Rotated, Identity
  <1> QED BY <1>3, <1>4

LEMMA RegisterKeeps ==
    ASSUME Inv, NEW c \in Commands, Register(c)
    PROVE  Inv'
  <1> DEFINE e == commands[c].enrolment
  <1>1. /\ Is(c) /\ commands[c].stage # "answered"
        /\ At(c, "register", "loaded") /\ commands[c].kind = "register"
        /\ issued + 1 \in Tokens /\ Issue(c, Paired(c), Overtaken(c)) /\ UNCHANGED disk /\ Holding(c)
    BY DEF Register, Holding, At, Is, Issue
  <1>2. e \in Enrolments /\ commands[c].machine \in Machines
    BY <1>1, CommandShape DEF Inv, Registration
  <1>3. /\ enrolments' = [enrolments EXCEPT ![e] = "used"]
        /\ paired' = [paired EXCEPT ![e] = @ \cup {commands[c].machine}]
    BY DEF Register
  <1>4. paired[e] = {}
    BY <1>1, <1>2 DEF Inv, Single, Consumed
  <1>5. Single'
    BY <1>2, <1>3, <1>4 DEF Single, Inv, TypeOK
  <1>6. /\ enrolments' \in [Enrolments -> {"none", "open", "used", "expired"}]
        /\ paired' \in [Enrolments -> SUBSET Machines]
        /\ \A f \in Enrolments : f # e => enrolments'[f] = enrolments[f]
    BY <1>2, <1>3 DEF Inv, TypeOK
  <1>7. Paired(c) \in Identity /\ Paired(c).token = issued + 1
    BY <1>1, IdentityShape
  <1>8. /\ Overtaken(c) \in [Commands -> Command \cup {None}]
        /\ Overtaken(c)[c] = commands[c]
        /\ \A d \in Commands : Alike(d, Overtaken(c)[d])
    <2>1. \A d \in Commands : Alike(d, Overtaken(c)[d])
      BY OvertakenMarks DEF Inv
    <2>2. \A d \in Commands : Overtaken(c)[d] \in Command \cup {None}
      BY <2>1 DEF Alike
    <2>3. Overtaken(c) = [d \in Commands |-> Overtaken(c)[d]]
      BY DEF Overtaken
    <2>4. Overtaken(c)[c] = commands[c]
      BY <1>1, OvertakenMarks DEF Inv
    <2> QED BY <2>1, <2>2, <2>3, <2>4
  <1>9. \A d \in Commands :
           Waits(d) /\ commands[d].machine = commands[c].machine =>
               Overtaken(c)[d].overtaken
    BY OvertakenMarks DEF Inv, Answered, Waits
  <1> QED BY <1>1, <1>5, <1>6, <1>7, <1>8, <1>9, IssueKeeps

LEMMA RotateKeeps ==
    ASSUME Inv, NEW c \in Commands, Rotate(c)
    PROVE  Inv'
  <1>1. /\ Is(c) /\ commands[c].stage # "answered"
        /\ At(c, "rotate", "checked") /\ commands[c].kind = "rotate"
        /\ issued + 1 \in Tokens /\ Issue(c, Rotated(c), commands) /\ UNCHANGED disk
        /\ UNCHANGED <<enrolments, paired>>
    BY DEF Rotate, At, Is, Issue
  <1>2. /\ Server(commands[c].machine) # None
        /\ Server(commands[c].machine).token = commands[c].loaded
    BY <1>1 DEF Rotate, Inv, Served, Server, Stored
  <1>3. Single'
    BY <1>1 DEF Single, Inv
  <1>4. /\ enrolments' \in [Enrolments -> {"none", "open", "used", "expired"}]
        /\ paired' \in [Enrolments -> SUBSET Machines]
        /\ \A e \in Enrolments : enrolments'[e] = enrolments[e]
    BY <1>1 DEF Inv, TypeOK
  <1>5. Rotated(c) \in Identity /\ Rotated(c).token = issued + 1
    BY <1>1, IdentityShape
  <1>6. /\ commands \in [Commands -> Command \cup {None}]
        /\ \A d \in Commands : Alike(d, commands[d])
    BY CommandShape DEF Inv, TypeOK, Command, Alike, Is
  <1> QED BY <1>1, <1>2, <1>3, <1>4, <1>5, <1>6, IssueKeeps

-----------------------------------------------------------------------------
(* The theorems.                                                           *)

LEMMA InitInv ==
    ASSUME Init
    PROVE  Inv
  <1>1. \A c \in Commands : ~Is(c) /\ ~Waits(c) /\ (\A k, s : ~At(c, k, s))
    BY DEF Init, Is, At, Waits
  <1>2. TypeOK
    BY IdentityAssumption DEF Init, TypeOK
  <1>3. Answered /\ Consumed /\ Unshared /\ Latest /\ Owned
    BY <1>1, IdentityAssumption
       DEF Answered, Consumed, Holding, Unshared, Latest, Owned, Server, Init
  <1>4. Served
    BY <1>1 DEF Served, Init
  <1>5. Single
    BY DEF Single, Init
  <1>6. Fresh
    BY <1>1, IdentityAssumption DEF Fresh, Uses, Init, Tokens
  <1>7. FileFollowsBackend
    BY IdentityAssumption DEF FileFollowsBackend, Init
  <1> QED BY <1>2, <1>3, <1>4, <1>5, <1>6, <1>7 DEF Inv

LEMMA StepInv ==
    ASSUME Inv, [Next]_vars
    PROVE  Inv'
  <1>1. CASE UNCHANGED vars
    BY <1>1
       DEF vars, Inv, TypeOK, Answered, Served, Consumed, Holding, Single,
           Fresh, Unshared, Latest, Owned, FileFollowsBackend, Waits, Uses, Is, At,
           Server
  <1>2. ASSUME AdminStep
        PROVE  Inv'
    <2>1. ASSUME NEW h \in Hosts, RevokeAgent(h) \/ IdentityExpires(h)
          PROVE  Inv'
      BY <2>1, MarkedKeeps DEF RevokeAgent, IdentityExpires
    <2> QED BY <1>2, <2>1, EnrolmentKeeps, ConfigureKeeps DEF AdminStep
  <1>3. ASSUME NEW c \in Commands, Handler(c)
        PROVE  Inv'
    BY <1>3, CheckEnrolmentKeeps, ConsumeEnrolmentKeeps, LoadIdentityKeeps, RegisterKeeps,
       CheckAgentKeeps, RotateKeeps, FailureKeeps DEF Handler
  <1>4. ASSUME NEW c \in Commands, Process(c)
        PROVE  Inv'
    BY <1>4, StartRegistrationKeeps, StartRotationKeeps, SaveIdentityKeeps,
       GiveUpKeeps, FailureKeeps DEF Process
  <1> QED BY <1>1, <1>2, <1>3, <1>4 DEF Next

(* The rows, the files and every command under way agree (Inv).            *)
THEOREM IdentityInvariant == Spec => []Inv
  <1>1. Init => Inv
    BY InitInv
  <1>2. Inv /\ [Next]_vars => Inv'
    BY StepInv
  <1> QED BY <1>1, <1>2, PTL DEF Spec

(* agent/README 10: an enrolment token pairs one machine.                  *)
THEOREM OneMachine == Spec => []OneMachinePerToken
  <1>1. Inv => OneMachinePerToken
    <2> SUFFICES ASSUME Inv, NEW e \in Enrolments
                 PROVE  Cardinality(paired[e]) <= 1
      BY DEF OneMachinePerToken, Inv, Single
    <2>1. CASE paired[e] = {}
      BY <2>1, FS_EmptySet
    <2>2. CASE paired[e] # {}
      <3>1. PICK m \in paired[e] : TRUE
        BY <2>2
      <3>2. paired[e] = {m}
        BY <3>1 DEF Inv, Single
      <3>3. Cardinality({m}) = 1
        BY FS_Singleton
      <3> QED BY <3>2, <3>3
    <2> QED BY <2>1, <2>2
  <1> QED BY <1>1, IdentityInvariant, PTL

(* The comment above the compare-and-swap: rotations that cross never      *)
(* leave a machine with a dead token, nor does a registration, unless it   *)
(* overtakes an answer that is saved over its own.                         *)
THEOREM NoDeadToken == Spec => []FileFollowsBackend
  <1>1. Inv => FileFollowsBackend
    BY DEF Inv
  <1> QED BY <1>1, IdentityInvariant, PTL

(* A revocation holds until the machine is registered again.               *)
THEOREM RevocationHolds == Spec => RevokedUntilPaired
  <1> DEFINE Only == \A h \in Hosts :
          servers[h] # None /\ servers[h].revoked /\ ~servers'[h].revoked =>
              \E c \in Commands :
                  /\ At(c, "register", "loaded")
                  /\ HostOf[commands[c].machine] = h
                  /\ commands[c].loaded # None
                  /\ commands[c].loaded.revoked
  <1>1. ASSUME Inv, [Next]_vars
        PROVE  Only
    <2>1. CASE UNCHANGED servers
      BY <2>1
    <2>2. ASSUME NEW h \in Hosts, RevokeAgent(h) \/ IdentityExpires(h)
          PROVE  Only
      <3>1. /\ servers[h] \in Identity
            /\ \/ servers' = [servers EXCEPT ![h].revoked = TRUE]
               \/ servers' = [servers EXCEPT ![h].expired = TRUE]
        BY <1>1, <2>2 DEF RevokeAgent, IdentityExpires, Inv, TypeOK
      <3>2. servers'[h].revoked \/ servers'[h].revoked = servers[h].revoked
        BY <1>1, <3>1 DEF Inv, TypeOK, Identity
      <3> QED BY <1>1, <3>1, <3>2 DEF Inv, TypeOK
    <2>3. ASSUME NEW c \in Commands, Register(c)
          PROVE  Only
      <3> DEFINE g == HostOf[commands[c].machine]
      <3>1. /\ At(c, "register", "loaded") /\ Is(c) /\ g \in Hosts
            /\ servers' = [servers EXCEPT ![g] = Paired(c)]
            /\ commands[c].loaded = None => Stored(c) = None
        BY <1>1, <2>3, CommandShape DEF Register, Issue, At, Is, Inv
      <3>2. Paired(c).revoked = (Stored(c) # None /\ Stored(c).revoked
                 /\ ~(commands[c].loaded # None /\ commands[c].loaded.revoked))
        BY DEF Paired
      <3>3. servers'[g] = Paired(c) /\ Stored(c) = servers[g]
              /\ \A h \in Hosts : h # g => servers'[h] = servers[h]
        BY <1>1, <3>1 DEF Inv, TypeOK, Stored
      <3> QED BY <3>1, <3>2, <3>3
    <2>4. ASSUME NEW c \in Commands, Rotate(c)
          PROVE  Only
      <3> DEFINE g == HostOf[commands[c].machine]
      <3>1. /\ Is(c) /\ g \in Hosts
            /\ servers' = [servers EXCEPT ![g] = Rotated(c)]
        BY <1>1, <2>4, CommandShape DEF Rotate, Issue, At, Is, Inv
      <3>2. Rotated(c).revoked = servers[g].revoked
        BY DEF Rotated, Stored
      <3>3. servers'[g] = Rotated(c)
              /\ \A h \in Hosts : h # g => servers'[h] = servers[h]
        BY <1>1, <3>1 DEF Inv, TypeOK
      <3> QED BY <3>2, <3>3
    <2> HIDE DEF Only
    <2>5. CASE AdminStep
      BY <2>1, <2>2, <2>5
         DEF AdminStep, CreateEnrolmentToken, EnrolmentExpires, Configure,
             backend
    <2>6. ASSUME NEW c \in Commands, Handler(c)
          PROVE  Only
      BY <2>1, <2>3, <2>4, <2>6
         DEF Handler, CheckEnrolment, ConsumeEnrolment, LoadIdentity, RegisterConflict,
             CheckAgent, RotateConflict, backend
    <2>7. ASSUME NEW c \in Commands, Process(c)
          PROVE  Only
      BY <2>1, <2>7
         DEF Process, StartRegistration, StartRotation, SaveIdentity, GiveUp,
             CallLost, backend
    <2> QED BY <1>1, <2>1, <2>5, <2>6, <2>7 DEF Next, vars
  <1> QED BY <1>1, IdentityInvariant, PTL DEF Spec, RevokedUntilPaired
=============================================================================
