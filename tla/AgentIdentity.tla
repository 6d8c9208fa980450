--------------------------- MODULE AgentIdentity ---------------------------
(***************************************************************************)
(* The identity of the agents: enrolment tokens, registration, rotation    *)
(* and revocation (backend/app/main.py and security.py), and the state     *)
(* file of each machine (agent/cyberpme_agent/main.py).                    *)
(*                                                                         *)
(* A command is one process of the agent that registers its machine or     *)
(* rotates its token, together with the handler that serves it.  The       *)
(* handler reads, and writes in a transaction of its own a moment later;   *)
(* the process may be killed, or its call time out, while the handler goes *)
(* on.  An ORM update writes the columns whose value differs from the one  *)
(* it loaded, and no others.                                               *)
(*                                                                         *)
(* The permissions of an identity (mode) and the shared enrolment key,     *)
(* which is off by default, are left out.                                  *)
(***************************************************************************)
EXTENDS Integers, FiniteSets

CONSTANTS
    Machines,       \* the machines that run an agent
    Hosts,          \* the host names, one row of servers each
    HostOf,         \* the name a machine registers under
    Enrolments,     \* the enrolment tokens
    Commands,       \* the processes that may be under way
    MaxToken,       \* bound: agent tokens that may be issued
    None

ASSUME IdentityAssumption ==
    /\ HostOf \in [Machines -> Hosts]
    /\ MaxToken \in Nat
    /\ None \notin Nat \cup Machines

VARIABLES
    enrolments,     \* agent_enrollment_tokens
    servers,        \* servers, their credential and agent_security
    configured,     \* the enrolment token in the machine's configuration
    files,          \* agent-state.json: an agent token, or None
    commands,       \* what each process and its handler are at
    issued,         \* the number of agent tokens issued so far
    paired,         \* history: the machines each enrolment token paired
    holder,         \* history: the machine a host's token was issued to
    unanswered,     \* history: tokens whose answer never reached a file
    outdated        \* history: the machines whose file an answer was saved
                    \* to that a registration of theirs had overtaken

backend == <<enrolments, servers, issued, paired, holder>>
disk == <<configured, files>>
vars == <<enrolments, servers, configured, files, commands, issued, paired,
          holder, unanswered, outdated>>
history == <<unanswered, outdated>>

Tokens == 1 .. MaxToken
Identity == [token : Tokens, revoked : BOOLEAN, expired : BOOLEAN]

(* overtaken, history: a registration of the machine was committed while   *)
(* the answer was on its way.                                              *)
Registration == [kind : {"register"}, machine : Machines,
                 stage : {"posted", "checked", "consumed", "loaded",
                          "answered"},
                 alive : BOOLEAN, enrolment : Enrolments,
                 loaded : Identity \cup {None}, token : Tokens \cup {None},
                 overtaken : BOOLEAN]
Rotation == [kind : {"rotate"}, machine : Machines,
             stage : {"posted", "checked", "answered"}, alive : BOOLEAN,
             loaded : Tokens, token : Tokens \cup {None},
             overtaken : BOOLEAN]

ASSUME NoneAssumption == None \notin Identity \cup Registration \cup Rotation

TypeOK ==
    /\ enrolments \in [Enrolments -> {"none", "open", "used", "expired"}]
    /\ servers \in [Hosts -> Identity \cup {None}]
    /\ configured \in [Machines -> Enrolments \cup {None}]
    /\ files \in [Machines -> Tokens \cup {None}]
    /\ commands \in [Commands -> Registration \cup Rotation \cup {None}]
    /\ issued \in 0 .. MaxToken
    /\ paired \in [Enrolments -> SUBSET Machines]
    /\ holder \in [Hosts -> Machines \cup {None}]
    /\ unanswered \subseteq Tokens
    /\ outdated \subseteq Machines

Init ==
    /\ enrolments = [e \in Enrolments |-> "none"]
    /\ servers = [h \in Hosts |-> None]
    /\ configured = [m \in Machines |-> None]
    /\ files = [m \in Machines |-> None]
    /\ commands = [c \in Commands |-> None]
    /\ issued = 0
    /\ paired = [e \in Enrolments |-> {}]
    /\ holder = [h \in Hosts |-> None]
    /\ unanswered = {}
    /\ outdated = {}

-----------------------------------------------------------------------------
(* The administrator and the clock.                                        *)

CreateEnrolmentToken(e) ==
    /\ enrolments[e] = "none"
    /\ enrolments' = [enrolments EXCEPT ![e] = "open"]
    /\ UNCHANGED <<servers, disk, commands, issued, paired, holder, history>>

EnrolmentExpires(e) ==
    /\ enrolments[e] = "open"
    /\ enrolments' = [enrolments EXCEPT ![e] = "expired"]
    /\ UNCHANGED <<servers, disk, commands, issued, paired, holder, history>>

(* The installer writes the token into the machine's configuration.        *)
Configure(m, e) ==
    /\ enrolments[e] # "none"
    /\ configured' = [configured EXCEPT ![m] = e]
    /\ UNCHANGED <<backend, files, commands, history>>

RevokeAgent(h) ==
    /\ servers[h] # None
    /\ servers' = [servers EXCEPT ![h].revoked = TRUE]
    /\ UNCHANGED <<enrolments, disk, commands, issued, paired, holder,
                   history>>

IdentityExpires(h) ==
    /\ servers[h] # None
    /\ servers' = [servers EXCEPT ![h].expired = TRUE]
    /\ UNCHANGED <<enrolments, disk, commands, issued, paired, holder,
                   history>>

-----------------------------------------------------------------------------
(* Registration.                                                           *)

At(c, kind, stage) ==
    /\ commands[c] # None
    /\ commands[c].kind = kind
    /\ commands[c].stage = stage

Ends(c) == commands' = [commands EXCEPT ![c] = None]

(* The agent without a state file, or --register-only: a process of its    *)
(* own, whatever others of the machine are at.                             *)
StartRegistration(c, m) ==
    /\ commands[c] = None
    /\ configured[m] # None
    /\ commands' = [commands EXCEPT ![c] =
          [kind |-> "register", machine |-> m, stage |-> "posted",
           alive |-> TRUE, enrolment |-> configured[m], loaded |-> None,
           token |-> None, overtaken |-> FALSE]]
    /\ UNCHANGED <<backend, disk, history>>

CheckEnrolment(c) ==
    /\ At(c, "register", "posted")
    /\ IF enrolments[commands[c].enrolment] = "open"
       THEN commands' = [commands EXCEPT ![c].stage = "checked"]
       ELSE Ends(c)
    /\ UNCHANGED <<backend, disk, history>>

(* The transaction that has consumed a token holds its row until it ends.  *)
Locked(e) == \E c \in Commands :
    /\ At(c, "register", "consumed") \/ At(c, "register", "loaded")
    /\ commands[c].enrolment = e

Stored(c) == servers[HostOf[commands[c].machine]]

(* Faulty variant: the token is marked without the compare-and-swap.       *)
ConsumeUnconditionally(c) ==
    /\ At(c, "register", "checked")
    /\ commands' = [commands EXCEPT ![c].stage = "consumed"]
    /\ UNCHANGED <<backend, disk, history>>

ConsumeEnrolment(c) ==
    /\ At(c, "register", "checked")
    /\ ~Locked(commands[c].enrolment)
    /\ IF enrolments[commands[c].enrolment] = "open"
       THEN commands' = [commands EXCEPT ![c].stage = "consumed"]
       ELSE Ends(c)
    /\ UNCHANGED <<backend, disk, history>>

(* The server and its profile are read after that; other handlers may have *)
(* changed them meanwhile.                                                 *)
LoadIdentity(c) ==
    /\ At(c, "register", "consumed")
    /\ commands' = [commands EXCEPT ![c].stage = "loaded",
                                    ![c].loaded = Stored(c)]
    /\ UNCHANGED <<backend, disk, history>>

(* A new token for the machine of command c; the answer is on its way, or  *)
(* nobody waits for it any more.                                           *)
Issue(c, identity, others) ==
    LET cmd == commands[c]
        h == HostOf[cmd.machine]
        n == issued + 1
    IN  /\ n \in Tokens
        /\ issued' = n
        /\ servers' = [servers EXCEPT ![h] = identity]
        /\ holder' = [holder EXCEPT ![h] = cmd.machine]
        /\ IF cmd.alive
           THEN /\ commands' = [others EXCEPT ![c].stage = "answered",
                                              ![c].token = n]
                /\ UNCHANGED unanswered
           ELSE /\ commands' = [others EXCEPT ![c] = None]
                /\ unanswered' = unanswered \cup {n}
        /\ UNCHANGED outdated

(* The answers on their way to the machine that registers.                 *)
Overtaken(c) ==
    [d \in Commands |->
        IF /\ commands[d] # None
           /\ commands[d].machine = commands[c].machine
           /\ commands[d].stage = "answered"
        THEN [commands[d] EXCEPT !.overtaken = TRUE] ELSE commands[d]]

(* The row as it is after the registration: revoked_at is written only if  *)
(* it was set when the row was loaded.                                     *)
Paired(c) ==
    [token |-> issued + 1, expired |-> FALSE,
     revoked |-> Stored(c) # None /\ Stored(c).revoked
                 /\ ~(commands[c].loaded # None /\ commands[c].loaded.revoked)]

Register(c) ==
    /\ At(c, "register", "loaded")
    /\ commands[c].loaded = None => Stored(c) = None
    /\ Issue(c, Paired(c), Overtaken(c))
    /\ enrolments' = [enrolments EXCEPT ![commands[c].enrolment] = "used"]
    /\ paired' = [paired EXCEPT ![commands[c].enrolment] =
                    @ \cup {commands[c].machine}]
    /\ UNCHANGED disk

(* Another machine of that name was inserted meanwhile: the transaction    *)
(* is undone and with it the consumption of the token.                     *)
RegisterConflict(c) ==
    /\ At(c, "register", "loaded")
    /\ commands[c].loaded = None /\ Stored(c) # None
    /\ Ends(c)
    /\ UNCHANGED <<backend, disk, history>>

-----------------------------------------------------------------------------
(* Rotation: --rotate-token, a process of its own as well.                 *)

StartRotation(c, m) ==
    /\ commands[c] = None
    /\ files[m] # None
    /\ commands' = [commands EXCEPT ![c] =
          [kind |-> "rotate", machine |-> m, stage |-> "posted",
           alive |-> TRUE, loaded |-> files[m], token |-> None,
           overtaken |-> FALSE]]
    /\ UNCHANGED <<backend, disk, history>>

(* require_agent and check_agent_scope.                                    *)
Admitted(h, token) ==
    /\ servers[h] # None
    /\ servers[h].token = token
    /\ ~servers[h].revoked
    /\ ~servers[h].expired

CheckAgent(c) ==
    /\ At(c, "rotate", "posted")
    /\ IF Admitted(HostOf[commands[c].machine], commands[c].loaded)
       THEN commands' = [commands EXCEPT ![c].stage = "checked"]
       ELSE Ends(c)
    /\ UNCHANGED <<backend, disk, history>>

(* Faulty variant: the row that was checked is written back whole.         *)
RotatedWhole(c) ==
    [token |-> issued + 1, expired |-> FALSE, revoked |-> FALSE]

Rotated(c) ==
    [token |-> issued + 1, expired |-> FALSE, revoked |-> Stored(c).revoked]

(* Faulty variant: the token is replaced without the compare-and-swap.     *)
RotateUnconditionally(c) ==
    /\ At(c, "rotate", "checked")
    /\ Issue(c, Rotated(c), commands)
    /\ UNCHANGED <<enrolments, paired, disk>>

Rotate(c) ==
    /\ At(c, "rotate", "checked")
    /\ Stored(c).token = commands[c].loaded
    /\ Issue(c, Rotated(c), commands)
    /\ UNCHANGED <<enrolments, paired, disk>>

RotateConflict(c) ==
    /\ At(c, "rotate", "checked")
    /\ Stored(c).token # commands[c].loaded
    /\ Ends(c)
    /\ UNCHANGED <<backend, disk, history>>

-----------------------------------------------------------------------------
(* The answer reaches the process, or does not.                            *)

(* save_state: a new file takes the place of the old one.                  *)
SaveIdentity(c) ==
    /\ commands[c] # None
    /\ commands[c].alive /\ commands[c].stage = "answered"
    /\ files' = [files EXCEPT ![commands[c].machine] = commands[c].token]
    /\ configured' \in IF commands[c].kind = "register"
                       THEN {configured,
                             [configured EXCEPT ![commands[c].machine] = None]}
                       ELSE {configured}
    /\ outdated' = IF commands[c].overtaken
                   THEN outdated \cup {commands[c].machine}
                   ELSE outdated \ {commands[c].machine}
    /\ Ends(c)
    /\ UNCHANGED <<backend, unanswered>>

(* Killed, or no answer within thirty seconds; the handler goes on.        *)
GiveUp(c) ==
    /\ commands[c] # None
    /\ commands[c].alive
    /\ IF commands[c].stage = "answered"
       THEN /\ Ends(c)
            /\ unanswered' = unanswered \cup {commands[c].token}
       ELSE /\ commands' = [commands EXCEPT ![c].alive = FALSE]
            /\ UNCHANGED unanswered
    /\ UNCHANGED <<backend, disk, outdated>>

CallLost(c) ==
    /\ commands[c] # None
    /\ commands[c].stage = "posted"
    /\ Ends(c)
    /\ UNCHANGED <<backend, disk, history>>

-----------------------------------------------------------------------------

AdminStep ==
    \/ \E e \in Enrolments : CreateEnrolmentToken(e) \/ EnrolmentExpires(e)
    \/ \E m \in Machines, e \in Enrolments : Configure(m, e)
    \/ \E h \in Hosts : RevokeAgent(h) \/ IdentityExpires(h)

Handler(c) ==
    \/ CheckEnrolment(c) \/ ConsumeEnrolment(c) \/ LoadIdentity(c)
    \/ Register(c) \/ RegisterConflict(c)
    \/ CheckAgent(c) \/ Rotate(c) \/ RotateConflict(c)

Process(c) ==
    \/ \E m \in Machines : StartRegistration(c, m) \/ StartRotation(c, m)
    \/ SaveIdentity(c) \/ GiveUp(c) \/ CallLost(c)

Next == AdminStep \/ \E c \in Commands : Handler(c) \/ Process(c)

Spec == Init /\ [][Next]_vars

-----------------------------------------------------------------------------

(* agent/README 10: a pairing token is for one use.  However many machines *)
(* it was copied to and however their registrations interleave, it pairs   *)
(* one, and it counts as used only if it did.                              *)
OneMachinePerToken ==
    \A e \in Enrolments :
        /\ Cardinality(paired[e]) <= 1
        /\ enrolments[e] = "used" <=> paired[e] # {}

(* A revocation holds until the machine is registered again: a rotation    *)
(* that was let in before it, and a registration that began before it,     *)
(* both write the same row afterwards and both leave it standing.          *)
RevokedUntilPaired ==
    [][\A h \in Hosts :
          servers[h] # None /\ servers[h].revoked /\ ~servers'[h].revoked =>
              \E c \in Commands :
                  /\ At(c, "register", "loaded")
                  /\ HostOf[commands[c].machine] = h
                  /\ commands[c].loaded # None
                  /\ commands[c].loaded.revoked]_vars

(* The comment above the compare-and-swap: a concurrent rotation cannot    *)
(* win silently.  The machine a host's token was issued to holds it in its *)
(* file, unless the answer is still on its way or was lost: rotations that *)
(* cross never leave it with a dead token.  A registration that crosses a  *)
(* rotation or another registration of its machine may: it replaces the    *)
(* token unconditionally, and the answer it has overtaken is saved over    *)
(* its own (outdated).                                                     *)
FileFollowsBackend ==
    \A m \in Machines :
        LET h == HostOf[m] IN
        holder[h] = m =>
            \/ files[m] = servers[h].token
            \/ servers[h].token \in unanswered
            \/ m \in outdated
            \/ \E c \in Commands : /\ commands[c] # None
                                   /\ commands[c].machine = m
                                   /\ commands[c].token = servers[h].token
=============================================================================
