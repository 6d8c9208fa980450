--------------------------- MODULE AccountsProofs ---------------------------
(***************************************************************************)
(* Proofs about Accounts, for any number of addresses, roles, invitations  *)
(* and handlers under way.                                                 *)
(*                                                                         *)
(* The properties are about the tables; what makes them inductive is what  *)
(* a handler between its reads and its commit still knows: an account that *)
(* was found is still there (Targets), who may be made an administrator    *)
(* was decided by the owner (Appointed), the invitations to be replaced    *)
(* are among them all those of an earlier call in its place (Replaced),    *)
(* and two acceptances of one invitation are for one address (Invited).    *)
(***************************************************************************)
EXTENDS Accounts, FiniteSetTheorems, TLAPS

Updates(c) == Is(c, "update") \/ (Is(c, "accept") /\ ~calls[c].insert)

(* Accounts are never removed: one that was found can be updated.          *)
Targets == \A c \in Calls : Updates(c) => Exists(calls[c].user)

Giving == {"create", "update", "invite", "accept"}

(* "admin" is given by the owner only, in every handler on its way to the  *)
(* tables and in every invitation that is open.                            *)
Appointed ==
    /\ \A i \in Open : invitations[i].role = "admin" => invitations[i].byOwner
    /\ \A c \in Calls :
          /\ calls[c] # None
          /\ calls[c].kind \in Giving
          /\ calls[c].role = "admin"
          => calls[c].byOwner

Numbered == \E k \in 0 .. MaxInvitations : Existing = 1 .. k

SameOrigin(i, j) ==
    /\ invitations[i].email = invitations[j].email
    /\ invitations[i].by = invitations[j].by

(* The invitation of an address that one handler left open, the next in    *)
(* its place has found, and takes back.                                    *)
Replaced ==
    /\ \A i, j \in Open : SameOrigin(i, j) => i = j
    /\ \A c \in Calls : Is(c, "invite") =>
          /\ calls[c].previous \subseteq Existing
          /\ \A i \in Open : /\ invitations[i].email = calls[c].user
                            /\ invitations[i].by = c
                            => i \in calls[c].previous

(* An acceptance is for the address of its invitation.                     *)
Invited ==
    \A c \in Calls : Is(c, "accept") =>
        /\ calls[c].id \in Existing
        /\ calls[c].id \in Open =>
              invitations[calls[c].id].email = calls[c].user
        /\ \A d \in Calls : Is(d, "accept") /\ calls[d].id = calls[c].id =>
              calls[d].user = calls[c].user

(* An invitation that was accepted is closed, and those who still accept   *)
(* it find its account; if it made that account, they mean to insert it,   *)
(* and fail.                                                               *)
Accepting(c, i) == Is(c, "accept") /\ calls[c].id = i

Once ==
    \A i \in Ids :
        /\ accepted[i] # 0 =>
              /\ invitations[i] = Closed
              /\ \A c \in Calls : Accepting(c, i) => Exists(calls[c].user)
        /\ i \in made =>
              /\ accepted[i] = 1
              /\ \A c \in Calls : Accepting(c, i) => calls[c].insert

(* A deactivation ends the sessions, and a new account gets a role.        *)
Columns == \A c \in Calls :
    /\ Is(c, "update") /\ calls[c].active = FALSE => calls[c].ends
    /\ Is(c, "accept") /\ calls[c].insert => calls[c].role # None

Inv ==
    /\ TypeOK
    /\ Targets
    /\ AdminByOwner
    /\ Appointed
    /\ Numbered
    /\ Replaced
    /\ Invited
    /\ Once
    /\ Columns

-----------------------------------------------------------------------------
(* Shapes.                                                                 *)

(* A call under way has the fields of its kind.                            *)
LEMMA CallShape ==
    ASSUME TypeOK, NEW c \in Calls, calls[c] # None
    PROVE  /\ calls[c] \in Call
           /\ calls[c].user \in Addresses
           /\ calls[c].kind = "login" => calls[c] \in LoginCall
           /\ calls[c].kind = "create" => calls[c] \in CreateCall
           /\ calls[c].kind = "update" => calls[c] \in UpdateCall
           /\ calls[c].kind = "invite" => calls[c] \in InviteCall
           /\ calls[c].kind = "accept" => calls[c] \in AcceptCall
  <1>1. calls[c] \in Call
    BY DEF TypeOK
  <1> QED
    BY <1>1 DEF Call, LoginCall, CreateCall, UpdateCall, InviteCall,
                AcceptCall

LEMMA Accounted ==
    ASSUME TypeOK, NEW a \in Addresses
    PROVE  Exists(a) <=> users[a] \in User
  BY NoneAssumption DEF TypeOK, Exists

LEMMA OpenShape ==
    ASSUME TypeOK, NEW i \in Open
    PROVE  i \in Ids /\ invitations[i] \in Invitation
  BY DEF TypeOK, Open, Existing

LEMMA WrittenShape ==
    ASSUME NEW row \in User, NEW role \in Roles \cup {None},
           NEW active \in BOOLEAN \cup {None}, NEW byOwner \in BOOLEAN
    PROVE  /\ Written(row, role, active, byOwner) \in User
           /\ active # None => Written(row, role, active, byOwner).active = active
           /\ active = None =>
                 Written(row, role, active, byOwner).active = row.active
           /\ /\ row.role = "admin" => row.byOwner
              /\ role = "admin" => byOwner
              => /\ Written(row, role, active, byOwner).role = "admin" =>
                    Written(row, role, active, byOwner).byOwner
  <1> DEFINE w == Written(row, role, active, byOwner)
  <1>1. row.role \in Roles \cup {"owner"} /\ row.active \in BOOLEAN
            /\ row.byOwner \in BOOLEAN
    BY DEF User
  <1>2. w = [role |-> IF role = None THEN row.role ELSE role,
             byOwner |-> IF role = None THEN row.byOwner ELSE byOwner,
             active |-> IF active = None THEN row.active ELSE active]
    BY DEF Written
  <1>3. w \in User
    BY <1>1, <1>2 DEF User
  <1> QED BY <1>1, <1>2, <1>3, AccountsAssumption

-----------------------------------------------------------------------------
(* A handler begins.                                                       *)

(* What each check hands on to the commit.                                 *)
Sound(call) ==
    /\ call.kind = "update" => Exists(call.user)
    /\ call.kind = "accept" /\ ~call.insert => Exists(call.user)
    /\ call.kind \in Giving /\ call.role = "admin" => call.byOwner
    /\ call.kind = "invite" => call.previous = For(call.user)
    /\ call.kind = "accept" =>
          call.id \in Open /\ invitations[call.id].email = call.user
    /\ call.kind = "update" /\ call.active = FALSE => call.ends
    /\ call.kind = "accept" /\ call.insert => call.role # None

LEMMA BeginKeeps ==
    ASSUME Inv, NEW c \in Calls, NEW call \in Call, Sound(call),
           Begin(c, call)
    PROVE  Inv'
  <1> USE DEF Inv
  <1>0. /\ UNCHANGED <<users, sessions, invitations, accepted, made>>
        /\ calls \in [Calls -> Call \cup {None}]
        /\ calls' = [calls EXCEPT ![c] = call]
        /\ calls[c] = None
    BY DEF Begin, TypeOK, history
  <1>1. /\ calls'[c] = call
        /\ \A d \in Calls : d # c => calls'[d] = calls[d]
    BY <1>0
  <1>2. TypeOK'
    BY <1>0 DEF TypeOK
  <1>3. Targets'
    BY <1>0, <1>1 DEF Targets, Updates, Is, Exists, Sound
  <1>4. AdminByOwner'
    BY <1>0 DEF AdminByOwner, Exists
  <1>5. Appointed'
    BY <1>0, <1>1 DEF Appointed, Sound, Open, Existing
  <1>6. Numbered'
    BY <1>0 DEF Numbered, Existing
  <1>7. Replaced'
    <2>1. Existing' = Existing /\ Open' = Open /\ Open \subseteq Existing
      BY <1>0 DEF Existing, Open
    <2>2. \A d \in Calls : d # c => Is(d, "invite")' = Is(d, "invite")
      BY <1>1 DEF Is
    <2>3. ASSUME NEW d \in Calls, Is(d, "invite")'
          PROVE  /\ calls'[d].previous \subseteq Existing
                 /\ \A i \in Open : /\ invitations[i].email = calls'[d].user
                                   /\ invitations[i].by = d
                                   => i \in calls'[d].previous
      <3>1. CASE d = c
        <4>1. calls'[d] = call /\ call.previous = For(call.user)
          BY <1>1, <2>3, <3>1 DEF Sound, Is
        <4> QED BY <2>1, <4>1 DEF For
      <3>2. CASE d # c
        BY <1>1, <2>2, <2>3, <3>2 DEF Replaced
      <3> QED BY <3>1, <3>2
    <2> QED BY <1>0, <2>1, <2>3 DEF Replaced, SameOrigin
  <1>8. Invited'
    <2>1. /\ Existing' = Existing
          /\ Open' = Open
          /\ \A d \in Calls : d # c => Is(d, "accept")' = Is(d, "accept")
          /\ Is(c, "accept")' => call.kind = "accept"
      BY <1>0, <1>1 DEF Existing, Open, Is
    <2>2. ASSUME NEW d \in Calls, d # c, Is(d, "accept"), Is(c, "accept")',
                 calls[d].id = call.id
          PROVE  calls[d].user = call.user
      BY <2>1, <2>2 DEF Invited, Sound
    <2>3. ASSUME Is(c, "accept")'
          PROVE  call.id \in Open /\ call.id \in Existing
                     /\ invitations[call.id].email = call.user
      BY <2>1, <2>3 DEF Sound, Open
    <2>4. ASSUME NEW d \in Calls, Is(d, "accept")'
          PROVE  /\ calls'[d].id \in Existing
                 /\ calls'[d].id \in Open =>
                       invitations[calls'[d].id].email = calls'[d].user
      <3>1. CASE d = c
        BY <1>1, <2>3, <2>4, <3>1
      <3>2. CASE d # c
        BY <1>1, <2>1, <2>4, <3>2 DEF Invited
      <3> QED BY <3>1, <3>2
    <2>5. ASSUME NEW d \in Calls, NEW e \in Calls, Is(d, "accept")',
                 Is(e, "accept")', calls'[e].id = calls'[d].id
          PROVE  calls'[e].user = calls'[d].user
      <3>1. CASE d = c
        BY <1>1, <2>1, <2>2, <2>5, <3>1
      <3>2. CASE e = c
        BY <1>1, <2>1, <2>2, <2>5, <3>2
      <3>3. CASE d # c /\ e # c
        BY <1>1, <2>1, <2>5, <3>3 DEF Invited
      <3> QED BY <3>1, <3>2, <3>3
    <2> QED BY <1>0, <2>1, <2>4, <2>5 DEF Invited
  <1>9. Once'
    BY <1>0, <1>1 DEF Once, Accepting, Sound, Is, Open, Existing, Exists
  <1>10. Columns'
    BY <1>0, <1>1 DEF Columns, Sound, Is
  <1> QED BY <1>2, <1>3, <1>4, <1>5, <1>6, <1>7, <1>8, <1>9, <1>10

(* What a manager may give.                                                *)
LEMMA GivenByOwner ==
    ASSUME NEW actor, NEW role, MayGive(actor, role), role = "admin"
    PROVE  Names(actor, role)
  BY DEF MayGive, Manager, Names

LEMMA CheckLoginKeeps ==
    ASSUME Inv, NEW c \in Calls, NEW a \in Addresses, CheckLogin(c, a)
    PROVE  Inv'
  <1> DEFINE call == [kind |-> "login", user |-> a]
  <1>1. call \in Call
    BY DEF Call, LoginCall
  <1>2. Sound(call)
    BY DEF Sound, Giving
  <1> QED BY <1>1, <1>2, BeginKeeps DEF CheckLogin

LEMMA CheckCreateKeeps ==
    ASSUME Inv, NEW c \in Calls, NEW actor \in Addresses,
           NEW a \in Addresses, NEW role \in Roles,
           CheckCreate(c, actor, a, role)
    PROVE  Inv'
  <1> DEFINE call == [kind |-> "create", byOwner |-> Names(actor, role),
                      user |-> a, role |-> role]
  <1>1. call \in Call
    BY DEF Call, CreateCall, Names
  <1>2. Sound(call)
    BY GivenByOwner DEF Sound, CheckCreate
  <1> QED BY <1>1, <1>2, BeginKeeps DEF CheckCreate

LEMMA CheckUpdateKeeps ==
    ASSUME Inv, NEW c \in Calls, NEW actor \in Addresses,
           NEW a \in Addresses, CheckUpdate(c, actor, a)
    PROVE  Inv'
  <1>1. PICK role \in Roles \cup {None}, active \in BOOLEAN \cup {None} :
          /\ users[actor].role = "admin" =>
                users[a].role # "admin" /\ role # "admin"
          /\ Begin(c, [kind |-> "update",
                       byOwner |-> role # users[a].role /\ Names(actor, role),
                       user |-> a, role |-> Column(role, users[a].role),
                       active |-> Column(active, users[a].active),
                       ends |-> active = FALSE])
    BY DEF CheckUpdate
  <1> DEFINE byOwner == role # users[a].role /\ Names(actor, role)
             call == [kind |-> "update", byOwner |-> byOwner,
                      user |-> a, role |-> Column(role, users[a].role),
                      active |-> Column(active, users[a].active),
                      ends |-> active = FALSE]
  <1>2. /\ Column(role, users[a].role) \in {role, None}
        /\ Column(active, users[a].active) \in {active, None}
        /\ Column(role, users[a].role) = "admin" =>
              role = "admin" /\ role # users[a].role
    BY AccountsAssumption DEF Column
  <1>3. byOwner \in BOOLEAN /\ (active = FALSE) \in BOOLEAN
    BY DEF Names
  <1>5. role = "admin" => Names(actor, role)
    BY <1>1 DEF CheckUpdate, Manager, Names
  <1>51. call.role = "admin" => byOwner
    BY <1>2, <1>5
  <1> HIDE DEF byOwner
  <1>4. call \in UpdateCall
    BY <1>2, <1>3 DEF UpdateCall
  <1>6. call.role = "admin" => call.byOwner
    BY <1>51
  <1>7. Exists(a)
    BY DEF CheckUpdate
  <1>8. call.active = FALSE => call.ends
    BY <1>2, NoneAssumption
  <1>9. Sound(call)
    BY <1>6, <1>7, <1>8 DEF Sound
  <1>10. call \in Call
    BY <1>4 DEF Call
  <1> QED BY <1>1, <1>9, <1>10, BeginKeeps DEF byOwner

LEMMA CheckInviteKeeps ==
    ASSUME Inv, NEW c \in Calls, NEW actor \in Addresses,
           NEW a \in Addresses, NEW role \in Roles,
           CheckInvite(c, actor, a, role)
    PROVE  Inv'
  <1> DEFINE call == [kind |-> "invite", byOwner |-> Names(actor, role),
                      user |-> a, role |-> role, previous |-> Previous(a)]
  <1>1. For(a) \subseteq Ids /\ Previous(a) = For(a)
    BY DEF For, Open, Existing, Previous
  <1>2. call \in InviteCall
    BY <1>1 DEF InviteCall, Names
  <1>3. Sound(call)
    BY <1>1, GivenByOwner DEF Sound, CheckInvite
  <1>4. call \in Call
    BY <1>2 DEF Call
  <1> QED BY <1>3, <1>4, BeginKeeps DEF CheckInvite

LEMMA CheckAcceptKeeps ==
    ASSUME Inv, NEW c \in Calls, NEW i \in Ids, CheckAccept(c, i)
    PROVE  Inv'
  <1> DEFINE a == invitations[i].email
             role == IF Exists(a)
                     THEN Column(invitations[i].role, users[a].role)
                     ELSE invitations[i].role
             call == [kind |-> "accept", user |-> a, insert |-> ~Exists(a),
                      role |-> role,
                      byOwner |-> invitations[i].byOwner, id |-> i]
  <1>1. i \in Open /\ Begin(c, call)
    BY DEF CheckAccept
  <1>2. invitations[i] \in Invitation
    BY <1>1, OpenShape DEF Inv
  <1>3. /\ a \in Addresses /\ invitations[i].byOwner \in BOOLEAN
        /\ invitations[i].role \in Roles
        /\ role \in {invitations[i].role, None}
    BY <1>2 DEF Invitation, Column
  <1>4. Exists(a) \in BOOLEAN
    BY DEF Exists
  <1> HIDE DEF a, role
  <1>5. call \in AcceptCall
    BY <1>3, <1>4 DEF AcceptCall
  <1>6. call.role = "admin" => call.byOwner
    BY <1>1, <1>3, AccountsAssumption DEF Inv, Appointed
  <1>61. ~Exists(a) => call.role # None
    BY <1>3, AccountsAssumption DEF role
  <1>7. Sound(call)
    BY <1>1, <1>6, <1>61 DEF Sound, a
  <1>8. call \in Call
    BY <1>5 DEF Call
  <1> QED BY <1>1, <1>7, <1>8, BeginKeeps

-----------------------------------------------------------------------------
(* A handler commits.                                                      *)

(* What holds of the calls holds of those that are left.                   *)
LEMMA FewerCalls ==
    ASSUME TypeOK, NEW c \in Calls, calls' = Ended(c)
    PROVE  /\ calls' \in [Calls -> Call \cup {None}]
           /\ \A d \in Calls : calls'[d] # None => calls'[d] = calls[d]
           /\ calls'[c] = None
  BY DEF Ended, TypeOK

(* Steps that change sessions only.                                        *)
LEMMA SessionsKeep ==
    ASSUME Inv, sessions' \subseteq Addresses,
           UNCHANGED <<users, invitations, accepted, made>>,
           calls' \in [Calls -> Call \cup {None}],
           \A d \in Calls : calls'[d] # None => calls'[d] = calls[d]
    PROVE  Inv'
  <1> USE DEF Inv
  <1>0. /\ Existing' = Existing /\ Open' = Open
        /\ \A d \in Calls, k \in Giving \cup {"login"} :
              Is(d, k)' => Is(d, k) /\ calls'[d] = calls[d]
    BY DEF Existing, Open, Is
  <1>1. TypeOK'
    BY DEF TypeOK
  <1>2. Targets'
    BY <1>0 DEF Targets, Updates, Exists, Giving
  <1>3. AdminByOwner'
    BY DEF AdminByOwner, Exists
  <1>4. Appointed'
    BY <1>0 DEF Appointed
  <1>5. Numbered' /\ Replaced'
    BY <1>0 DEF Numbered, Replaced, SameOrigin, Giving
  <1>6. Invited'
    BY <1>0 DEF Invited, Giving
  <1>7. Once'
    BY <1>0 DEF Once, Accepting, Giving, Exists
  <1>8. Columns'
    BY <1>0 DEF Columns, Giving
  <1> QED BY <1>1, <1>2, <1>3, <1>4, <1>5, <1>6, <1>7, <1>8

(* Steps that write one account.                                           *)
LEMMA AccountsKeep ==
    ASSUME Inv, NEW a \in Addresses, NEW row \in User, NEW c \in Calls,
           users' = [users EXCEPT ![a] = row],
           row.role = "admin" => row.byOwner,
           sessions' \subseteq Addresses,
           calls' = Ended(c),
           UNCHANGED <<invitations, accepted, made>>
    PROVE  Inv'
  <1> USE DEF Inv
  <1>1. /\ calls' \in [Calls -> Call \cup {None}]
        /\ \A d \in Calls : calls'[d] # None => calls'[d] = calls[d]
    BY FewerCalls
  <1>2. /\ Existing' = Existing /\ Open' = Open
        /\ \A d \in Calls, k \in Giving \cup {"login"} :
              Is(d, k)' => Is(d, k) /\ calls'[d] = calls[d]
    BY <1>1 DEF Existing, Open, Is
  <1>3. /\ users' \in [Addresses -> User \cup {None}]
        /\ users'[a] = row
        /\ \A b \in Addresses : b # a => users'[b] = users[b]
        /\ row # None
    BY NoneAssumption DEF TypeOK
  <1>4. \A b \in Addresses : Exists(b) => Exists(b)'
    BY <1>3 DEF Exists
  <1>5. TypeOK'
    BY <1>1, <1>3 DEF TypeOK
  <1>6. Targets'
    <2>1. ASSUME NEW d \in Calls, Updates(d)'
          PROVE  Exists(calls[d].user)' /\ calls'[d] = calls[d]
      <3>1. Updates(d) /\ calls'[d] = calls[d] /\ calls[d] # None
        BY <1>2, <2>1 DEF Updates, Giving, Is
      <3>2. calls[d].user \in Addresses
        BY <3>1, CallShape
      <3>3. Exists(calls[d].user)
        BY <3>1 DEF Targets
      <3> QED BY <1>4, <3>1, <3>2, <3>3 DEF Exists
    <2> QED BY <2>1 DEF Targets, Exists
  <1>7. AdminByOwner'
    BY <1>3 DEF AdminByOwner, Exists
  <1>8. Appointed'
    BY <1>1, <1>2 DEF Appointed
  <1>9. Numbered' /\ Replaced'
    BY <1>2 DEF Numbered, Replaced, SameOrigin, Giving
  <1>10. Invited'
    BY <1>2 DEF Invited, Giving
  <1>11. Once'
    <2>1. ASSUME NEW i \in Ids, NEW d \in Calls, Accepting(d, i)'
          PROVE  /\ Accepting(d, i) /\ calls'[d] = calls[d]
                 /\ accepted[i] # 0 => Exists(calls[d].user)'
      <3>1. Is(d, "accept") /\ calls'[d] = calls[d] /\ calls[d] # None
        BY <1>2, <2>1 DEF Giving, Is, Accepting
      <3>2. calls[d].user \in Addresses /\ Accepting(d, i)
        BY <2>1, <3>1, CallShape DEF Accepting
      <3>3. accepted[i] # 0 => Exists(calls[d].user)
        BY <3>2 DEF Once
      <3> QED BY <1>4, <3>1, <3>2, <3>3 DEF Exists
    <2> QED BY <2>1 DEF Once, Exists
  <1>12. Columns'
    BY <1>2 DEF Columns, Giving
  <1> QED BY <1>5, <1>6, <1>7, <1>8, <1>9, <1>10, <1>11, <1>12

LEMMA CreateUserKeeps ==
    ASSUME Inv, NEW c \in Calls, CreateUser(c)
    PROVE  Inv'
  <1>1. calls[c] # None /\ calls[c] \in CreateCall
    BY CallShape DEF CreateUser, Is, Inv
  <1> DEFINE row == [role |-> calls[c].role, active |-> TRUE,
                     byOwner |-> calls[c].byOwner]
  <1>2. /\ row \in User /\ calls[c].user \in Addresses
        /\ row.role = "admin" => row.byOwner
    BY <1>1 DEF CreateCall, User, Inv, Appointed, Giving
  <1>3. CASE Exists(calls[c].user)
    <2>1. UNCHANGED <<users, sessions, invitations, accepted, made>>
              /\ calls' = Ended(c)
      BY <1>3 DEF CreateUser, history
    <2> QED BY <2>1, FewerCalls, SessionsKeep DEF Inv, TypeOK
  <1>4. CASE ~Exists(calls[c].user)
    <2>1. /\ users' = [users EXCEPT ![calls[c].user] = row]
          /\ UNCHANGED <<sessions, invitations, accepted, made>>
          /\ calls' = Ended(c)
      BY <1>4 DEF CreateUser, history
    <2>2. sessions' \subseteq Addresses
      BY <2>1 DEF Inv, TypeOK
    <2> HIDE DEF row
    <2> QED BY <1>2, <2>1, <2>2, AccountsKeep
  <1> QED BY <1>3, <1>4

LEMMA UpdateUserKeeps ==
    ASSUME Inv, NEW c \in Calls, UpdateUser(c)
    PROVE  Inv'
  <1>1. /\ calls[c] # None /\ calls[c].kind = "update"
        /\ calls[c] \in UpdateCall
    BY CallShape DEF UpdateUser, Is, Inv
  <1> DEFINE call == calls[c]
             a == call.user
             row == Written(users[a], call.role, call.active, call.byOwner)
  <1>2. /\ a \in Addresses /\ call.role \in Roles \cup {None}
        /\ call.active \in BOOLEAN \cup {None} /\ call.byOwner \in BOOLEAN
    BY <1>1 DEF UpdateCall
  <1>3. Exists(a) /\ users[a] \in User
    BY <1>1, <1>2, Accounted DEF Inv, Targets, Updates, Is
  <1>4. /\ users[a].role = "admin" => users[a].byOwner
        /\ call.role = "admin" => call.byOwner
    BY <1>1, <1>2, <1>3 DEF Inv, AdminByOwner, Appointed, Giving
  <1>5. row \in User /\ (row.role = "admin" => row.byOwner)
    BY <1>2, <1>3, <1>4, WrittenShape
  <1>6. /\ users' = [users EXCEPT ![a] = row]
        /\ sessions' \subseteq sessions
        /\ UNCHANGED <<invitations, accepted, made>>
        /\ calls' = Ended(c)
    BY DEF UpdateUser, Updated, history
  <1>7. sessions' \subseteq Addresses
    BY <1>6 DEF Inv, TypeOK
  <1> HIDE DEF row, call, a
  <1> QED BY <1>2, <1>5, <1>6, <1>7, AccountsKeep

-----------------------------------------------------------------------------
(* Invitations.                                                            *)

LEMMA InvitationExpiresKeeps ==
    ASSUME Inv, NEW i \in Ids, InvitationExpires(i)
    PROVE  Inv'
  <1> USE DEF Inv
  <1> DEFINE new == [invitations[i] EXCEPT !.expired = TRUE]
  <1>1. /\ i \in Open /\ invitations' = [invitations EXCEPT ![i] = new]
        /\ UNCHANGED <<users, sessions, calls, accepted, made>>
    BY DEF InvitationExpires, history
  <1>2. invitations[i] \in Invitation
    BY <1>1, OpenShape
  <1>3. /\ new \in Invitation
        /\ new.email = invitations[i].email /\ new.role = invitations[i].role
        /\ new.byOwner = invitations[i].byOwner
        /\ new.by = invitations[i].by
    BY <1>2 DEF Invitation
  <1>4. invitations[i] # Closed /\ invitations[i] # None /\ new # None
    BY <1>1, <1>3, NoneAssumption DEF Open, Existing
  <1> HIDE DEF new
  <1>5. /\ invitations' \in [Ids -> Invitation \cup {None, Closed}]
        /\ invitations'[i] = new
        /\ \A j \in Ids : j # i => invitations'[j] = invitations[j]
    BY <1>1, <1>3 DEF TypeOK
  <1>6. Existing' = Existing /\ Open' \subseteq Open
    BY <1>1, <1>4, <1>5 DEF Existing, Open
  <1>7. TypeOK'
    BY <1>1, <1>5 DEF TypeOK
  <1>8. Targets' /\ AdminByOwner' /\ Columns'
    BY <1>1 DEF Targets, Updates, Is, Exists, AdminByOwner, Columns
  <1>9. Open \subseteq Ids /\ Open \subseteq Existing
    BY DEF Open, Existing
  <1>10. \A j \in Open' : /\ invitations'[j].email = invitations[j].email
                          /\ invitations'[j].role = invitations[j].role
                          /\ invitations'[j].byOwner = invitations[j].byOwner
                          /\ invitations'[j].by = invitations[j].by
    BY <1>3, <1>5, <1>6, <1>9
  <1>11. Appointed'
    BY <1>1, <1>6, <1>10 DEF Appointed
  <1>12. Numbered'
    BY <1>6 DEF Numbered
  <1>13. \A j \in Ids : invitations[j] = Closed => invitations'[j] = Closed
    BY <1>4, <1>5
  <1>14. Replaced'
    <2>1. \A j, k \in Open' : SameOrigin(j, k)' => j = k
      BY <1>6, <1>10 DEF Replaced, SameOrigin
    <2>2. ASSUME NEW d \in Calls, Is(d, "invite")
          PROVE  /\ calls[d].previous \subseteq Existing
                 /\ \A j \in Open' : /\ invitations'[j].email = calls[d].user
                                    /\ invitations'[j].by = d
                                    => j \in calls[d].previous
      BY <1>6, <1>10, <2>2 DEF Replaced
    <2> QED BY <1>1, <1>6, <2>1, <2>2 DEF Replaced, Is
  <1>15. Invited'
    BY <1>1, <1>6, <1>10 DEF Invited, Is
  <1>16. Once'
    BY <1>1, <1>13 DEF Once, Accepting, Is, Exists
  <1> QED BY <1>7, <1>8, <1>11, <1>12, <1>14, <1>15, <1>16

(* The next invitation has the next number.                                *)
LEMMA NextNumber ==
    ASSUME Numbered, AccountsAssumption, Existing # Ids
    PROVE  \E k \in 0 .. MaxInvitations :
              /\ Existing = 1 .. k /\ k + 1 \in Ids
              /\ Cardinality(Existing) = k
  <1>1. PICK k \in 0 .. MaxInvitations : Existing = 1 .. k
    BY DEF Numbered
  <1>2. Cardinality(1 .. k) = k
    <2>1. Cardinality(1 .. k) = IF 1 > k THEN 0 ELSE k - 1 + 1
      BY FS_Interval, AccountsAssumption
    <2> QED BY <2>1, AccountsAssumption
  <1>3. k # MaxInvitations
    BY <1>1 DEF Ids
  <1> QED BY <1>1, <1>2, <1>3, AccountsAssumption DEF Ids

LEMMA CreateInvitationKeeps ==
    ASSUME Inv, NEW c \in Calls, CreateInvitation(c)
    PROVE  Inv'
  <1> USE DEF Inv
  <1> DEFINE call == calls[c]
             new == [email |-> call.user, role |-> call.role,
                     byOwner |-> call.byOwner, expired |-> FALSE,
                     by |-> c]
  <1>1. PICK k \in 0 .. MaxInvitations :
              /\ Existing = 1 .. k /\ k + 1 \in Ids
              /\ Cardinality(Existing) = k
    BY NextNumber, AccountsAssumption DEF CreateInvitation
  <1>2. /\ invitations' = [i \in Ids |->
              IF i = k + 1 THEN new
              ELSE IF i \in call.previous THEN Closed ELSE invitations[i]]
        /\ calls' = Ended(c)
        /\ UNCHANGED <<users, sessions, accepted, made>>
        /\ Is(c, "invite")
    BY <1>1 DEF CreateInvitation, history
  <1>3. call # None /\ call.kind = "invite" /\ call \in InviteCall
    BY <1>2, CallShape DEF Is
  <1>4. /\ new \in Invitation /\ new.email = call.user
        /\ new.role = call.role /\ new.byOwner = call.byOwner
        /\ new.by = c
    BY <1>3 DEF InviteCall, Invitation
  <1>5. /\ call.previous \subseteq Existing
        /\ \A i \in Open : /\ invitations[i].email = call.user
                          /\ invitations[i].by = c
                          => i \in call.previous
    BY <1>2 DEF Replaced
  <1>6. call.role = "admin" => call.byOwner
    BY <1>3 DEF Appointed, Giving
  <1>7. new # None
    BY <1>4, NoneAssumption
  <1> HIDE DEF new, call
  <1>8. /\ k + 1 \notin Existing /\ Ids = 1 .. MaxInvitations
        /\ k \in Nat /\ Existing \subseteq Ids
    BY <1>1, AccountsAssumption DEF Ids, Existing
  <1>9. /\ invitations' \in [Ids -> Invitation \cup {None, Closed}]
        /\ invitations'[k + 1] = new
        /\ \A i \in call.previous : invitations'[i] = Closed
        /\ \A i \in Ids : i # k + 1 /\ i \notin call.previous =>
              invitations'[i] = invitations[i]
    BY <1>1, <1>2, <1>4, <1>5, <1>8 DEF TypeOK
  <1>10. Existing' = Existing \cup {k + 1}
    BY <1>1, <1>5, <1>7, <1>8, <1>9, AccountsAssumption DEF Existing
  <1>11. /\ Open' \subseteq (Open \ call.previous) \cup {k + 1}
         /\ Open \subseteq Existing
    BY <1>8, <1>9, <1>10 DEF Open, Existing
  <1>12. /\ calls' \in [Calls -> Call \cup {None}]
         /\ \A d \in Calls : calls'[d] # None => calls'[d] = calls[d]
    BY <1>2, FewerCalls
  <1>13. \A d \in Calls, m \in Giving \cup {"login"} :
            Is(d, m)' => Is(d, m) /\ calls'[d] = calls[d]
    BY <1>12 DEF Is
  <1>14. TypeOK'
    BY <1>2, <1>9, <1>12 DEF TypeOK
  <1>15. Targets' /\ AdminByOwner' /\ Columns'
    BY <1>2, <1>13 DEF Targets, Updates, Giving, Exists, AdminByOwner, Columns
  <1>16. Appointed'
    <2>1. ASSUME NEW i \in Open', invitations'[i].role = "admin"
          PROVE  invitations'[i].byOwner
      <3>1. CASE i = k + 1
        BY <1>4, <1>6, <1>9, <2>1, <3>1
      <3>2. CASE i # k + 1
        BY <1>8, <1>9, <1>11, <2>1, <3>2 DEF Appointed
      <3> QED BY <3>1, <3>2
    <2> QED BY <1>12, <2>1 DEF Appointed
  <1>17. Numbered'
    <2>1. Existing' = 1 .. (k + 1) /\ k + 1 \in 0 .. MaxInvitations
      BY <1>1, <1>8, <1>10, AccountsAssumption
    <2> QED BY <2>1 DEF Numbered
  <1>18. \A i \in Existing : invitations[i] = Closed => invitations'[i] = Closed
    BY <1>8, <1>9
  <1>19. Replaced'
    <2>1. \A i \in Open' : i # k + 1 =>
             /\ i \in Open /\ i \notin call.previous
             /\ invitations'[i] = invitations[i]
      BY <1>8, <1>9, <1>11
    <2>2. \A i \in Open' : i # k + 1 => ~SameOrigin(i, k + 1)'
      BY <1>4, <1>5, <1>9, <2>1 DEF SameOrigin
    <2>3. ASSUME NEW i \in Open', NEW j \in Open', SameOrigin(i, j)'
          PROVE  i = j
      <3>1. CASE i = k + 1 \/ j = k + 1
        BY <2>2, <2>3, <3>1 DEF SameOrigin
      <3>2. CASE i # k + 1 /\ j # k + 1
        BY <2>1, <2>3, <3>2 DEF Replaced, SameOrigin
      <3> QED BY <3>1, <3>2
    <2>4. ASSUME NEW d \in Calls, Is(d, "invite")'
          PROVE  /\ calls'[d].previous \subseteq Existing'
                 /\ \A i \in Open' : /\ invitations'[i].email = calls'[d].user
                                    /\ invitations'[i].by = d
                                    => i \in calls'[d].previous
      <3>1. Is(d, "invite") /\ calls'[d] = calls[d] /\ d # c
        BY <1>2, <1>13, <2>4, FewerCalls DEF Giving, Is
      <3>2. /\ calls[d].previous \subseteq Existing
            /\ \A i \in Open : /\ invitations[i].email = calls[d].user
                              /\ invitations[i].by = d
                              => i \in calls[d].previous
        BY <3>1 DEF Replaced
      <3> QED BY <1>4, <1>9, <1>10, <2>1, <3>1, <3>2
    <2> QED BY <2>3, <2>4 DEF Replaced
  <1>20. Invited'
    <2>1. ASSUME NEW d \in Calls, Is(d, "accept")'
          PROVE  /\ Is(d, "accept") /\ calls'[d] = calls[d]
                 /\ calls[d].id \in Existing'
                 /\ calls[d].id \in Open' =>
                       invitations'[calls[d].id].email = calls[d].user
      <3>1. Is(d, "accept") /\ calls'[d] = calls[d]
        BY <1>13, <2>1 DEF Giving
      <3>2. calls[d].id \in Existing
        BY <3>1 DEF Invited
      <3>3. calls[d].id \in Open' => calls[d].id \in Open /\
               invitations'[calls[d].id] = invitations[calls[d].id]
        BY <1>8, <1>9, <1>11, <3>2
      <3> QED BY <1>10, <3>1, <3>2, <3>3 DEF Invited
    <2> QED BY <2>1 DEF Invited
  <1>21. Once'
    <2>1. \A i \in Ids : accepted[i] # 0 => invitations'[i] = Closed
      BY <1>18, AccountsAssumption DEF Once, Existing
    <2>2. \A i \in Ids, d \in Calls : Accepting(d, i)' =>
             Accepting(d, i) /\ calls'[d] = calls[d]
      BY <1>13 DEF Accepting, Giving
    <2> QED BY <1>2, <2>1, <2>2 DEF Once, Exists
  <1> QED BY <1>14, <1>15, <1>16, <1>17, <1>19, <1>20, <1>21

LEMMA AcceptInvitationKeeps ==
    ASSUME Inv, NEW c \in Calls, AcceptInvitation(c)
    PROVE  Inv'
  <1> USE DEF Inv
  <1> DEFINE call == calls[c]
             row == Joined(call)
  <1>1. call # None /\ call.kind = "accept" /\ call \in AcceptCall
    BY CallShape DEF AcceptInvitation, Is
  <1>2. /\ call.user \in Addresses /\ call.id \in Ids
        /\ call.role \in Roles \cup {None} /\ call.byOwner \in BOOLEAN
        /\ call.insert \in BOOLEAN
    BY <1>1 DEF AcceptCall
  <1>3. calls' = Ended(c) /\ Is(c, "accept")
    BY DEF AcceptInvitation
  <1>4. CASE ~MayAccept(call)
    <2>1. UNCHANGED <<users, sessions, invitations, accepted, made>>
      BY <1>4 DEF AcceptInvitation, history
    <2> QED BY <1>3, <2>1, FewerCalls, SessionsKeep DEF TypeOK
  <1>5. CASE MayAccept(call)
    <2>1. /\ users' = [users EXCEPT ![call.user] = row]
          /\ invitations' = [invitations EXCEPT ![call.id] = Closed]
          /\ sessions' = sessions \cup {call.user}
          /\ accepted' = [accepted EXCEPT ![call.id] = @ + 1]
          /\ made' = IF call.insert THEN made \cup {call.id} ELSE made
      BY <1>5 DEF AcceptInvitation
    <2>2. call.role = "admin" => call.byOwner
      BY <1>1 DEF Appointed, Giving
    <2>3. row \in User /\ (row.role = "admin" => row.byOwner)
      <3>1. CASE call.insert
        <4>1. row = [role |-> call.role, active |-> TRUE,
                     byOwner |-> call.byOwner]
          BY <3>1 DEF Joined
        <4>2. call.role # None
          BY <1>3, <3>1 DEF Columns
        <4> QED BY <1>2, <2>2, <4>1, <4>2 DEF User
      <3>2. CASE ~call.insert
        <4>1. row = Written(users[call.user], call.role, TRUE, call.byOwner)
          BY <3>2 DEF Joined
        <4>2. Exists(call.user) /\ users[call.user] \in User
          BY <1>2, <1>3, <3>2, Accounted DEF Targets, Updates
        <4>3. users[call.user].role = "admin" => users[call.user].byOwner
          BY <1>2, <4>2 DEF AdminByOwner
        <4> DEFINE old == users[call.user]
        <4>4. /\ old \in User /\ call.role \in Roles \cup {None}
              /\ TRUE \in BOOLEAN \cup {None} /\ call.byOwner \in BOOLEAN
          BY <1>2, <4>2
        <4> HIDE DEF old, row, call
        <4>5. /\ Written(old, call.role, TRUE, call.byOwner) \in User
              /\ /\ old.role = "admin" => old.byOwner
                 /\ call.role = "admin" => call.byOwner
                 => (Written(old, call.role, TRUE, call.byOwner).role = "admin"
                     => Written(old, call.role, TRUE, call.byOwner).byOwner)
          BY <4>4, WrittenShape
        <4> QED BY <2>2, <4>1, <4>3, <4>5 DEF old
      <3> QED BY <1>2, <3>1, <3>2
    <2> HIDE DEF row, call
    <2>4. /\ users' \in [Addresses -> User \cup {None}]
          /\ users'[call.user] = row
          /\ \A b \in Addresses : b # call.user => users'[b] = users[b]
          /\ row # None
      BY <1>2, <2>1, <2>3, NoneAssumption DEF TypeOK
    <2>5. /\ users'[call.user] # None
          /\ \A b \in Addresses : users[b] # None => users'[b] # None
      BY <2>4
    <2>6. /\ calls' \in [Calls -> Call \cup {None}]
          /\ \A d \in Calls : calls'[d] # None => calls'[d] = calls[d]
      BY <1>3, FewerCalls
    <2>7. \A d \in Calls, m \in Giving \cup {"login"} :
             Is(d, m)' => /\ Is(d, m) /\ calls'[d] = calls[d]
                          /\ calls[d].user \in Addresses
      BY <2>6, CallShape DEF Is
    <2>8. /\ invitations' \in [Ids -> Invitation \cup {None, Closed}]
          /\ invitations'[call.id] = Closed
          /\ \A i \in Ids : i # call.id => invitations'[i] = invitations[i]
          /\ call.id \in Existing
      BY <1>2, <1>3, <2>1 DEF TypeOK, Invited, call
    <2>9. /\ Existing' = Existing
          /\ Open' = Open \ {call.id}
          /\ Existing \subseteq Ids /\ Open \subseteq Existing
      BY <2>8, AccountsAssumption DEF Existing, Open
    <2>10. \A i \in Ids : invitations[i] = Closed => invitations'[i] = Closed
      BY <2>8
    <2>11. accepted' \in [Ids -> Nat] /\ made' \subseteq Ids
      BY <1>2, <2>1 DEF TypeOK
    <2>12. TypeOK'
      BY <1>2, <2>1, <2>4, <2>6, <2>8, <2>11 DEF TypeOK
    <2>13. Targets'
      BY <2>5, <2>7 DEF Targets, Updates, Giving, Exists
    <2>14. AdminByOwner'
      BY <2>3, <2>4 DEF AdminByOwner, Exists
    <2>15. Appointed'
      BY <2>6, <2>8, <2>9 DEF Appointed
    <2>16. Numbered'
      BY <2>9 DEF Numbered
    <2>17. Replaced'
      <3>1. \A i \in Open' : i \in Open /\ invitations'[i] = invitations[i]
        BY <2>8, <2>9
      <3>2. \A i, j \in Open' : SameOrigin(i, j)' => i = j
        BY <3>1 DEF Replaced, SameOrigin
      <3>3. ASSUME NEW d \in Calls, Is(d, "invite")'
            PROVE  /\ calls'[d].previous \subseteq Existing'
                   /\ \A i \in Open' :
                         /\ invitations'[i].email = calls'[d].user
                         /\ invitations'[i].by = d
                         => i \in calls'[d].previous
        <4>1. Is(d, "invite") /\ calls'[d] = calls[d]
          BY <2>7, <3>3 DEF Giving
        <4> QED BY <2>9, <3>1, <4>1 DEF Replaced
      <3> QED BY <3>2, <3>3 DEF Replaced
    <2>18. Invited'
      BY <2>7, <2>8, <2>9 DEF Invited, Giving
    <2>19. Columns'
      BY <2>7 DEF Columns, Giving
    <2>20. Once'
      <3>1. \A i \in Ids : i # call.id =>
               accepted'[i] = accepted[i] /\ (i \in made' <=> i \in made)
        BY <1>2, <2>1 DEF TypeOK
      <3>2. \A d \in Calls, i \in Ids : Accepting(d, i)' =>
               Accepting(d, i) /\ calls'[d] = calls[d]
        BY <2>7 DEF Accepting, Giving
      <3>3. Accepting(c, call.id)
        BY <1>3 DEF Accepting, call
      <3>4. \A d \in Calls : Accepting(d, call.id) => calls[d].user = call.user
        BY <1>3 DEF Invited, Accepting, call
      <3>5. ASSUME NEW i \in Ids, accepted'[i] # 0
            PROVE  /\ invitations'[i] = Closed
                   /\ \A d \in Calls : Accepting(d, i)' =>
                         Exists(calls[d].user)'
        <4>1. CASE i = call.id
          BY <2>5, <2>8, <3>2, <3>4, <4>1 DEF Exists
        <4>2. CASE i # call.id
          <5>1. accepted[i] # 0
            BY <3>1, <3>5, <4>2
          <5>2. invitations[i] = Closed
            BY <5>1 DEF Once
          <5>3. ASSUME NEW d \in Calls, Accepting(d, i)'
                PROVE  Exists(calls[d].user)'
            <6>1. /\ Accepting(d, i) /\ calls'[d] = calls[d]
                  /\ calls[d].user \in Addresses
              BY <2>7, <3>2, <5>3 DEF Accepting, Giving
            <6>2. Exists(calls[d].user)
              BY <5>1, <6>1 DEF Once
            <6> QED BY <2>5, <6>1, <6>2 DEF Exists
          <5> QED BY <2>10, <5>2, <5>3
        <4> QED BY <4>1, <4>2
      <3>6. call.id \notin made
        BY <1>2, <1>5, <3>3 DEF Once, MayAccept, call
      <3>7. ASSUME call.insert
            PROVE  /\ accepted[call.id] = 0
                   /\ \A d \in Calls : Accepting(d, call.id) => calls[d].insert
        <4>1. ~Exists(call.user)
          BY <1>5, <3>7 DEF MayAccept, call
        <4>2. accepted[call.id] = 0
          BY <1>2, <3>3, <4>1 DEF Once, call
        <4>3. ASSUME NEW d \in Calls, Accepting(d, call.id)
              PROVE  calls[d].insert
          BY <3>4, <4>1, <4>3 DEF Targets, Updates, Accepting
        <4> QED BY <4>2, <4>3
      <3>8. ASSUME NEW i \in made'
            PROVE  /\ accepted'[i] = 1
                   /\ \A d \in Calls : Accepting(d, i)' => calls'[d].insert
        <4>1. CASE i = call.id
          <5>1. call.insert
            BY <2>1, <3>6, <3>8, <4>1
          <5>2. accepted'[i] = 1
            BY <1>2, <2>1, <3>7, <4>1, <5>1 DEF TypeOK
          <5> QED BY <1>2, <3>2, <3>7, <4>1, <5>1, <5>2
        <4>2. CASE i # call.id
          <5>1. i \in made /\ i \in Ids
            BY <2>1, <2>11, <3>8, <4>2
          <5> QED BY <3>1, <3>2, <4>2, <5>1 DEF Once
        <4> QED BY <4>1, <4>2
      <3> QED BY <3>5, <3>8 DEF Once
    <2> QED BY <2>12, <2>13, <2>14, <2>15, <2>16, <2>17, <2>18, <2>19, <2>20
  <1> QED BY <1>4, <1>5 DEF MayAccept

-----------------------------------------------------------------------------
(* The theorems.                                                           *)

LEMMA InitInv ==
    ASSUME Init
    PROVE  Inv
  <1>1. \A a \in Addresses : users[a] # None =>
           users[a] = [role |-> "owner", active |-> TRUE, byOwner |-> FALSE]
    BY DEF Init
  <1>2. /\ Existing = {} /\ Open = {}
        /\ \A c \in Calls, k \in Giving \cup {"login"} : ~Is(c, k)
    BY DEF Init, Existing, Open, Is
  <1>3. TypeOK
    BY <1>1 DEF Init, TypeOK, User
  <1>4. Targets /\ Columns /\ Invited
    BY <1>2 DEF Targets, Updates, Columns, Invited, Giving
  <1>5. AdminByOwner
    BY <1>1 DEF AdminByOwner, Exists
  <1>6. Appointed
    BY <1>2 DEF Appointed, Init
  <1>7. Numbered
    <2>1. 0 \in 0 .. MaxInvitations /\ 1 .. 0 = {}
      BY AccountsAssumption
    <2> QED BY <1>2, <2>1 DEF Numbered
  <1>8. Replaced
    BY <1>2 DEF Replaced, Giving
  <1>9. Once
    BY DEF Once, Init
  <1> QED BY <1>3, <1>4, <1>5, <1>6, <1>7, <1>8, <1>9 DEF Inv

LEMMA StepInv ==
    ASSUME Inv, [Next]_vars
    PROVE  Inv'
  <1>1. CASE UNCHANGED vars
    BY <1>1, SessionsKeep DEF vars, history, Inv, TypeOK
  <1>2. ASSUME NEW c \in Calls, Login(c)
        PROVE  Inv'
    <2>1. calls[c].user \in Addresses
      BY <1>2, CallShape DEF Login, Is, Inv
    <2> QED BY <1>2, <2>1, FewerCalls, SessionsKeep DEF Login, history, Inv, TypeOK
  <1>3. ASSUME NEW a \in Addresses, Logout(a) \/ ChangePassword(a)
        PROVE  Inv'
    BY <1>3, SessionsKeep DEF Logout, ChangePassword, history, Inv,
                                      TypeOK
  <1>4. CASE RecoverOwner
    BY <1>4, SessionsKeep DEF RecoverOwner, history, Inv, TypeOK
  <1>5. ASSUME SessionStep
        PROVE  Inv'
    BY <1>2, <1>3, <1>4, <1>5, CheckLoginKeeps DEF SessionStep
  <1>6. ASSUME NEW c \in Calls, AccountStep(c)
        PROVE  Inv'
    BY <1>6, CheckCreateKeeps, CheckUpdateKeeps, CreateUserKeeps,
       UpdateUserKeeps DEF AccountStep
  <1>7. ASSUME NEW c \in Calls, InvitationStep(c)
        PROVE  Inv'
    BY <1>7, CheckInviteKeeps, CreateInvitationKeeps, CheckAcceptKeeps,
       AcceptInvitationKeeps DEF InvitationStep
  <1> QED BY <1>1, <1>5, <1>6, <1>7, InvitationExpiresKeeps DEF Next

(* The tables and what every handler under way knows agree (Inv).          *)
THEOREM AccountsInvariant == Spec => []Inv
  <1>1. Init => Inv
    BY InitInv
  <1>2. Inv /\ [Next]_vars => Inv'
    BY StepInv
  <1> QED BY <1>1, <1>2, PTL DEF Spec

(* README 104, architecture-commerciale 34: an invitation that makes an    *)
(* account is accepted that once.                                          *)
THEOREM OneUse == Spec => []InvitationOnce
  <1>1. Inv => InvitationOnce
    BY DEF Inv, TypeOK, Once, InvitationOnce
  <1> QED BY <1>1, AccountsInvariant, PTL

(* architecture-commerciale 28-31: only the owner makes administrators.    *)
THEOREM OwnerAppoints == Spec => []AdminByOwner
  <1>1. Inv => AdminByOwner
    BY DEF Inv
  <1> QED BY <1>1, AccountsInvariant, PTL

(* README 103: a new invitation revokes the one before it.  The links open *)
(* for an address come from different handlers, which numbers them.        *)
THEOREM LinksBounded == Spec => []OneLinkEach
  <1>1. ASSUME Inv, NEW a \in Addresses
        PROVE  Cardinality(For(a)) <= Cardinality(Calls)
    <2> DEFINE by == [i \in For(a) |-> invitations[i].by]
    <2>1. For(a) \subseteq Open
      BY DEF For
    <2>2. \A i \in For(a) : invitations[i].by \in Calls
      BY <1>1, <2>1, OpenShape DEF Inv, Invitation
    <2>3. \A i, j \in For(a) : by[i] = by[j] => i = j
      BY <1>1, <2>1 DEF Inv, Replaced, SameOrigin, For
    <2>4. by \in [For(a) -> Calls]
      BY <2>2
    <2> HIDE DEF by
    <2>5. by \in Injection(For(a), Calls)
      BY <2>3, <2>4 DEF Injection, IsInjective
    <2> QED BY <2>5, FS_Injection, AccountsAssumption
  <1>2. Inv => OneLinkEach
    BY <1>1 DEF OneLinkEach
  <1> QED BY <1>2, AccountsInvariant, PTL

(* architecture-commerciale 32: a deactivated account gets no session but  *)
(* from a login that had found it active.                                  *)
THEOREM DeactivationEnds == Spec => InactiveGetsNoSession
  <1> DEFINE Only == \A a \in sessions' :
          Active(a)' \/ (a \in sessions /\ ~Active(a))
                     \/ \E c \in Calls : Is(c, "login") /\ ~Is(c, "login")'
                                         /\ calls[c].user = a
  <1>1. ASSUME Inv, [Next]_vars
        PROVE  [Only]_vars
    <2>0. sessions \subseteq Addresses
      BY <1>1 DEF Inv, TypeOK
    <2>1. ASSUME sessions' \subseteq sessions, UNCHANGED users
          PROVE  Only
      BY <2>1 DEF Active, Exists
    <2>2. ASSUME NEW c \in Calls, Login(c)
          PROVE  Only
      <3>1. Is(c, "login") /\ ~Is(c, "login")' /\ UNCHANGED users
                /\ sessions' = sessions \cup {calls[c].user}
        BY <1>1, <2>2, FewerCalls DEF Login, Is, Inv
      <3> QED BY <3>1 DEF Active, Exists
    <2>3. ASSUME NEW a \in Addresses, Logout(a) \/ ChangePassword(a)
          PROVE  Only
      BY <2>1, <2>3 DEF Logout, ChangePassword
    <2>4. CASE RecoverOwner
      BY <2>1, <2>4 DEF RecoverOwner
    <2>5. ASSUME NEW c \in Calls, NEW call, Begin(c, call)
          PROVE  Only
      BY <2>1, <2>5 DEF Begin
    <2>6. ASSUME NEW c \in Calls, CreateUser(c)
          PROVE  Only
      <3>1. calls[c] # None /\ calls[c] \in CreateCall
        BY <1>1, <2>6, CallShape DEF CreateUser, Is, Inv
      <3>2. ASSUME NEW a \in sessions
            PROVE  users'[a] = users[a] \/ Active(a)'
        <4>1. CASE Exists(calls[c].user) \/ a # calls[c].user
          BY <1>1, <2>0, <2>6, <4>1 DEF CreateUser, Inv, TypeOK
        <4>2. CASE ~Exists(calls[c].user) /\ a = calls[c].user
          <5>1. users'[a] = [role |-> calls[c].role, active |-> TRUE,
                             byOwner |-> calls[c].byOwner]
            BY <1>1, <2>0, <2>6, <4>2 DEF CreateUser, Inv, TypeOK
          <5>2. users'[a] \in User
            BY <3>1, <5>1 DEF CreateCall, User
          <5>3. users'[a] # None
            BY <5>2, NoneAssumption
          <5>4. users'[a].active = TRUE
            BY <5>1
          <5> QED BY <5>3, <5>4 DEF Active, Exists
        <4> QED BY <4>1, <4>2
      <3> QED BY <2>6, <3>2 DEF CreateUser, Active, Exists
    <2>7. ASSUME NEW c \in Calls, UpdateUser(c)
          PROVE  Only
      <3>1. /\ calls[c] # None /\ calls[c].kind = "update"
            /\ calls[c] \in UpdateCall
        BY <1>1, <2>7, CallShape DEF UpdateUser, Is, Inv
      <3> DEFINE call == calls[c]
                 row == Written(users[call.user], call.role, call.active,
                                call.byOwner)
      <3>2. /\ call.user \in Addresses /\ users[call.user] \in User
            /\ call.role \in Roles \cup {None}
            /\ call.active \in BOOLEAN \cup {None}
            /\ call.byOwner \in BOOLEAN
        BY <1>1, <3>1, Accounted
           DEF UpdateCall, Inv, Targets, Updates, Is
      <3>3. /\ row \in User
            /\ call.active # None => row.active = call.active
            /\ call.active = None => row.active = users[call.user].active
        <4> DEFINE old == users[call.user]
        <4> HIDE DEF old, call
        <4>1. /\ old \in User /\ call.role \in Roles \cup {None}
              /\ call.active \in BOOLEAN \cup {None}
              /\ call.byOwner \in BOOLEAN
          BY <3>2 DEF old
        <4>2. /\ Written(old, call.role, call.active, call.byOwner) \in User
              /\ call.active # None =>
                    Written(old, call.role, call.active, call.byOwner).active
                       = call.active
              /\ call.active = None =>
                    Written(old, call.role, call.active, call.byOwner).active
                       = old.active
          BY <4>1, WrittenShape
        <4> QED BY <4>2 DEF old
      <3>4. /\ users' = [users EXCEPT ![call.user] = row]
            /\ sessions' = IF call.ends THEN sessions \ {call.user}
                                        ELSE sessions
        BY <2>7 DEF UpdateUser, Updated
      <3>5. call.active = FALSE => call.ends
        BY <1>1, <3>1 DEF Inv, Columns, Is
      <3> HIDE DEF row, call
      <3>6. ASSUME NEW a \in sessions'
            PROVE  Active(a)' \/ (a \in sessions /\ ~Active(a))
        <4>1. a \in sessions /\ a \in Addresses
          BY <2>0, <3>4
        <4>2. CASE a # call.user
          BY <1>1, <3>4, <4>1, <4>2 DEF Active, Exists, Inv, TypeOK
        <4>3. CASE a = call.user
          <5>1. users'[a] = row /\ row # None /\ users[a] # None
            BY <1>1, <3>2, <3>3, <3>4, <4>1, <4>3, NoneAssumption
               DEF Inv, TypeOK
          <5>2. call.active # FALSE
            BY <3>4, <3>5, <4>3
          <5>3. row.active = TRUE \/ row.active = users[a].active
            BY <3>2, <3>3, <4>3, <5>2
          <5> QED BY <4>1, <5>1, <5>3 DEF Active, Exists
        <4> QED BY <4>2, <4>3
      <3> QED BY <3>6
    <2>8. ASSUME NEW c \in Calls, AcceptInvitation(c)
          PROVE  Only
      <3> DEFINE call == calls[c]
      <3>1. call # None /\ call \in AcceptCall /\ Is(c, "accept")
        BY <1>1, <2>8, CallShape DEF AcceptInvitation, Is, Inv
      <3>2. CASE ~MayAccept(call)
        BY <2>1, <2>8, <3>2 DEF AcceptInvitation
      <3>3. CASE MayAccept(call)
        <4>1. /\ users' = [users EXCEPT ![call.user] = Joined(call)]
              /\ sessions' = sessions \cup {call.user}
          BY <2>8, <3>3 DEF AcceptInvitation
        <4>2. /\ call.user \in Addresses /\ call.insert \in BOOLEAN
              /\ call.role \in Roles \cup {None} /\ call.byOwner \in BOOLEAN
          BY <3>1 DEF AcceptCall
        <4>3. Joined(call) \in User /\ Joined(call).active = TRUE
          <5>1. CASE call.insert
            <6>1. call.role # None
              BY <1>1, <3>1, <5>1 DEF Inv, Columns
            <6>2. Joined(call) = [role |-> call.role, active |-> TRUE,
                                  byOwner |-> call.byOwner]
              BY <5>1 DEF Joined
            <6> QED BY <4>2, <6>1, <6>2 DEF User
          <5>2. CASE ~call.insert
            <6> DEFINE old == users[call.user]
            <6>1. old \in User
              BY <1>1, <3>1, <4>2, <5>2, Accounted DEF Inv, Targets, Updates
            <6>2. TRUE # None
              BY NoneAssumption
            <6>3. Joined(call) = Written(old, call.role, TRUE, call.byOwner)
              BY <5>2 DEF Joined
            <6> HIDE DEF old, call
            <6>4. /\ call.role \in Roles \cup {None}
                  /\ TRUE \in BOOLEAN \cup {None} /\ call.byOwner \in BOOLEAN
              BY <4>2
            <6>5. /\ Written(old, call.role, TRUE, call.byOwner) \in User
                  /\ TRUE # None =>
                       Written(old, call.role, TRUE, call.byOwner).active = TRUE
              BY <6>1, <6>4, WrittenShape
            <6> QED BY <6>2, <6>3, <6>5
          <5> QED BY <4>2, <5>1, <5>2
        <4>4. users'[call.user] = Joined(call)
                 /\ \A b \in Addresses : b # call.user => users'[b] = users[b]
          BY <1>1, <4>1, <4>2 DEF Inv, TypeOK
        <4>5. Joined(call) # None
          BY <4>3, NoneAssumption
        <4> QED BY <2>0, <4>1, <4>2, <4>3, <4>4, <4>5 DEF Active, Exists
      <3> QED BY <3>2, <3>3
    <2>9. ASSUME NEW i \in Ids, InvitationExpires(i)
          PROVE  Only
      BY <2>1, <2>9 DEF InvitationExpires
    <2>10. CASE UNCHANGED vars
      BY <2>10 DEF vars
    <2> HIDE DEF Only
    <2>11. ASSUME NEW c \in Calls, AccountStep(c)
           PROVE  Only
      BY <2>5, <2>6, <2>7, <2>11 DEF AccountStep, CheckCreate, CheckUpdate
    <2>12. ASSUME NEW c \in Calls, InvitationStep(c)
           PROVE  Only
      <3>1. CASE CreateInvitation(c)
        BY <2>1, <3>1 DEF CreateInvitation
      <3> QED BY <2>5, <2>8, <2>12, <3>1
              DEF InvitationStep, CheckInvite, CheckAccept
    <2> QED BY <1>1, <2>2, <2>3, <2>4, <2>5, <2>9, <2>10, <2>11, <2>12
            DEF Next, SessionStep, CheckLogin
  <1> QED BY <1>1, AccountsInvariant, PTL DEF Spec, InactiveGetsNoSession
=============================================================================
