------------------------------ MODULE Accounts ------------------------------
(***************************************************************************)
(* The accounts of one organisation, their sessions and invitations        *)
(* (backend/app/main.py).                                                  *)
(*                                                                         *)
(* Every handler reads rows without a lock, checks them, and commits a     *)
(* moment later: an update writes the columns whose value differs from the *)
(* one that was read, an insert fails if the address has an account.       *)
(*                                                                         *)
(* Passwords and second factors only refuse and do not appear here; the    *)
(* latter are the subject of SecondFactor.                                 *)
(***************************************************************************)
EXTENDS Integers, FiniteSets

CONSTANTS
    Addresses,        \* the e-mail addresses
    Owner,            \* the one of the bootstrap account
    Roles,            \* the roles that may be given
    Calls,            \* the handlers that may be under way
    MaxInvitations,   \* bound: invitations that may be created
    None, Closed

ASSUME AccountsAssumption ==
    /\ Owner \in Addresses
    /\ "admin" \in Roles
    /\ "owner" \notin Roles
    /\ IsFiniteSet(Calls)
    /\ MaxInvitations \in Nat
    /\ None \notin Roles
    /\ None # Closed

VARIABLES
    users,         \* the table of users, by address
    sessions,      \* the accounts that have a session
    invitations,   \* the table of invitations, in the order of creation
    calls,         \* the handlers between their reads and their commit
    accepted,      \* history: how often each invitation was accepted
    made           \* history: the invitations that made an account

history == <<accepted, made>>
vars == <<users, sessions, invitations, calls, accepted, made>>

Ids == 1 .. MaxInvitations
Existing == {i \in Ids : invitations[i] # None}
Open == {i \in Existing : invitations[i] # Closed}

User == [role : Roles \cup {"owner"}, active : BOOLEAN,
         byOwner : BOOLEAN]       \* history: the owner made it "admin"
(* One that was accepted or revoked is Closed: nothing uses it again.      *)
Invitation == [email : Addresses, role : Roles, byOwner : BOOLEAN,
               expired : BOOLEAN,
               by : Calls]        \* history: the handler that created it

LoginCall == [kind : {"login"}, user : Addresses]
CreateCall == [kind : {"create"}, byOwner : BOOLEAN, user : Addresses,
               role : Roles]
UpdateCall == [kind : {"update"}, byOwner : BOOLEAN, user : Addresses,
               role : Roles \cup {None}, active : BOOLEAN \cup {None},
               ends : BOOLEAN]
InviteCall == [kind : {"invite"}, byOwner : BOOLEAN, user : Addresses,
               role : Roles, previous : SUBSET Ids]
AcceptCall == [kind : {"accept"}, byOwner : BOOLEAN, user : Addresses,
               role : Roles \cup {None}, insert : BOOLEAN, id : Ids]
Call == LoginCall \cup CreateCall \cup UpdateCall \cup InviteCall
                  \cup AcceptCall

ASSUME NoneAssumption == None \notin BOOLEAN \cup User \cup Invitation

TypeOK ==
    /\ users \in [Addresses -> User \cup {None}]
    /\ sessions \subseteq Addresses
    /\ invitations \in [Ids -> Invitation \cup {None, Closed}]
    /\ calls \in [Calls -> Call \cup {None}]
    /\ accepted \in [Ids -> Nat]
    /\ made \subseteq Ids

(* lifespan has created the owner.                                         *)
Init ==
    /\ users = [a \in Addresses |->
                  IF a = Owner THEN [role |-> "owner", active |-> TRUE,
                                     byOwner |-> FALSE] ELSE None]
    /\ sessions = {}
    /\ invitations = [i \in Ids |-> None]
    /\ calls = [c \in Calls |-> None]
    /\ accepted = [i \in Ids |-> 0]
    /\ made = {}

Begin(c, call) ==
    /\ calls[c] = None
    /\ calls' = [calls EXCEPT ![c] = call]
    /\ UNCHANGED <<users, sessions, invitations, history>>

Is(c, kind) == calls[c] # None /\ calls[c].kind = kind
Ended(c) == [calls EXCEPT ![c] = None]

Exists(a) == users[a] # None
Active(a) == Exists(a) /\ users[a].active

(* require_user and require_role: an owner or an administrator calls.      *)
Manager(a) ==
    /\ a \in sessions
    /\ Active(a)
    /\ users[a].role \in {"owner", "admin"}

(* Faulty variant: an administrator may name another.                      *)
MayGiveAny(a, role) == Manager(a)

MayGive(a, role) ==
    /\ Manager(a)
    /\ users[a].role = "admin" => role # "admin"

Names(actor, role) == role = "admin" /\ users[actor].role = "owner"

-----------------------------------------------------------------------------
(* Sessions.                                                               *)

CheckLogin(c, a) ==
    /\ Active(a)
    /\ Begin(c, [kind |-> "login", user |-> a])

Login(c) ==
    /\ Is(c, "login")
    /\ sessions' = sessions \cup {calls[c].user}
    /\ calls' = Ended(c)
    /\ UNCHANGED <<users, invitations, history>>

(* logout from the last session, or it expires.                            *)
Logout(a) ==
    /\ a \in sessions
    /\ sessions' = sessions \ {a}
    /\ UNCHANGED <<users, invitations, calls, history>>

ChangePassword(a) ==
    /\ a \in sessions
    /\ Active(a)
    /\ sessions' = sessions \ {a}
    /\ UNCHANGED <<users, invitations, calls, history>>

(* recover_bootstrap_owner and the synchronisation in login, which changes *)
(* the password and leaves the account the active owner it is.             *)
RecoverOwner ==
    /\ sessions' = sessions \ {Owner}
    /\ UNCHANGED <<users, invitations, calls, history>>

-----------------------------------------------------------------------------
(* Accounts.                                                               *)

(* An address that has an account keeps it, and the request is refused.    *)
CheckCreate(c, actor, a, role) ==
    /\ MayGive(actor, role)
    /\ ~Exists(a)
    /\ Begin(c, [kind |-> "create", byOwner |-> Names(actor, role),
                 user |-> a, role |-> role])

CreateUser(c) ==
    /\ Is(c, "create")
    /\ users' = IF Exists(calls[c].user) THEN users
                ELSE [users EXCEPT ![calls[c].user] =
                        [role |-> calls[c].role, active |-> TRUE,
                         byOwner |-> calls[c].byOwner]]
    /\ calls' = Ended(c)
    /\ UNCHANGED <<sessions, invitations, history>>

(* A column is written if its value differs from the one that was read;    *)
(* None is no change.                                                      *)
Column(asked, read) == IF asked = read THEN None ELSE asked

(* The request gives a role, or whether the account is active, or both.    *)
CheckUpdate(c, actor, a) ==
    /\ Manager(actor)
    /\ Exists(a)
    /\ a # actor /\ users[a].role # "owner"
    /\ \E role \in Roles \cup {None}, active \in BOOLEAN \cup {None} :
          /\ role # None \/ active # None
          /\ users[actor].role = "admin" =>
                users[a].role # "admin" /\ role # "admin"
          /\ Begin(c, [kind |-> "update",
                       byOwner |-> role # users[a].role /\ Names(actor, role),
                       user |-> a, role |-> Column(role, users[a].role),
                       active |-> Column(active, users[a].active),
                       ends |-> active = FALSE])

Written(row, role, active, byOwner) ==
    [role |-> IF role = None THEN row.role ELSE role,
     byOwner |-> IF role = None THEN row.byOwner ELSE byOwner,
     active |-> IF active = None THEN row.active ELSE active]

Updated(c) ==
    LET call == calls[c]
    IN  [users EXCEPT ![call.user] =
           Written(@, call.role, call.active, call.byOwner)]

(* Faulty variant: the sessions of a deactivated account stay.             *)
UpdateUserOnly(c) ==
    /\ Is(c, "update")
    /\ users' = Updated(c)
    /\ calls' = Ended(c)
    /\ UNCHANGED <<sessions, invitations, history>>

UpdateUser(c) ==
    /\ Is(c, "update")
    /\ users' = Updated(c)
    /\ sessions' = IF calls[c].ends THEN sessions \ {calls[c].user}
                                    ELSE sessions
    /\ calls' = Ended(c)
    /\ UNCHANGED <<invitations, history>>

-----------------------------------------------------------------------------
(* Invitations.                                                            *)

For(a) == {i \in Open : invitations[i].email = a}

(* Faulty variant: the links that have expired are taken for the open ones. *)
PreviousOfExpired(a) == {i \in For(a) : invitations[i].expired}

Previous(a) == For(a)

CheckInvite(c, actor, a, role) ==
    /\ MayGive(actor, role)
    /\ ~Active(a)
    /\ Begin(c, [kind |-> "invite", byOwner |-> Names(actor, role),
                 user |-> a, role |-> role, previous |-> Previous(a)])

CreateInvitation(c) ==
    /\ Is(c, "invite")
    /\ Existing # Ids
    /\ LET call == calls[c]
           n == Cardinality(Existing) + 1
           new == [email |-> call.user, role |-> call.role,
                   byOwner |-> call.byOwner, expired |-> FALSE, by |-> c]
       IN  invitations' = [i \in Ids |->
              IF i = n THEN new
              ELSE IF i \in call.previous THEN Closed ELSE invitations[i]]
    /\ calls' = Ended(c)
    /\ UNCHANGED <<users, sessions, history>>

InvitationExpires(i) ==
    /\ i \in Open
    /\ ~invitations[i].expired
    /\ invitations' = [invitations EXCEPT ![i].expired = TRUE]
    /\ UNCHANGED <<users, sessions, calls, history>>

CheckAccept(c, i) ==
    /\ i \in Open
    /\ ~invitations[i].expired
    /\ ~Active(invitations[i].email)
    /\ LET invitation == invitations[i]
           a == invitation.email
           role == invitation.role
       IN  Begin(c, [kind |-> "accept", user |-> a, insert |-> ~Exists(a),
                     role |-> IF Exists(a) THEN Column(role, users[a].role)
                                           ELSE role,
                     byOwner |-> invitation.byOwner, id |-> i])

(* Faulty variant: an account that has appeared meanwhile is taken over.   *)
MayAcceptOver(call) == TRUE

(* The account is inserted, which fails if there is one, or updated.       *)
MayAccept(call) == call.insert => ~Exists(call.user)

Joined(call) ==
    IF call.insert
    THEN [role |-> call.role, active |-> TRUE, byOwner |-> call.byOwner]
    ELSE Written(users[call.user], call.role, TRUE, call.byOwner)

AcceptInvitation(c) ==
    /\ Is(c, "accept")
    /\ LET call == calls[c] IN
       IF MayAccept(call)
       THEN /\ users' = [users EXCEPT ![call.user] = Joined(call)]
            /\ invitations' = [invitations EXCEPT ![call.id] = Closed]
            /\ sessions' = sessions \cup {call.user}
            /\ accepted' = [accepted EXCEPT ![call.id] = @ + 1]
            /\ made' = IF call.insert THEN made \cup {call.id} ELSE made
       ELSE UNCHANGED <<users, invitations, sessions, history>>
    /\ calls' = Ended(c)

-----------------------------------------------------------------------------

SessionStep ==
    \/ \E c \in Calls : Login(c) \/ \E a \in Addresses : CheckLogin(c, a)
    \/ \E a \in Addresses : Logout(a) \/ ChangePassword(a)
    \/ RecoverOwner

AccountStep(c) ==
    \/ \E actor, a \in Addresses :
          \/ \E role \in Roles : CheckCreate(c, actor, a, role)
          \/ CheckUpdate(c, actor, a)
    \/ CreateUser(c) \/ UpdateUser(c)

InvitationStep(c) ==
    \/ \E actor, a \in Addresses, role \in Roles :
          CheckInvite(c, actor, a, role)
    \/ CreateInvitation(c)
    \/ \E i \in Ids : CheckAccept(c, i)
    \/ AcceptInvitation(c)

Next ==
    \/ SessionStep
    \/ \E c \in Calls : AccountStep(c) \/ InvitationStep(c)
    \/ \E i \in Ids : InvitationExpires(i)

Spec == Init /\ [][Next]_vars

-----------------------------------------------------------------------------

(* README 104, architecture-commerciale 34: an invitation is for one use.  *)
(* One that makes an account is accepted that once, however often it is    *)
(* posted at the same time, and by no one later.  One that reactivates an  *)
(* account is left out: accepted_at is not looked at again before the      *)
(* commit (main.py 909-914), so that all who read it as open may use it,   *)
(* each setting the password and opening a session.                        *)
InvitationOnce == \A i \in made : accepted[i] <= 1

(* architecture-commerciale 28-31: administrators are the owner's affair.  *)
(* Whoever is one was made one by the owner, by whatever way the role      *)
(* reached the account: created with it, changed to it, or invited.        *)
AdminByOwner ==
    \A a \in Addresses :
        Exists(a) /\ users[a].role = "admin" => users[a].byOwner

(* README 103: a new invitation revokes the one before it, so that one     *)
(* link is open for an address.  Handlers that cross do not see what the   *)
(* other creates: each may leave one, and the links open for an address    *)
(* are never more than the handlers that can be under way at a time.       *)
OneLinkEach == \A a \in Addresses : Cardinality(For(a)) <= Cardinality(Calls)

(* architecture-commerciale 32: deactivating an account ends its sessions. *)
(* No step leaves a deactivated account with a session it had not as one,  *)
(* but the commit of a login that had found the account active.            *)
InactiveGetsNoSession ==
    [][\A a \in sessions' :
          Active(a)' \/ (a \in sessions /\ ~Active(a))
                     \/ \E c \in Calls : Is(c, "login") /\ ~Is(c, "login")'
                                         /\ calls[c].user = a]_vars
=============================================================================
