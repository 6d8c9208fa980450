--------------------------- MODULE ManagedActions ---------------------------
(***************************************************************************)
(* The table of remote actions an organisation keeps for its agents        *)
(* (backend/app/managed_actions.py) and the handlers that change it.  A    *)
(* user proposes an action, an owner or an administrator approves it, the  *)
(* agent of the server claims it and later reports a result.               *)
(*                                                                         *)
(* Every handler reads the row it changes with SELECT ... FOR UPDATE and   *)
(* commits once, so one handler is one step.  Several backend processes    *)
(* serve requests at the same time: any handler may come at any moment.    *)
(*                                                                         *)
(* Time is kept as what is left of it: `ttl' is expires_at - now, which    *)
(* stops at 0, and `age' is now - started_at, which stops one past         *)
(* RunLimit.  The code compares these dates with `now' and with nothing    *)
(* else, so the model needs no calendar and no last day.                   *)
(***************************************************************************)
EXTENDS Integers, FiniteSets

CONSTANTS
    Servers,         \* the monitored machines of one organisation
    Addresses,       \* public IPv4 sources of IDS events
    None,            \* a NULL column
    MaxActions,      \* bound: how many rows are ever inserted
    BlockDurations,  \* the duration_minutes a block may be proposed with
    PickupWindow,    \* 30 minutes: what an approval without duration lasts
    RunLimit,        \* 3 hours: a silent running action is then uncertain
    Roles,           \* the roles of the users who act
    Texts            \* the messages an agent may report

ASSUME ManagedActionsAssumption ==
    /\ MaxActions \in Nat
    /\ BlockDurations \subseteq Nat \ {0}
    /\ PickupWindow \in Nat \ {0}
    /\ RunLimit \in Nat
    /\ Roles \subseteq {"owner", "admin", "analyst", "viewer"}
    /\ None \notin Servers \cup Addresses \cup Texts

VARIABLE rows        \* the table; ids grow in the order of created_at

Ids == 1..MaxActions

Proposers == {"owner", "admin", "analyst"}

Deciders == {"owner", "admin"}

(* "backup" stands for the two local backup operations, which the backend  *)
(* handles alike.                                                          *)
Kinds == {"backup", "firewall_block", "firewall_unblock"}

(* A row that was handed to an agent, whatever became of it.               *)
Dispatched == {"running", "uncertain", "completed", "failed"}
Status == {"absent", "proposed", "approved", "cancelled"} \cup Dispatched
Final == {"completed", "failed", "cancelled"}

Outcomes == {"completed", "failed", "uncertain"}
Payloads == [status : Outcomes, message : Texts]

Row == [status : Status,
        kind : Kinds,
        server : Servers \cup {None},
        source_ip : Addresses \cup {None},
        parent : Ids \cup {0},
        duration : Nat,
        approver : {"owner", "admin"} \cup {None},
        ttl : Nat,
        age : 0..(RunLimit + 1),
        result : Texts \cup {None, "pickup expired", "no report"}]

Absent == [status |-> "absent", kind |-> "backup", server |-> None,
           source_ip |-> None, parent |-> 0, duration |-> 0,
           approver |-> None, ttl |-> 0, age |-> 0, result |-> None]

Init == rows = [a \in Ids |-> Absent]

-----------------------------------------------------------------------------
(* Helpers over a table t.                                                 *)

(* The id the next INSERT takes.                                           *)
IsNext(a) ==
    /\ rows[a].status = "absent"
    /\ \A b \in Ids : b < a => rows[b].status # "absent"

PickupOver(r) == r.status = "approved" /\ r.ttl = 0

(* Faulty variant: a silent action runs for ever.                          *)
RunNeverOver(r) == FALSE
RunOver(r) == r.status = "running" /\ r.age > RunLimit

(* Faulty variant: a silent action is put back in the queue.               *)
OverdueRequeued(r) ==
    IF PickupOver(r) THEN [r EXCEPT !.status = "cancelled"]
    ELSE IF RunOver(r) THEN [r EXCEPT !.status = "approved", !.age = 0]
    ELSE r

(* expire(): the two UPDATEs that run before a listing and before a poll.  *)
Overdue(r) ==
    IF PickupOver(r)
    THEN [r EXCEPT !.status = "cancelled", !.result = "pickup expired"]
    ELSE IF RunOver(r)
    THEN [r EXCEPT !.status = "uncertain", !.result = "no report", !.age = 0]
    ELSE r

Expire(t) == [a \in Ids |-> Overdue(t[a])]

Live == {"approved", "running", "completed", "uncertain"}

(* Faulty variants: only grants not yet applied count, or only blocks.     *)
DuplicateInFlight(a, b) ==
    /\ b # a
    /\ rows[b].server = rows[a].server
    /\ rows[b].source_ip = rows[a].source_ip
    /\ rows[b].status \in {"approved", "running"}
    /\ rows[b].ttl > 0

DuplicateBlock(a, b) ==
    /\ b # a
    /\ rows[b].server = rows[a].server
    /\ rows[b].source_ip = rows[a].source_ip
    /\ rows[b].kind = "firewall_block"
    /\ rows[b].status \in Live
    /\ rows[b].ttl > 0

(* A grant for the address of block a that has not run out.                *)
DuplicateOf(a, b) ==
    /\ b # a
    /\ rows[b].server = rows[a].server
    /\ rows[b].source_ip = rows[a].source_ip
    /\ rows[b].kind \in {"firewall_block", "firewall_unblock"}
    /\ rows[b].status \in Live
    /\ rows[b].ttl > 0

(* Faulty variant: next_action() does not look for a running action.       *)
NeverBusy(t, s) == FALSE
Busy(t, s) == \E a \in Ids : t[a].server = s /\ t[a].status = "running"

Waiting(t, s, a) == t[a].server = s /\ t[a].status = "approved"

Oldest(t, s, a) ==
    /\ Waiting(t, s, a)
    /\ \A b \in Ids : Waiting(t, s, b) => a <= b

-----------------------------------------------------------------------------
(* The handlers a browser calls.                                           *)

Listing == rows' = Expire(rows)

Insert(r) == \E a \in Ids : IsNext(a) /\ rows' = [rows EXCEPT ![a] = r]

BackupProposal(s) == [Absent EXCEPT !.status = "proposed", !.server = s]

BlockProposal(s, ip, d) ==
    [Absent EXCEPT !.status = "proposed", !.server = s,
                   !.kind = "firewall_block", !.source_ip = ip, !.duration = d]

ProposeBackup(role, s) ==
    /\ role \in Proposers
    /\ Insert(BackupProposal(s))

ProposeBlock(role, s, ip, d) ==
    /\ role \in Proposers
    /\ Insert(BlockProposal(s, ip, d))

GrantLength(r) ==
    IF r.kind = "firewall_block" THEN r.duration ELSE PickupWindow

Granted(r, role) ==
    [r EXCEPT !.status = "approved", !.approver = role, !.ttl = GrantLength(r)]

Approve(role, a) ==
    /\ role \in Deciders
    /\ rows[a].status = "proposed"
    /\ rows[a].kind = "firewall_block" =>
           \A b \in Ids : ~DuplicateOf(a, b)
    /\ rows' = [rows EXCEPT ![a] = Granted(rows[a], role)]

Cancelled(r) == [r EXCEPT !.status = "cancelled"]

(* Faulty variant: a running action is cancelled in the table.             *)
WithdrawableOrRunning == {"proposed", "approved", "running"}
Withdrawable == {"proposed", "approved"}

(* What has not left for the agent is withdrawn.                           *)
Withdraw(role, a) ==
    /\ role \in Deciders
    /\ rows[a].status \in Withdrawable
    /\ rows' = [rows EXCEPT ![a] = Cancelled(rows[a])]

UndoneBy(a, c) == rows[c].status # "absent" /\ rows[c].parent = a

UndoOf(a, role) ==
    [Absent EXCEPT !.status = "approved", !.kind = "firewall_unblock",
                   !.server = rows[a].server, !.source_ip = rows[a].source_ip,
                   !.parent = a, !.approver = role, !.ttl = rows[a].ttl]

(* A block that has left is undone by a second action, for what is left of *)
(* the grant.  A second request finds that action and inserts nothing.     *)
Undo(role, a) ==
    /\ role \in Deciders
    /\ rows[a].kind = "firewall_block"
    /\ rows[a].status \in {"running", "completed", "uncertain"}
    /\ \A c \in Ids : ~UndoneBy(a, c)
    /\ Insert(UndoOf(a, role))

-----------------------------------------------------------------------------
(* The handlers an agent calls.                                            *)

Started(r) == [r EXCEPT !.status = "running", !.age = 0]

NextClaims(s, a) ==
    LET t == Expire(rows) IN
    /\ ~Busy(t, s)
    /\ Oldest(t, s, a)
    /\ rows' = [t EXCEPT ![a] = Started(t[a])]

NextNothing(s) ==
    LET t == Expire(rows) IN
    /\ Busy(t, s) \/ \A a \in Ids : ~Waiting(t, s, a)
    /\ rows' = t

(* Faulty variant: any report is recorded.                                 *)
RecordsAlways(s, a) == rows[a].server = s /\ rows[a].status \in Dispatched

(* What the handler answers: the result is recorded, it is the one already *)
(* recorded, or the call is refused (404 or 409).                          *)
Records(s, a) ==
    rows[a].server = s /\ rows[a].status \in {"running", "uncertain"}

SameAgain(s, a, p) ==
    /\ rows[a].server = s
    /\ rows[a].status \in {"completed", "failed"}
    /\ rows[a].status = p.status
    /\ rows[a].result = p.message

Reported(r, p) ==
    [r EXCEPT !.status = p.status, !.result = p.message, !.age = 0]

Complete(s, a, p) ==
    /\ Records(s, a)
    /\ rows' = [rows EXCEPT ![a] = Reported(rows[a], p)]

(* One unit of time passes.                                                *)
TimeLeft(r) == IF r.ttl > 0 THEN r.ttl - 1 ELSE 0

TimeRun(r) ==
    IF r.status = "running" /\ r.age <= RunLimit THEN r.age + 1 ELSE r.age

Older(r) == [r EXCEPT !.ttl = TimeLeft(r), !.age = TimeRun(r)]

Tick == rows' = [a \in Ids |-> Older(rows[a])]

-----------------------------------------------------------------------------

UserStep ==
    \/ Listing
    \/ \E role \in Roles, s \in Servers : ProposeBackup(role, s)
    \/ \E role \in Roles, s \in Servers, ip \in Addresses,
          d \in BlockDurations : ProposeBlock(role, s, ip, d)
    \/ \E role \in Roles, a \in Ids : Approve(role, a)
    \/ \E role \in Roles, a \in Ids : Withdraw(role, a)
    \/ \E role \in Roles, a \in Ids : Undo(role, a)

(* Any agent, well behaved or not, may call with its own credential.       *)
AgentStep ==
    \/ \E s \in Servers, a \in Ids : NextClaims(s, a)
    \/ \E s \in Servers : NextNothing(s)
    \/ \E s \in Servers, a \in Ids, p \in Payloads : Complete(s, a, p)

Next == UserStep \/ AgentStep \/ Tick

Spec == Init /\ [][Next]_rows

-----------------------------------------------------------------------------

TypeOK == rows \in [Ids -> Row]

(* At most one action of a server is running: an agent is never asked to   *)
(* work on two things, whichever handlers interleave (next_action and the  *)
(* Server lock it takes).                                                  *)
OneRunning ==
    \A a, b \in Ids :
        /\ rows[a].status = "running"
        /\ rows[b].status = "running"
        /\ rows[a].server = rows[b].server
        => a = b

(* For one address of one server, at most one block is authorised at a     *)
(* time, counting blocks that are waiting, running, applied or of unknown  *)
(* outcome ("Une autorisation existe deja pour cette adresse").            *)
OneGrant ==
    \A a, b \in Ids :
        /\ rows[a].kind = "firewall_block" /\ rows[b].kind = "firewall_block"
        /\ rows[a].status \in Live /\ rows[b].status \in Live
        /\ rows[a].ttl > 0 /\ rows[b].ttl > 0
        /\ rows[a].server = rows[b].server
        /\ rows[a].source_ip = rows[b].source_ip
        => a = b

(* An undo belongs to one block that was handed to the agent, aims at the  *)
(* same machine and address, and never outlives that block's grant.        *)
UndoFollowsBlock ==
    \A c \in Ids : rows[c].kind = "firewall_unblock" =>
        LET a == rows[c].parent IN
        /\ a \in Ids
        /\ rows[a].kind = "firewall_block"
        /\ rows[a].status \in Dispatched
        /\ rows[a].server = rows[c].server
        /\ rows[a].source_ip = rows[c].source_ip
        /\ rows[a].ttl = rows[c].ttl
        /\ \A d \in Ids : UndoneBy(a, d) => d = c

(* While an undo may still be handed out or is being applied, no block of  *)
(* the address but its own holds a grant: lifting cannot hit a newer one.  *)
UndoHitsOwnBlock ==
    \A c, b \in Ids :
        /\ rows[c].kind = "firewall_unblock"
        /\ rows[c].status \in {"approved", "running"}
        /\ rows[b].kind = "firewall_block"
        /\ rows[b].status \in Live
        /\ rows[b].server = rows[c].server
        /\ rows[b].source_ip = rows[c].source_ip
        /\ rows[c].ttl > 0 /\ rows[b].ttl > 0
        => b = rows[c].parent

(* Nothing reaches an agent that an owner or an administrator has not      *)
(* approved.                                                               *)
ApprovedBeforeDispatch ==
    \A a \in Ids :
        rows[a].status \in Dispatched \cup {"approved"} =>
            rows[a].approver \in {"owner", "admin"}

KeepFinal ==
    \A a \in Ids : rows[a].status \in Final =>
        /\ rows'[a].status = rows[a].status
        /\ rows'[a].result = rows[a].result

(* What is over stays as it is: a late report, a late approval or the      *)
(* expiry never rewrites a completed, failed or cancelled action.          *)
FinalStays == [][KeepFinal]_rows

OnlyForward ==
    \A a \in Ids :
        rows[a].status \in Dispatched /\ rows'[a].status # rows[a].status =>
            rows'[a].status \in {"uncertain", "completed", "failed"}

(* An action is handed out at most once: after it has been dispatched it   *)
(* is never waiting or running again, even when its outcome is unknown.    *)
NeverRedispatched == [][OnlyForward]_rows
=============================================================================
