---------------------------- MODULE NetworkScans ----------------------------
(***************************************************************************)
(* The network audits of one organization: table network_scans and the     *)
(* handlers of backend/app/main.py that change it.                         *)
(*                                                                         *)
(* A handler is one step where a lock or a compare-and-swap makes it one:  *)
(* create locks the organization's row, a claim updates a row only while   *)
(* it is pending, expiry is a single UPDATE.  The completion is two steps: *)
(* it reads the status without a lock, and what it writes later overwrites *)
(* whatever happened in between.                                           *)
(***************************************************************************)
EXTENDS Integers, FiniteSets

CONSTANTS
    Agents,       \* the servers of the organization that may scan
    MaxScans,     \* bound: scans requested in a behaviour
    Lifetime,     \* units of time a requested scan may stay open
    None

ASSUME NetworkScansAssumption ==
    /\ MaxScans \in Nat
    /\ Lifetime \in Nat

VARIABLES
    scans,    \* the table, in the order of requested_at
    writing   \* completions between their check and their write

Ids == 1 .. MaxScans
Active == {"pending", "running"}
Results == {"completed", "failed"}

Absent == [status |-> "absent", agent |-> None, age |-> 0, error |-> None]

(* error: None, the agent's message, or that the agent was too late.       *)
Row == [status : Active \cup Results, agent : Agents,
        age : 0 .. Lifetime + 1, error : {None, "agent", "expired"}]

(* late: the request has been given up by the agent that made it.          *)
Handlers == [id : Ids, result : Results, late : BOOLEAN]

Init ==
    /\ scans = [s \in Ids |-> Absent]
    /\ writing = {}

-----------------------------------------------------------------------------

(* Faulty variant: a running scan never expires.                           *)
ExpiredPending(r) ==
    IF r.status = "pending" /\ r.age > Lifetime
    THEN [r EXCEPT !.status = "failed", !.error = "expired"] ELSE r

Expired(r) ==
    IF r.status \in Active /\ r.age > Lifetime
    THEN [r EXCEPT !.status = "failed", !.error = "expired"] ELSE r

(* expire_network_scan_jobs.                                               *)
AfterExpiry == [s \in Ids |-> Expired(scans[s])]

(* Faulty variant: only running scans count.                               *)
OpenRunning == {s \in Ids : AfterExpiry[s].status = "running"}
Open == {s \in Ids : AfterExpiry[s].status \in Active}

NewRow(g) == [status |-> "pending", agent |-> g, age |-> 0, error |-> None]

(* A refused request rolls its expiry back, so it changes nothing.         *)
Create(s, g) ==
    /\ scans[s].status = "absent"
    /\ \A t \in Ids : t < s => scans[t].status # "absent"
    /\ Open = {}
    /\ scans' = [AfterExpiry EXCEPT ![s] = NewRow(g)]
    /\ UNCHANGED writing

List ==
    /\ scans' = AfterExpiry
    /\ UNCHANGED writing

(* Faulty variant: a running scan may be taken once more.                  *)
WaitingOrRunning(g) ==
    {s \in Ids : AfterExpiry[s].status \in Active /\ AfterExpiry[s].agent = g}

Waiting(g) ==
    {s \in Ids : AfterExpiry[s].status = "pending" /\ AfterExpiry[s].agent = g}

Running(r) == [r EXCEPT !.status = "running", !.error = None]

Claim(g, s) ==
    /\ s \in Waiting(g)
    /\ \A t \in Waiting(g) : s <= t
    /\ scans' = [AfterExpiry EXCEPT ![s] = Running(@)]
    /\ UNCHANGED writing

ClaimNothing(g) ==
    /\ Waiting(g) = {}
    /\ scans' = AfterExpiry
    /\ UNCHANGED writing

(* What the completion handler answers after its check.                    *)
SameAgain(s, result) == scans[s].status = result
Checked(s, result) == ~SameAgain(s, result) /\ scans[s].status = "running"

CompleteChecks(h) ==
    /\ Checked(h.id, h.result)
    /\ writing' = writing \cup {h}
    /\ UNCHANGED scans

(* A success leaves the error column alone: None was read, None is set.    *)
Reported(r, result) ==
    [r EXCEPT !.status = result,
              !.error = IF result = "failed" THEN "agent" ELSE @]

CompleteWrites(h) ==
    /\ h \in writing
    /\ scans' = [scans EXCEPT ![h.id] = Reported(@, h.result)]
    /\ writing' = writing \ {h}

Older(r) ==
    IF r.status \in Active /\ r.age <= Lifetime
    THEN [r EXCEPT !.age = @ + 1] ELSE r

Tick ==
    /\ scans' = [s \in Ids |-> Older(scans[s])]
    /\ UNCHANGED writing

-----------------------------------------------------------------------------

UserStep ==
    \/ \E s \in Ids, g \in Agents : Create(s, g)
    \/ List

AgentStep ==
    \/ \E g \in Agents : ClaimNothing(g) \/ \E s \in Ids : Claim(g, s)
    \/ \E h \in Handlers : CompleteChecks(h) \/ CompleteWrites(h)

Next == UserStep \/ AgentStep \/ Tick

table == <<scans, writing>>

Spec == Init /\ [][Next]_table

-----------------------------------------------------------------------------

TypeOK ==
    /\ scans \in [Ids -> Row \cup {Absent}]
    /\ writing \subseteq Handlers

(* However requests, claims and answers interleave, the organization never *)
(* has two open audits.                                                    *)
OneActiveScan ==
    \A s, t \in Ids :
        scans[s].status \in Active /\ scans[t].status \in Active => s = t

=============================================================================
