-------------------------- MODULE OperationWorker --------------------------
(***************************************************************************)
(* The thread of the agent that carries out remote actions                 *)
(* (agent/cyberpme_agent/operation_worker.py), together with the table it  *)
(* works for (ManagedActions) and the HTTP calls between them.             *)
(*                                                                         *)
(* One machine, one worker: exclusive_worker() takes a file lock and the   *)
(* thread that does not get it ends.  The worker waits for the answer of   *)
(* one call at a time.  A call may be lost, its answer may be lost, and a  *)
(* call the worker gave up may still be served later.  The process may be  *)
(* killed at any point; the receipt is the only thing that survives.       *)
(***************************************************************************)
EXTENDS ManagedActions

CONSTANTS MaxLate    \* bound: abandoned calls still on their way

VARIABLES
    server_id,   \* the identity the agent is enrolled under
    pc,          \* where the worker is in process_action
    receipt,     \* the file .operation.json, or None
    call,        \* the request the worker waits for, or None
    reply,       \* the answer on its way to the worker, or None
    late,        \* abandoned requests the backend may still serve
    runs,        \* history: how often the executor was started on an action
    recorded,    \* history: the outcome once written to the receipt
    archived     \* history: the actions in operation-obsolete-*.json

worker == <<server_id, pc, receipt, call, reply, late>>
history == <<runs, recorded, archived>>
vars == <<rows, server_id, pc, receipt, call, reply, late,
          runs, recorded, archived>>

PC == {"down", "idle", "polling", "ready", "executing", "posting",
       "resending"}

Receipts == [id : Ids, result : Payloads \cup {None}]

NextCall(s) == [op |-> "next", server |-> s, id |-> 0, payload |-> None]
CompleteCall(s, a, p) ==
    [op |-> "complete", server |-> s, id |-> a, payload |-> p]

Calls == [op : {"next"}, server : Servers, id : {0}, payload : {None}]
         \cup
         [op : {"complete"}, server : Servers, id : Ids, payload : Payloads]

(* 200 with an action, 200 with nothing, 200, and 404 or 409.              *)
Replies == [code : {"action"}, id : Ids]
           \cup [code : {"nothing", "ok", "refused"}, id : {0}]

ASSUME OperationWorkerAssumption ==
    /\ MaxLate \in Nat
    /\ {"executed", "interrupted"} \subseteq Texts
    /\ None \notin Receipts \cup Calls \cup Replies \cup Payloads

(* Faulty variant: the missing result is taken for a success.              *)
InterruptedDone == [status |-> "completed", message |-> "interrupted"]

(* What the worker reports of a receipt without a result.                  *)
Interrupted == [status |-> "uncertain", message |-> "interrupted"]

ExecutorResults == [status : Outcomes, message : {"executed"}]

WorkerInit ==
    /\ Init
    /\ server_id \in Servers
    /\ pc = "idle"
    /\ receipt = None
    /\ call = None
    /\ reply = None
    /\ late = {}
    /\ runs = [a \in Ids |-> 0]
    /\ recorded = [a \in Ids |-> None]
    /\ archived = {}

-----------------------------------------------------------------------------
(* The worker.                                                             *)

(* A new cycle: a receipt is reported before anything else is asked for.   *)
Poll ==
    /\ pc = "idle"
    /\ receipt = None
    /\ pc' = "polling"
    /\ call' = NextCall(server_id)
    /\ UNCHANGED <<rows, server_id, receipt, reply, late, history>>

(* Faulty variant: an interrupted action is started again.                 *)
ResumeInterrupted ==
    /\ pc = "idle"
    /\ receipt # None
    /\ pc' = "ready"
    /\ UNCHANGED <<rows, server_id, receipt, call, reply, late, history>>

Resend ==
    /\ pc = "idle"
    /\ receipt # None
    /\ pc' = "resending"
    /\ call' = CompleteCall(server_id, receipt.id,
                   IF receipt.result = None THEN Interrupted
                                            ELSE receipt.result)
    /\ UNCHANGED <<rows, server_id, receipt, reply, late, history>>

Answered == call' = None /\ reply' = None

NothingToDo ==
    /\ pc = "polling"
    /\ reply # None /\ reply.code = "nothing"
    /\ pc' = "idle"
    /\ Answered
    /\ UNCHANGED <<rows, server_id, receipt, late, history>>

(* The receipt is on disk before the executor is called.                   *)
WriteReceipt ==
    /\ pc = "polling"
    /\ reply # None /\ reply.code = "action"
    /\ receipt' = [id |-> reply.id, result |-> None]
    /\ pc' = "ready"
    /\ Answered
    /\ UNCHANGED <<rows, server_id, late, history>>

Execute ==
    /\ pc = "ready"
    /\ pc' = "executing"
    /\ runs' = [runs EXCEPT ![receipt.id] = @ + 1]
    /\ UNCHANGED <<rows, server_id, receipt, call, reply, late,
                   recorded, archived>>

(* The executor returns, its result is saved, then posted.                 *)
Finish(p) ==
    /\ pc = "executing"
    /\ receipt' = [receipt EXCEPT !.result = p]
    /\ recorded' = [recorded EXCEPT ![receipt.id] = p]
    /\ pc' = "posting"
    /\ call' = CompleteCall(server_id, receipt.id, p)
    /\ UNCHANGED <<rows, server_id, reply, late, runs, archived>>

(* The result cannot be written (disk full): the cycle ends in start_worker*)
(* and the receipt keeps no result.                                        *)
FinishUnsaved ==
    /\ pc = "executing"
    /\ pc' = "idle"
    /\ UNCHANGED <<rows, server_id, receipt, call, reply, late, history>>

(* Faulty variants: a refusal counts as delivery, or the receipt is kept.  *)
AcknowledgedEitherWay ==
    /\ pc \in {"posting", "resending"}
    /\ reply # None
    /\ receipt' = None
    /\ pc' = "idle"
    /\ call' = None /\ reply' = None
    /\ UNCHANGED <<rows, server_id, late, history>>

AcknowledgedNotRemoved ==
    /\ pc \in {"posting", "resending"}
    /\ reply # None /\ reply.code = "ok"
    /\ pc' = "idle"
    /\ call' = None /\ reply' = None
    /\ UNCHANGED <<rows, server_id, receipt, late, history>>

Acknowledged ==
    /\ pc \in {"posting", "resending"}
    /\ reply # None /\ reply.code = "ok"
    /\ receipt' = None
    /\ pc' = "idle"
    /\ Answered
    /\ UNCHANGED <<rows, server_id, late, history>>

(* Only a resent result is given up when the backend refuses it.           *)
Archive ==
    /\ pc = "resending"
    /\ reply # None /\ reply.code = "refused"
    /\ archived' = archived \cup {receipt.id}
    /\ receipt' = None
    /\ pc' = "idle"
    /\ Answered
    /\ UNCHANGED <<rows, server_id, late, runs, recorded>>

(* What becomes of the call the worker no longer waits for: lost, or late. *)
LeaveCall ==
    /\ Answered
    /\ \/ late' = late
       \/ /\ call # None /\ reply = None
          /\ Cardinality(late) < MaxLate
          /\ late' = late \cup {call}

(* Any exception of request(), or of the file operation that follows its   *)
(* answer, ends the cycle; start_worker catches it.                        *)
Abandon ==
    /\ pc \in {"polling", "posting", "resending"}
    /\ pc' = "idle"
    /\ LeaveCall
    /\ UNCHANGED <<rows, server_id, receipt, history>>

Crash ==
    /\ pc # "down"
    /\ pc' = "down"
    /\ LeaveCall
    /\ UNCHANGED <<rows, server_id, receipt, history>>

Restart ==
    /\ pc = "down"
    /\ pc' = "idle"
    /\ UNCHANGED <<rows, server_id, receipt, call, reply, late, history>>

(* The stopped agent is enrolled anew, as the same machine or as another;  *)
(* its state directory, and the receipt in it, stay.                       *)
Enroll(s) ==
    /\ pc = "down"
    /\ server_id' = s
    /\ UNCHANGED <<rows, pc, receipt, call, reply, late, history>>

-----------------------------------------------------------------------------
(* The backend serves the call the worker waits for, or a late one.        *)

Answer(code, id) ==
    /\ reply' = [code |-> code, id |-> id]
    /\ UNCHANGED <<server_id, pc, receipt, call, late, history>>

Pending(op) == call # None /\ reply = None /\ call.op = op

ServeClaim ==
    /\ Pending("next")
    /\ \E a \in Ids : NextClaims(call.server, a) /\ Answer("action", a)

ServeNothing ==
    /\ Pending("next")
    /\ NextNothing(call.server)
    /\ Answer("nothing", 0)

ServeResult ==
    /\ Pending("complete")
    /\ Complete(call.server, call.id, call.payload)
    /\ Answer("ok", 0)

ServeSameAgain ==
    /\ Pending("complete")
    /\ SameAgain(call.server, call.id, call.payload)
    /\ Answer("ok", 0)
    /\ UNCHANGED rows

ServeRefusal ==
    /\ Pending("complete")
    /\ ~Records(call.server, call.id)
    /\ ~SameAgain(call.server, call.id, call.payload)
    /\ Answer("refused", 0)
    /\ UNCHANGED rows

ServeLate(c) ==
    /\ c \in late
    /\ late' = late \ {c}
    /\ \/ /\ c.op = "next"
          /\ \/ \E a \in Ids : NextClaims(c.server, a)
             \/ NextNothing(c.server)
       \/ /\ c.op = "complete"
          /\ Complete(c.server, c.id, c.payload)
       \/ /\ c.op = "complete"
          /\ ~Records(c.server, c.id)
          /\ UNCHANGED rows
    /\ UNCHANGED <<server_id, pc, receipt, call, reply, history>>

-----------------------------------------------------------------------------

(* The browser's handlers and the clock do not touch the worker.           *)
Browser == UserStep /\ UNCHANGED <<worker, history>>
Time == Tick /\ UNCHANGED <<worker, history>>

WorkerStep ==
    \/ Poll \/ Resend \/ NothingToDo \/ WriteReceipt \/ Execute
    \/ \E p \in ExecutorResults : Finish(p)
    \/ Acknowledged \/ Archive

Serve ==
    \/ ServeClaim \/ ServeNothing
    \/ ServeResult \/ ServeSameAgain \/ ServeRefusal

Fault ==
    \/ FinishUnsaved \/ Abandon \/ Crash
    \/ \E s \in Servers : Enroll(s)
    \/ \E c \in late : ServeLate(c)

WorkerNext == WorkerStep \/ Serve \/ Fault \/ Restart \/ Browser \/ Time

WorkerSpec == WorkerInit /\ [][WorkerNext]_vars

-----------------------------------------------------------------------------

WorkerTypeOK ==
    /\ TypeOK
    /\ server_id \in Servers
    /\ pc \in PC
    /\ receipt \in Receipts \cup {None}
    /\ call \in Calls \cup {None}
    /\ reply \in Replies \cup {None}
    /\ late \subseteq Calls
    /\ runs \in [Ids -> Nat]
    /\ recorded \in [Ids -> Payloads \cup {None}]
    /\ archived \subseteq Ids

(* "A process kill may lose a result, never cause replay": whatever is     *)
(* killed, lost, late or retried, an action is executed at most once.      *)
ExecutedOnce == \A a \in Ids : runs[a] <= 1

(* What was withdrawn or ran out before it was picked up has not been and  *)
(* will not be executed, and what was executed had an approval.            *)
WithdrawnNeverRan ==
    \A a \in Ids : runs[a] > 0 =>
        /\ rows[a].status \in Dispatched
        /\ rows[a].approver \in {"owner", "admin"}

(* A final verdict in the table is the one the executor of the machine     *)
(* returned and wrote down; nothing is reported done that was not.         *)
VerdictIsReal ==
    \A a \in Ids : rows[a].status \in {"completed", "failed"} =>
        /\ runs[a] = 1
        /\ recorded[a] # None
        /\ recorded[a].status = rows[a].status

(* A result that reached the disk reaches the table: once the receipt is   *)
(* gone and was not archived, the table holds that result.                 *)
SavedResultArrives ==
    \A a \in Ids :
        /\ recorded[a] # None
        /\ receipt = None \/ receipt.id # a
        /\ a \notin archived
        => rows[a].status = recorded[a].status

(* An executed action the table still shows running is one the machine     *)
(* holds a receipt of, so its result is still going to be sent.            *)
RunningIsAccounted ==
    \A a \in Ids :
        rows[a].status = "running" /\ runs[a] > 0 =>
            \/ receipt # None /\ receipt.id = a
            \/ a \in archived

ArchivesForeign == \A a \in archived' \ archived : rows[a].server # server_id

(* Only a machine enrolled elsewhere in the meantime has its result        *)
(* refused and archived.                                                   *)
ArchivedIsForeign == [][ArchivesForeign]_vars

-----------------------------------------------------------------------------
(* The promise this system keeps.                                          *)

PhaseOf(status) ==
    IF status = "absent" THEN "unknown"
    ELSE IF status = "approved" THEN "granted"
    ELSE IF status \in {"running", "uncertain"} THEN "handed"
    ELSE IF status \in {"completed", "failed"} THEN "settled"
    ELSE IF status = "cancelled" THEN "withdrawn"
    ELSE status

Contract == INSTANCE ActionContract WITH
    Actions <- Ids,
    phase <- [a \in Ids |-> PhaseOf(rows[a].status)],
    carried <- {a \in Ids : runs[a] > 0}

(* Table, worker, receipt and unreliable calls together keep the contract: *)
(* decided, handed over, carried out once, settled only when carried out.  *)
KeepsContract == Contract!ContractSpec

-----------------------------------------------------------------------------
(* Fairness.  The agent is a service that is restarted, and its loop       *)
(* repeats a cycle for ever; a call that is tried again and again is       *)
(* answered in the end, and an agent that is restarted again and again     *)
(* gets through a cycle in the end.  Every command of the executor has a   *)
(* timeout.  Time passes.  Nobody is obliged to look at the dashboard.     *)
ExecutorReturns == FinishUnsaved \/ \E p \in ExecutorResults : Finish(p)

Fairness ==
    /\ WF_vars(Time)
    /\ WF_vars(Restart)
    /\ SF_vars(Poll) /\ SF_vars(Resend)
    /\ SF_vars(NothingToDo) /\ SF_vars(WriteReceipt) /\ SF_vars(Execute)
    /\ WF_vars(ExecutorReturns)
    /\ SF_vars(Acknowledged) /\ SF_vars(Archive)
    /\ SF_vars(Serve)

FairSpec == WorkerSpec /\ Fairness

(* A receipt does not stay: its result is delivered, or refused for good,  *)
(* and the machine goes back to asking for work.                           *)
ReceiptClears == receipt # None ~> receipt = None

(* An action does not block its server for ever, even when the machine     *)
(* lost it between the answer and the receipt.                             *)
RunningEnds ==
    \A a \in Ids : rows[a].status = "running" ~> rows[a].status # "running"
=============================================================================
