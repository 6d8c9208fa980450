----------------------------- MODULE ScanAgent -----------------------------
(***************************************************************************)
(* The scanning loop of the agents (process_scan_job and run in            *)
(* agent/cyberpme_agent/main.py) with the table NetworkScans and the calls *)
(* between them.                                                           *)
(*                                                                         *)
(* An agent waits for one answer at a time.  A call or its answer may be   *)
(* lost, a call that was given up may still be served, the process may be  *)
(* killed.  The outbox, agent-state.result.json, is what survives; it is   *)
(* written in place, so that a kill can leave it torn.                     *)
(***************************************************************************)
EXTENDS NetworkScans

CONSTANTS
    MaxLate,     \* bound: given-up calls still on their way
    Faults       \* which of crash, tear may happen

Records == [id : Ids, result : Results]
Torn == [id |-> 0, result |-> "torn"]    \* a file that is no JSON

ASSUME ScanAgentAssumption ==
    /\ MaxLate \in Nat
    /\ Faults \subseteq {"crash", "tear"}
    /\ None \notin Results \cup Records \cup {Torn}

VARIABLES
    pc,        \* where each agent is in process_scan_job
    work,      \* the scan in its memory: [id, result], or None; the
               \* result means something once the scan has ended
    outbox,    \* its outbox file: [id, result], Torn, or None
    call,      \* the request it waits for, or None
    reply,     \* the answer on its way to it, or None
    late,      \* given-up requests the backend may still serve
    runs,      \* history: how often each scan was carried out
    found      \* history: what came of it

agent == <<pc, work, outbox, call, reply>>
history == <<runs, found>>
vars == <<scans, writing, pc, work, outbox, call, reply, late, runs, found>>

PC == {"down", "idle", "asking", "scanning", "saving", "posting",
       "resending"}

NextCall(g) == [op |-> "next", agent |-> g]
CompleteCall(w) == [op |-> "complete", record |-> w, checked |-> FALSE]
PassedCall(w) == [op |-> "complete", record |-> w, checked |-> TRUE]
Calls == [op : {"next"}, agent : Agents]
         \cup [op : {"complete"}, record : Records, checked : BOOLEAN]

Job(s) == [code |-> "job", id |-> s]
Code(c) == [code |-> c, id |-> 0]
Replies == [code : {"job"}, id : Ids]
           \cup [code : {"nothing", "ok", "refused"}, id : {0}]

AgentInit ==
    /\ Init
    /\ pc = [g \in Agents |-> "idle"]
    /\ work = [g \in Agents |-> None]
    /\ outbox = [g \in Agents |-> None]
    /\ call = [g \in Agents |-> None]
    /\ reply = [g \in Agents |-> None]
    /\ late = {}
    /\ runs = [s \in Ids |-> 0]
    /\ found = [s \in Ids |-> None]

Goes(g, where) == pc' = [pc EXCEPT ![g] = where]
Calling(g, c) == call' = [call EXCEPT ![g] = c]
Got(g, codes) == reply[g] # None /\ reply[g].code \in codes

-----------------------------------------------------------------------------
(* The agent.                                                              *)

(* Nothing to resend: ask for a scan.                                      *)
Ask(g) ==
    /\ pc[g] = "idle"
    /\ outbox[g] = None
    /\ Goes(g, "asking")
    /\ Calling(g, NextCall(g))
    /\ UNCHANGED <<table, work, outbox, reply, late, history>>

(* A torn outbox cannot be parsed: each cycle ends there.                  *)
Resend(g) ==
    /\ pc[g] = "idle"
    /\ outbox[g] \in Records
    /\ Goes(g, "resending")
    /\ Calling(g, CompleteCall(outbox[g]))
    /\ UNCHANGED <<table, work, outbox, reply, late, history>>

Answered(g) ==
    /\ call' = [call EXCEPT ![g] = None]
    /\ reply' = [reply EXCEPT ![g] = None]

NothingToDo(g) ==
    /\ pc[g] = "asking"
    /\ Got(g, {"nothing"})
    /\ Goes(g, "idle")
    /\ Answered(g)
    /\ UNCHANGED <<table, work, outbox, late, history>>

StartScan(g) ==
    /\ pc[g] = "asking"
    /\ Got(g, {"job"})
    /\ Goes(g, "scanning")
    /\ Answered(g)
    /\ runs' = [runs EXCEPT ![reply[g].id] = @ + 1]
    /\ work' = [work EXCEPT ![g] = [id |-> reply[g].id, result |-> "failed"]]
    /\ UNCHANGED <<table, outbox, late, found>>

(* The scan ends; write_text has opened, and so emptied, the outbox.       *)
EndScan(g, result) ==
    /\ pc[g] = "scanning"
    /\ Goes(g, "saving")
    /\ work' = [work EXCEPT ![g] = [id |-> @.id, result |-> result]]
    /\ found' = [found EXCEPT ![work[g].id] = result]
    /\ outbox' = [outbox EXCEPT ![g] = Torn]
    /\ UNCHANGED <<table, call, reply, late, runs>>

(* Faulty variant: the outcome of the scan is not looked at.               *)
SaveCompleted(g) ==
    /\ pc[g] = "saving"
    /\ Goes(g, "posting")
    /\ LET w == [work[g] EXCEPT !.result = "completed"] IN
          outbox' = [outbox EXCEPT ![g] = w] /\ Calling(g, CompleteCall(w))
    /\ work' = [work EXCEPT ![g] = None]
    /\ UNCHANGED <<table, reply, late, history>>

Save(g) ==
    /\ pc[g] = "saving"
    /\ Goes(g, "posting")
    /\ outbox' = [outbox EXCEPT ![g] = work[g]]
    /\ work' = [work EXCEPT ![g] = None]
    /\ Calling(g, CompleteCall(work[g]))
    /\ UNCHANGED <<table, reply, late, history>>

(* Faulty variant: any answer counts as delivery.                          *)
DeliveredEitherWay(g) ==
    /\ pc[g] \in {"posting", "resending"}
    /\ \/ Got(g, {"ok", "refused"})
       \/ reply[g] = None
    /\ Goes(g, "idle")
    /\ outbox' = [outbox EXCEPT ![g] = None]
    /\ call' = [call EXCEPT ![g] = None]
    /\ reply' = [reply EXCEPT ![g] = None]
    /\ UNCHANGED <<table, work, late, history>>

(* Faulty variant: a result that became obsolete is kept.                  *)
DeliveredOk(g) ==
    /\ pc[g] \in {"posting", "resending"}
    /\ Got(g, {"ok"})
    /\ Goes(g, "idle")
    /\ outbox' = [outbox EXCEPT ![g] = None]
    /\ call' = [call EXCEPT ![g] = None]
    /\ reply' = [reply EXCEPT ![g] = None]
    /\ UNCHANGED <<table, work, late, history>>

(* Delivered, or, for a resent result only, refused as obsolete.           *)
Delivered(g) ==
    /\ \/ pc[g] \in {"posting", "resending"} /\ Got(g, {"ok"})
       \/ pc[g] = "resending" /\ Got(g, {"refused"})
    /\ Goes(g, "idle")
    /\ outbox' = [outbox EXCEPT ![g] = None]
    /\ Answered(g)
    /\ UNCHANGED <<table, work, late, history>>

(* A fresh result that is refused ends the cycle; it is resent in the next.*)
Refused(g) ==
    /\ pc[g] = "posting"
    /\ Got(g, {"refused"})
    /\ Goes(g, "idle")
    /\ Answered(g)
    /\ UNCHANGED <<table, work, outbox, late, history>>

(* What becomes of a call nobody waits for any more: it is lost, served    *)
(* later, or, when its check is done, writes what it was about to write.   *)
Handler(w, gone) == [id |-> w.id, result |-> w.result, late |-> gone]

GiveUp(g) ==
    /\ Answered(g)
    /\ IF call[g] # None /\ reply[g] = None
       THEN IF call[g].op = "complete" /\ call[g].checked
            THEN /\ writing' = (writing \ {Handler(call[g].record, FALSE)})
                               \cup {Handler(call[g].record, TRUE)}
                 /\ UNCHANGED <<scans, late>>
            ELSE /\ UNCHANGED table
                 /\ \/ UNCHANGED late
                    \/ /\ Cardinality(late) < MaxLate
                       /\ late' = late \cup {call[g]}
       ELSE UNCHANGED <<table, late>>

(* An error of the call: caught in run, after the end of the cycle.        *)
Abandon(g) ==
    /\ pc[g] \in {"asking", "posting", "resending"}
    /\ Goes(g, "idle")
    /\ GiveUp(g)
    /\ UNCHANGED <<work, outbox, history>>

(* Killed; or, while saving, the disk is full.  tear allows it there, and  *)
(* leaves the outbox torn.                                                 *)
Crash(g) ==
    /\ "crash" \in Faults
    /\ pc[g] # "down"
    /\ pc[g] = "saving" => "tear" \in Faults
    /\ Goes(g, "down")
    /\ work' = [work EXCEPT ![g] = None]
    /\ GiveUp(g)
    /\ UNCHANGED <<outbox, history>>

Restart(g) ==
    /\ pc[g] = "down"
    /\ Goes(g, "idle")
    /\ UNCHANGED <<table, work, outbox, call, reply, late, history>>

-----------------------------------------------------------------------------
(* The backend.                                                            *)

Pending(g, op) == call[g] # None /\ reply[g] = None /\ call[g].op = op

Answer(g, r) ==
    /\ reply' = [reply EXCEPT ![g] = r]
    /\ UNCHANGED <<pc, work, outbox, late, history>>

ServeNext(g) ==
    /\ Pending(g, "next")
    /\ \/ \E s \in Ids : Claim(g, s) /\ Answer(g, Job(s))
       \/ ClaimNothing(g) /\ Answer(g, Code("nothing"))
    /\ UNCHANGED call

ServeCheck(g) ==
    /\ Pending(g, "complete")
    /\ ~call[g].checked
    /\ LET w == call[g].record IN
       \/ /\ CompleteChecks(Handler(w, FALSE))
          /\ Calling(g, PassedCall(w))
          /\ UNCHANGED <<pc, work, outbox, reply, late, history>>
       \/ /\ ~Checked(w.id, w.result)
          /\ Answer(g, IF SameAgain(w.id, w.result) THEN Code("ok")
                                                    ELSE Code("refused"))
          /\ UNCHANGED <<table, call>>

ServeWrite(g) ==
    /\ Pending(g, "complete")
    /\ call[g].checked
    /\ CompleteWrites(Handler(call[g].record, FALSE))
    /\ Answer(g, Code("ok"))
    /\ UNCHANGED call

ServeLate(c) ==
    /\ c \in late
    /\ late' = late \ {c}
    /\ IF c.op = "next"
       THEN ClaimNothing(c.agent) \/ \E s \in Ids : Claim(c.agent, s)
       ELSE \/ CompleteChecks(Handler(c.record, TRUE))
            \/ ~Checked(c.record.id, c.record.result) /\ UNCHANGED table
    /\ UNCHANGED <<agent, history>>

WriteLate(h) ==
    /\ h.late
    /\ CompleteWrites(h)
    /\ UNCHANGED <<agent, late, history>>

-----------------------------------------------------------------------------

Browser == UserStep /\ UNCHANGED <<agent, late, history>>
Time == Tick /\ UNCHANGED <<agent, late, history>>

Works(g) ==
    \/ Ask(g) \/ Resend(g) \/ NothingToDo(g) \/ StartScan(g)
    \/ \E result \in Results : EndScan(g, result)
    \/ Save(g) \/ Delivered(g) \/ Refused(g) \/ Restart(g)

Serves(g) == ServeNext(g) \/ ServeCheck(g) \/ ServeWrite(g)

Fails(g) == Abandon(g) \/ Crash(g)

AgentNext ==
    \/ \E g \in Agents : Works(g) \/ Serves(g) \/ Fails(g)
    \/ \E c \in late : ServeLate(c)
    \/ \E h \in writing : WriteLate(h)
    \/ Browser
    \/ Time

AgentSpec == AgentInit /\ [][AgentNext]_vars

(* The agent is restarted and goes on; it is not killed, nor is its call   *)
(* lost, each time at the same point; time passes.                         *)
Fairness ==
    /\ \A g \in Agents :
          /\ WF_vars(Works(g))
          /\ SF_vars(Ask(g) \/ Resend(g))
          /\ SF_vars(Serves(g))
          /\ SF_vars(ServeWrite(g))
          /\ SF_vars(NothingToDo(g) \/ StartScan(g))
          /\ SF_vars(Delivered(g))
    /\ WF_vars(\E h \in writing : WriteLate(h))
    /\ WF_vars(Time)

FairSpec == AgentSpec /\ Fairness

-----------------------------------------------------------------------------

AgentTypeOK ==
    /\ TypeOK
    /\ pc \in [Agents -> PC]
    /\ work \in [Agents -> Records \cup {None}]
    /\ outbox \in [Agents -> Records \cup {Torn, None}]
    /\ call \in [Agents -> Calls \cup {None}]
    /\ reply \in [Agents -> Replies \cup {None}]
    /\ late \subseteq Calls
    /\ runs \in [Ids -> Nat]
    /\ found \in [Ids -> Results \cup {None}]

(* Whatever is killed, lost or resent, a network is scanned at most once   *)
(* for a request.                                                          *)
ScannedOnce == \A s \in Ids : runs[s] <= 1

(* An audit is completed in the table only if a scan was carried out and   *)
(* ended well.                                                             *)
CompletedIsScanned ==
    \A s \in Ids : scans[s].status = "completed" =>
        runs[s] = 1 /\ found[s] = "completed"

(* Once saved, the result of a scan that is still open in the table stays  *)
(* in the outbox of its agent.                                             *)
ResultHeld ==
    \A s \in Ids :
        scans[s].status = "running" /\ found[s] # None =>
            \/ outbox[scans[s].agent] = [id |-> s, result |-> found[s]]
            \/ outbox[scans[s].agent] = Torn

(* The outbox was cut off while it was being written (write_text, in       *)
(* place), and the process ended: json.loads, outside the try, fails in    *)
(* every later cycle, before anything is sent or asked for.                *)
Blocked(g) == outbox[g] = Torn /\ pc[g] # "saving"

(* A requested audit does not stay open for ever, unless its agent is      *)
(* blocked: it asks no more, and the backend closes an audit that is too   *)
(* old only when an agent or a user asks.                                  *)
ScanEnds ==
    \A s \in Ids :
        scans[s].status \in Active ~>
            \/ scans[s].status \in Results
            \/ \E g \in Agents : scans[s].agent = g /\ Blocked(g)

(* agent/README 27-28: results that could not be handed over are kept and  *)
(* sent again at the next cycle, so the outbox is emptied in the end.  The *)
(* code does not keep all of that: one that a kill or a full disk cut off  *)
(* is neither sent nor removed, and the agent is blocked with it.          *)
OutboxClears ==
    \A g \in Agents : outbox[g] # None ~> outbox[g] = None \/ Blocked(g)
=============================================================================
