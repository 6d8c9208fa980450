-------------------------- MODULE ScanAgentProofs --------------------------
(***************************************************************************)
(* Proofs about NetworkScans and ScanAgent, for any number of agents,      *)
(* audits and late calls and any crashes and lost calls.                   *)
(*                                                                         *)
(* The table alone, under arbitrary agents, comes first.  Of the composed  *)
(* system none of the properties is inductive.  The invariant follows a    *)
(* scan from the claim to the table: the answer that hands it out exists   *)
(* once, names the agent it was requested from and precedes its only       *)
(* execution; what is saved, sent or about to be written is what that      *)
(* execution found; and a result leaves the outbox only when its scan has  *)
(* ended.                                                                  *)
(***************************************************************************)
EXTENDS ScanAgent, TLAPS

-----------------------------------------------------------------------------
(* The table under arbitrary agents.                                       *)
(*                                                                         *)
(* OneActiveScan is inductive given the shape of the rows.  The shape is   *)
(* not: a completion writes to a row without looking at it again, so one   *)
(* must know that the row its check has seen is still there.               *)

(* A completion between check and write has seen a row, and rows stay.     *)
WritesExisting == \A h \in writing : scans[h.id].status # "absent"

Inv == TypeOK /\ WritesExisting /\ OneActiveScan

USE DEF Absent, Row, Active, Results

-----------------------------------------------------------------------------
(* What the helpers do to one row.                                         *)

(* Expiry keeps a row a row, and does nothing but end an open scan.        *)
LEMMA ExpiredRow ==
    ASSUME NEW r \in Row \cup {Absent}
    PROVE  /\ Expired(r) \in Row \cup {Absent}
           /\ Expired(r).agent = r.agent
           /\ \/ Expired(r).status = r.status
              \/ r.status \in Active /\ Expired(r).status = "failed"
  <1>1. CASE r = Absent
    BY <1>1 DEF Expired
  <1>2. CASE r \in Row
    BY <1>2 DEF Expired
  <1> QED BY <1>1, <1>2

(* So does the passage of time.                                            *)
LEMMA OlderRow ==
    ASSUME NEW r \in Row \cup {Absent}
    PROVE  /\ Older(r) \in Row \cup {Absent}
           /\ Older(r).status = r.status
           /\ Older(r).agent = r.agent
  <1> USE NetworkScansAssumption
  <1>1. CASE r = Absent
    BY <1>1 DEF Older
  <1>2. CASE r \in Row
    BY <1>2 DEF Older
  <1> QED BY <1>1, <1>2

LEMMA RunningRow ==
    ASSUME NEW r \in Row
    PROVE  /\ Running(r) \in Row
           /\ Running(r).status = "running"
           /\ Running(r).agent = r.agent
  BY DEF Running

LEMMA ReportedRow ==
    ASSUME NEW r \in Row, NEW result \in Results
    PROVE  /\ Reported(r, result) \in Row
           /\ Reported(r, result).status = result
           /\ Reported(r, result).agent = r.agent
  BY DEF Reported

LEMMA NewRowRow ==
    ASSUME NEW g \in Agents
    PROVE  /\ NewRow(g) \in Row
           /\ NewRow(g).status = "pending"
  BY NetworkScansAssumption DEF NewRow

(* The same of the whole table.                                            *)
LEMMA AfterExpiryTable ==
    ASSUME Inv
    PROVE  /\ AfterExpiry \in [Ids -> Row \cup {Absent}]
           /\ \A s \in Ids :
                /\ AfterExpiry[s].agent = scans[s].agent
                /\ \/ AfterExpiry[s].status = scans[s].status
                   \/ /\ scans[s].status \in Active
                      /\ AfterExpiry[s].status = "failed"
  BY ExpiredRow DEF Inv, TypeOK, AfterExpiry

-----------------------------------------------------------------------------
(* One lemma per action.                                                   *)

(* The table expires and nothing else happens.                             *)
LEMMA ExpiryKeeps ==
    ASSUME Inv, scans' = AfterExpiry, UNCHANGED writing
    PROVE  Inv'
  <1>1. TypeOK'
    BY AfterExpiryTable DEF Inv, TypeOK
  <1>2. WritesExisting'
    BY AfterExpiryTable DEF Inv, TypeOK, WritesExisting, Handlers
  <1>3. OneActiveScan'
    BY AfterExpiryTable DEF Inv, OneActiveScan
  <1> QED BY <1>1, <1>2, <1>3 DEF Inv

LEMMA CreateKeeps ==
    ASSUME Inv, NEW s \in Ids, NEW g \in Agents, Create(s, g)
    PROVE  Inv'
  <1> USE AfterExpiryTable, NewRowRow DEF Create
  <1>1. TypeOK'
    BY DEF Inv, TypeOK
  <1>2. WritesExisting'
    BY DEF Inv, TypeOK, WritesExisting, Handlers
  <1>3. \A t \in Ids : scans'[t].status \in Active => t = s
    BY DEF Open
  <1>4. OneActiveScan'
    BY <1>3 DEF OneActiveScan
  <1> QED BY <1>1, <1>2, <1>4 DEF Inv

LEMMA ClaimKeeps ==
    ASSUME Inv, NEW g \in Agents, NEW s \in Ids, Claim(g, s)
    PROVE  Inv'
  <1>1. AfterExpiry[s].status = "pending" /\ AfterExpiry[s] \in Row
    BY AfterExpiryTable DEF Claim, Waiting
  <1>2. Running(AfterExpiry[s]) \in Row
        /\ Running(AfterExpiry[s]).status = "running"
    BY <1>1, RunningRow
  <1>3. /\ scans' \in [Ids -> Row \cup {Absent}]
        /\ writing' = writing
        /\ \A t \in Ids :
             /\ scans'[t].status = "absent" <=> scans[t].status = "absent"
             /\ scans'[t].status \in Active => scans[t].status \in Active
    BY <1>1, <1>2, AfterExpiryTable DEF Claim
  <1>4. TypeOK'
    BY <1>3 DEF Inv, TypeOK
  <1>5. WritesExisting'
    BY <1>3 DEF Inv, TypeOK, WritesExisting, Handlers
  <1>6. OneActiveScan'
    BY <1>3 DEF Inv, OneActiveScan
  <1> QED BY <1>4, <1>5, <1>6 DEF Inv

LEMMA CompleteChecksKeeps ==
    ASSUME Inv, NEW h \in Handlers, CompleteChecks(h)
    PROVE  Inv'
  <1>1. scans[h.id].status = "running"
    BY DEF CompleteChecks, Checked
  <1>2. TypeOK'
    BY DEF Inv, TypeOK, CompleteChecks
  <1>3. WritesExisting'
    BY <1>1 DEF Inv, WritesExisting, CompleteChecks
  <1>4. OneActiveScan'
    BY DEF Inv, OneActiveScan, CompleteChecks
  <1> QED BY <1>2, <1>3, <1>4 DEF Inv

LEMMA CompleteWritesKeeps ==
    ASSUME Inv, NEW h \in Handlers, CompleteWrites(h)
    PROVE  Inv'
  <1> USE DEF Inv, CompleteWrites
  <1>1. scans[h.id] \in Row /\ h.id \in Ids /\ h.result \in Results
    BY DEF TypeOK, WritesExisting, Handlers
  <1>2. Reported(scans[h.id], h.result) \in Row
        /\ Reported(scans[h.id], h.result).status = h.result
    BY <1>1, ReportedRow
  <1>3. /\ scans' \in [Ids -> Row \cup {Absent}]
        /\ \A t \in Ids :
             /\ scans'[t].status = "absent" => scans[t].status = "absent"
             /\ scans'[t].status \in Active => scans[t].status \in Active
    BY <1>1, <1>2 DEF TypeOK
  <1>4. TypeOK'
    BY <1>3 DEF TypeOK
  <1>5. WritesExisting'
    BY <1>3 DEF TypeOK, WritesExisting, Handlers
  <1>6. OneActiveScan'
    BY <1>3 DEF OneActiveScan
  <1> QED BY <1>4, <1>5, <1>6

LEMMA TickKeeps ==
    ASSUME Inv, Tick
    PROVE  Inv'
  <1>1. \A s \in Ids : /\ scans'[s] \in Row \cup {Absent}
                       /\ scans'[s].status = scans[s].status
    BY OlderRow DEF Inv, TypeOK, Tick
  <1>2. TypeOK'
    BY <1>1 DEF Inv, TypeOK, Tick
  <1>3. WritesExisting'
    BY <1>1 DEF Inv, TypeOK, WritesExisting, Handlers, Tick
  <1>4. OneActiveScan'
    BY <1>1 DEF Inv, OneActiveScan
  <1> QED BY <1>2, <1>3, <1>4 DEF Inv

(* The invariant survives every step of the table, whoever takes it.       *)
LEMMA TableStepKeeps ==
    ASSUME Inv, [Next]_table
    PROVE  Inv'
  <1>1. CASE UserStep
    <2>1. ASSUME NEW s \in Ids, NEW g \in Agents, Create(s, g) PROVE Inv'
      BY <2>1, CreateKeeps
    <2>2. CASE List
      BY <2>2, ExpiryKeeps DEF List
    <2> QED BY <1>1, <2>1, <2>2 DEF UserStep
  <1>2. CASE AgentStep
    <2>1. ASSUME NEW g \in Agents, ClaimNothing(g) PROVE Inv'
      BY <2>1, ExpiryKeeps DEF ClaimNothing
    <2>2. ASSUME NEW g \in Agents, NEW s \in Ids, Claim(g, s) PROVE Inv'
      BY <2>2, ClaimKeeps
    <2>3. ASSUME NEW h \in Handlers, CompleteChecks(h) PROVE Inv'
      BY <2>3, CompleteChecksKeeps
    <2>4. ASSUME NEW h \in Handlers, CompleteWrites(h) PROVE Inv'
      BY <2>4, CompleteWritesKeeps
    <2> QED BY <1>2, <2>1, <2>2, <2>3, <2>4 DEF AgentStep
  <1>3. CASE Tick
    BY <1>3, TickKeeps
  <1>4. CASE UNCHANGED table
    BY <1>4 DEF table, Inv, TypeOK, WritesExisting, OneActiveScan
  <1> QED BY <1>1, <1>2, <1>3, <1>4 DEF Next

(* The table, its completions and its one open audit, in every behaviour.  *)
THEOREM ScanTableInvariant == Spec => []Inv
  <1>1. Init => Inv
    BY DEF Init, Inv, TypeOK, WritesExisting, OneActiveScan
  <1>2. Inv /\ [Next]_table => Inv'
    BY TableStepKeeps
  <1> QED BY <1>1, <1>2, PTL DEF Spec

(* create_network_scan, with its lock and whatever else happens to the     *)
(* table, never leaves an organization with two open audits.               *)
THEOREM OneOpenAudit == Spec => []OneActiveScan
  <1>1. Inv => OneActiveScan
    BY DEF Inv
  <1> QED BY <1>1, ScanTableInvariant, PTL

HIDE DEF Absent, Row, Active, Results

-----------------------------------------------------------------------------
(* The agents and the table.                                               *)

(* Where an agent is tells what its outbox holds and what it waits for.    *)
AgentShape ==
    \A g \in Agents :
        /\ pc[g] = "asking" => outbox[g] = None
        /\ pc[g] = "scanning" => outbox[g] = None /\ work[g] \in Records
        /\ pc[g] = "saving" => outbox[g] = Torn /\ work[g] \in Records
        /\ pc[g] \in {"posting", "resending"} =>
               /\ outbox[g] \in Records
               /\ call[g].op = "complete"
               /\ call[g].record = outbox[g]
        /\ call[g] # None =>
               \/ pc[g] = "asking" /\ call[g].op = "next"
               \/ pc[g] \in {"posting", "resending"}
        /\ reply[g] # None => call[g] # None

Handed(g, s) == reply[g] # None /\ reply[g] = Job(s)

(* A scan that nobody has claimed was not handed out and not carried out.  *)
Unstarted ==
    \A s \in Ids : scans[s].status \in {"absent", "pending"} =>
        runs[s] = 0 /\ \A g \in Agents : ~Handed(g, s)

(* One that is being handed out was not carried out either.                *)
HandedOnce ==
    \A g \in Agents, s \in Ids : Handed(g, s) =>
        runs[s] = 0 /\ scans[s].agent = g

FoundRan == \A s \in Ids : found[s] # None => runs[s] = 1

(* A scan under way runs for the first time, at the agent it belongs to.   *)
UnderWay ==
    \A g \in Agents : pc[g] = "scanning" =>
        /\ scans[work[g].id].agent = g
        /\ runs[work[g].id] = 1
        /\ found[work[g].id] = None

(* What is saved, sent or about to be written is what was found.           *)
Real(w) == found[w.id] = w.result

Truthful ==
    /\ \A g \in Agents : pc[g] = "saving" =>
           Real(work[g]) /\ scans[work[g].id].agent = g
    /\ \A g \in Agents : outbox[g] \in Records => Real(outbox[g])
    /\ \A c \in late : c.op = "complete" => Real(c.record)
    /\ \A h \in writing : Real(h)
    /\ \A s \in Ids : scans[s].status = "completed" => found[s] = "completed"

(* A result is acknowledged or refused only when its scan has ended.       *)
AnsweredEnded ==
    \A g \in Agents :
        pc[g] \in {"posting", "resending"} /\ reply[g] # None =>
            scans[outbox[g].id].status \in Results

(* ResultHeld, with the moment at which the outbox is being written.       *)
Held ==
    \A s \in Ids : scans[s].status = "running" /\ found[s] # None =>
        LET g == scans[s].agent IN
        \/ outbox[g] = [id |-> s, result |-> found[s]]
        \/ outbox[g] = Torn /\ (pc[g] = "saving" => work[g].id = s)

AgentInv ==
    /\ AgentTypeOK
    /\ OneActiveScan
    /\ AgentShape
    /\ Unstarted
    /\ HandedOnce
    /\ ScannedOnce
    /\ FoundRan
    /\ UnderWay
    /\ Truthful
    /\ AnsweredEnded
    /\ Held

USE DEF Absent, Row, Active, Results, Records, Torn, Job, Code

-----------------------------------------------------------------------------
(* The table, seen from an agent.                                          *)

(* A completion on its way has a row to write to.                          *)
LEMMA TableInv ==
    ASSUME AgentInv
    PROVE  Inv
  <1>1. WritesExisting
    <2> SUFFICES ASSUME NEW h \in writing, scans[h.id].status = "absent"
                 PROVE  FALSE
      BY DEF WritesExisting
    <2>1. h.id \in Ids /\ h.result \in Results
      BY DEF AgentInv, AgentTypeOK, TypeOK, Handlers
    <2>2. found[h.id] # None
      BY <2>1, ScanAgentAssumption DEF AgentInv, Truthful, Real
    <2> QED BY <2>1, <2>2 DEF AgentInv, Unstarted, FoundRan
  <1> QED BY <1>1 DEF AgentInv, AgentTypeOK, Inv

(* No handler removes a row, gives it to another agent, reopens it or      *)
(* makes it pending again.                                                 *)
Moves ==
    \A s \in Ids :
        /\ scans[s].status # "absent" =>
               scans'[s].status # "absent" /\ scans'[s].agent = scans[s].agent
        /\ scans[s].status \notin {"absent", "pending"} =>
               scans'[s].status \notin {"absent", "pending"}
        /\ scans[s].status \in Results => scans'[s].status \in Results

(* Apart from the scan that it claims or completes, it starts none and     *)
(* completes none.                                                         *)
Leaves(s) ==
    scans'[s].status \in {"running", "completed"} =>
        scans[s].status = scans'[s].status

LEMMA QuietSteps ==
    ASSUME Inv, UserStep \/ Tick \/ \E g \in Agents : ClaimNothing(g)
    PROVE  Moves /\ (\A s \in Ids : Leaves(s)) /\ writing' = writing
  <1>1. CASE scans' = AfterExpiry /\ writing' = writing
    BY <1>1, AfterExpiryTable DEF Moves, Leaves
  <1>2. ASSUME NEW s \in Ids, NEW g \in Agents, Create(s, g)
        PROVE  Moves /\ (\A t \in Ids : Leaves(t)) /\ writing' = writing
    BY <1>2, AfterExpiryTable, NewRowRow DEF Create, Moves, Leaves
  <1>3. CASE Tick
    BY <1>3, OlderRow DEF Tick, Moves, Leaves, Inv, TypeOK
  <1> QED BY <1>1, <1>2, <1>3 DEF UserStep, List, ClaimNothing

LEMMA ClaimStep ==
    ASSUME Inv, NEW g \in Agents, NEW s \in Ids, Claim(g, s)
    PROVE  /\ Moves
           /\ scans[s].status = "pending" /\ scans[s].agent = g
           /\ scans'[s].status = "running" /\ scans'[s].agent = g
           /\ \A t \in Ids \ {s} : Leaves(t)
           /\ writing' = writing
  <1>1. /\ AfterExpiry[s].status = "pending"
        /\ AfterExpiry[s].agent = g
        /\ AfterExpiry[s] \in Row
    BY AfterExpiryTable DEF Claim, Waiting
  <1>2. /\ Running(AfterExpiry[s]).status = "running"
        /\ Running(AfterExpiry[s]).agent = g
    BY <1>1, RunningRow
  <1>3. scans' = [AfterExpiry EXCEPT ![s] = Running(AfterExpiry[s])]
        /\ writing' = writing
    BY DEF Claim
  <1> QED BY <1>1, <1>2, <1>3, AfterExpiryTable DEF Moves, Leaves

LEMMA WriteStep ==
    ASSUME AgentInv, NEW h \in writing, CompleteWrites(h)
    PROVE  /\ Moves
           /\ h.id \in Ids /\ h.result \in Results /\ found[h.id] = h.result
           /\ scans'[h.id].status = h.result
           /\ \A t \in Ids \ {h.id} : scans'[t] = scans[t]
           /\ writing' \subseteq writing
  <1>1. h.id \in Ids /\ h.result \in Results /\ found[h.id] = h.result
    BY DEF AgentInv, AgentTypeOK, TypeOK, Handlers, Truthful, Real
  <1>2. scans[h.id] \in Row /\ scans[h.id].status \notin {"absent", "pending"}
    BY <1>1, ScanAgentAssumption
       DEF AgentInv, AgentTypeOK, TypeOK, Unstarted, FoundRan
  <1>3. /\ Reported(scans[h.id], h.result).status = h.result
        /\ Reported(scans[h.id], h.result).agent = scans[h.id].agent
    BY <1>1, <1>2, ReportedRow
  <1>4. scans \in [Ids -> Row \cup {Absent}]
    BY DEF AgentInv, AgentTypeOK, TypeOK
  <1> QED BY <1>1, <1>2, <1>3, <1>4 DEF CompleteWrites, Moves

-----------------------------------------------------------------------------
(* One lemma per action of the agent.  None of them touches the table.     *)

LEMMA TableKept ==
    ASSUME AgentInv, UNCHANGED table
    PROVE  TypeOK' /\ OneActiveScan'
  BY DEF AgentInv, AgentTypeOK, TypeOK, OneActiveScan, table

LEMMA AskKeeps ==
    ASSUME AgentInv, NEW g \in Agents, Ask(g)
    PROVE  AgentInv'
  <1> USE DEF AgentInv, Ask, Goes, Calling, NextCall, table, history
  <1>1. AgentTypeOK'
    BY TableKept DEF AgentTypeOK, PC, Calls
  <1>2. AgentShape'
    BY DEF AgentShape, AgentTypeOK
  <1>3. Unstarted' /\ HandedOnce' /\ ScannedOnce' /\ FoundRan'
    BY DEF Unstarted, HandedOnce, ScannedOnce, FoundRan, Handed
  <1>4. UnderWay' /\ Truthful'
    BY DEF UnderWay, Truthful, Real, AgentTypeOK
  <1>5. AnsweredEnded' /\ Held'
    BY DEF AnsweredEnded, Held, AgentTypeOK, TypeOK
  <1> QED BY <1>1, <1>2, <1>3, <1>4, <1>5, TableKept

LEMMA ResendKeeps ==
    ASSUME AgentInv, NEW g \in Agents, Resend(g)
    PROVE  AgentInv'
  <1> USE DEF AgentInv, Resend, Goes, Calling, CompleteCall, table, history
  <1>1. AgentTypeOK'
    BY TableKept DEF AgentTypeOK, PC, Calls
  <1>2. AgentShape'
    BY DEF AgentShape, AgentTypeOK, Calls
  <1>3. Unstarted' /\ HandedOnce' /\ ScannedOnce' /\ FoundRan'
    BY DEF Unstarted, HandedOnce, ScannedOnce, FoundRan, Handed
  <1>4. UnderWay' /\ Truthful'
    BY DEF UnderWay, Truthful, Real, AgentTypeOK
  <1>5. AnsweredEnded' /\ Held'
    BY DEF AnsweredEnded, Held, AgentTypeOK, TypeOK, AgentShape
  <1> QED BY <1>1, <1>2, <1>3, <1>4, <1>5, TableKept

LEMMA NothingToDoKeeps ==
    ASSUME AgentInv, NEW g \in Agents, NothingToDo(g)
    PROVE  AgentInv'
  <1> USE DEF AgentInv, NothingToDo, Goes, Got, Answered, table, history
  <1>1. AgentTypeOK'
    BY TableKept DEF AgentTypeOK, PC
  <1>2. AgentShape'
    BY DEF AgentShape, AgentTypeOK
  <1>3. Unstarted' /\ HandedOnce' /\ ScannedOnce' /\ FoundRan'
    BY DEF Unstarted, HandedOnce, ScannedOnce, FoundRan, Handed
  <1>4. UnderWay' /\ Truthful'
    BY DEF UnderWay, Truthful, Real, AgentTypeOK
  <1>5. AnsweredEnded' /\ Held'
    BY DEF AnsweredEnded, Held, AgentTypeOK, TypeOK
  <1> QED BY <1>1, <1>2, <1>3, <1>4, <1>5, TableKept

LEMMA StartScanKeeps ==
    ASSUME AgentInv, NEW g \in Agents, StartScan(g)
    PROVE  AgentInv'
  <1> USE DEF AgentInv, StartScan, Goes, Got, Answered, table, history
  <1>1. AgentTypeOK'
    BY TableKept DEF AgentTypeOK, PC, Replies
  <1>2. AgentShape'
    BY DEF AgentShape, AgentTypeOK, Replies
  <1>3. Unstarted' /\ HandedOnce' /\ ScannedOnce' /\ FoundRan'
    BY DEF Unstarted, HandedOnce, ScannedOnce, FoundRan, Handed, AgentTypeOK, TypeOK, Replies
  <1>4. UnderWay' /\ Truthful'
    BY DEF UnderWay, Truthful, Real, AgentTypeOK, HandedOnce, Handed, Replies, FoundRan
  <1>5. AnsweredEnded' /\ Held'
    BY DEF AnsweredEnded, Held, AgentTypeOK, TypeOK
  <1> QED BY <1>1, <1>2, <1>3, <1>4, <1>5, TableKept

LEMMA EndScanKeeps ==
    ASSUME AgentInv, NEW g \in Agents, NEW result \in Results, EndScan(g, result)
    PROVE  AgentInv'
  <1> USE DEF AgentInv, EndScan, Goes, table, history
  <1>1. AgentTypeOK'
    BY TableKept DEF AgentTypeOK, PC, AgentShape
  <1>2. AgentShape'
    BY DEF AgentShape, AgentTypeOK
  <1>3. Unstarted' /\ HandedOnce' /\ ScannedOnce' /\ FoundRan'
    BY DEF Unstarted, HandedOnce, ScannedOnce, FoundRan, Handed, AgentTypeOK, AgentShape, UnderWay
  <1>4. /\ work[g].id \in Ids
        /\ found[work[g].id] = None
        /\ work'[g].id = work[g].id /\ work'[g].result = result
        /\ \A o \in Agents \ {g} : work'[o] = work[o] /\ outbox'[o] = outbox[o]
        /\ \A t \in Ids \ {work[g].id} : found'[t] = found[t]
        /\ found'[work[g].id] = result
        /\ outbox'[g] = Torn
    BY DEF AgentTypeOK, AgentShape, UnderWay
  <1>5. UnderWay'
    BY <1>4 DEF UnderWay, AgentTypeOK, AgentShape
  <1>6. ASSUME NEW w, w.id \in Ids, w.result \in Results, Real(w)
        PROVE  Real(w)'
    BY <1>4, <1>6, ScanAgentAssumption DEF Real
  <1>7. /\ \A o \in Agents : pc'[o] = "saving" =>
               Real(work[o])' /\ scans[work'[o].id].agent = o
        /\ \A o \in Agents : outbox'[o] \in Records => Real(outbox[o])'
    BY <1>4, <1>6 DEF Truthful, Real, AgentShape, AgentTypeOK, UnderWay
  <1>8. \A c \in late : c.op = "complete" => Real(c.record)'
    BY <1>6 DEF Truthful, AgentTypeOK, Calls
  <1>9. \A h \in writing : Real(h)'
    BY <1>6 DEF Truthful, AgentTypeOK, TypeOK, Handlers
  <1>10. \A s \in Ids : scans[s].status = "completed" =>
             found'[s] = "completed"
    BY <1>4, ScanAgentAssumption DEF Truthful
  <1>11. Truthful'
    BY <1>7, <1>8, <1>9, <1>10 DEF Truthful, Real
  <1>12. AnsweredEnded'
    BY <1>4 DEF AnsweredEnded, AgentTypeOK
  <1>13. Held'
    BY <1>4, ScanAgentAssumption
       DEF Held, AgentShape, AgentTypeOK, TypeOK, UnderWay
  <1> QED BY <1>1, <1>2, <1>3, <1>5, <1>11, <1>12, <1>13, TableKept

LEMMA SaveKeeps ==
    ASSUME AgentInv, NEW g \in Agents, Save(g)
    PROVE  AgentInv'
  <1> USE DEF AgentInv, Save, Goes, Calling, CompleteCall, table, history
  <1>1. AgentTypeOK'
    BY TableKept DEF AgentTypeOK, PC, Calls, AgentShape
  <1>2. AgentShape'
    BY DEF AgentShape, AgentTypeOK, Calls, AgentShape
  <1>3. Unstarted' /\ HandedOnce' /\ ScannedOnce' /\ FoundRan'
    BY DEF Unstarted, HandedOnce, ScannedOnce, FoundRan, Handed
  <1>4. UnderWay' /\ Truthful'
    BY DEF UnderWay, Truthful, Real, AgentTypeOK, AgentShape
  <1>5. AnsweredEnded' /\ Held'
    BY DEF AnsweredEnded, Held, AgentTypeOK, TypeOK, AgentShape, Truthful, Real, AgentShape
  <1> QED BY <1>1, <1>2, <1>3, <1>4, <1>5, TableKept

LEMMA DeliveredKeeps ==
    ASSUME AgentInv, NEW g \in Agents, Delivered(g)
    PROVE  AgentInv'
  <1> USE DEF AgentInv, Delivered, Goes, Got, Answered, table, history
  <1>1. AgentTypeOK'
    BY TableKept DEF AgentTypeOK, PC
  <1>2. AgentShape'
    BY DEF AgentShape, AgentTypeOK
  <1>3. Unstarted' /\ HandedOnce' /\ ScannedOnce' /\ FoundRan'
    BY DEF Unstarted, HandedOnce, ScannedOnce, FoundRan, Handed
  <1>4. UnderWay' /\ Truthful'
    BY ScanAgentAssumption DEF UnderWay, Truthful, Real, AgentTypeOK
  <1>5. AnsweredEnded' /\ Held'
    BY DEF AnsweredEnded, Held, AgentTypeOK, TypeOK, AgentShape
  <1> QED BY <1>1, <1>2, <1>3, <1>4, <1>5, TableKept

LEMMA RefusedKeeps ==
    ASSUME AgentInv, NEW g \in Agents, Refused(g)
    PROVE  AgentInv'
  <1> USE DEF AgentInv, Refused, Goes, Got, Answered, table, history
  <1>1. AgentTypeOK'
    BY TableKept DEF AgentTypeOK, PC
  <1>2. AgentShape'
    BY DEF AgentShape, AgentTypeOK
  <1>3. Unstarted' /\ HandedOnce' /\ ScannedOnce' /\ FoundRan'
    BY DEF Unstarted, HandedOnce, ScannedOnce, FoundRan, Handed
  <1>4. UnderWay' /\ Truthful'
    BY DEF UnderWay, Truthful, Real, AgentTypeOK
  <1>5. AnsweredEnded' /\ Held'
    BY DEF AnsweredEnded, Held, AgentTypeOK, TypeOK
  <1> QED BY <1>1, <1>2, <1>3, <1>4, <1>5, TableKept

LEMMA RestartKeeps ==
    ASSUME AgentInv, NEW g \in Agents, Restart(g)
    PROVE  AgentInv'
  <1> USE DEF AgentInv, Restart, Goes, table, history
  <1>1. AgentTypeOK'
    BY TableKept DEF AgentTypeOK, PC
  <1>2. AgentShape'
    BY DEF AgentShape, AgentTypeOK
  <1>3. Unstarted' /\ HandedOnce' /\ ScannedOnce' /\ FoundRan'
    BY DEF Unstarted, HandedOnce, ScannedOnce, FoundRan, Handed
  <1>4. UnderWay' /\ Truthful'
    BY DEF UnderWay, Truthful, Real, AgentTypeOK
  <1>5. AnsweredEnded' /\ Held'
    BY DEF AnsweredEnded, Held, AgentTypeOK, TypeOK
  <1> QED BY <1>1, <1>2, <1>3, <1>4, <1>5, TableKept

-----------------------------------------------------------------------------
(* The handlers.  What a step does to the table and what it answers are    *)
(* separate: one lemma per kind of change of the table, whoever called.    *)

(* The table expires, grows or ages; at most "nothing" is answered.        *)
LEMMA QuietKeeps ==
    ASSUME AgentInv, Inv', AgentTypeOK',
           Moves, \A s \in Ids : Leaves(s), writing' = writing,
           UNCHANGED <<pc, work, outbox, call, history>>,
           late' \subseteq late,
           \A o \in Agents : \/ reply'[o] = reply[o]
                             \/ /\ pc[o] = "asking" /\ call[o] # None
                                /\ reply'[o] = Code("nothing")
    PROVE  AgentInv'
  <1> USE DEF AgentInv, history
  <1>1. AgentShape'
    BY DEF AgentShape
  <1>2. Unstarted' /\ HandedOnce' /\ ScannedOnce' /\ FoundRan'
    BY DEF Unstarted, HandedOnce, ScannedOnce, FoundRan, Handed, Moves
  <1>3. \A g \in Agents : pc[g] \in {"scanning", "saving"} =>
            work[g].id \in Ids /\ runs[work[g].id] = 1
    BY ScanAgentAssumption
       DEF AgentTypeOK, AgentShape, UnderWay, Truthful, Real, FoundRan
  <1>4. UnderWay'
    BY <1>3 DEF UnderWay, Unstarted, Moves
  <1>5. Truthful'
    BY <1>3 DEF Truthful, Real, Unstarted, Moves, Leaves
  <1>6. AnsweredEnded'
    BY DEF AnsweredEnded, AgentShape, Moves
  <1>7. Held'
    BY DEF Held, Moves, Leaves
  <1> QED BY <1>1, <1>2, <1>4, <1>5, <1>6, <1>7 DEF Inv

(* A scan is claimed; the agent it belongs to may be told.                 *)
LEMMA ClaimKeepsAgents ==
    ASSUME AgentInv, Inv', AgentTypeOK',
           NEW g \in Agents, NEW s \in Ids, Claim(g, s),
           UNCHANGED <<pc, work, outbox, call, history>>,
           late' \subseteq late,
           \A o \in Agents : \/ reply'[o] = reply[o]
                             \/ /\ o = g
                                /\ pc[o] = "asking" /\ call[o] # None
                                /\ reply'[o] = Job(s)
    PROVE  AgentInv'
  <1> USE DEF AgentInv, history
  <1>0. /\ Moves
        /\ scans[s].status = "pending" /\ scans[s].agent = g
        /\ scans'[s].status = "running" /\ scans'[s].agent = g
        /\ \A t \in Ids \ {s} : Leaves(t)
        /\ writing' = writing
        /\ runs[s] = 0 /\ found[s] = None
    BY ClaimStep, TableInv DEF Unstarted, FoundRan
  <1>1. AgentShape'
    BY DEF AgentShape
  <1>2. Unstarted' /\ HandedOnce' /\ ScannedOnce' /\ FoundRan'
    BY <1>0 DEF Unstarted, HandedOnce, ScannedOnce, FoundRan, Handed, Moves
  <1>3. \A o \in Agents : pc[o] \in {"scanning", "saving"} =>
            work[o].id \in Ids /\ runs[work[o].id] = 1
    BY ScanAgentAssumption
       DEF AgentTypeOK, AgentShape, UnderWay, Truthful, Real, FoundRan
  <1>4. UnderWay'
    BY <1>0, <1>3 DEF UnderWay, Unstarted, Moves
  <1>5. Truthful'
    BY <1>0, <1>3 DEF Truthful, Real, Unstarted, Moves, Leaves
  <1>6. AnsweredEnded'
    BY <1>0 DEF AnsweredEnded, AgentShape, AgentTypeOK, Moves
  <1>7. Held'
    BY <1>0 DEF Held, Moves, Leaves
  <1> QED BY <1>1, <1>2, <1>4, <1>5, <1>6, <1>7 DEF Inv

(* A completion is written; the agent that waits for it may be told.       *)
LEMMA WriteKeepsAgents ==
    ASSUME AgentInv, Inv', AgentTypeOK',
           NEW h \in writing, CompleteWrites(h),
           UNCHANGED <<pc, work, outbox, call, late, history>>,
           \A o \in Agents : \/ reply'[o] = reply[o]
                             \/ /\ call[o] # None /\ call[o].op = "complete"
                                /\ call[o].record.id = h.id
                                /\ reply'[o] = Code("ok")
    PROVE  AgentInv'
  <1> USE DEF AgentInv, history
  <1>0. /\ Moves
        /\ h.id \in Ids /\ h.result \in Results /\ found[h.id] = h.result
        /\ scans'[h.id].status = h.result
        /\ \A t \in Ids \ {h.id} : scans'[t] = scans[t]
        /\ writing' \subseteq writing
    BY WriteStep
  <1>1. AgentShape'
    BY DEF AgentShape
  <1>2. Unstarted' /\ HandedOnce' /\ ScannedOnce' /\ FoundRan'
    BY <1>0 DEF Unstarted, HandedOnce, ScannedOnce, FoundRan, Handed, Moves
  <1>3. \A o \in Agents : pc[o] \in {"scanning", "saving"} =>
            work[o].id \in Ids /\ runs[work[o].id] = 1
    BY ScanAgentAssumption
       DEF AgentTypeOK, AgentShape, UnderWay, Truthful, Real, FoundRan
  <1>4. UnderWay'
    BY <1>0, <1>3 DEF UnderWay, Unstarted, Moves
  <1>5. Truthful'
    BY <1>0, <1>3 DEF Truthful, Real, Unstarted, Moves
  <1>6. AnsweredEnded'
    BY <1>0 DEF AnsweredEnded, AgentShape, AgentTypeOK, Moves
  <1>7. Held'
    BY <1>0 DEF Held, Moves
  <1> QED BY <1>1, <1>2, <1>4, <1>5, <1>6, <1>7 DEF Inv

LEMMA ServeNextKeeps ==
    ASSUME AgentInv, NEW g \in Agents, ServeNext(g)
    PROVE  AgentInv'
  <1> USE DEF ServeNext, Answer
  <1>1. pc[g] = "asking" /\ call[g] # None
    BY DEF Pending, AgentInv, AgentShape
  <1>2. CASE ClaimNothing(g) /\ Answer(g, Code("nothing"))
    <2>1. Inv'
      BY <1>2, TableInv, ExpiryKeeps DEF ClaimNothing
    <2>2. Moves /\ (\A s \in Ids : Leaves(s)) /\ writing' = writing
      BY <1>2, TableInv, QuietSteps
    <2>3. AgentTypeOK'
      BY <1>2, <2>1
         DEF Inv, AgentInv, AgentTypeOK, Replies, history
    <2>4. \A o \in Agents : \/ reply'[o] = reply[o]
                            \/ o = g /\ reply'[o] = Code("nothing")
      BY <1>2 DEF AgentInv, AgentTypeOK
    <2> QED BY <1>1, <1>2, <2>1, <2>2, <2>3, <2>4, QuietKeeps
  <1>3. ASSUME NEW s \in Ids, Claim(g, s), Answer(g, Job(s))
        PROVE  AgentInv'
    <2>1. Inv'
      BY <1>3, TableInv, ClaimKeeps
    <2>2. AgentTypeOK'
      BY <1>3, <2>1
         DEF Inv, AgentInv, AgentTypeOK, Replies, history
    <2>3. \A o \in Agents : \/ reply'[o] = reply[o]
                            \/ o = g /\ reply'[o] = Job(s)
      BY <1>3 DEF AgentInv, AgentTypeOK
    <2> QED BY <1>1, <1>3, <2>1, <2>2, <2>3, ClaimKeepsAgents
  <1> QED BY <1>2, <1>3

(* Whoever waits for a completion sends what its outbox holds.             *)
LEMMA PendingComplete ==
    ASSUME AgentInv, NEW g \in Agents, Pending(g, "complete")
    PROVE  /\ pc[g] \in {"posting", "resending"}
           /\ call[g] # None /\ call[g].op = "complete"
           /\ call[g].record = outbox[g]
           /\ outbox[g] \in Records
           /\ found[outbox[g].id] = outbox[g].result
           /\ scans[outbox[g].id].status \notin {"absent", "pending"}
  <1> USE DEF AgentInv
  <1>1. /\ pc[g] \in {"posting", "resending"}
        /\ call[g] # None /\ call[g].op = "complete"
        /\ call[g].record = outbox[g]
        /\ outbox[g] \in Records
    BY DEF Pending, AgentShape
  <1>2. found[outbox[g].id] = outbox[g].result
    BY <1>1 DEF Truthful, Real
  <1>3. runs[outbox[g].id] = 1
    BY <1>1, <1>2, ScanAgentAssumption DEF FoundRan
  <1> QED BY <1>1, <1>2, <1>3 DEF Unstarted

LEMMA ServeCheckKeeps ==
    ASSUME AgentInv, NEW g \in Agents, ServeCheck(g)
    PROVE  AgentInv'
  <1> DEFINE w == outbox[g]
  <1> USE DEF history
  <1>1. /\ pc[g] \in {"posting", "resending"}
        /\ call[g] # None /\ call[g].op = "complete"
        /\ call[g].record = w
        /\ w \in Records
        /\ found[w.id] = w.result
        /\ scans[w.id].status \notin {"absent", "pending"}
        /\ reply[g] = None
    BY PendingComplete DEF ServeCheck, Pending
  <1>2. CASE /\ CompleteChecks(Handler(w, FALSE))
             /\ Calling(g, PassedCall(w))
             /\ UNCHANGED <<pc, work, outbox, reply, late, history>>
    <2> USE <1>2 DEF CompleteChecks, Calling, PassedCall, Handler
    <2>1. /\ Handler(w, FALSE) \in Handlers
          /\ Handler(w, FALSE).id = w.id /\ Handler(w, FALSE).result = w.result
      BY <1>1 DEF Handlers
    <2>2. Inv'
      BY <2>1, TableInv, CompleteChecksKeeps
    <2>3. AgentTypeOK'
      BY <1>1, <2>2 DEF Inv, AgentInv, AgentTypeOK, Calls
    <2>4. AgentShape'
      BY <1>1 DEF AgentInv, AgentShape, AgentTypeOK
    <2>5. Unstarted' /\ HandedOnce' /\ ScannedOnce' /\ FoundRan' /\ UnderWay'
      BY DEF AgentInv, Unstarted, HandedOnce, ScannedOnce, FoundRan, Handed,
             UnderWay
    <2>6. Truthful' /\ AnsweredEnded' /\ Held'
      BY <1>1, <2>1 DEF AgentInv, Truthful, Real, AnsweredEnded, Held
    <2> QED BY <2>2, <2>3, <2>4, <2>5, <2>6 DEF Inv, AgentInv
  <1>3. ASSUME NEW r \in {Code("ok"), Code("refused")},
               ~Checked(w.id, w.result), Answer(g, r),
               UNCHANGED <<table, call>>
        PROVE  AgentInv'
    <2> USE <1>3 DEF Answer, table
    <2>1. scans[w.id].status \in Results
      BY <1>1 DEF AgentInv, AgentTypeOK, TypeOK, Checked, SameAgain
    <2>2. AgentTypeOK' /\ OneActiveScan'
      BY TableKept DEF AgentInv, AgentTypeOK, Replies
    <2>3. AgentShape'
      BY <1>1 DEF AgentInv, AgentShape, AgentTypeOK
    <2>4. Unstarted' /\ HandedOnce' /\ ScannedOnce' /\ FoundRan' /\ UnderWay'
      BY DEF AgentInv, AgentTypeOK, Unstarted, HandedOnce, ScannedOnce,
             FoundRan, Handed, UnderWay
    <2>5. Truthful' /\ AnsweredEnded' /\ Held'
      BY <2>1 DEF AgentInv, AgentTypeOK, Truthful, Real, AnsweredEnded, Held
    <2> QED BY <2>2, <2>3, <2>4, <2>5 DEF AgentInv
  <1> QED BY <1>1, <1>2, <1>3 DEF ServeCheck

LEMMA ServeWriteKeeps ==
    ASSUME AgentInv, NEW g \in Agents, ServeWrite(g)
    PROVE  AgentInv'
  <1> DEFINE w == outbox[g]
             h == Handler(w, FALSE)
  <1> USE DEF ServeWrite, Answer, history
  <1>1. /\ call[g] # None /\ call[g].op = "complete"
        /\ call[g].record = w /\ w \in Records
    BY PendingComplete
  <1>2. h \in writing /\ h \in Handlers /\ h.id = w.id /\ CompleteWrites(h)
    BY <1>1 DEF CompleteWrites, Handler, Handlers
  <1>3. Inv'
    BY <1>2, TableInv, CompleteWritesKeeps
  <1>4. AgentTypeOK'
    BY <1>3 DEF Inv, AgentInv, AgentTypeOK, Replies
  <1>5. \A o \in Agents : \/ reply'[o] = reply[o]
                          \/ o = g /\ reply'[o] = Code("ok")
    BY DEF AgentInv, AgentTypeOK
  <1> QED BY <1>1, <1>2, <1>3, <1>4, <1>5, WriteKeepsAgents

(* A call that is given up leaves at most itself behind: among the late    *)
(* calls, or as the completion it had already begun.                       *)
LEMMA GiveUpLeaves ==
    ASSUME AgentInv, NEW g \in Agents, GiveUp(g)
    PROVE  /\ Inv'
           /\ scans' = scans
           /\ call' = [call EXCEPT ![g] = None]
           /\ reply' = [reply EXCEPT ![g] = None]
           /\ late' \subseteq Calls
           /\ \A c \in late' : c.op = "complete" => Real(c.record)
           /\ \A h \in writing' : Real(h)
  <1> USE DEF GiveUp, Answered, table, Real
  <1>1. /\ Inv /\ writing \subseteq Handlers /\ late \subseteq Calls
        /\ \A c \in late : c.op = "complete" => Real(c.record)
        /\ \A h \in writing : Real(h)
        /\ call[g] # None => call[g] \in Calls
    BY TableInv DEF AgentInv, AgentTypeOK, TypeOK, Truthful
  <1>2. call[g] # None /\ call[g].op = "complete" =>
            /\ call[g].record = outbox[g]
            /\ outbox[g] \in Records
            /\ found[outbox[g].id] = outbox[g].result
            /\ scans[outbox[g].id].status # "absent"
    <2>1. call[g] # None /\ call[g].op = "complete" =>
              /\ call[g].record = outbox[g]
              /\ outbox[g] \in Records
              /\ found[outbox[g].id] = outbox[g].result
      BY DEF AgentInv, AgentShape, Truthful
    <2>2. call[g] # None /\ call[g].op = "complete" =>
              runs[outbox[g].id] = 1
      BY <2>1, ScanAgentAssumption DEF AgentInv, FoundRan
    <2> QED BY <2>1, <2>2 DEF AgentInv, Unstarted
  <1>3. CASE UNCHANGED <<scans, writing>>
    <2>1. Inv'
      BY <1>1, <1>3 DEF Inv, TypeOK, WritesExisting, OneActiveScan
    <2> QED BY <1>1, <1>2, <1>3, <2>1
  <1>4. CASE /\ call[g] # None /\ call[g].op = "complete"
             /\ writing' = (writing \ {Handler(call[g].record, FALSE)})
                           \cup {Handler(call[g].record, TRUE)}
             /\ UNCHANGED <<scans, late>>
    <2> DEFINE n == Handler(outbox[g], TRUE)
    <2>1. /\ n \in Handlers /\ n.id = outbox[g].id
          /\ n.result = outbox[g].result
      BY <1>2, <1>4 DEF Handler, Handlers
    <2>2. writing' \subseteq writing \cup {n}
      BY <1>2, <1>4
    <2>3. Inv'
      BY <1>1, <1>2, <1>4, <2>1, <2>2
         DEF Inv, TypeOK, WritesExisting, OneActiveScan
    <2> QED BY <1>1, <1>2, <1>4, <2>1, <2>2, <2>3
  <1> QED BY <1>3, <1>4

LEMMA GiveUpKeeps ==
    ASSUME AgentInv, NEW g \in Agents, Abandon(g) \/ Crash(g)
    PROVE  AgentInv'
  <1> USE DEF AgentInv, history
  <1>1. /\ GiveUp(g)
        /\ pc' \in [Agents -> PC]
        /\ pc'[g] \in {"idle", "down"}
        /\ \A o \in Agents \ {g} : pc'[o] = pc[o]
        /\ work' \in [Agents -> Records \cup {None}]
        /\ \A o \in Agents \ {g} : work'[o] = work[o]
        /\ outbox' = outbox /\ runs' = runs /\ found' = found
    BY DEF Abandon, Crash, Goes, AgentTypeOK, PC
  <1>2. /\ Inv' /\ scans' = scans
        /\ call' = [call EXCEPT ![g] = None]
        /\ reply' = [reply EXCEPT ![g] = None]
        /\ late' \subseteq Calls
        /\ \A c \in late' : c.op = "complete" => Real(c.record)
        /\ \A h \in writing' : Real(h)
    BY <1>1, GiveUpLeaves
  <1>3. AgentTypeOK' /\ OneActiveScan'
    BY <1>1, <1>2 DEF Inv, AgentTypeOK
  <1>4. AgentShape'
    BY <1>1, <1>2 DEF AgentShape, AgentTypeOK
  <1>5. Unstarted' /\ HandedOnce' /\ ScannedOnce' /\ FoundRan'
    BY <1>1, <1>2
       DEF Unstarted, HandedOnce, ScannedOnce, FoundRan, Handed, AgentTypeOK
  <1>6. UnderWay' /\ Truthful' /\ AnsweredEnded'
    BY <1>1, <1>2
       DEF UnderWay, Truthful, Real, AnsweredEnded, AgentTypeOK
  <1>7. Held'
    BY <1>1, <1>2 DEF Held, AgentTypeOK, TypeOK
  <1> QED BY <1>3, <1>4, <1>5, <1>6, <1>7

LEMMA ServeLateKeeps ==
    ASSUME AgentInv, NEW c \in late, ServeLate(c)
    PROVE  AgentInv'
  <1> USE DEF agent, history
  <1>1. c \in Calls /\ late' \subseteq late
        /\ UNCHANGED <<pc, work, outbox, call, reply, history>>
    BY DEF ServeLate, AgentInv, AgentTypeOK
  <1>2. ASSUME Inv' PROVE AgentTypeOK'
    BY <1>1, <1>2 DEF Inv, AgentInv, AgentTypeOK
  <1>3. CASE c.op = "next" /\ ClaimNothing(c.agent)
    <2>1. c.agent \in Agents
      BY <1>1, <1>3 DEF Calls
    <2>2. Inv'
      BY <1>3, TableInv, ExpiryKeeps DEF ClaimNothing
    <2>3. Moves /\ (\A s \in Ids : Leaves(s)) /\ writing' = writing
      BY <1>3, <2>1, TableInv, QuietSteps
    <2> QED BY <1>1, <1>2, <2>2, <2>3, QuietKeeps
  <1>4. ASSUME c.op = "next", NEW s \in Ids, Claim(c.agent, s)
        PROVE  AgentInv'
    <2>1. c.agent \in Agents
      BY <1>1, <1>4 DEF Calls
    <2>2. Inv'
      BY <1>4, <2>1, TableInv, ClaimKeeps
    <2> QED BY <1>1, <1>2, <1>4, <2>1, <2>2, ClaimKeepsAgents
  <1>5. CASE c.op # "next" /\ CompleteChecks(Handler(c.record, TRUE))
    <2> DEFINE n == Handler(c.record, TRUE)
    <2>1. n \in Handlers /\ n.id = c.record.id /\ n.result = c.record.result
      BY <1>1, <1>5 DEF Calls, Handler, Handlers
    <2>2. Real(n)
      BY <1>1, <1>5, <2>1 DEF AgentInv, Truthful, Real, Calls
    <2>3. Inv'
      BY <1>5, <2>1, TableInv, CompleteChecksKeeps
    <2>4. scans' = scans /\ writing' = writing \cup {n}
      BY <1>5 DEF CompleteChecks
    <2>5. AgentShape' /\ AnsweredEnded' /\ Held' /\ UnderWay'
      BY <1>1, <2>4 DEF AgentInv, AgentShape, AnsweredEnded, Held, UnderWay
    <2>6. Unstarted' /\ HandedOnce' /\ ScannedOnce' /\ FoundRan'
      BY <1>1, <2>4
         DEF AgentInv, Unstarted, HandedOnce, ScannedOnce, FoundRan, Handed
    <2>7. Truthful'
      BY <1>1, <2>2, <2>4 DEF AgentInv, Truthful, Real
    <2> QED BY <1>2, <2>3, <2>5, <2>6, <2>7 DEF Inv, AgentInv
  <1>6. CASE UNCHANGED table
    <2>1. AgentTypeOK' /\ OneActiveScan'
      BY <1>1, <1>6, TableKept DEF AgentInv, AgentTypeOK
    <2>2. AgentShape' /\ AnsweredEnded' /\ Held' /\ UnderWay'
      BY <1>1, <1>6
         DEF AgentInv, AgentShape, AnsweredEnded, Held, UnderWay, table
    <2>3. Unstarted' /\ HandedOnce' /\ ScannedOnce' /\ FoundRan'
      BY <1>1, <1>6
         DEF AgentInv, Unstarted, HandedOnce, ScannedOnce, FoundRan, Handed,
             table
    <2>4. Truthful'
      BY <1>1, <1>6 DEF AgentInv, Truthful, Real, table
    <2> QED BY <2>1, <2>2, <2>3, <2>4 DEF AgentInv
  <1> QED BY <1>3, <1>4, <1>5, <1>6 DEF ServeLate

LEMMA WriteLateKeeps ==
    ASSUME AgentInv, NEW h \in writing, WriteLate(h)
    PROVE  AgentInv'
  <1> USE DEF WriteLate, agent, history
  <1>1. h \in Handlers
    BY DEF AgentInv, AgentTypeOK, TypeOK
  <1>2. Inv'
    BY <1>1, TableInv, CompleteWritesKeeps
  <1>3. AgentTypeOK'
    BY <1>2 DEF Inv, AgentInv, AgentTypeOK
  <1> QED BY <1>2, <1>3, WriteKeepsAgents

(* The dashboard and the clock.                                            *)
LEMMA OthersKeep ==
    ASSUME AgentInv, Browser \/ Time
    PROVE  AgentInv'
  <1> USE DEF Browser, Time, agent, history
  <1>1. UserStep \/ Tick
    OBVIOUS
  <1>2. Inv'
    BY <1>1, TableInv, TableStepKeeps DEF Next
  <1>3. Moves /\ (\A s \in Ids : Leaves(s)) /\ writing' = writing
    BY <1>1, TableInv, QuietSteps
  <1>4. AgentTypeOK'
    BY <1>2 DEF Inv, AgentInv, AgentTypeOK
  <1> QED BY <1>2, <1>3, <1>4, QuietKeeps

-----------------------------------------------------------------------------

(* Table, agents, outboxes and calls together: one execution per scan,     *)
(* truthful reports, results held until they are answered.                 *)
THEOREM ScanInvariant == AgentSpec => []AgentInv
  <1>1. AgentInit => AgentInv
    <2> SUFFICES ASSUME AgentInit PROVE AgentInv
      OBVIOUS
    <2> USE DEF AgentInit, Init
    <2>1. AgentTypeOK
      BY DEF AgentTypeOK, TypeOK, PC
    <2>2. OneActiveScan /\ AgentShape /\ UnderWay
      BY DEF OneActiveScan, AgentShape, UnderWay
    <2>3. Unstarted /\ HandedOnce /\ ScannedOnce /\ FoundRan
      BY DEF Unstarted, HandedOnce, ScannedOnce, FoundRan, Handed
    <2>4. Truthful /\ AnsweredEnded /\ Held
      BY ScanAgentAssumption DEF Truthful, AnsweredEnded, Held
    <2> QED BY <2>1, <2>2, <2>3, <2>4 DEF AgentInv
  <1>2. AgentInv /\ [AgentNext]_vars => AgentInv'
    <2> SUFFICES ASSUME AgentInv, [AgentNext]_vars PROVE AgentInv'
      OBVIOUS
    <2>1. ASSUME NEW g \in Agents, Works(g) PROVE AgentInv'
      BY <2>1, AskKeeps, ResendKeeps, NothingToDoKeeps, StartScanKeeps,
         EndScanKeeps, SaveKeeps, DeliveredKeeps, RefusedKeeps, RestartKeeps
         DEF Works
    <2>2. ASSUME NEW g \in Agents, Serves(g) PROVE AgentInv'
      BY <2>2, ServeNextKeeps, ServeCheckKeeps, ServeWriteKeeps DEF Serves
    <2>3. ASSUME NEW g \in Agents, Fails(g) PROVE AgentInv'
      BY <2>3, GiveUpKeeps DEF Fails
    <2>4. CASE UNCHANGED vars
      <3>1. AgentTypeOK' /\ OneActiveScan'
        BY <2>4, TableKept DEF AgentInv, AgentTypeOK, vars, table
      <3>2. AgentShape' /\ AnsweredEnded' /\ Held' /\ UnderWay'
        BY <2>4 DEF AgentInv, AgentShape, AnsweredEnded, Held, UnderWay, vars
      <3>3. Unstarted' /\ HandedOnce' /\ ScannedOnce' /\ FoundRan'
        BY <2>4 DEF AgentInv, Unstarted, HandedOnce, ScannedOnce, FoundRan,
                    Handed, vars
      <3>4. Truthful'
        BY <2>4 DEF AgentInv, Truthful, Real, vars
      <3> QED BY <3>1, <3>2, <3>3, <3>4 DEF AgentInv
    <2> QED BY <2>1, <2>2, <2>3, <2>4, ServeLateKeeps, WriteLateKeeps,
               OthersKeep DEF AgentNext
  <1> QED BY <1>1, <1>2, PTL DEF AgentSpec

(* Of the real agents too: one open audit for the organization.            *)
THEOREM OneAuditOfAgents == AgentSpec => []OneActiveScan
  <1>1. AgentInv => OneActiveScan
    BY DEF AgentInv
  <1> QED BY <1>1, ScanInvariant, PTL

(* process_scan_job, killed, cut off and retried anywhere, never carries   *)
(* out a scan twice.                                                       *)
THEOREM ScansOnce == AgentSpec => []ScannedOnce
  <1>1. AgentInv => ScannedOnce
    BY DEF AgentInv
  <1> QED BY <1>1, ScanInvariant, PTL

(* What the table calls completed was carried out, once, and ended well.   *)
THEOREM CompletedWasScanned == AgentSpec => []CompletedIsScanned
  <1>1. AgentInv => CompletedIsScanned
    BY ScanAgentAssumption DEF AgentInv, Truthful, FoundRan, CompletedIsScanned
  <1> QED BY <1>1, ScanInvariant, PTL

(* The result of a scan that is open stays in the outbox, obsolete answers *)
(* to other calls notwithstanding.                                         *)
THEOREM ResultsAreHeld == AgentSpec => []ResultHeld
  <1>1. AgentInv => ResultHeld
    BY DEF AgentInv, Held, ResultHeld
  <1> QED BY <1>1, ScanInvariant, PTL
=============================================================================
