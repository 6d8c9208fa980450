----------------------- MODULE OperationWorkerProofs -----------------------
(***************************************************************************)
(* Proofs about ManagedActions and OperationWorker, for every number of    *)
(* servers, addresses, rows, machines and late calls, every duration, and  *)
(* any crashes and lost calls.                                             *)
(*                                                                         *)
(* The table alone comes first, under every interleaving of its handlers;  *)
(* then what the worker and the table guarantee together.                  *)
(***************************************************************************)
EXTENDS OperationWorker, TLAPS

-----------------------------------------------------------------------------
(* The table of actions.                                                   *)

(* The strengthening: an undo is inserted approved and never goes back, so *)
(* approving a proposal cannot change what is left of an undo's grant.     *)
UndoNeverProposed ==
    \A c \in Ids : rows[c].kind = "firewall_unblock" =>
        rows[c].status \notin {"absent", "proposed"}

(* expire() moves overdue rows and touches nothing but the status, the     *)
(* result and the age.                                                     *)
LEMMA OverdueMoves ==
    ASSUME NEW r \in Row
    PROVE  /\ Overdue(r) \in Row
           /\ Overdue(r).kind = r.kind
           /\ Overdue(r).server = r.server
           /\ Overdue(r).source_ip = r.source_ip
           /\ Overdue(r).parent = r.parent
           /\ Overdue(r).approver = r.approver
           /\ Overdue(r).ttl = r.ttl
           /\ \/ Overdue(r) = r
              \/ /\ r.status = "approved" /\ r.ttl = 0
                 /\ Overdue(r).status = "cancelled"
              \/ /\ r.status = "running"
                 /\ Overdue(r).status = "uncertain"
<1>1. CASE PickupOver(r)
  <2>1. Overdue(r) =
          [r EXCEPT !.status = "cancelled", !.result = "pickup expired"]
    BY <1>1 DEF Overdue
  <2>. QED
    BY <1>1, <2>1 DEF PickupOver, Row, Status
<1>2. CASE ~PickupOver(r) /\ RunOver(r)
  <2>1. Overdue(r) = [r EXCEPT !.status = "uncertain", !.result = "no report",
                               !.age = 0]
    BY <1>2 DEF Overdue
  <2>2. 0 \in 0..(RunLimit + 1)
    BY ManagedActionsAssumption
  <2>. QED
    BY <1>2, <2>1, <2>2 DEF RunOver, Row, Status, Dispatched
<1>3. CASE ~PickupOver(r) /\ ~RunOver(r)
  BY <1>3 DEF Overdue
<1>. QED
  BY <1>1, <1>2, <1>3

LEMMA ExpireTyped ==
    ASSUME TypeOK
    PROVE  Expire(rows) \in [Ids -> Row]
BY OverdueMoves DEF TypeOK, Expire

LEMMA Zero == 0 \in 0..(RunLimit + 1)
BY ManagedActionsAssumption

LEMMA AbsentTyped == Absent \in Row
BY Zero DEF Absent, Row, Status, Kinds

(* Each handler writes a row of the declared shape.                        *)
LEMMA RowsWritten ==
    /\ \A s \in Servers :
           BackupProposal(s) \in Row
    /\ \A s \in Servers, ip \in Addresses, d \in BlockDurations :
           BlockProposal(s, ip, d) \in Row
    /\ \A r \in Row, role \in Deciders : Granted(r, role) \in Row
    /\ \A r \in Row : Cancelled(r) \in Row
    /\ \A r \in Row : Started(r) \in Row
    /\ \A r \in Row, p \in Payloads : Reported(r, p) \in Row
<1>1. \A s \in Servers :
          BackupProposal(s) \in Row
  BY AbsentTyped DEF BackupProposal, Row, Status
<1>2. \A s \in Servers, ip \in Addresses, d \in BlockDurations :
          BlockProposal(s, ip, d) \in Row
  BY AbsentTyped, ManagedActionsAssumption
     DEF BlockProposal, Row, Status, Kinds
<1>3. \A r \in Row, role \in Deciders : Granted(r, role) \in Row
  <2>. SUFFICES ASSUME NEW r \in Row, NEW role \in Deciders
                PROVE  Granted(r, role) \in Row
    OBVIOUS
  <2>1. GrantLength(r) \in Nat
    BY ManagedActionsAssumption DEF GrantLength, Row
  <2>. QED
    BY <2>1 DEF Granted, Row, Status, Deciders
<1>4. \A r \in Row : Cancelled(r) \in Row
  BY DEF Cancelled, Row, Status
<1>5. \A r \in Row : Started(r) \in Row
  BY Zero DEF Started, Row, Status, Dispatched
<1>6. \A r \in Row, p \in Payloads : Reported(r, p) \in Row
  BY Zero DEF Reported, Row, Status, Dispatched, Payloads, Outcomes
<1>. QED
  BY <1>1, <1>2, <1>3, <1>4, <1>5, <1>6

LEMMA UndoTyped ==
    ASSUME TypeOK, NEW a \in Ids, NEW role \in Deciders
    PROVE  UndoOf(a, role) \in Row
<1>1. rows[a] \in Row
  BY DEF TypeOK
<1>. QED
  BY <1>1, AbsentTyped DEF UndoOf, Row, Status, Kinds, Deciders

(* One more unit of time keeps a row a row.                                *)
LEMMA OlderTyped ==
    ASSUME NEW r \in Row
    PROVE  Older(r) \in Row
<1>1. r.ttl \in Nat /\ r.age \in 0..(RunLimit + 1)
  BY DEF Row
<1>2. TimeLeft(r) \in Nat
  BY <1>1 DEF TimeLeft
<1>3. TimeRun(r) \in 0..(RunLimit + 1)
  BY <1>1, ManagedActionsAssumption DEF TimeRun
<1>. QED
  BY <1>2, <1>3 DEF Older, Row

LEMMA TypeSteps == TypeOK /\ [Next]_rows => TypeOK'
<1> SUFFICES ASSUME TypeOK, [Next]_rows PROVE TypeOK'
  OBVIOUS
<1>. USE RowsWritten, ExpireTyped DEF TypeOK
<1>1. CASE Listing
  BY <1>1 DEF Listing
<1>2. ASSUME NEW role \in Roles, NEW s \in Servers, ProposeBackup(role, s)
      PROVE  TypeOK'
  BY <1>2 DEF ProposeBackup, Insert
<1>3. ASSUME NEW role \in Roles, NEW s \in Servers, NEW ip \in Addresses,
             NEW d \in BlockDurations, ProposeBlock(role, s, ip, d)
      PROVE  TypeOK'
  BY <1>3 DEF ProposeBlock, Insert
<1>4. ASSUME NEW role \in Roles, NEW a \in Ids, Approve(role, a)
      PROVE  TypeOK'
  BY <1>4 DEF Approve
<1>5. ASSUME NEW role \in Roles, NEW a \in Ids, Withdraw(role, a)
      PROVE  TypeOK'
  BY <1>5 DEF Withdraw
<1>6. ASSUME NEW role \in Roles, NEW a \in Ids, Undo(role, a)
      PROVE  TypeOK'
  BY <1>6, UndoTyped DEF Undo, Insert
<1>7. ASSUME NEW s \in Servers, NEW a \in Ids, NextClaims(s, a)
      PROVE  TypeOK'
  BY <1>7 DEF NextClaims
<1>8. ASSUME NEW s \in Servers, NextNothing(s)
      PROVE  TypeOK'
  BY <1>8 DEF NextNothing
<1>9. ASSUME NEW s \in Servers, NEW a \in Ids, NEW p \in Payloads,
             Complete(s, a, p)
      PROVE  TypeOK'
  BY <1>9 DEF Complete
<1>10. CASE Tick
  BY <1>10, OlderTyped DEF Tick
<1>11. CASE UNCHANGED rows
  BY <1>11
<1>. QED
  BY <1>1, <1>2, <1>3, <1>4, <1>5, <1>6, <1>7, <1>8, <1>9, <1>10, <1>11
     DEF Next, UserStep, AgentStep

(* Type correctness: the table only ever holds rows of the declared shape. *)
THEOREM TypeCorrect == Spec => []TypeOK
<1>1. Init => TypeOK
  BY AbsentTyped DEF Init, TypeOK
<1>. QED
  BY <1>1, TypeSteps, PTL DEF Spec

-----------------------------------------------------------------------------
(* What each row a handler writes says, field by field.                    *)

LEMMA GrantedFields ==
    ASSUME NEW r \in Row, NEW role
    PROVE  /\ Granted(r, role).status = "approved"
           /\ Granted(r, role).approver = role
           /\ Granted(r, role).kind = r.kind
           /\ Granted(r, role).server = r.server
           /\ Granted(r, role).source_ip = r.source_ip
           /\ Granted(r, role).parent = r.parent
BY DEF Granted, Row

LEMMA CancelledFields ==
    ASSUME NEW r \in Row
    PROVE  /\ Cancelled(r).status = "cancelled"
           /\ Cancelled(r).approver = r.approver
           /\ Cancelled(r).kind = r.kind
           /\ Cancelled(r).server = r.server
           /\ Cancelled(r).source_ip = r.source_ip
           /\ Cancelled(r).parent = r.parent
           /\ Cancelled(r).ttl = r.ttl
BY DEF Cancelled, Row

LEMMA StartedFields ==
    ASSUME NEW r \in Row
    PROVE  /\ Started(r).status = "running"
           /\ Started(r).approver = r.approver
           /\ Started(r).kind = r.kind
           /\ Started(r).server = r.server
           /\ Started(r).source_ip = r.source_ip
           /\ Started(r).parent = r.parent
           /\ Started(r).ttl = r.ttl
BY DEF Started, Row

LEMMA ReportedFields ==
    ASSUME NEW r \in Row, NEW p \in Payloads
    PROVE  /\ Reported(r, p).status = p.status
           /\ p.status \in Outcomes
           /\ Reported(r, p).result = p.message
           /\ Reported(r, p).approver = r.approver
           /\ Reported(r, p).kind = r.kind
           /\ Reported(r, p).server = r.server
           /\ Reported(r, p).source_ip = r.source_ip
           /\ Reported(r, p).parent = r.parent
           /\ Reported(r, p).ttl = r.ttl
BY DEF Reported, Row, Payloads

LEMMA UndoFields ==
    ASSUME TypeOK, NEW a \in Ids, NEW role
    PROVE  /\ UndoOf(a, role).status = "approved"
           /\ UndoOf(a, role).kind = "firewall_unblock"
           /\ UndoOf(a, role).approver = role
           /\ UndoOf(a, role).server = rows[a].server
           /\ UndoOf(a, role).source_ip = rows[a].source_ip
           /\ UndoOf(a, role).parent = a
           /\ UndoOf(a, role).ttl = rows[a].ttl
BY DEF UndoOf, Absent

LEMMA OlderFields ==
    ASSUME NEW r \in Row
    PROVE  /\ Older(r).status = r.status
           /\ Older(r).approver = r.approver
           /\ Older(r).kind = r.kind
           /\ Older(r).server = r.server
           /\ Older(r).source_ip = r.source_ip
           /\ Older(r).parent = r.parent
           /\ Older(r).result = r.result
           /\ Older(r).ttl = TimeLeft(r)
           /\ TimeLeft(r) > 0 => r.ttl > 0
<1>1. r.ttl \in Nat
  BY DEF Row
<1>2. TimeLeft(r) > 0 => r.ttl > 0
  BY <1>1 DEF TimeLeft
<1>. QED
  BY <1>2 DEF Older, Row

Inv ==
    /\ OneRunning
    /\ OneGrant
    /\ UndoFollowsBlock
    /\ UndoHitsOwnBlock
    /\ UndoNeverProposed
    /\ ApprovedBeforeDispatch

-----------------------------------------------------------------------------
(* The steps fall into four shapes: a proposal is inserted, a proposal is  *)
(* approved, an undo is inserted, or no row is inserted and every row      *)
(* keeps what it aims at while its status flows forward.                   *)

Proposal(a, r) ==
    /\ IsNext(a)
    /\ r.status = "proposed" /\ r.parent = 0
    /\ r.kind \in {"backup", "firewall_block"}
    /\ rows' = [rows EXCEPT ![a] = r]

Flow(old, new) ==
    \/ new = old
    \/ old \in {"proposed", "approved"} /\ new = "cancelled"
    \/ old = "approved" /\ new = "running"
    \/ old \in {"running", "uncertain"} /\ new \in Outcomes

SameAim(r, q) ==
    /\ q.kind = r.kind /\ q.server = r.server /\ q.source_ip = r.source_ip
    /\ q.parent = r.parent /\ q.approver = r.approver

FlowStep ==
    /\ \A b \in Ids :
        /\ SameAim(rows[b], rows'[b])
        /\ Flow(rows[b].status, rows'[b].status)
        /\ rows'[b].ttl > 0 => rows[b].ttl > 0
        /\ rows[b].status \in Final => rows'[b].result = rows[b].result
    /\ \A b, c \in Ids :
        rows[b].ttl = rows[c].ttl => rows'[b].ttl = rows'[c].ttl
    /\ \A b, c \in Ids :
        /\ rows[b].status # "running" /\ rows'[b].status = "running"
        /\ rows'[c].status = "running"
        /\ rows[c].status # "running" \/ rows'[c].server = rows'[b].server
        => b = c

LEMMA StepShape ==
    ASSUME TypeOK, [Next]_rows
    PROVE  \/ \E a \in Ids, r \in Row : Proposal(a, r)
           \/ \E a \in Ids, role \in Roles : Approve(role, a)
           \/ \E a \in Ids, role \in Roles : Undo(role, a)
           \/ FlowStep
<1>. USE DEF TypeOK
<1>1. CASE Listing
  <2>1. \A b \in Ids : rows'[b] = Overdue(rows[b])
    BY <1>1 DEF Listing, Expire
  <2>. QED
    BY <2>1, OverdueMoves DEF FlowStep, Flow, SameAim, Outcomes, Final
<1>2. ASSUME NEW role \in Roles, NEW s \in Servers, ProposeBackup(role, s)
      PROVE  \E a \in Ids, r \in Row : Proposal(a, r)
  <2>1. BackupProposal(s) \in Row
    BY RowsWritten
  <2>2. /\ BackupProposal(s).status = "proposed"
        /\ BackupProposal(s).kind = "backup"
        /\ BackupProposal(s).parent = 0
    BY DEF BackupProposal, Absent
  <2>. QED
    BY <1>2, <2>1, <2>2 DEF ProposeBackup, Insert, Proposal
<1>3. ASSUME NEW role \in Roles, NEW s \in Servers, NEW ip \in Addresses,
             NEW d \in BlockDurations, ProposeBlock(role, s, ip, d)
      PROVE  \E a \in Ids, r \in Row : Proposal(a, r)
  <2>1. BlockProposal(s, ip, d) \in Row
    BY RowsWritten
  <2>2. /\ BlockProposal(s, ip, d).status = "proposed"
        /\ BlockProposal(s, ip, d).kind = "firewall_block"
        /\ BlockProposal(s, ip, d).parent = 0
    BY DEF BlockProposal, Absent
  <2>. QED
    BY <1>3, <2>1, <2>2 DEF ProposeBlock, Insert, Proposal
<1>4. ASSUME NEW role \in Roles, NEW a \in Ids, Withdraw(role, a)
      PROVE  FlowStep
  <2>1. \A b \in Ids : rows'[b] =
            IF b = a THEN Cancelled(rows[a]) ELSE rows[b]
    BY <1>4 DEF Withdraw
  <2>2. rows[a].status \in {"proposed", "approved"}
    BY <1>4 DEF Withdraw, Withdrawable
  <2>3. \A b \in Ids : /\ SameAim(rows[b], rows'[b])
                       /\ rows'[b].ttl = rows[b].ttl
    BY <2>1, CancelledFields DEF SameAim
  <2>4. \A b \in Ids : Flow(rows[b].status, rows'[b].status)
    BY <2>1, <2>2, CancelledFields DEF Flow
  <2>5. \A b \in Ids : /\ rows[b].status \in Final => rows'[b] = rows[b]
                       /\ rows'[b].status = "running" => rows'[b] = rows[b]
    BY <2>1, <2>2, CancelledFields DEF Final
  <2>. QED
    BY <2>3, <2>4, <2>5 DEF FlowStep
<1>5. ASSUME NEW s \in Servers, NEW a \in Ids, NextClaims(s, a)
      PROVE  FlowStep
  <2>1. \A b \in Ids : rows'[b] = IF b = a THEN Started(Overdue(rows[a]))
                                           ELSE Overdue(rows[b])
    BY <1>5 DEF NextClaims, Expire
  <2>2. Overdue(rows[a]).status = "approved"
    BY <1>5 DEF NextClaims, Oldest, Waiting, Expire
  <2>3. rows[a].status = "approved"
    BY <2>2, OverdueMoves
  <2>4. \A b \in Ids : /\ SameAim(rows[b], rows'[b])
                       /\ rows'[b].ttl = rows[b].ttl
    BY <2>1, OverdueMoves, StartedFields DEF SameAim
  <2>5. \A b \in Ids : Flow(rows[b].status, rows'[b].status)
    BY <2>1, <2>3, OverdueMoves, StartedFields DEF Flow, Outcomes
  <2>6. \A b \in Ids : rows[b].status \in Final => rows'[b] = rows[b]
    BY <2>1, <2>3, OverdueMoves DEF Final
  <2>7. \A b \in Ids : rows'[b].status = "running" /\ b # a =>
                         rows[b].status = "running" /\ rows[b].server # s
    BY <1>5, <2>1, OverdueMoves DEF NextClaims, Busy, Expire
  <2>8. rows[a].server = s
    BY <1>5, OverdueMoves DEF NextClaims, Oldest, Waiting, Expire
  <2>9. \A b, c \in Ids :
            /\ rows[b].status # "running" /\ rows'[b].status = "running"
            /\ rows'[c].status = "running"
            /\ rows[c].status # "running" \/ rows'[c].server = rows'[b].server
            => b = c
    BY <2>4, <2>7, <2>8 DEF SameAim
  <2>. QED
    BY <2>4, <2>5, <2>6, <2>9 DEF FlowStep
<1>6. ASSUME NEW s \in Servers, NextNothing(s)
      PROVE  FlowStep
  <2>1. \A b \in Ids : rows'[b] = Overdue(rows[b])
    BY <1>6 DEF NextNothing, Expire
  <2>. QED
    BY <2>1, OverdueMoves DEF FlowStep, Flow, SameAim, Outcomes, Final
<1>7. ASSUME NEW s \in Servers, NEW a \in Ids, NEW p \in Payloads,
             Complete(s, a, p)
      PROVE  FlowStep
  <2>1. \A b \in Ids : rows'[b] = IF b = a THEN Reported(rows[a], p)
                                           ELSE rows[b]
    BY <1>7 DEF Complete
  <2>2. rows[a].status \in {"running", "uncertain"}
    BY <1>7 DEF Complete, Records
  <2>3. \A b \in Ids : /\ SameAim(rows[b], rows'[b])
                       /\ rows'[b].ttl = rows[b].ttl
    BY <2>1, ReportedFields DEF SameAim
  <2>4. \A b \in Ids : Flow(rows[b].status, rows'[b].status)
    BY <2>1, <2>2, ReportedFields DEF Flow
  <2>5. \A b \in Ids : /\ rows[b].status \in Final => rows'[b] = rows[b]
                       /\ rows'[b].status = "running" => rows'[b] = rows[b]
    BY <2>1, <2>2, ReportedFields DEF Final, Outcomes
  <2>. QED
    BY <2>3, <2>4, <2>5 DEF FlowStep
<1>8. CASE Tick
  <2>1. \A b \in Ids : rows'[b] = Older(rows[b])
    BY <1>8 DEF Tick
  <2>. QED
    BY <2>1, OlderFields DEF FlowStep, Flow, SameAim, TimeLeft
<1>9. CASE UNCHANGED rows
  BY <1>9 DEF FlowStep, Flow, SameAim
<1>. QED
  BY <1>1, <1>2, <1>3, <1>4, <1>5, <1>6, <1>7, <1>8, <1>9
     DEF Next, UserStep, AgentStep

LEMMA UndoSteps ==
    ASSUME TypeOK, UndoFollowsBlock, UndoNeverProposed, [Next]_rows
    PROVE  UndoFollowsBlock' /\ UndoNeverProposed'
<1>. USE DEF TypeOK
<1>1. ASSUME NEW a \in Ids, NEW r \in Row, Proposal(a, r)
      PROVE  UndoFollowsBlock' /\ UndoNeverProposed'
  <2>1. \A b \in Ids : rows'[b] = IF b = a THEN r ELSE rows[b]
    BY <1>1 DEF Proposal
  <2>2. /\ rows[a].status = "absent" /\ r.status = "proposed"
        /\ r.parent = 0 /\ r.kind # "firewall_unblock"
    BY <1>1 DEF Proposal, IsNext
  <2>3. UndoNeverProposed'
    BY <2>1, <2>2 DEF UndoNeverProposed
  <2>4. UndoFollowsBlock'
    BY <2>1, <2>2 DEF UndoFollowsBlock, UndoneBy, Dispatched, Ids
  <2>. QED
    BY <2>3, <2>4
<1>2. ASSUME NEW a \in Ids, NEW role \in Roles, Approve(role, a)
      PROVE  UndoFollowsBlock' /\ UndoNeverProposed'
  <2>1. \A b \in Ids : rows'[b] = IF b = a THEN Granted(rows[a], role)
                                           ELSE rows[b]
    BY <1>2 DEF Approve
  <2>2. rows[a].status = "proposed"
    BY <1>2 DEF Approve
  <2>3. UndoNeverProposed'
    BY <2>1, <2>2, GrantedFields DEF UndoNeverProposed
  <2>4. UndoFollowsBlock'
    BY <2>1, <2>2, GrantedFields
       DEF UndoFollowsBlock, UndoNeverProposed, UndoneBy, Dispatched
  <2>. QED
    BY <2>3, <2>4
<1>3. ASSUME NEW a \in Ids, NEW role \in Roles, Undo(role, a)
      PROVE  UndoFollowsBlock' /\ UndoNeverProposed'
  <2>1. PICK c \in Ids : /\ IsNext(c)
                         /\ rows' = [rows EXCEPT ![c] = UndoOf(a, role)]
    BY <1>3 DEF Undo, Insert
  <2>2. \A b \in Ids : rows'[b] = IF b = c THEN UndoOf(a, role) ELSE rows[b]
    BY <2>1
  <2>3. /\ rows[c].status = "absent" /\ c # a
        /\ rows[a].kind = "firewall_block" /\ rows[a].status \in Dispatched
        /\ \A d \in Ids : ~UndoneBy(a, d)
    BY <1>3, <2>1 DEF Undo, IsNext, Dispatched
  <2>4. UndoNeverProposed'
    BY <2>2, UndoFields DEF UndoNeverProposed
  <2>5. UndoFollowsBlock'
    <3>1. \A d \in Ids : d # c => rows'[d] = rows[d]
      BY <2>2
    <3>2. \A d \in Ids : d # c => rows[d].parent # a \/ rows[d].status = "absent"
      BY <2>3 DEF UndoneBy
    <3>3. /\ rows'[c].kind = "firewall_unblock" /\ rows'[c].parent = a
          /\ rows'[c].server = rows[a].server
          /\ rows'[c].source_ip = rows[a].source_ip
          /\ rows'[c].ttl = rows[a].ttl
      BY <2>2, UndoFields
    <3>4. \A d \in Ids : rows[d].kind = "firewall_unblock" =>
              rows[d].status # "absent" /\ d # c /\ rows[d].parent # c
      BY <2>3 DEF UndoNeverProposed, UndoFollowsBlock, Dispatched
    <3>. QED
      BY <2>3, <3>1, <3>2, <3>3, <3>4 DEF UndoFollowsBlock, UndoneBy
  <2>. QED
    BY <2>4, <2>5
<1>4. CASE FlowStep
  <2>1. UndoNeverProposed'
    BY <1>4 DEF FlowStep, Flow, SameAim, UndoNeverProposed, Outcomes
  <2>2. UndoFollowsBlock'
    BY <1>4 DEF FlowStep, Flow, SameAim, UndoFollowsBlock, UndoneBy,
                Dispatched, Outcomes
  <2>. QED
    BY <2>1, <2>2
<1>. QED
  BY <1>1, <1>2, <1>3, <1>4, StepShape

LEMMA GrantSteps ==
    ASSUME TypeOK, OneGrant, UndoHitsOwnBlock, UndoFollowsBlock,
           UndoNeverProposed, [Next]_rows
    PROVE  OneGrant' /\ UndoHitsOwnBlock'
<1>. USE DEF TypeOK
<1>1. ASSUME NEW a \in Ids, NEW r \in Row, Proposal(a, r)
      PROVE  OneGrant' /\ UndoHitsOwnBlock'
  <2>1. \A b \in Ids : rows'[b] = IF b = a THEN r ELSE rows[b]
    BY <1>1 DEF Proposal
  <2>2. r.status = "proposed"
    BY <1>1 DEF Proposal
  <2>. QED
    BY <2>1, <2>2 DEF OneGrant, UndoHitsOwnBlock, Live
<1>2. ASSUME NEW a \in Ids, NEW role \in Roles, Approve(role, a)
      PROVE  OneGrant' /\ UndoHitsOwnBlock'
  <2>1. \A b \in Ids : rows'[b] = IF b = a THEN Granted(rows[a], role)
                                           ELSE rows[b]
    BY <1>2 DEF Approve
  <2>2. /\ rows[a].status = "proposed"
        /\ rows[a].kind # "firewall_unblock"
        /\ rows[a].kind = "firewall_block" =>
               \A b \in Ids : ~DuplicateOf(a, b)
    BY <1>2 DEF Approve, UndoNeverProposed
  <2>3. \A b \in Ids :
            /\ rows[a].kind = "firewall_block"
            /\ b # a
            /\ rows[b].server = rows[a].server
            /\ rows[b].source_ip = rows[a].source_ip
            /\ rows[b].kind \in {"firewall_block", "firewall_unblock"}
            => rows[b].status \notin Live \/ ~(rows[b].ttl > 0)
    BY <2>2 DEF DuplicateOf
  <2>4. OneGrant'
    BY <2>1, <2>3, GrantedFields DEF OneGrant
  <2>5. UndoHitsOwnBlock'
    BY <2>1, <2>2, <2>3, GrantedFields DEF UndoHitsOwnBlock, Live
  <2>. QED
    BY <2>4, <2>5
<1>3. ASSUME NEW a \in Ids, NEW role \in Roles, Undo(role, a)
      PROVE  OneGrant' /\ UndoHitsOwnBlock'
  <2>1. PICK c \in Ids : /\ IsNext(c)
                         /\ rows' = [rows EXCEPT ![c] = UndoOf(a, role)]
    BY <1>3 DEF Undo, Insert
  <2>2. \A b \in Ids : rows'[b] = IF b = c THEN UndoOf(a, role) ELSE rows[b]
    BY <2>1
  <2>3. /\ rows[a].kind = "firewall_block" /\ rows[a].status \in Live
    BY <1>3 DEF Undo, Live
  <2>4. OneGrant'
    BY <2>2, UndoFields DEF OneGrant
  <2>5. \A b \in Ids :
            /\ rows[b].kind = "firewall_block" /\ rows[b].status \in Live
            /\ rows[b].server = rows[a].server
            /\ rows[b].source_ip = rows[a].source_ip
            /\ rows[a].ttl > 0 /\ rows[b].ttl > 0
            => b = a
    BY <2>3 DEF OneGrant
  <2>6. UndoHitsOwnBlock'
    BY <2>2, <2>5, UndoFields DEF UndoHitsOwnBlock
  <2>. QED
    BY <2>4, <2>6
<1>4. CASE FlowStep
  <2>1. \A b \in Ids : rows'[b].status \in Live => rows[b].status \in Live
                         \/ rows[b].status = "absent"
    BY <1>4 DEF FlowStep, Flow, Live, Outcomes
  <2>2. OneGrant'
    BY <1>4, <2>1 DEF FlowStep, SameAim, OneGrant, Flow, Live, Outcomes
  <2>3. \A c \in Ids : rows'[c].status \in {"approved", "running"} =>
                           rows[c].status \in {"approved", "running"}
    BY <1>4 DEF FlowStep, Flow, Outcomes
  <2>4. UndoHitsOwnBlock'
    BY <1>4, <2>3 DEF FlowStep, SameAim, UndoHitsOwnBlock, Flow, Live, Outcomes
  <2>. QED
    BY <2>2, <2>4
<1>. QED
  BY <1>1, <1>2, <1>3, <1>4, StepShape

LEMMA RunningSteps ==
    ASSUME TypeOK, OneRunning, ApprovedBeforeDispatch, [Next]_rows
    PROVE  OneRunning' /\ ApprovedBeforeDispatch'
<1>. USE DEF TypeOK
<1>1. ASSUME NEW a \in Ids, NEW r \in Row, Proposal(a, r)
      PROVE  OneRunning' /\ ApprovedBeforeDispatch'
  <2>1. \A b \in Ids : rows'[b] = IF b = a THEN r ELSE rows[b]
    BY <1>1 DEF Proposal
  <2>2. r.status = "proposed"
    BY <1>1 DEF Proposal
  <2>. QED
    BY <2>1, <2>2 DEF OneRunning, ApprovedBeforeDispatch, Dispatched
<1>2. ASSUME NEW a \in Ids, NEW role \in Roles, Approve(role, a)
      PROVE  OneRunning' /\ ApprovedBeforeDispatch'
  <2>1. \A b \in Ids : rows'[b] = IF b = a THEN Granted(rows[a], role)
                                           ELSE rows[b]
    BY <1>2 DEF Approve
  <2>2. role \in Deciders
    BY <1>2 DEF Approve
  <2>. QED
    BY <2>1, <2>2, GrantedFields
       DEF OneRunning, ApprovedBeforeDispatch, Deciders
<1>3. ASSUME NEW a \in Ids, NEW role \in Roles, Undo(role, a)
      PROVE  OneRunning' /\ ApprovedBeforeDispatch'
  <2>1. PICK c \in Ids : /\ IsNext(c)
                         /\ rows' = [rows EXCEPT ![c] = UndoOf(a, role)]
    BY <1>3 DEF Undo, Insert
  <2>2. \A b \in Ids : rows'[b] = IF b = c THEN UndoOf(a, role) ELSE rows[b]
    BY <2>1
  <2>3. role \in Deciders
    BY <1>3 DEF Undo
  <2>. QED
    BY <2>2, <2>3, UndoFields
       DEF OneRunning, ApprovedBeforeDispatch, Deciders
<1>4. CASE FlowStep
  <2>1. OneRunning'
    BY <1>4 DEF FlowStep, SameAim, OneRunning
  <2>2. ApprovedBeforeDispatch'
    BY <1>4 DEF FlowStep, Flow, SameAim, ApprovedBeforeDispatch, Dispatched,
                Outcomes
  <2>. QED
    BY <2>1, <2>2
<1>. QED
  BY <1>1, <1>2, <1>3, <1>4, StepShape

LEMMA FinalSteps ==
    ASSUME TypeOK, [Next]_rows, NEW b \in Ids
    PROVE  /\ rows[b].status \in Final =>
                /\ rows'[b].status = rows[b].status
                /\ rows'[b].result = rows[b].result
           /\ rows[b].status \in Dispatched /\ rows[b].status # rows'[b].status
                => rows'[b].status \in {"uncertain", "completed", "failed"}
<1>. USE DEF TypeOK, Final, Dispatched
<1>1. ASSUME NEW a \in Ids, NEW r \in Row, Proposal(a, r),
             rows[b].status # "absent"
      PROVE  rows'[b] = rows[b]
  BY <1>1 DEF Proposal, IsNext
<1>2. ASSUME NEW a \in Ids, NEW role \in Roles, Approve(role, a),
             rows[b].status # "proposed"
      PROVE  rows'[b] = rows[b]
  BY <1>2 DEF Approve
<1>3. ASSUME NEW a \in Ids, NEW role \in Roles, Undo(role, a),
             rows[b].status # "absent"
      PROVE  rows'[b] = rows[b]
  BY <1>3 DEF Undo, Insert, IsNext
<1>4. ASSUME FlowStep
      PROVE  /\ rows[b].status \in Final =>
                  /\ rows'[b].status = rows[b].status
                  /\ rows'[b].result = rows[b].result
             /\ rows[b].status \in Dispatched
                  /\ rows[b].status # rows'[b].status
                  => rows'[b].status \in {"uncertain", "completed", "failed"}
  BY <1>4 DEF FlowStep, Flow, Outcomes
<1>. QED
  BY <1>1, <1>2, <1>3, <1>4, StepShape

(* The inductive invariant holds of every reachable table.                 *)
THEOREM TableInvariant == Spec => [](TypeOK /\ Inv)
<1>1. Init => Inv
  BY DEF Init, Inv, Absent, OneRunning, OneGrant, UndoFollowsBlock,
         UndoHitsOwnBlock, UndoNeverProposed, ApprovedBeforeDispatch,
         Live, Dispatched
<1>2. TypeOK /\ TypeOK' /\ Inv /\ [Next]_rows => Inv'
  BY UndoSteps, GrantSteps, RunningSteps DEF Inv
<1>. QED
  BY <1>1, <1>2, TypeCorrect, PTL DEF Spec

(* An agent is never asked to work on two actions at once.                 *)
THEOREM OneActionAtATime == Spec => []OneRunning
BY TableInvariant, PTL DEF Inv

(* One address of one server never carries two block grants.               *)
THEOREM OneGrantPerAddress == Spec => []OneGrant
BY TableInvariant, PTL DEF Inv

(* Lifting a block never lifts the block a later grant put in place.       *)
THEOREM UndoIsSafe == Spec => [](UndoFollowsBlock /\ UndoHitsOwnBlock)
BY TableInvariant, PTL DEF Inv

(* Whatever reaches an agent was approved by an owner or administrator.    *)
THEOREM OnlyApprovedLeave == Spec => []ApprovedBeforeDispatch
BY TableInvariant, PTL DEF Inv

(* A completed, failed or cancelled action is never rewritten, and no      *)
(* dispatched action is handed out again.                                  *)
THEOREM VerdictsStay == Spec => FinalStays /\ NeverRedispatched
<1>1. TypeOK /\ [Next]_rows => [KeepFinal]_rows /\ [OnlyForward]_rows
  BY FinalSteps DEF KeepFinal, OnlyForward
<1>. QED
  BY <1>1, TypeCorrect, PTL DEF Spec, FinalStays, NeverRedispatched

-----------------------------------------------------------------------------
(* The worker with the table.                                              *)

(* Nothing the worker does changes the table but through a handler, so     *)
(* every theorem about the table holds in the composed system.             *)
LEMMA TableSteps ==
    ASSUME WorkerTypeOK, [WorkerNext]_vars
    PROVE  [Next]_rows
<1>. USE DEF WorkerTypeOK
<1>1. CASE WorkerStep
  BY <1>1 DEF WorkerStep, Poll, Resend, NothingToDo, WriteReceipt, Execute,
              Finish, Acknowledged, Archive
<1>2. CASE Serve
  <2>1. call # None => call.server \in Servers
    BY DEF Calls
  <2>2. call # None /\ call.op = "complete" =>
            call.id \in Ids /\ call.payload \in Payloads
    BY DEF Calls
  <2>. QED
    BY <1>2, <2>1, <2>2
       DEF Serve, ServeClaim, ServeNothing, ServeResult, ServeSameAgain,
           ServeRefusal, Pending, Next, AgentStep
<1>3. CASE Fault
  <2>1. ASSUME NEW c \in late, ServeLate(c)
        PROVE  [Next]_rows
    <3>1. c.server \in Servers
      BY DEF Calls
    <3>2. c.op = "complete" => c.id \in Ids /\ c.payload \in Payloads
      BY DEF Calls
    <3>. QED
      BY <2>1, <3>1, <3>2 DEF ServeLate, Next, AgentStep
  <2>. QED
    BY <1>3, <2>1 DEF Fault, FinishUnsaved, Abandon, Crash, Enroll
<1>4. CASE Restart
  BY <1>4 DEF Restart
<1>5. CASE Browser
  BY <1>5 DEF Browser, Next
<1>6. CASE Time
  BY <1>6 DEF Time, Next
<1>7. CASE UNCHANGED vars
  BY <1>7 DEF vars
<1>. QED
  BY <1>1, <1>2, <1>3, <1>4, <1>5, <1>6, <1>7 DEF WorkerNext

LEMMA MessagesTyped ==
    /\ Interrupted \in Payloads
    /\ ExecutorResults \subseteq Payloads
    /\ \A s \in Servers : NextCall(s) \in Calls
    /\ \A s \in Servers, a \in Ids, p \in Payloads : CompleteCall(s, a, p) \in Calls
    /\ \A a \in Ids : [code |-> "action", id |-> a] \in Replies
    /\ \A k \in {"nothing", "ok", "refused"} : [code |-> k, id |-> 0] \in Replies
BY OperationWorkerAssumption
   DEF Interrupted, ExecutorResults, Payloads, Outcomes, Calls, NextCall,
       CompleteCall, Replies

(* Leaving a call keeps the set of late calls a set of calls.              *)
LEMMA LeaveTyped ==
    ASSUME WorkerTypeOK, LeaveCall
    PROVE  /\ call' = None /\ reply' = None
           /\ late' \subseteq Calls
           /\ late' \subseteq late \cup {call}
           /\ call = None => late' = late
BY DEF LeaveCall, Answered, WorkerTypeOK

(* Where the worker is tells which file it holds and what it waits for.    *)
Shape ==
    /\ pc = "polling" => receipt = None
    /\ pc \in {"ready", "executing", "posting", "resending"} => receipt # None
    /\ call # None <=> pc \in {"polling", "posting", "resending"}
    /\ call # None => call.server = server_id
    /\ pc = "polling" => call.op = "next"
    /\ pc \in {"posting", "resending"} =>
           call.op = "complete" /\ call.id = receipt.id
    /\ reply # None => call # None
    /\ reply # None /\ pc # "polling" => reply.code \in {"ok", "refused"}

LEMMA ReceiptTyped ==
    ASSUME WorkerTypeOK, receipt # None
    PROVE  /\ receipt \in Receipts
           /\ receipt.id \in Ids
           /\ receipt.result \in Payloads \cup {None}
BY DEF WorkerTypeOK, Receipts

LEMMA WorkerTypeSteps ==
    ASSUME WorkerTypeOK, Shape, [WorkerNext]_vars
    PROVE  WorkerTypeOK'
<1>1. TypeOK'
  <2>1. TypeOK /\ [Next]_rows
    BY TableSteps DEF WorkerTypeOK
  <2>. QED
    BY <2>1, TypeSteps
<1>. USE <1>1 DEF WorkerTypeOK
<1>2. CASE Poll
  BY <1>2, MessagesTyped DEF Poll, PC, history
<1>3. CASE Resend
  BY <1>3, ReceiptTyped, MessagesTyped DEF Resend, PC, history
<1>4. CASE NothingToDo
  BY <1>4 DEF NothingToDo, Answered, PC, history
<1>5. CASE WriteReceipt
  <2>1. reply.id \in Ids
    BY <1>5 DEF WriteReceipt, Replies
  <2>. QED
    BY <1>5, <2>1 DEF WriteReceipt, Answered, Receipts, PC, history
<1>6. CASE Execute
  <2>1. receipt.id \in Ids
    BY <1>6, ReceiptTyped DEF Execute, Shape
  <2>2. runs' \in [Ids -> Nat]
    BY <1>6, <2>1 DEF Execute
  <2>. QED
    BY <1>6, <2>2 DEF Execute, PC
<1>7. ASSUME NEW p \in ExecutorResults, Finish(p)
      PROVE  WorkerTypeOK'
  <2>1. p \in Payloads /\ receipt \in Receipts /\ receipt.id \in Ids
    BY <1>7, ReceiptTyped, MessagesTyped DEF Finish, Shape
  <2>2. receipt' \in Receipts
    BY <1>7, <2>1 DEF Finish, Receipts
  <2>3. recorded' \in [Ids -> Payloads \cup {None}]
    BY <1>7, <2>1 DEF Finish
  <2>4. call' \in Calls
    BY <1>7, <2>1, MessagesTyped DEF Finish
  <2>. QED
    BY <1>7, <2>2, <2>3, <2>4 DEF Finish, PC
<1>8. CASE FinishUnsaved
  BY <1>8 DEF FinishUnsaved, PC, history
<1>9. CASE Acknowledged
  BY <1>9 DEF Acknowledged, Answered, PC, history
<1>10. CASE Archive
  BY <1>10, ReceiptTyped DEF Archive, Answered, PC, Shape
<1>11. CASE Abandon \/ Crash
  BY <1>11, LeaveTyped DEF Abandon, Crash, PC, history
<1>12. CASE Restart
  BY <1>12 DEF Restart, PC, history
<1>13. ASSUME NEW s \in Servers, Enroll(s)
       PROVE  WorkerTypeOK'
  BY <1>13 DEF Enroll, history
<1>14. CASE Serve
  BY <1>14, MessagesTyped
     DEF Serve, ServeClaim, ServeNothing, ServeResult, ServeSameAgain,
         ServeRefusal, Answer, history
<1>15. ASSUME NEW c \in late, ServeLate(c)
       PROVE  WorkerTypeOK'
  BY <1>15 DEF ServeLate, history
<1>16. CASE Browser \/ Time \/ UNCHANGED vars
  BY <1>16 DEF Browser, Time, vars, worker, history
<1>. QED
  BY <1>2, <1>3, <1>4, <1>5, <1>6, <1>7, <1>8, <1>9, <1>10, <1>11, <1>12,
     <1>13, <1>14, <1>15, <1>16
     DEF WorkerNext, WorkerStep, Fault

LEMMA ShapeSteps ==
    ASSUME WorkerTypeOK, Shape, [WorkerNext]_vars
    PROVE  Shape'
<1>. USE DEF Shape
<1>1. CASE Poll
  BY <1>1, OperationWorkerAssumption, MessagesTyped
     DEF Poll, NextCall, WorkerTypeOK
<1>2. CASE Resend
  BY <1>2, OperationWorkerAssumption, MessagesTyped, ReceiptTyped
     DEF Resend, CompleteCall, WorkerTypeOK
<1>3. CASE NothingToDo \/ Acknowledged \/ Archive
  BY <1>3 DEF NothingToDo, Acknowledged, Archive, Answered
<1>4. CASE WriteReceipt
  BY <1>4, OperationWorkerAssumption DEF WriteReceipt, Answered, Receipts, Replies,
     WorkerTypeOK
<1>5. CASE Execute \/ FinishUnsaved
  BY <1>5 DEF Execute, FinishUnsaved
<1>6. ASSUME NEW p \in ExecutorResults, Finish(p)
      PROVE  Shape'
  BY <1>6, OperationWorkerAssumption, MessagesTyped, ReceiptTyped
     DEF Finish, CompleteCall, WorkerTypeOK, Receipts
<1>7. CASE Abandon \/ Crash
  BY <1>7, LeaveTyped DEF Abandon, Crash
<1>8. CASE Restart
  BY <1>8 DEF Restart
<1>9. ASSUME NEW s \in Servers, Enroll(s)
      PROVE  Shape'
  BY <1>9 DEF Enroll
<1>10. CASE Serve
  BY <1>10
     DEF Serve, ServeClaim, ServeNothing, ServeResult, ServeSameAgain,
         ServeRefusal, Answer, Pending
<1>11. ASSUME NEW c \in late, ServeLate(c)
       PROVE  Shape'
  BY <1>11 DEF ServeLate
<1>12. CASE Browser \/ Time \/ UNCHANGED vars
  BY <1>12 DEF Browser, Time, vars, worker
<1>. QED
  BY <1>1, <1>2, <1>3, <1>4, <1>5, <1>6, <1>7, <1>8, <1>9, <1>10, <1>11,
     <1>12 DEF WorkerNext, WorkerStep, Fault

-----------------------------------------------------------------------------
(* What the handlers other than a report do to an action that was handed   *)
(* out: nothing, or they make a running action uncertain.                  *)
Quiet ==
    \A b \in Ids :
        /\ rows[b].status \in {"uncertain", "completed", "failed"} =>
               /\ rows'[b].status = rows[b].status
               /\ rows'[b].result = rows[b].result
        /\ rows[b].status = "running" =>
               rows'[b].status \in {"running", "uncertain"}
        /\ rows[b].status \notin Dispatched =>
               rows'[b].status \notin Dispatched \ {"running"}
        /\ rows[b].status \in Dispatched => rows'[b].server = rows[b].server

LEMMA QuietSteps ==
    ASSUME TypeOK,
           \/ UserStep \/ Tick \/ UNCHANGED rows
           \/ \E s \in Servers, a \in Ids : NextClaims(s, a)
           \/ \E s \in Servers : NextNothing(s)
    PROVE  Quiet
<1>. USE DEF TypeOK, Dispatched
<1>1. ASSUME \/ Listing
             \/ \E s \in Servers : NextNothing(s)
      PROVE  Quiet
  <2>1. \A b \in Ids : rows'[b] = Overdue(rows[b])
    BY <1>1 DEF Listing, NextNothing, Expire
  <2>. QED
    BY <2>1, OverdueMoves DEF Quiet
<1>2. ASSUME NEW r \in Row, Insert(r), r.status \in {"proposed", "approved"}
      PROVE  Quiet
  BY <1>2 DEF Insert, IsNext, Quiet
<1>3. ASSUME NEW role \in Roles, NEW a \in Ids, Approve(role, a)
      PROVE  Quiet
  BY <1>3, GrantedFields DEF Approve, Quiet
<1>4. ASSUME NEW role \in Roles, NEW a \in Ids, Withdraw(role, a)
      PROVE  Quiet
  BY <1>4, CancelledFields DEF Withdraw, Withdrawable, Quiet
<1>5. ASSUME NEW s \in Servers, NEW a \in Ids, NextClaims(s, a)
      PROVE  Quiet
  <2>1. \A b \in Ids : rows'[b] = IF b = a THEN Started(Overdue(rows[a]))
                                           ELSE Overdue(rows[b])
    BY <1>5 DEF NextClaims, Expire
  <2>2. rows[a].status = "approved"
    BY <1>5, OverdueMoves DEF NextClaims, Oldest, Waiting, Expire
  <2>. QED
    BY <2>1, <2>2, OverdueMoves, StartedFields DEF Quiet
<1>6. ASSUME Tick \/ UNCHANGED rows
      PROVE  Quiet
  BY <1>6, OlderFields DEF Tick, Quiet
<1>7. ASSUME NEW role \in Roles, NEW s \in Servers, ProposeBackup(role, s)
      PROVE  Quiet
  BY <1>7, <1>2, RowsWritten DEF ProposeBackup, BackupProposal, Absent
<1>8. ASSUME NEW role \in Roles, NEW s \in Servers, NEW ip \in Addresses,
             NEW d \in BlockDurations, ProposeBlock(role, s, ip, d)
      PROVE  Quiet
  BY <1>8, <1>2, RowsWritten DEF ProposeBlock, BlockProposal, Absent
<1>9. ASSUME NEW role \in Roles, NEW a \in Ids, Undo(role, a)
      PROVE  Quiet
  BY <1>9, <1>2, UndoTyped, UndoFields DEF Undo
<1>. QED
  BY <1>1, <1>3, <1>4, <1>5, <1>6, <1>7, <1>8, <1>9 DEF UserStep

(* A claim takes an approved action, and only that one becomes running.    *)
LEMMA ClaimSteps ==
    ASSUME TypeOK, NEW s \in Servers, NEW a \in Ids, NextClaims(s, a)
    PROVE  rows[a].status = "approved" /\ rows'[a].status = "running"
<1>. USE DEF TypeOK
<1>1. rows'[a] = Started(Overdue(rows[a]))
  BY DEF NextClaims, Expire
<1>2. rows[a].status = "approved"
  BY OverdueMoves DEF NextClaims, Oldest, Waiting, Expire
<1>. QED
  BY <1>1, <1>2, OverdueMoves, StartedFields

LEMMA ReportSteps ==
    ASSUME TypeOK, NEW s, NEW a \in Ids, NEW p \in Payloads, Complete(s, a, p)
    PROVE  /\ rows[a].status \in {"running", "uncertain"}
           /\ rows'[a].status = p.status /\ rows'[a].result = p.message
           /\ p.status \in Outcomes
           /\ rows'[a].server = rows[a].server
           /\ \A b \in Ids : b # a => rows'[b] = rows[b]
BY ReportedFields DEF Complete, Records, TypeOK

-----------------------------------------------------------------------------
(* One token per action passes from the table to the reply, the receipt    *)
(* and the executor, and is spent there.                                   *)
Tokens ==
    /\ \A a \in Ids :
        /\ runs[a] <= 1
        /\ runs[a] > 0 => rows[a].status \in Dispatched
        /\ recorded[a] # None => runs[a] = 1
    /\ reply # None /\ reply.code = "action" =>
        runs[reply.id] = 0 /\ rows[reply.id].status \in Dispatched
    /\ receipt # None =>
        /\ rows[receipt.id].status \in Dispatched
        /\ receipt.result = recorded[receipt.id]
    /\ pc = "ready" => runs[receipt.id] = 0
    /\ pc = "executing" => runs[receipt.id] = 1 /\ recorded[receipt.id] = None

LEMMA DispatchedStays ==
    ASSUME TypeOK, [Next]_rows, NEW b \in Ids, rows[b].status \in Dispatched
    PROVE  rows'[b].status \in Dispatched
BY FinalSteps DEF Dispatched

LEMMA TokenSteps ==
    ASSUME WorkerTypeOK, Shape, Tokens, [WorkerNext]_vars
    PROVE  Tokens'
<1>. USE DEF Tokens
<1>1. TypeOK /\ [Next]_rows
  BY TableSteps DEF WorkerTypeOK
<1>2. \A a \in Ids : rows[a].status \in Dispatched =>
                         rows'[a].status \in Dispatched
  BY <1>1, DispatchedStays
<1>3. receipt # None => receipt \in Receipts /\ receipt.id \in Ids
  BY ReceiptTyped
<1>4. reply # None => reply \in Replies
                      /\ (reply.code = "action" => reply.id \in Ids)
  BY DEF WorkerTypeOK, Replies
<1>5. CASE Poll \/ Resend \/ FinishUnsaved \/ Restart
  BY <1>5, <1>4 DEF Poll, Resend, FinishUnsaved, Restart, history, Shape
<1>6. CASE NothingToDo \/ Acknowledged \/ Archive
  BY <1>6 DEF NothingToDo, Acknowledged, Archive, Answered, history
<1>7. CASE WriteReceipt
  BY <1>7, <1>4 DEF WriteReceipt, Answered, history, WorkerTypeOK
<1>8. CASE Execute
  BY <1>8, <1>3 DEF Execute, WorkerTypeOK, Shape
<1>9. ASSUME NEW p \in ExecutorResults, Finish(p)
      PROVE  Tokens'
  BY <1>9, <1>3 DEF Finish, WorkerTypeOK, Shape, Receipts
<1>10. CASE Abandon \/ Crash
  BY <1>10, LeaveTyped DEF Abandon, Crash, history
<1>11. ASSUME NEW s \in Servers, Enroll(s)
       PROVE  Tokens'
  BY <1>11 DEF Enroll, history
<1>12. CASE ServeClaim
  <2>1. PICK a \in Ids : NextClaims(call.server, a) /\ Answer("action", a)
    BY <1>12 DEF ServeClaim
  <2>2. call.server \in Servers
    BY <1>12 DEF ServeClaim, Pending, WorkerTypeOK, Calls
  <2>3. rows[a].status = "approved" /\ rows'[a].status = "running"
    BY <1>1, <2>1, <2>2, ClaimSteps
  <2>. QED
    BY <1>2, <1>3, <2>1, <2>3 DEF Answer, history, Dispatched, WorkerTypeOK
<1>13. CASE ServeNothing \/ ServeResult \/ ServeSameAgain \/ ServeRefusal
  BY <1>2, <1>3, <1>13
     DEF ServeNothing, ServeResult, ServeSameAgain, ServeRefusal, Answer,
         history, WorkerTypeOK
<1>14. ASSUME NEW c \in late, ServeLate(c)
       PROVE  Tokens'
  BY <1>2, <1>3, <1>4, <1>14 DEF ServeLate, history
<1>15. CASE Browser \/ Time \/ UNCHANGED vars
  BY <1>2, <1>3, <1>4, <1>15 DEF Browser, Time, vars, worker, history
<1>. QED
  BY <1>5, <1>6, <1>7, <1>8, <1>9, <1>10, <1>11, <1>12, <1>13, <1>14, <1>15
     DEF WorkerNext, WorkerStep, Fault, Serve

-----------------------------------------------------------------------------
(* Every report on its way says what was recorded, and while an action is  *)
(* about to run no report of it is on its way.                             *)
Told(c) ==
    c.op = "complete" =>
        /\ rows[c.id].status \in Dispatched
        /\ c.payload = IF recorded[c.id] = None THEN Interrupted
                                                ELSE recorded[c.id]

Sent ==
    /\ \A c \in late : Told(c)
    /\ call # None => Told(call)
    /\ pc \in {"ready", "executing"} =>
           \A c \in late : c.op = "complete" => c.id # receipt.id
    /\ reply # None /\ reply.code = "action" =>
           \A c \in late : c.op = "complete" => c.id # reply.id

LEMMA CallTyped ==
    ASSUME WorkerTypeOK
    PROVE  /\ call # None => /\ call.server \in Servers
                             /\ call.op = "complete" =>
                                    call.id \in Ids /\ call.payload \in Payloads
           /\ \A c \in late : /\ c.server \in Servers
                              /\ c.op = "complete" =>
                                    c.id \in Ids /\ c.payload \in Payloads
BY DEF WorkerTypeOK, Calls

LEMMA SentSteps ==
    ASSUME WorkerTypeOK, Shape, Tokens, Sent, [WorkerNext]_vars
    PROVE  Sent'
<1>. USE DEF Sent, Told
<1>1. TypeOK /\ [Next]_rows
  BY TableSteps DEF WorkerTypeOK
<1>2. \A a \in Ids : rows[a].status \in Dispatched =>
                         rows'[a].status \in Dispatched
  BY <1>1, DispatchedStays
<1>3. receipt # None => receipt \in Receipts /\ receipt.id \in Ids
  BY ReceiptTyped
<1>4. CASE Poll
  BY <1>4 DEF Poll, NextCall, history, Shape
<1>5. CASE Resend
  BY <1>3, <1>5 DEF Resend, CompleteCall, history, Tokens, Shape
<1>6. CASE NothingToDo \/ Acknowledged \/ Archive
  BY <1>6 DEF NothingToDo, Acknowledged, Archive, Answered, history
<1>7. CASE WriteReceipt
  BY <1>7 DEF WriteReceipt, Answered, history
<1>8. CASE Execute
  BY <1>8 DEF Execute, Shape
<1>9. ASSUME NEW p \in ExecutorResults, Finish(p)
      PROVE  Sent'
  <2>1. receipt \in Receipts /\ receipt.id \in Ids /\ call = None /\ reply = None
    BY <1>3, <1>9 DEF Finish, Shape
  <2>2. /\ recorded'[receipt.id] = p
        /\ \A a \in Ids : a # receipt.id => recorded'[a] = recorded[a]
    BY <1>9, <2>1 DEF Finish, WorkerTypeOK
  <2>3. \A c \in late : Told(c)'
    BY <1>9, <2>1, <2>2, CallTyped DEF Finish
  <2>4. p # None
    BY OperationWorkerAssumption, MessagesTyped
  <2>5. Told(call)'
    BY <1>9, <2>1, <2>2, <2>4 DEF Finish, CompleteCall, Tokens
  <2>. QED
    BY <1>9, <2>1, <2>3, <2>5 DEF Finish
<1>10. CASE Abandon \/ Crash \/ FinishUnsaved
  <2>1. CASE FinishUnsaved
    BY <2>1 DEF FinishUnsaved, history, Shape
  <2>2. CASE Abandon \/ Crash
    BY <2>2, LeaveTyped DEF Abandon, Crash, history
  <2>. QED
    BY <1>10, <2>1, <2>2
<1>11. CASE Restart
  BY <1>11 DEF Restart, history
<1>12. ASSUME NEW s \in Servers, Enroll(s)
       PROVE  Sent'
  BY <1>12 DEF Enroll, history
<1>13. CASE ServeClaim
  <2>1. PICK a \in Ids : NextClaims(call.server, a) /\ Answer("action", a)
    BY <1>13 DEF ServeClaim
  <2>2. rows[a].status = "approved" /\ call.op = "next" /\ call # None
    BY <1>1, <1>13, <2>1, CallTyped, ClaimSteps DEF ServeClaim, Pending
  <2>. QED
    BY <1>2, <1>3, <2>1, <2>2, CallTyped, <1>13
       DEF Answer, history, Dispatched, Shape, ServeClaim, Pending
<1>14. CASE ServeNothing \/ ServeResult \/ ServeSameAgain \/ ServeRefusal
  BY <1>2, <1>3, <1>14, CallTyped
     DEF ServeNothing, ServeResult, ServeSameAgain, ServeRefusal, Answer,
         history
<1>15. ASSUME NEW c \in late, ServeLate(c)
       PROVE  Sent'
  BY <1>2, <1>3, <1>15, CallTyped DEF ServeLate, history
<1>16. CASE Browser \/ Time \/ UNCHANGED vars
  BY <1>2, <1>3, <1>16, CallTyped DEF Browser, Time, vars, worker, history
<1>. QED
  BY <1>4, <1>5, <1>6, <1>7, <1>8, <1>9, <1>10, <1>11, <1>12, <1>13, <1>14,
     <1>15, <1>16 DEF WorkerNext, WorkerStep, Fault, Serve

-----------------------------------------------------------------------------
(* The table's verdicts are the recorded ones, and what the backend        *)
(* answered about them still holds when the worker acts on the answer.     *)
Verdicts ==
    \A a \in Ids : rows[a].status \in {"completed", "failed"} =>
        /\ recorded[a] # None
        /\ recorded[a].status = rows[a].status
        /\ recorded[a].message = rows[a].result

AnswersHold ==
    /\ reply # None /\ reply.code = "ok" =>
        /\ call.op = "complete"
        /\ rows[call.id].status = call.payload.status
        /\ call.payload.status \in Outcomes
    /\ reply # None /\ reply.code = "refused" =>
        /\ call.op = "complete"
        /\ rows[call.id].server # server_id

Arrivals == SavedResultArrives /\ RunningIsAccounted

WInv == Shape /\ Tokens /\ Sent /\ Verdicts /\ AnswersHold /\ Arrivals

(* A step of the table while the worker stands still: a quiet one, or a    *)
(* report of a payload that Told allows.                                   *)
TableWalk ==
    \/ Quiet
    \/ \E a \in Ids, p \in Payloads, s \in Servers :
           /\ Complete(s, a, p)
           /\ p = IF recorded[a] = None THEN Interrupted ELSE recorded[a]

LEMMA WalkKeeps ==
    ASSUME WorkerTypeOK, Tokens, Verdicts, SavedResultArrives, TableWalk,
           UNCHANGED recorded
    PROVE  /\ Verdicts'
           /\ \A a \in Ids : recorded[a] # None /\ rows[a].status = recorded[a].status
                 => rows'[a].status = recorded[a].status
           /\ \A a \in Ids : rows[a].status = "uncertain" /\ recorded[a] = None
                 => rows'[a].status = "uncertain"
           /\ \A a \in Ids : rows[a].status \in Dispatched =>
                 /\ rows'[a].server = rows[a].server
                 /\ rows'[a].status = "running" => rows[a].status = "running"
<1>1. \A a \in Ids : recorded[a] # None => recorded[a] \in Payloads
  BY DEF WorkerTypeOK
<1>2. \A p \in Payloads : p.status \in Outcomes
  BY DEF Payloads
<1>3. CASE Quiet
  BY <1>1, <1>2, <1>3
     DEF Quiet, Verdicts, Dispatched, Outcomes
<1>4. ASSUME NEW a \in Ids, NEW p \in Payloads, NEW s \in Servers,
             Complete(s, a, p),
             p = IF recorded[a] = None THEN Interrupted ELSE recorded[a]
      PROVE  /\ Verdicts'
             /\ \A b \in Ids : recorded[b] # None /\ rows[b].status = recorded[b].status
                   => rows'[b].status = recorded[b].status
             /\ \A b \in Ids : rows[b].status = "uncertain" /\ recorded[b] = None
                   => rows'[b].status = "uncertain"
             /\ \A b \in Ids : rows[b].status \in Dispatched =>
                   /\ rows'[b].server = rows[b].server
                   /\ rows'[b].status = "running" => rows[b].status = "running"
  <2>1. /\ rows[a].status \in {"running", "uncertain"}
        /\ rows'[a].status = p.status /\ rows'[a].result = p.message
        /\ p.status \in Outcomes
        /\ rows'[a].server = rows[a].server
        /\ \A b \in Ids : b # a => rows'[b] = rows[b]
    BY <1>4, ReportSteps DEF WorkerTypeOK
  <2>. QED
    BY <1>4, <2>1 DEF Verdicts, Interrupted, Outcomes
<1>. QED
  BY <1>3, <1>4 DEF TableWalk

LEMMA ArrivalsWalk ==
    ASSUME WorkerTypeOK, Tokens, Verdicts, Arrivals, TableWalk,
           UNCHANGED <<receipt, recorded, runs, archived>>
    PROVE  Verdicts' /\ Arrivals'
<1>1. \A a \in Ids : runs[a] \in Nat
  BY DEF WorkerTypeOK
<1>2. Verdicts'
  BY WalkKeeps DEF Arrivals
<1>3. SavedResultArrives'
  BY WalkKeeps DEF Arrivals, SavedResultArrives
<1>4. RunningIsAccounted'
  BY <1>1, WalkKeeps DEF Arrivals, RunningIsAccounted, Tokens
<1>. QED
  BY <1>2, <1>3, <1>4 DEF Arrivals

LEMMA AnswersWalk ==
    ASSUME WorkerTypeOK, Shape, Tokens, Sent, Verdicts, Arrivals, AnswersHold,
           TableWalk, UNCHANGED <<server_id, call, reply, recorded>>
    PROVE  AnswersHold'
<1>1. ASSUME reply # None, reply.code \in {"ok", "refused"}
      PROVE  /\ call # None /\ call.id \in Ids
             /\ rows[call.id].status \in Dispatched
             /\ call.payload = IF recorded[call.id] = None THEN Interrupted
                               ELSE recorded[call.id]
  BY <1>1, CallTyped DEF AnswersHold, Shape, Sent, Told
<1>. QED
  BY <1>1, WalkKeeps DEF AnswersHold, Arrivals, Interrupted

LEMMA VerdictSteps ==
    ASSUME WorkerTypeOK, WInv, [WorkerNext]_vars
    PROVE  Verdicts' /\ AnswersHold' /\ Arrivals'
<1>. USE DEF WInv
<1>1. receipt # None => receipt \in Receipts /\ receipt.id \in Ids
  BY ReceiptTyped
<1>2. CASE Poll \/ Resend \/ FinishUnsaved \/ Restart
  BY <1>2 DEF Poll, Resend, FinishUnsaved, Restart, history, Shape,
              Verdicts, AnswersHold, Arrivals, SavedResultArrives,
              RunningIsAccounted
<1>3. CASE NothingToDo
  BY <1>3 DEF NothingToDo, Answered, history, Verdicts, AnswersHold, Arrivals,
              SavedResultArrives, RunningIsAccounted
<1>4. CASE WriteReceipt
  <2>1. receipt = None /\ reply' = None /\ UNCHANGED <<rows, runs, recorded, archived>>
    BY <1>4 DEF WriteReceipt, Answered, history, Shape
  <2>2. \A a \in Ids : receipt' = None \/ receipt'.id # a => receipt = None
    BY <2>1
  <2>3. RunningIsAccounted'
    BY <2>1 DEF Arrivals, RunningIsAccounted
  <2>. QED
    BY <2>1, <2>2, <2>3 DEF Verdicts, AnswersHold, Arrivals, SavedResultArrives
<1>5. CASE Execute
  <2>1. receipt # None /\ receipt.id \in Ids /\ reply = None
    BY <1>1, <1>5 DEF Execute, Shape
  <2>. QED
    BY <1>5, <2>1 DEF Execute, Verdicts, AnswersHold, Arrivals,
                      SavedResultArrives, RunningIsAccounted, WorkerTypeOK
<1>6. ASSUME NEW p \in ExecutorResults, Finish(p)
      PROVE  Verdicts' /\ AnswersHold' /\ Arrivals'
  <2>1. /\ receipt \in Receipts /\ receipt.id \in Ids /\ reply = None
        /\ recorded[receipt.id] = None
    BY <1>1, <1>6 DEF Finish, Shape, Tokens
  <2>2. receipt' # None /\ receipt'.id = receipt.id
    BY <1>6, <2>1, OperationWorkerAssumption, MessagesTyped DEF Finish, Receipts
  <2>3. \A a \in Ids : a # receipt.id => recorded'[a] = recorded[a]
    BY <1>6, <2>1 DEF Finish, WorkerTypeOK
  <2>. QED
    BY <1>6, <2>1, <2>2, <2>3
       DEF Finish, Verdicts, AnswersHold, Arrivals, SavedResultArrives,
           RunningIsAccounted
<1>7. CASE Acknowledged
  <2>1. /\ receipt # None /\ receipt.id \in Ids /\ call # None
        /\ call.id = receipt.id /\ call.op = "complete"
    BY <1>1, <1>7 DEF Acknowledged, Shape
  <2>2. /\ rows[receipt.id].status = call.payload.status
        /\ call.payload.status \in Outcomes
        /\ recorded[receipt.id] # None => call.payload = recorded[receipt.id]
    BY <1>7, <2>1 DEF Acknowledged, AnswersHold, Sent, Told
  <2>. QED
    BY <1>7, <2>1, <2>2
       DEF Acknowledged, Answered, history, Verdicts, AnswersHold, Arrivals,
           SavedResultArrives, RunningIsAccounted, Outcomes
<1>8. CASE Archive
  BY <1>8 DEF Archive, Answered, Verdicts, AnswersHold, Arrivals,
              SavedResultArrives, RunningIsAccounted
<1>9. CASE Abandon \/ Crash
  BY <1>9, LeaveTyped
     DEF Abandon, Crash, history, Verdicts, AnswersHold, Arrivals,
         SavedResultArrives, RunningIsAccounted
<1>10. ASSUME NEW s \in Servers, Enroll(s)
       PROVE  Verdicts' /\ AnswersHold' /\ Arrivals'
  BY <1>10 DEF Enroll, history, Shape, Verdicts, AnswersHold, Arrivals,
               SavedResultArrives, RunningIsAccounted
<1>11. CASE Serve
  <2>1. TableWalk
    <3>1. CASE ServeResult
      BY <3>1, CallTyped DEF ServeResult, Pending, TableWalk, Sent, Told
    <3>2. CASE ServeClaim \/ ServeNothing
      BY <3>2, CallTyped, QuietSteps
         DEF ServeClaim, ServeNothing, Pending, TableWalk, WorkerTypeOK
    <3>3. CASE ServeSameAgain \/ ServeRefusal
      BY <3>3, QuietSteps
         DEF ServeSameAgain, ServeRefusal, TableWalk, WorkerTypeOK
    <3>. QED
      BY <1>11, <3>1, <3>2, <3>3 DEF Serve
  <2>2. UNCHANGED <<server_id, pc, receipt, call, late, history>>
    BY <1>11 DEF Serve, ServeClaim, ServeNothing, ServeResult,
                 ServeSameAgain, ServeRefusal, Answer
  <2>3. Verdicts' /\ Arrivals'
    BY <2>1, <2>2, ArrivalsWalk DEF history
  <2>4. AnswersHold'
    <3>1. CASE ServeClaim \/ ServeNothing
      BY <3>1, OperationWorkerAssumption
         DEF ServeClaim, ServeNothing, Answer, AnswersHold
    <3>2. CASE ServeResult
      BY <3>2, <2>2, CallTyped, ReportSteps
         DEF ServeResult, Pending, Answer, AnswersHold, WorkerTypeOK
    <3>3. CASE ServeSameAgain
      <4>1. call.payload.status \in Outcomes
        BY <3>3, CallTyped DEF ServeSameAgain, Pending, Payloads
      <4>. QED
        BY <3>3, <4>1
           DEF ServeSameAgain, Pending, Answer, AnswersHold, SameAgain
    <3>4. CASE ServeRefusal
      <4>1. /\ call # None /\ call.op = "complete" /\ call.server = server_id
            /\ call.id \in Ids /\ rows[call.id].status \in Dispatched
            /\ call.payload = IF recorded[call.id] = None THEN Interrupted
                              ELSE recorded[call.id]
        BY <3>4, CallTyped DEF ServeRefusal, Pending, Shape, Sent, Told
      <4>2. rows[call.id].server # server_id
        BY <3>4, <4>1
           DEF ServeRefusal, Records, SameAgain, Verdicts, Dispatched
      <4>. QED
        BY <3>4, <4>1, <4>2 DEF ServeRefusal, Answer, AnswersHold
    <3>. QED
      BY <1>11, <3>1, <3>2, <3>3, <3>4 DEF Serve
  <2>. QED
    BY <2>3, <2>4
<1>12. ASSUME NEW c \in late, ServeLate(c)
       PROVE  Verdicts' /\ AnswersHold' /\ Arrivals'
  <2>1. TableWalk
    BY <1>12, CallTyped, QuietSteps
       DEF ServeLate, TableWalk, Sent, Told, WorkerTypeOK
  <2>2. UNCHANGED <<server_id, pc, receipt, call, reply, history>>
    BY <1>12 DEF ServeLate
  <2>. QED
    BY <2>1, <2>2, ArrivalsWalk, AnswersWalk DEF history
<1>13. CASE Browser \/ Time
  <2>1. TableWalk
    BY <1>13, QuietSteps DEF Browser, Time, TableWalk, WorkerTypeOK
  <2>. QED
    BY <1>13, <2>1, ArrivalsWalk, AnswersWalk
       DEF Browser, Time, worker, history
<1>14. CASE UNCHANGED vars
  BY <1>14 DEF vars, Verdicts, AnswersHold, Arrivals, SavedResultArrives,
               RunningIsAccounted
<1>. QED
  BY <1>2, <1>3, <1>4, <1>5, <1>6, <1>7, <1>8, <1>9, <1>10, <1>11, <1>12,
     <1>13, <1>14 DEF WorkerNext, WorkerStep, Fault

-----------------------------------------------------------------------------

LEMMA WorkerInitially == WorkerInit => WorkerTypeOK /\ WInv
<1>1. Init => TypeOK
  BY AbsentTyped DEF Init, TypeOK
<1>. QED
  BY <1>1
     DEF WorkerInit, Init, Absent, WorkerTypeOK, PC, WInv, Shape, Tokens, Sent,
         Verdicts, AnswersHold, Arrivals, SavedResultArrives,
         RunningIsAccounted, Dispatched

(* The inductive invariant of table, worker and calls together.            *)
THEOREM WorkerInvariant == WorkerSpec => [](WorkerTypeOK /\ WInv)
<1>1. WorkerTypeOK /\ WInv /\ [WorkerNext]_vars => WorkerTypeOK' /\ WInv'
  BY WorkerTypeSteps, ShapeSteps, TokenSteps, SentSteps, VerdictSteps DEF WInv
<1>. QED
  BY <1>1, WorkerInitially, PTL DEF WorkerSpec

(* The composed system implements the table's own specification, so all    *)
(* that holds of the table under arbitrary agents holds here.              *)
THEOREM TableImplemented == WorkerSpec => Spec
<1>1. WorkerInit => Init
  BY DEF WorkerInit
<1>2. WorkerTypeOK /\ [WorkerNext]_vars => [Next]_rows
  BY TableSteps
<1>. QED
  BY <1>1, <1>2, WorkerInvariant, PTL DEF WorkerSpec, Spec

(* No kill, lost call, lost answer, late call or retry has an action       *)
(* executed twice.                                                         *)
THEOREM AtMostOnce == WorkerSpec => []ExecutedOnce
<1>1. WInv => ExecutedOnce
  BY DEF WInv, Tokens, ExecutedOnce
<1>. QED
  BY <1>1, WorkerInvariant, PTL

(* What was withdrawn or expired is never executed, and nothing is         *)
(* executed without approval.                                              *)
THEOREM NothingWithdrawnRuns == WorkerSpec => []WithdrawnNeverRan
<1>1. WInv /\ Inv => WithdrawnNeverRan
  BY DEF WInv, Tokens, Inv, ApprovedBeforeDispatch, WithdrawnNeverRan
<1>. QED
  BY <1>1, WorkerInvariant, TableImplemented, TableInvariant, PTL

(* The table says completed or failed of an action only when its executor  *)
(* returned just that.                                                     *)
THEOREM VerdictsAreReal == WorkerSpec => []VerdictIsReal
<1>1. WorkerTypeOK /\ WInv => VerdictIsReal
  BY DEF WInv, Tokens, Verdicts, VerdictIsReal
<1>. QED
  BY <1>1, WorkerInvariant, PTL

(* A saved result arrives, and a running action that was executed is one   *)
(* the machine still has to report.                                        *)
THEOREM ResultsArrive == WorkerSpec => [](SavedResultArrives /\ RunningIsAccounted)
<1>1. WInv => SavedResultArrives /\ RunningIsAccounted
  BY DEF WInv, Arrivals
<1>. QED
  BY <1>1, WorkerInvariant, PTL

(* A result is given up only by a machine that was enrolled elsewhere.     *)
THEOREM OnlyForeignArchived == WorkerSpec => ArchivedIsForeign
<1>1. WorkerTypeOK /\ WInv /\ [WorkerNext]_vars => [ArchivesForeign]_vars
  <2>. SUFFICES ASSUME WorkerTypeOK, WInv, [WorkerNext]_vars
                PROVE  ArchivesForeign
    OBVIOUS
  <2>1. CASE Archive
    <3>1. archived' \ archived \subseteq {receipt.id}
      BY <2>1 DEF Archive
    <3>2. rows[receipt.id].server # server_id
      BY <2>1 DEF Archive, WInv, Shape, AnswersHold
    <3>. QED
      BY <3>1, <3>2 DEF ArchivesForeign
  <2>2. CASE ~Archive
    <3>1. archived' = archived
      BY <2>2 DEF WorkerNext, WorkerStep, Serve, Fault, Browser, Time, vars,
         worker, history, Poll, Resend, NothingToDo, WriteReceipt, Execute,
         Finish, FinishUnsaved, Acknowledged, Abandon, Crash, Restart, Enroll,
         ServeClaim, ServeNothing, ServeResult, ServeSameAgain, ServeRefusal,
         Answer, ServeLate
    <3>. QED
      BY <3>1 DEF ArchivesForeign
  <2>. QED
    BY <2>1, <2>2
<1>. QED
  BY <1>1, WorkerInvariant, PTL DEF WorkerSpec, ArchivedIsForeign

-----------------------------------------------------------------------------
(* The refinement of the contract.                                         *)

LEMMA PhaseCases ==
    /\ PhaseOf("absent") = "unknown"
    /\ PhaseOf("proposed") = "proposed"
    /\ PhaseOf("approved") = "granted"
    /\ PhaseOf("running") = "handed" /\ PhaseOf("uncertain") = "handed"
    /\ PhaseOf("completed") = "settled" /\ PhaseOf("failed") = "settled"
    /\ PhaseOf("cancelled") = "withdrawn"
BY DEF PhaseOf

(* A step of the table moves each phase as the contract allows and hands   *)
(* over one action at most.                                                *)
LEMMA PhaseSteps ==
    ASSUME TypeOK, TypeOK', [Next]_rows
    PROVE  /\ \A a \in Ids : PhaseOf(rows'[a].status) # PhaseOf(rows[a].status) =>
                <<PhaseOf(rows[a].status), PhaseOf(rows'[a].status)>>
                    \in Contract!Moves
           /\ \A a, b \in Ids :
                /\ PhaseOf(rows[a].status) # "handed"
                /\ PhaseOf(rows'[a].status) = "handed"
                /\ PhaseOf(rows[b].status) # "handed"
                /\ PhaseOf(rows'[b].status) = "handed"
                => a = b
<1>. USE PhaseCases DEF Contract!Moves
<1>0. \A a \in Ids : rows[a].status \in Status /\ rows'[a].status \in Status
  BY DEF TypeOK, Row
<1>1. ASSUME NEW a \in Ids, NEW r \in Row, Proposal(a, r)
      PROVE  \A b \in Ids : \/ rows'[b] = rows[b]
                           \/ /\ rows[b].status = "absent"
                              /\ rows'[b].status = "proposed"
  BY <1>1 DEF Proposal, IsNext, TypeOK
<1>2. ASSUME NEW a \in Ids, NEW role \in Roles, Approve(role, a)
      PROVE  \A b \in Ids : \/ rows'[b] = rows[b]
                           \/ /\ rows[b].status = "proposed"
                              /\ rows'[b].status = "approved"
  BY <1>2, GrantedFields DEF Approve, TypeOK
<1>3. ASSUME NEW a \in Ids, NEW role \in Roles, Undo(role, a)
      PROVE  \A b \in Ids : \/ rows'[b] = rows[b]
                           \/ /\ rows[b].status = "absent"
                              /\ rows'[b].status = "approved"
  BY <1>3, UndoFields DEF Undo, Insert, IsNext, TypeOK
<1>4. ASSUME FlowStep
      PROVE  /\ \A b \in Ids : Flow(rows[b].status, rows'[b].status)
             /\ \A b, c \in Ids :
                    /\ rows[b].status # "running" /\ rows'[b].status = "running"
                    /\ rows[c].status # "running" /\ rows'[c].status = "running"
                    => b = c
  BY <1>4 DEF FlowStep
<1>. QED
  BY <1>0, <1>1, <1>2, <1>3, <1>4, StepShape
     DEF Flow, Status, Dispatched, Outcomes

LEMMA ContractSteps ==
    ASSUME WorkerTypeOK, WorkerTypeOK', WInv, WInv', [WorkerNext]_vars
    PROVE  [Contract!ContractNext]_(Contract!contract)
<1>. USE DEF Contract!ContractNext, Contract!contract
<1>1. TypeOK /\ TypeOK' /\ [Next]_rows
  BY TableSteps DEF WorkerTypeOK
<1>2. CASE Execute
  <2>1. receipt.id \in Ids /\ runs[receipt.id] = 0
    BY <1>2, ReceiptTyped DEF Execute, WInv, Shape, Tokens
  <2>2. rows[receipt.id].status \in {"running", "uncertain"}
    BY <1>2, <2>1, ReceiptTyped DEF Execute, WInv, Shape, Tokens, Verdicts, Dispatched
  <2>3. {a \in Ids : runs'[a] > 0} = {a \in Ids : runs[a] > 0} \cup {receipt.id}
    BY <1>2, <2>1 DEF Execute, WorkerTypeOK
  <2>4. PhaseOf(rows[receipt.id].status) = "handed" /\ rows' = rows
    BY <1>2, <2>1, <2>2, PhaseCases DEF Execute
  <2>. QED
    BY <2>1, <2>3, <2>4 DEF Contract!Carry
<1>3. CASE ~Execute
  <2>1. runs' = runs
    BY <1>3 DEF WorkerNext, WorkerStep, Serve, Fault, Browser, Time, vars,
         worker, history, Poll, Resend, NothingToDo, WriteReceipt, Archive,
         Finish, FinishUnsaved, Acknowledged, Abandon, Crash, Restart, Enroll,
         ServeClaim, ServeNothing, ServeResult, ServeSameAgain, ServeRefusal,
         Answer, ServeLate
  <2>2. \A a \in Ids : rows[a].status \in Status /\ rows'[a].status \in Status
    BY <1>1 DEF TypeOK, Row
  <2>3. \A a \in Ids : PhaseOf(rows'[a].status) \in Contract!Phases
    BY <2>2, PhaseCases DEF Status, Dispatched, Contract!Phases
  <2>4. \A a \in Ids : PhaseOf(rows'[a].status) = "settled" => runs[a] > 0
    BY <2>1, <2>2, PhaseCases
       DEF Status, Dispatched, WInv, Verdicts, Tokens
  <2>5. Contract!Decide
    BY <1>1, <2>1, <2>3, <2>4, PhaseSteps DEF Contract!Decide
  <2>. QED
    BY <2>5
<1>. QED
  BY <1>2, <1>3

(* Table, worker, receipt and network keep the contract.                   *)
THEOREM ContractKept == WorkerSpec => KeepsContract
<1>1. WorkerInit => Contract!ContractInit
  BY PhaseCases DEF WorkerInit, Init, Absent, Contract!ContractInit
<1>2. WorkerTypeOK /\ WorkerTypeOK' /\ WInv /\ WInv' /\ [WorkerNext]_vars
        => [Contract!ContractNext]_(Contract!contract)
  BY ContractSteps
<1>. QED
  BY <1>1, <1>2, WorkerInvariant, PTL
     DEF WorkerSpec, KeepsContract, Contract!ContractSpec
=============================================================================
