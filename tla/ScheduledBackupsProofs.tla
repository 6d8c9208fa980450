----------------------- MODULE ScheduledBackupsProofs -----------------------
(***************************************************************************)
(* Proofs about ScheduledBackups, for any number of profiles, any          *)
(* intervals and durations and any number of late posts.                   *)
(*                                                                         *)
(* Spaced follows once the ages the schedule file implies are the hours    *)
(* that really passed.  ShownAgrees is not inductive: a check comes from a *)
(* report, so the reports in the outbox and on their way must agree with   *)
(* the schedule too, and an outcome may be written only while nothing has  *)
(* been reported of that attempt, which holds because its status is then   *)
(* "running" and no report says so.                                        *)
(***************************************************************************)
EXTENDS ScheduledBackups, TLAPS

(* A report or a check about the latest attempt tells its outcome.         *)
Agrees(r, p) ==
    r.last => /\ status[p] \in {"completed", "failed"}
              /\ r.succeeded <=> status[p] = "completed"
              /\ r.error <=> status[p] = "failed"

ReportAgrees(r) == Agrees(r, r.profile)

(* The files and the dashboard tell the same.                              *)
Agreement ==
    /\ outbox # None => ReportAgrees(outbox)
    /\ \A r \in late : ReportAgrees(r)
    /\ \A p \in Profiles :
          shown[p] # None => Agrees(shown[p], p) /\ shown[p].badge = "critical"

(* Where the worker is and what it has written down by then.               *)
Placed ==
    /\ pc = "executing" => job \in Profiles /\ status[job] = "running"
    /\ pc = "reporting" =>
          job \in Profiles /\ status[job] \in {"completed", "failed"}
    /\ Posting => outbox # None

Shape == age \in [Profiles -> Nat] /\ since \in [Profiles -> Nat]

Inv == TypeOK /\ Shape /\ age = since /\ Placed /\ Agreement

-----------------------------------------------------------------------------
(* The helpers.                                                            *)

LEMMA CapNat == ASSUME NEW p \in Profiles PROVE Cap(p) \in Nat
  BY ScheduledBackupsAssumption DEF Cap

LEMMA CappedBound ==
    ASSUME NEW cap \in Nat, NEW n \in 0 .. cap
    PROVE  Capped(n, cap) \in 0 .. cap
  BY DEF Capped

(* What growing older leaves of a report.                                  *)
LEMMA OlderReport ==
    ASSUME NEW r \in Aged
    PROVE  /\ Older(r) \in Aged
           /\ Older(r) # None
           /\ Older(r).profile = r.profile
           /\ Older(r).succeeded = r.succeeded
           /\ Older(r).error = r.error
           /\ Older(r).last = r.last
  <1> USE ScheduledBackupsAssumption
  <1>1. r \in Reports /\ r # None /\ r.age \in Nat /\ r.profile \in Profiles
    BY DEF Aged, Reports
  <1>2. Interval[r.profile] + 1 \in Nat
    BY <1>1
  <1>3. Capped(r.age, Interval[r.profile] + 1) \in 0 .. Interval[r.profile] + 1
    BY <1>1, <1>2, CappedBound DEF Aged
  <1>4. Older(r) = [r EXCEPT !.age = Capped(r.age, Interval[r.profile] + 1)]
    BY <1>1 DEF Older
  <1>5. Older(r) \in Reports
    BY <1>1, <1>2, <1>3, <1>4 DEF Reports
  <1> QED BY <1>1, <1>2, <1>3, <1>4, <1>5 DEF Aged, Reports

(* What being superseded leaves of it.                                     *)
LEMMA OutdatedReport ==
    ASSUME NEW r \in Aged, NEW p
    PROVE  /\ Outdated(r, p) \in Aged
           /\ Outdated(r, p) # None
           /\ Outdated(r, p).profile = r.profile
           /\ Outdated(r, p).succeeded = r.succeeded
           /\ Outdated(r, p).error = r.error
           /\ Outdated(r, p).last => r.last /\ r.profile # p
  <1>1. r \in Reports /\ r # None
    BY ScheduledBackupsAssumption DEF Aged
  <1>2. CASE r.profile = p
    BY <1>1, <1>2, ScheduledBackupsAssumption DEF Outdated, Aged, Reports
  <1>3. CASE r.profile # p
    BY <1>1, <1>3 DEF Outdated, Aged
  <1> QED BY <1>2, <1>3

LEMMA NewReportAged ==
    ASSUME NEW p \in Profiles
    PROVE  NewReport(p) \in Aged /\ NewReport(p) # None
  <1> DEFINE done == status[p] = "completed"
  <1>1. done \in BOOLEAN
    OBVIOUS
  <1>2. NewReport(p) =
            [profile |-> p, exists |-> done, size |-> None,
             succeeded |-> done, error |-> ~done, age |-> 0, last |-> TRUE]
    BY DEF NewReport
  <1> HIDE DEF done
  <1>3. NewReport(p) \in Reports
    BY <1>1, <1>2 DEF Reports
  <1>4. Interval[p] \in Nat
    BY ScheduledBackupsAssumption
  <1>5. NewReport(p).age = 0 /\ NewReport(p).profile = p
    BY <1>2
  <1> QED BY <1>3, <1>4, <1>5, ScheduledBackupsAssumption DEF Aged

LEMMA CheckShape ==
    ASSUME NEW r \in Reports
    PROVE  /\ Check(r) \in Checks
           /\ Check(r) # None
           /\ Check(r).badge = "critical"
           /\ Check(r).succeeded = r.succeeded
           /\ Check(r).error = r.error
           /\ Check(r).last = r.last
  <1>1. /\ r.succeeded \in BOOLEAN /\ r.error \in BOOLEAN
        /\ r.last \in BOOLEAN /\ r.size = None
    BY DEF Reports
  <1>2. Check(r) = [badge |-> "critical", succeeded |-> r.succeeded,
                    error |-> r.error, last |-> r.last]
    BY <1>1 DEF Check
  <1>3. Check(r) \in Checks
    BY <1>1, <1>2 DEF Checks
  <1> QED BY <1>2, <1>3, ScheduledBackupsAssumption

-----------------------------------------------------------------------------
(* One lemma per action, or per actions that change the same.              *)

(* The worker moves on and writes nothing.                                 *)
Moves ==
    /\ pc' \in PC \ {"executing", "reporting"}
    /\ job' \in Profiles \cup {None}
    /\ pause' \in 0 .. MaxPause
    /\ reply' \in {None, "created"}
    /\ outbox' = outbox \/ outbox' = None
    /\ pc' \in {"resending", "posting"} => outbox' # None
    /\ \A r \in late' : r \in late \/ (r = outbox /\ outbox # None)
    /\ UNCHANGED <<age, status, shown, since>>

LEMMA MoveKeeps == ASSUME Inv, Moves PROVE Inv'
  <1> USE DEF Inv, Moves
  <1>1. TypeOK'
    BY DEF TypeOK, PC, Cap
  <1>2. Placed'
    BY DEF Placed, Posting
  <1>3. Agreement'
    BY DEF Agreement, ReportAgrees, Agrees
  <1> QED BY <1>1, <1>2, <1>3 DEF Shape

LEMMA ChooseKeeps ==
    ASSUME Inv, NEW p \in Profiles, Choose(p)
    PROVE  Inv'
  <1> USE DEF Inv, Choose, Attempt, Superseded, schedule
  <1>1. /\ age' \in [Profiles -> Nat] /\ since' \in [Profiles -> Nat]
        /\ age' = since'
    BY DEF Shape
  <1>2. \A q \in Profiles : age'[q] \in 0 .. Cap(q) /\ since'[q] \in 0 .. Cap(q)
    BY CapNat DEF TypeOK, Shape
  <1>3. outbox # None => outbox' \in Aged /\ outbox' # None
    BY OutdatedReport DEF TypeOK
  <1>4. outbox = None => outbox' = None
    BY DEF Outdated
  <1>5. \A r \in late' : \E o \in late : o \in Aged /\ r = Outdated(o, p)
    BY DEF TypeOK
  <1>6. shown' \in [Profiles -> Checks \cup {None}]
    BY DEF TypeOK, Checks
  <1>7. status' \in [Profiles -> Status] /\ status'[p] = "running"
        /\ \A q \in Profiles : q # p => status'[q] = status[q]
    BY DEF TypeOK, Status
  <1>8. TypeOK'
    BY <1>2, <1>3, <1>4, <1>5, <1>6, <1>7, OutdatedReport DEF TypeOK, PC, Cap
  <1>9. Placed'
    BY <1>7 DEF Placed, Posting
  <1>10. Agreement'
    <2>1. ASSUME NEW o \in Aged, ReportAgrees(o)
          PROVE  ReportAgrees(Outdated(o, p))'
      BY <2>1, <1>7, OutdatedReport DEF ReportAgrees, Agrees, Aged, Reports
    <2>2. outbox' # None => ReportAgrees(outbox)'
      BY <2>1, <1>4 DEF Agreement, TypeOK
    <2>3. \A r \in late' : ReportAgrees(r)'
      BY <2>1, <1>5 DEF Agreement, TypeOK
    <2>4. \A q \in Profiles :
             shown'[q] # None =>
                Agrees(shown[q], q)' /\ shown'[q].badge = "critical"
      <3>1. ASSUME NEW q \in Profiles, q # p, shown'[q] # None
            PROVE  Agrees(shown[q], q)' /\ shown'[q].badge = "critical"
        BY <3>1, <1>7 DEF Agreement, Agrees, TypeOK
      <3>2. ASSUME shown'[p] # None
            PROVE  ~shown'[p].last /\ shown'[p].badge = "critical"
        <4>1. shown[p] \in Checks /\ shown[p] # None
          BY <3>2 DEF TypeOK
        <4>2. shown'[p] = [shown[p] EXCEPT !.last = FALSE]
          BY <4>1 DEF TypeOK
        <4> QED BY <4>1, <4>2 DEF Agreement, Checks
      <3> QED BY <3>1, <3>2 DEF Agrees
    <2> QED BY <2>2, <2>3, <2>4 DEF Agreement
  <1> QED BY <1>1, <1>8, <1>9, <1>10 DEF Shape

LEMMA FinishKeeps ==
    ASSUME Inv, NEW result \in {"completed", "failed"}, Finish(result)
    PROVE  Inv'
  <1> USE DEF Inv, Finish, schedule
  <1>1. job \in Profiles /\ status[job] = "running"
    BY DEF Placed
  <1>2. status' \in [Profiles -> Status] /\ status'[job] = result
        /\ \A q \in Profiles : q # job => status'[q] = status[q]
    BY <1>1 DEF TypeOK, Status
  <1>3. TypeOK'
    BY <1>2 DEF TypeOK, PC, Cap
  <1>4. Placed'
    BY <1>1, <1>2 DEF Placed, Posting
  (* Nothing reported so far is about this attempt.                        *)
  <1>5. ASSUME NEW r, NEW q \in Profiles, Agrees(r, q)
        PROVE  r.last => /\ status'[q] \in {"completed", "failed"}
                         /\ r.succeeded <=> status'[q] = "completed"
                         /\ r.error <=> status'[q] = "failed"
    BY <1>5, <1>1, <1>2 DEF Agrees
  <1>6. Agreement'
    BY <1>5 DEF Agreement, ReportAgrees, Agrees, TypeOK, Aged, Reports
  <1> QED BY <1>3, <1>4, <1>6 DEF Shape

LEMMA ReportKeeps ==
    ASSUME Inv, Report
    PROVE  Inv'
  <1> USE DEF Inv, Report, schedule
  <1>1. job \in Profiles /\ status[job] \in {"completed", "failed"}
    BY DEF Placed
  <1>2. outbox' \in Aged /\ outbox' # None
    BY <1>1, NewReportAged
  <1>3. TypeOK'
    BY <1>2 DEF TypeOK, PC, Cap
  <1>4. Placed'
    BY <1>2 DEF Placed, Posting
  <1>5. Agreement'
    BY <1>1 DEF Agreement, ReportAgrees, Agrees, NewReport
  <1> QED BY <1>3, <1>4, <1>5 DEF Shape

(* A report in hand or on its way becomes the newest check.                *)
LEMMA RecordedKeeps ==
    ASSUME Inv, NEW r \in Aged, ReportAgrees(r), Recorded(r),
           late' \subseteq late, reply' \in {None, "created"},
           UNCHANGED <<worker, schedule, outbox, since>>
    PROVE  Inv'
  <1> USE DEF Inv, Recorded, worker, schedule
  <1>1. r \in Reports /\ r.profile \in Profiles
    BY DEF Aged, Reports
  <1>2. shown' \in [Profiles -> Checks \cup {None}]
    BY <1>1, CheckShape DEF TypeOK
  <1>3. TypeOK'
    BY <1>2 DEF TypeOK, PC, Cap
  <1>4. Placed'
    BY DEF Placed, Posting
  <1>5. Agreement'
    BY <1>1, CheckShape DEF Agreement, ReportAgrees, Agrees, TypeOK
  <1> QED BY <1>3, <1>4, <1>5 DEF Shape

LEMMA TickKeeps ==
    ASSUME Inv, Tick
    PROVE  Inv'
  <1> USE DEF Inv, Tick
  <1>1. pause' \in 0 .. MaxPause
    BY ScheduledBackupsAssumption DEF TypeOK, Passing
  <1>2. \A p \in Profiles : /\ Capped(age[p], Cap(p)) \in 0 .. Cap(p)
                            /\ Capped(since[p], Cap(p)) \in 0 .. Cap(p)
    BY CapNat, CappedBound DEF TypeOK
  <1>3. age' = since'
    OBVIOUS
  <1>4. Shape'
    BY <1>2, CapNat DEF Shape
  <1>5. outbox # None => outbox' \in Aged /\ outbox' # None
    BY OlderReport DEF TypeOK
  <1>6. outbox = None => outbox' = None
    BY DEF Older
  <1>7. \A r \in late' : \E o \in late : o \in Aged /\ r = Older(o)
    BY DEF TypeOK
  <1>8. TypeOK'
    BY <1>1, <1>2, <1>5, <1>6, <1>7, OlderReport DEF TypeOK, PC, Cap
  <1>9. Placed'
    BY <1>5 DEF Placed, Posting
  <1>10. Agreement'
    <2>1. ASSUME NEW o \in Aged, ReportAgrees(o)
          PROVE  ReportAgrees(Older(o))'
      BY <2>1, OlderReport DEF ReportAgrees, Agrees
    <2>2. outbox' # None => ReportAgrees(outbox)'
      BY <2>1, <1>6 DEF Agreement, TypeOK
    <2>3. \A r \in late' : ReportAgrees(r)'
      BY <2>1, <1>7 DEF Agreement, TypeOK
    <2> QED BY <2>2, <2>3 DEF Agreement, Agrees
  <1> QED BY <1>3, <1>4, <1>8, <1>9, <1>10

(* The invariant survives every step.                                      *)
LEMMA StepKeeps ==
    ASSUME Inv, [Next]_vars
    PROVE  Inv'
  <1> USE DEF schedule, worker
  <1>1. CASE StartCycle
    <2>1. Moves
      BY <1>1, ScheduledBackupsAssumption
         DEF Moves, StartCycle, Inv, TypeOK, PC
    <2> QED BY <2>1, MoveKeeps
  <1>2. CASE NothingDue
    <2>1. Moves
      BY <1>2 DEF Moves, NothingDue, Inv, TypeOK, PC
    <2> QED BY <2>1, MoveKeeps
  <1>3. ASSUME NEW p \in Profiles, Choose(p) PROVE Inv'
    BY <1>3, ChooseKeeps
  <1>4. ASSUME NEW result \in {"completed", "failed"}, Finish(result)
        PROVE  Inv'
    BY <1>4, FinishKeeps
  <1>5. CASE Report
    BY <1>5, ReportKeeps
  <1>6. CASE Delivered
    <2>1. Moves
      BY <1>6 DEF Moves, Delivered, GoesOn, Posting, Inv, TypeOK, PC
    <2> QED BY <2>1, MoveKeeps
  <1>7. CASE Unsaved \/ AttemptFails
    <2>1. Moves
      BY <1>7 DEF Moves, Unsaved, AttemptFails, Inv, TypeOK, PC
    <2> QED BY <2>1, MoveKeeps
  <1>8. CASE PostFails
    <2>1. Moves
      BY <1>8 DEF Moves, PostFails, LeavePost, GoesOn, Posting, Inv, TypeOK,
         Placed, PC
    <2> QED BY <2>1, MoveKeeps
  <1>9. CASE Crash
    <2>1. Moves
      BY <1>9 DEF Moves, Crash, LeavePost, Posting, Inv, TypeOK, Placed, PC
    <2> QED BY <2>1, MoveKeeps
  <1>10. CASE Restart
    <2>1. Moves
      BY <1>10, ScheduledBackupsAssumption DEF Moves, Restart, Inv, TypeOK, PC
    <2> QED BY <2>1, MoveKeeps
  <1>11. CASE Serve
    <2>1. outbox \in Aged /\ ReportAgrees(outbox)
      BY <1>11 DEF Serve, Inv, Placed, TypeOK, Agreement
    <2> QED BY <1>11, <2>1, RecordedKeeps DEF Serve
  <1>12. ASSUME NEW r \in late, ServeLate(r) PROVE Inv'
    <2>1. r \in Aged /\ ReportAgrees(r)
      BY DEF Inv, TypeOK, Agreement
    <2> QED BY <1>12, <2>1, RecordedKeeps DEF ServeLate, Inv, TypeOK
  <1>13. CASE Tick
    BY <1>13, TickKeeps
  <1>14. CASE UNCHANGED vars
    BY <1>14 DEF vars, Inv, TypeOK, Shape, Placed, Posting, Agreement,
       ReportAgrees, Agrees, Cap
  <1> QED BY <1>1, <1>2, <1>3, <1>4, <1>5, <1>6, <1>7, <1>8, <1>9, <1>10,
             <1>11, <1>12, <1>13, <1>14 DEF Next, WorkerStep, Fault

LEMMA InitKeeps == Init => Inv
  <1> SUFFICES ASSUME Init PROVE Inv
    OBVIOUS
  <1> USE ScheduledBackupsAssumption DEF Init
  <1>1. \A p \in Profiles : Cap(p) \in Nat
    BY CapNat
  <1>2. TypeOK
    BY <1>1 DEF TypeOK, PC, Status
  <1>3. Placed /\ Agreement
    BY DEF Placed, Posting, Agreement
  <1> QED BY <1>1, <1>2, <1>3 DEF Inv, Shape

(* The files, the worker and the dashboard keep their shape and agree.     *)
THEOREM BackupInvariant == Spec => []Inv
  <1> QED BY InitKeeps, StepKeeps, PTL DEF Spec

(* Types, among them that no age grows beyond what it is compared with.    *)
THEOREM BackupTypes == Spec => []TypeOK
  <1>1. Inv => TypeOK
    BY DEF Inv
  <1> QED BY <1>1, BackupInvariant, PTL

(* The date and the error the dashboard shows for the latest attempt say   *)
(* what the schedule file says, whatever was killed, lost, repeated or     *)
(* late, and its badge asks for action either way: the status that         *)
(* create_backup_check computes is "critical" for every scheduled backup.  *)
THEOREM DashboardAgrees == Spec => []ShownAgrees
  <1>1. Inv => ShownAgrees
    BY DEF Inv, Agreement, Agrees, ShownAgrees
  <1> QED BY <1>1, BackupInvariant, PTL

(* Only Choose starts an executor, and it goes by an age that is true.     *)
LEMMA OnlyDueStarts ==
    ASSUME Inv, [Next]_vars
    PROVE  StartsSpaced
  <1> SUFFICES ASSUME NEW p \in Profiles, Starts(p)
               PROVE  since[p] >= Interval[p]
    BY DEF StartsSpaced
  <1>1. \E q \in Profiles : Choose(q)
    BY DEF Starts, Next, WorkerStep, Fault, StartCycle, NothingDue, Finish,
       Report, Delivered, GoesOn, Unsaved, AttemptFails, PostFails, Crash,
       Restart, Serve,
       ServeLate, Tick, worker, vars
  <1>2. Choose(p)
    BY <1>1 DEF Starts, Choose
  <1> QED BY <1>2 DEF Choose, Due, Inv

(* No profile is backed up again before its interval has passed.           *)
THEOREM BackupsSpaced == Spec => Spaced
  <1> QED BY BackupInvariant, OnlyDueStarts, PTL DEF Spec, Spaced
=============================================================================
