-------------------------- MODULE ScheduledBackups --------------------------
(***************************************************************************)
(* The backups an agent makes by itself: process_schedule of               *)
(* agent/cyberpme_agent/operation_worker.py with its two files, and the    *)
(* backend's handler create_backup_check that learns of them.              *)
(*                                                                         *)
(* The schedule file says when each profile was last attempted and how     *)
(* that ended; it is written before the executor starts.  The outbox file  *)
(* holds one report, the last one.  It is posted in the cycle that wrote   *)
(* it and again at the start of every later one, and a failed post never   *)
(* keeps the worker from its backups.  Both files are replaced atomically  *)
(* and survive the process, which may be killed at any point.              *)
(*                                                                         *)
(* Time is counted in hours and only as far as the code compares it: an    *)
(* age stops growing once it exceeds everything it is compared with.       *)
(***************************************************************************)
EXTENDS Integers, FiniteSets

CONSTANTS
    NumProfiles,   \* the scheduled profiles, in the order of the configuration
    Interval,      \* interval_hours of each profile
    Rejected,      \* profiles whose reports the backend's schema refuses
    MaxDuration,   \* hours an execution may take, by its commands' timeouts
    MaxPause,      \* hours between two cycles: the pause, a remote action
    MaxLate,       \* bound: abandoned posts still on their way
    None

Profiles == 1 .. NumProfiles

VARIABLES
    pc,       \* where the worker is in process_schedule
    job,      \* the profile it works on, or None
    pause,    \* hours since the last cycle ended
    age,      \* hours since the attempt in the schedule file
    status,   \* the status in the schedule file
    outbox,   \* the file .schedule-report.json, or None
    reply,    \* the answer on its way to the worker, or None
    late,     \* abandoned posts the backend may still serve
    shown,    \* the newest check the backend has of each profile, or None
    since     \* history: hours since the executor was last started

schedule == <<age, status>>
worker == <<pc, job, pause>>
vars == <<pc, job, pause, age, status, outbox, reply, late, shown, since>>

PC == {"down", "idle", "resending", "choosing", "executing", "reporting",
       "posting"}

Status == {"none", "running", "completed", "failed"}

(* An age beyond this is as good as any higher one.                        *)
Cap(p) == IF Interval[p] > MaxDuration THEN Interval[p] ELSE MaxDuration

(* What the machine reports: succeeded where last_success_at is set, error *)
(* where there is a message.  last (history): it is about the latest       *)
(* attempt of its profile.                                                 *)
Reports == [profile : Profiles, exists : BOOLEAN, size : {None},
            succeeded : BOOLEAN, error : BOOLEAN, age : Nat, last : BOOLEAN]

(* What BackupsPage shows of a check: its badge, which asks for action     *)
(* unless the check is healthy, the date of the last success or that there *)
(* was none, and the error if there is one.                                *)
Checks == [badge : {"healthy", "critical"}, succeeded : BOOLEAN,
           error : BOOLEAN, last : BOOLEAN]

ASSUME ScheduledBackupsAssumption ==
    /\ NumProfiles \in Nat
    /\ Interval \in [Profiles -> Nat \ {0}]
    /\ Rejected \subseteq Profiles
    /\ MaxDuration \in Nat /\ MaxPause \in Nat /\ MaxLate \in Nat
    /\ None \notin Profiles \cup Reports \cup Checks

Init ==
    /\ pc = "idle"
    /\ job = None
    /\ pause = 0
    /\ age = [p \in Profiles |-> Cap(p)]
    /\ status = [p \in Profiles |-> "none"]
    /\ outbox = None
    /\ reply = None
    /\ late = {}
    /\ shown = [p \in Profiles |-> None]
    /\ since = [p \in Profiles |-> Cap(p)]

-----------------------------------------------------------------------------
(* The worker.                                                             *)

(* A cycle starts with the report the last one left, if any.               *)
StartCycle ==
    /\ pc = "idle"
    /\ pc' = IF outbox = None THEN "choosing" ELSE "resending"
    /\ pause' = 0
    /\ UNCHANGED <<job, schedule, outbox, reply, late, shown, since>>

Due(p) == age[p] >= Interval[p]

NothingDue ==
    /\ pc = "choosing"
    /\ \A p \in Profiles : ~Due(p)
    /\ pc' = "idle"
    /\ UNCHANGED <<job, pause, schedule, outbox, reply, late, shown, since>>

(* What was reported of p so far is no longer about its latest attempt.    *)
Outdated(r, p) ==
    IF r # None /\ r.profile = p THEN [r EXCEPT !.last = FALSE] ELSE r

Superseded(p) ==
    /\ outbox' = Outdated(outbox, p)
    /\ late' = {Outdated(r, p) : r \in late}
    /\ shown' = [shown EXCEPT
          ![p] = IF @ = None THEN None ELSE [@ EXCEPT !.last = FALSE]]

(* Faulty variant: the attempt is not written down before it is made.      *)
AttemptUnwritten(p) == UNCHANGED schedule
Attempt(p) ==
    /\ age' = [age EXCEPT ![p] = 0]
    /\ status' = [status EXCEPT ![p] = "running"]

(* The first profile that is due, in the order of the configuration.       *)
Choose(p) ==
    /\ pc = "choosing"
    /\ Due(p)
    /\ \A q \in Profiles : q < p => ~Due(q)
    /\ Attempt(p)
    /\ Superseded(p)
    /\ since' = [since EXCEPT ![p] = 0]
    /\ job' = p
    /\ pc' = "executing"
    /\ UNCHANGED <<pause, reply>>

(* The attempt cannot be written (disk full): the cycle ends before the    *)
(* executor is called, and the next one finds the profile due again.       *)
AttemptFails ==
    /\ pc = "choosing"
    /\ \E p \in Profiles : Due(p)
    /\ pc' = "idle"
    /\ UNCHANGED <<job, pause, schedule, outbox, reply, late, shown, since>>

(* Faulty variant: the outcome is not written to the schedule.             *)
FinishUnwritten(result) ==
    /\ pc = "executing"
    /\ pc' = "reporting"
    /\ UNCHANGED <<job, pause, age, status, outbox, reply, late, shown, since>>

(* The executor returned, or raised, which is a failure.                   *)
Finish(result) ==
    /\ pc = "executing"
    /\ status' = [status EXCEPT ![job] = result]
    /\ pc' = "reporting"
    /\ UNCHANGED <<job, pause, age, outbox, reply, late, shown, since>>

NewReport(p) ==
    LET success == status[p] = "completed"
    IN  [profile |-> p, exists |-> success, size |-> None,
         succeeded |-> success, error |-> ~success, age |-> 0, last |-> TRUE]

(* The one place is taken by the new report, whatever it held.             *)
Report ==
    /\ pc = "reporting"
    /\ outbox' = NewReport(job)
    /\ pc' = "posting"
    /\ UNCHANGED <<job, pause, schedule, reply, late, shown, since>>

(* The outcome or the report cannot be written: the cycle ends as well.    *)
Unsaved ==
    /\ pc \in {"executing", "reporting"}
    /\ pc' = "idle"
    /\ job' = None
    /\ UNCHANGED <<pause, schedule, outbox, reply, late, shown, since>>

(* The cycle ends with the post of a new report, and goes on after the     *)
(* post of an old one.                                                     *)
(* Faulty variant: it does not go on.                                      *)
GoesHome ==
    /\ pc' = "idle"
    /\ job' = None
GoesOn ==
    /\ pc' = IF pc = "resending" THEN "choosing" ELSE "idle"
    /\ job' = None

Posting == pc \in {"resending", "posting"}

Delivered ==
    /\ Posting
    /\ reply = "created"
    /\ outbox' = None
    /\ reply' = None
    /\ GoesOn
    /\ UNCHANGED <<pause, schedule, late, shown, since>>

(* What becomes of a post the worker no longer waits for: served already,  *)
(* lost, or late.                                                          *)
LeavePost ==
    /\ reply' = None
    /\ \/ late' = late
       \/ /\ Posting /\ reply = None
          /\ Cardinality(late) < MaxLate
          /\ late' = late \cup {outbox}

(* A refusal, a timeout or no network: the outbox stays as it is.          *)
PostFails ==
    /\ Posting
    /\ LeavePost
    /\ GoesOn
    /\ UNCHANGED <<pause, schedule, outbox, shown, since>>

Crash ==
    /\ pc # "down"
    /\ LeavePost
    /\ pc' = "down"
    /\ job' = None
    /\ UNCHANGED <<pause, schedule, outbox, shown, since>>

Restart ==
    /\ pc = "down"
    /\ pc' = "idle"
    /\ pause' = 0
    /\ UNCHANGED <<job, schedule, outbox, reply, late, shown, since>>

-----------------------------------------------------------------------------
(* The backend.                                                            *)

Fresh(r) == r.succeeded /\ r.age <= Interval[r.profile]

Check(r) ==
    [badge |-> IF r.exists /\ r.size # None /\ Fresh(r) /\ ~r.error
               THEN "healthy" ELSE "critical",
     succeeded |-> r.succeeded, error |-> r.error, last |-> r.last]

(* Every report that is let in becomes a row, a repeated one too.          *)
Recorded(r) ==
    /\ r.profile \notin Rejected
    /\ shown' = [shown EXCEPT ![r.profile] = Check(r)]

Serve ==
    /\ Posting
    /\ reply = None
    /\ Recorded(outbox)
    /\ reply' = "created"
    /\ UNCHANGED <<worker, schedule, outbox, late, since>>

ServeLate(r) ==
    /\ r \in late
    /\ Recorded(r)
    /\ late' = late \ {r}
    /\ UNCHANGED <<worker, schedule, outbox, reply, since>>

-----------------------------------------------------------------------------
(* An hour passes.  The worker goes round in seconds; hours pass while it  *)
(* is down, in the executor, or between two cycles.                        *)

Capped(n, cap) == IF n < cap THEN n + 1 ELSE cap

Older(r) ==
    IF r = None THEN None
    ELSE [r EXCEPT !.age = Capped(@, Interval[r.profile] + 1)]

Passing ==
    \/ pc = "down" /\ pause' = pause
    \/ pc = "executing" /\ since[job] < MaxDuration /\ pause' = pause
    \/ pc = "idle" /\ pause < MaxPause /\ pause' = pause + 1

Tick ==
    /\ Passing
    /\ age' = [p \in Profiles |-> Capped(age[p], Cap(p))]
    /\ since' = [p \in Profiles |-> Capped(since[p], Cap(p))]
    /\ outbox' = Older(outbox)
    /\ late' = {Older(r) : r \in late}
    /\ UNCHANGED <<pc, job, status, reply, shown>>

-----------------------------------------------------------------------------

WorkerStep ==
    \/ StartCycle \/ NothingDue
    \/ \E p \in Profiles : Choose(p)
    \/ \E result \in {"completed", "failed"} : Finish(result)
    \/ Report \/ Delivered

Fault ==
    \/ AttemptFails \/ Unsaved \/ PostFails \/ Crash
    \/ \E r \in late : ServeLate(r)

Next == WorkerStep \/ Serve \/ Fault \/ Restart \/ Tick

Spec == Init /\ [][Next]_vars

(* The worker's loop goes on, its executor and its calls have timeouts,    *)
(* the service is restarted and time passes.  Nothing is said of the       *)
(* backend here: it may never answer.                                      *)
Fairness ==
    /\ WF_vars(StartCycle)
    /\ WF_vars(NothingDue \/ AttemptFails \/ \E p \in Profiles : Choose(p))
    /\ WF_vars(Unsaved \/ \E r \in {"completed", "failed"} : Finish(r))
    /\ WF_vars(Unsaved \/ Report)
    /\ WF_vars(Delivered \/ PostFails)
    /\ WF_vars(Restart)
    /\ SF_vars(Tick)

FairSpec == Spec /\ Fairness

-----------------------------------------------------------------------------

Aged == {r \in Reports : r.age <= Interval[r.profile] + 1}

TypeOK ==
    /\ pc \in PC
    /\ job \in Profiles \cup {None}
    /\ pause \in 0 .. MaxPause
    /\ \A p \in Profiles : age[p] \in 0 .. Cap(p) /\ since[p] \in 0 .. Cap(p)
    /\ status \in [Profiles -> Status]
    /\ outbox # None => outbox \in Aged
    /\ reply \in {None, "created"}
    /\ \A r \in late : r \in Aged
    /\ shown \in [Profiles -> Checks \cup {None}]

Starts(p) == pc # "executing" /\ pc' = "executing" /\ job' = p
StartsSpaced == \A p \in Profiles : Starts(p) => since[p] >= Interval[p]

(* operation_worker.py 90 and 99: whatever is killed, lost or unwritable,  *)
(* and whether or not the backend is there, a profile is not backed up     *)
(* again before its interval has passed.                                   *)
Spaced == [][StartsSpaced]_vars

(* What the dashboard shows of the latest attempt of a profile is what the *)
(* machine's own schedule says of it, across kills between the two files,  *)
(* repeated and late posts: a success is dated if and only if the backup   *)
(* was completed, and an error given if and only if it failed.  The badge  *)
(* does not tell them apart: no scheduled backup reports a size, and so    *)
(* each of them, completed or not, asks for action (main.py 1426).         *)
ShownAgrees ==
    \A p \in Profiles :
        shown[p] # None /\ shown[p].last =>
            /\ status[p] \in {"completed", "failed"}
            /\ shown[p].succeeded <=> status[p] = "completed"
            /\ shown[p].error <=> status[p] = "failed"
            /\ shown[p].badge = "critical"

Running(p) == pc = "executing" /\ job = p

(* The profiles are tried in the order of the configuration: from some     *)
(* time on one before p is due whenever the worker looks, and is backed up *)
(* again.  That takes backups that last about as long as their intervals.  *)
Starved(p) ==
    \E q \in 1 .. p - 1 :
        /\ []<>Running(q)
        /\ <>[](pc = "choosing" => \E e \in 1 .. p - 1 : Due(e))

(* Neither a kill nor an attempt that cannot be written.                   *)
Settled ==
    /\ pc' = "down" => pc = "down"
    /\ pc = "choosing" /\ pc' = "idle" => \A p \in Profiles : ~Due(p)

(* "Cloud unavailability must not suspend local scheduled backups": once   *)
(* the machine stays up and can write its attempts, every profile is       *)
(* backed up again and again, whatever becomes of the outcomes and of the  *)
(* posts; except one that is starved.                                      *)
EveryProfileRuns ==
    <>[][Settled]_vars =>
        \A p \in Profiles : []<>Running(p) \/ Starved(p)

=============================================================================
