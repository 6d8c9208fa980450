----------------------------- MODULE Executors -----------------------------
(***************************************************************************)
(* What the agent's worker does on its machine                             *)
(* (agent/cyberpme_agent/operations.py): the temporary blocks of           *)
(* FirewallEngine and the snapshots of BackupEngine.                       *)
(*                                                                         *)
(* The worker does one job at a time, in steps: an external command takes  *)
(* up to Latency and any job may be killed between two of its steps, by    *)
(* the time limit of a command or with the process.  The clock counts      *)
(* fractions of a second because block() truncates to seconds.  nft, the   *)
(* Windows firewall and its task scheduler, restic and the backend are     *)
(* modelled by what this code uses of them.                                *)
(***************************************************************************)
EXTENDS Integers, FiniteSets, Sequences

CONSTANTS
    Addresses,      \* the addresses that may be blocked
    MaxGrants,      \* bound: blocks that may be approved
    Second,         \* ticks of the clock in a second
    Duration,       \* ticks that a grant lasts
    Latency,        \* ticks that a command may take at most
    RetryDelay,     \* ticks between two attempts of a Windows task
    MaxTime,        \* bound: ticks of a run
    Profiles,       \* the backup profiles, all in one repository
    Retained,       \* those with retention_enabled
    KeepLast,       \* their keep_last
    MaxJobs,        \* bound: blocks and snapshots together
    None

ASSUME ExecutorsAssumption ==
    /\ {MaxGrants, MaxTime, MaxJobs, Duration} \subseteq Nat
    /\ {Second, RetryDelay} \subseteq Nat \ {0}
    /\ Latency \in Nat /\ Latency < RetryDelay
    /\ Retained \subseteq Profiles
    /\ KeepLast \in 2 .. 365

VARIABLES
    system,      \* "Linux" or "Windows"
    now,         \* the clock
    grants,      \* the blocks that were approved, in their order
    rules,       \* the firewall rules in force
    tasks,       \* Windows: the scheduled removal of each grant's rule
    job,         \* the job of the worker, or None
    made,        \* the profile of each snapshot, in the order they were made
    repository,  \* the snapshots that are in the repository
    confirmed,   \* history: the snapshots of completed backups
    excused      \* history: the grants that were undone, lost in a reboot,
                 \* or put on an address that had an element already

firewall == <<grants, rules, tasks, excused>>
backups == <<made, repository, confirmed>>
vars == <<system, now, firewall, job, backups>>

Outcomes == {"completed", "failed", "uncertain"}
Grant == [address : Addresses, expires : Nat,
          block : {"approved", "running"} \cup Outcomes,
          undo : {"none", "approved", "running"} \cup Outcomes]
Ids == 1 .. MaxGrants
Snapshots == 1 .. MaxJobs
Rule == [grant : Ids, until : Nat \cup {None}]
Task == [at : Nat, left : 0 .. 3]

BlockJob == [kind : {"block"}, grant : Ids, since : Nat, seconds : Nat,
             step : {"check", "nft", "register", "rule", "add", "verify",
                     "report"}]
UndoJob == [kind : {"undo"}, grant : Ids, since : Nat,
            step : {"check", "list", "delete", "remove", "untask", "report"}]
BackupJob == [kind : {"backup"}, profile : Profiles, snapshot : Nat,
              step : {"config", "save", "forget", "report"}]
Job == BlockJob \cup UndoJob \cup BackupJob

ASSUME NoneAssumption == None \notin Nat \cup Task \cup Job

TypeOK ==
    /\ system \in {"Linux", "Windows"}
    /\ now \in 0 .. MaxTime
    /\ grants \in Seq(Grant) /\ Len(grants) <= MaxGrants
    /\ rules \subseteq Rule
    /\ tasks \in [Ids -> Task \cup {None}]
    /\ job \in Job \cup {None}
    /\ made \in Seq(Profiles) /\ Len(made) <= MaxJobs
    /\ repository \subseteq Snapshots /\ confirmed \subseteq Snapshots
    /\ excused \subseteq Ids

Init ==
    /\ system \in {"Linux", "Windows"}
    /\ now = 0
    /\ grants = <<>> /\ rules = {} /\ excused = {}
    /\ tasks = [g \in Ids |-> None]
    /\ job = None
    /\ made = <<>> /\ repository = {} /\ confirmed = {}

Expired(g) == grants[g].expires <= now
RulesOn(a) == {r \in rules : grants[r.grant].address = a}

-----------------------------------------------------------------------------
(* Environment.                                                            *)

(* approve: an address gets another grant when the one before is over, or  *)
(* came to nothing (OneGrant of ManagedActions).                           *)
Approve(a) ==
    /\ Len(grants) < MaxGrants /\ Len(grants) + Len(made) < MaxJobs
    /\ \A g \in DOMAIN grants :
          grants[g].address = a =>
             \/ Expired(g)
             \/ grants[g].block = "failed" /\ grants[g].undo \in {"none", "failed"}
    /\ grants' = Append(grants, [address |-> a, expires |-> now + Duration,
                                 block |-> "approved", undo |-> "none"])
    /\ UNCHANGED <<system, now, rules, tasks, excused, job, backups>>

(* cancel of a block that was handed out.                                  *)
Cancel(g) ==
    /\ grants[g].block \in {"running", "completed", "uncertain"}
    /\ grants[g].undo = "none" /\ ~Expired(g)
    /\ grants' = [grants EXCEPT ![g].undo = "approved"]
    /\ UNCHANGED <<system, now, rules, tasks, excused, job, backups>>

(* A task is due when its time has come, a command ends within Latency;    *)
(* the kernel removes the elements whose timeout is over.                  *)
Due(g) == tasks[g] # None /\ tasks[g].left > 0 /\ tasks[g].at <= now

Tick ==
    /\ now < MaxTime
    /\ \A g \in Ids : ~Due(g)
    /\ job # None /\ job.kind # "backup" => now < job.since + Latency
    /\ now' = now + 1
    /\ rules' = {r \in rules : r.until = None \/ r.until > now + 1}
    /\ UNCHANGED <<system, grants, tasks, excused, job, backups>>

(* The task of a Windows block: Remove-NetFirewallRule fails without the   *)
(* rule and the scheduler tries again, RestartCount times.                 *)
CleanupRuns(g) ==
    /\ Due(g)
    /\ rules' = {r \in rules : r.grant # g}
    /\ tasks' = [tasks EXCEPT ![g] =
          IF \E r \in rules : r.grant = g THEN None
          ELSE [at |-> now + RetryDelay, left |-> @.left - 1]]
    /\ UNCHANGED <<system, now, grants, excused, job, backups>>

Reports(outcome) ==
    IF job.kind = "backup" THEN grants
    ELSE IF job.kind = "block"
         THEN [grants EXCEPT ![job.grant].block = outcome]
         ELSE [grants EXCEPT ![job.grant].undo = outcome]

(* The command reaches its time limit or the process is killed: the worker *)
(* reports the job as uncertain and never repeats it.                      *)
Killed ==
    /\ job # None
    /\ grants' = Reports("uncertain")
    /\ job' = None
    /\ UNCHANGED <<system, now, rules, tasks, excused, backups>>

(* Neither the elements of the set nor the ActiveStore survive.            *)
Reboot ==
    /\ rules # {}
    /\ rules' = {}
    /\ excused' = excused \cup DOMAIN grants
    /\ job' = None
    /\ grants' = IF job = None THEN grants ELSE Reports("uncertain")
    /\ UNCHANGED <<system, now, tasks, backups>>

(* OperationError: the local policy, a command or its tool refuses, and    *)
(* has done nothing.                                                       *)
Refused ==
    /\ job # None
    /\ job.step \notin {"forget", "report"}
    /\ grants' = Reports("failed")
    /\ job' = None
    /\ UNCHANGED <<system, now, rules, tasks, excused, backups>>

-----------------------------------------------------------------------------
(* FirewallEngine.block.                                                   *)

At(kind, step) == job # None /\ job.kind = kind /\ job.step = step
Go(step) == job' = [job EXCEPT !.step = step]

StartBlock(g) ==
    /\ job = None
    /\ grants[g].block = "approved" /\ ~Expired(g)
    /\ grants' = [grants EXCEPT ![g].block = "running"]
    /\ job' = [kind |-> "block", grant |-> g, since |-> now, seconds |-> 0,
               step |-> "check"]
    /\ UNCHANGED <<system, now, rules, tasks, excused, backups>>

(* Faulty variants: the whole duration of the grant whenever it starts; a  *)
(* second less, for safety.                                                *)
SecondsLeftWhole(g) == Duration \div Second
SecondsLeftSafe(g) == (grants[g].expires - now) \div Second - 1

SecondsLeft(g) == (grants[g].expires - now) \div Second

CheckBlock ==
    /\ At("block", "check")
    /\ LET seconds == SecondsLeft(job.grant) IN
       IF seconds \in 1 .. (Duration \div Second)
       THEN /\ job' = [job EXCEPT !.seconds = seconds, !.since = now,
                         !.step = IF system = "Linux" THEN "nft"
                                                      ELSE "register"]
            /\ UNCHANGED grants
       ELSE grants' = Reports("failed") /\ job' = None
    /\ UNCHANGED <<system, now, rules, tasks, excused, backups>>

(* nft add element: of an address that is in the set, older kernels keep   *)
(* the element with its timeout and newer ones give it the new timeout.    *)
AddElement ==
    /\ At("block", "nft")
    /\ LET old == RulesOn(grants[job.grant].address)
           new == [grant |-> job.grant, until |-> now + Second * job.seconds]
       IN  IF old = {} THEN rules' = {new} \cup rules /\ UNCHANGED excused
           ELSE /\ rules' \in {rules, {new} \cup (rules \ old)}
                /\ excused' = excused \cup {job.grant}
    /\ Go("report")
    /\ UNCHANGED <<system, now, grants, tasks, backups>>

Deadline(g) == Second * (grants[g].expires \div Second)
TooLate == Deadline(job.grant) <= now
GiveUp == grants' = Reports("failed") /\ job' = None

(* The script looks at the clock before the task, before and after the     *)
(* rule.                                                                   *)
RegisterTask ==
    /\ At("block", "register")
    /\ IF TooLate THEN GiveUp /\ UNCHANGED tasks
       ELSE /\ tasks' = [tasks EXCEPT ![job.grant] =
                           [at |-> Deadline(job.grant), left |-> 3]]
            /\ Go("rule") /\ UNCHANGED grants
    /\ UNCHANGED <<system, now, rules, excused, backups>>

CheckRule ==
    /\ At("block", "rule")
    /\ IF TooLate THEN GiveUp ELSE Go("add") /\ UNCHANGED grants
    /\ UNCHANGED <<system, now, rules, tasks, excused, backups>>

AddRule ==
    /\ At("block", "add")
    /\ rules' = rules \cup {[grant |-> job.grant, until |-> None]}
    /\ Go("verify")
    /\ UNCHANGED <<system, now, grants, tasks, excused, backups>>

VerifyRule ==
    /\ At("block", "verify")
    /\ IF TooLate
       THEN rules' = {r \in rules : r.grant # job.grant} /\ GiveUp
       ELSE Go("report") /\ UNCHANGED <<grants, rules>>
    /\ UNCHANGED <<system, now, tasks, excused, backups>>

(* The executor returns.                                                   *)
Completed ==
    /\ At("block", "report") \/ At("undo", "report")
    /\ grants' = Reports("completed")
    /\ job' = None
    /\ UNCHANGED <<system, now, rules, tasks, excused, backups>>

-----------------------------------------------------------------------------
(* FirewallEngine.unblock.                                                 *)

StartUndo(g) ==
    /\ job = None
    /\ grants[g].undo = "approved" /\ ~Expired(g)
    /\ grants' = [grants EXCEPT ![g].undo = "running"]
    /\ excused' = excused \cup {g}
    /\ job' = [kind |-> "undo", grant |-> g, since |-> now, step |-> "check"]
    /\ UNCHANGED <<system, now, rules, tasks, backups>>

CheckUndo ==
    /\ At("undo", "check")
    /\ job' = [job EXCEPT !.since = now,
                 !.step = IF Expired(job.grant) THEN "report"
                          ELSE IF system = "Linux" THEN "list" ELSE "remove"]
    /\ UNCHANGED <<system, now, firewall, backups>>

(* Faulty variant: the listing is compared with another form of the        *)
(* address.                                                                *)
ListedOtherwise(a) == FALSE

Listed(a) == RulesOn(a) # {}

ListSet ==
    /\ At("undo", "list")
    /\ job' = [job EXCEPT !.since = now,
                 !.step = IF Listed(grants[job.grant].address)
                          THEN "delete" ELSE "report"]
    /\ UNCHANGED <<system, now, firewall, backups>>

(* nft delete element fails if the element has timed out meanwhile.        *)
DeleteElement ==
    /\ At("undo", "delete")
    /\ LET old == RulesOn(grants[job.grant].address) IN
       IF old = {} THEN GiveUp /\ UNCHANGED rules
       ELSE rules' = rules \ old /\ Go("report") /\ UNCHANGED grants
    /\ UNCHANGED <<system, now, tasks, excused, backups>>

RemoveRule ==
    /\ At("undo", "remove")
    /\ rules' = {r \in rules : r.grant # job.grant}
    /\ Go("untask")
    /\ UNCHANGED <<system, now, grants, tasks, excused, backups>>

UnregisterTask ==
    /\ At("undo", "untask")
    /\ tasks' = [tasks EXCEPT ![job.grant] = None]
    /\ Go("report")
    /\ UNCHANGED <<system, now, grants, rules, excused, backups>>

-----------------------------------------------------------------------------
(* BackupEngine.backup, asked for remotely or by the schedule.             *)

StartBackup(p) ==
    /\ job = None
    /\ Len(grants) + Len(made) < MaxJobs
    /\ job' = [kind |-> "backup", profile |-> p, snapshot |-> 0,
               step |-> "config"]
    /\ UNCHANGED <<system, now, firewall, backups>>

CheckRepository ==
    /\ At("backup", "config")
    /\ Go("save")
    /\ UNCHANGED <<system, now, firewall, backups>>

(* restic writes the snapshot as its last act.  A summary that cannot be   *)
(* read makes a refusal of what was saved.                                 *)
SaveSnapshot ==
    /\ At("backup", "save")
    /\ made' = Append(made, job.profile)
    /\ repository' = repository \cup {Len(made')}
    /\ \/ job' = [job EXCEPT !.snapshot = Len(made'),
                    !.step = IF job.profile \in Retained
                             THEN "forget" ELSE "report"]
       \/ job' = None
    /\ UNCHANGED <<system, now, firewall, confirmed>>

(* Faulty variant: the snapshots of the host whatever their tag.           *)
TaggedHost(p) == repository

Tagged(p) == {s \in repository : made[s] = p}

(* What --keep-last leaves of a group.                                     *)
Kept(group) ==
    {s \in group : Cardinality({t \in group : t > s}) < KeepLast}

(* forget --keep-last --prune; a refusal is a sentence in the message.     *)
Forget ==
    /\ At("backup", "forget")
    /\ LET group == Tagged(job.profile) IN
       repository' \in {repository, (repository \ group) \cup Kept(group)}
    /\ Go("report")
    /\ UNCHANGED <<system, now, firewall, made, confirmed>>

BackupCompleted ==
    /\ At("backup", "report")
    /\ confirmed' = confirmed \cup {job.snapshot}
    /\ job' = None
    /\ UNCHANGED <<system, now, firewall, made, repository>>

-----------------------------------------------------------------------------

Environment ==
    \/ Tick \/ Killed \/ Reboot \/ Refused
    \/ \E a \in Addresses : Approve(a)
    \/ \E g \in DOMAIN grants : Cancel(g) \/ CleanupRuns(g)

Block ==
    \/ \E g \in DOMAIN grants : StartBlock(g)
    \/ CheckBlock \/ AddElement
    \/ RegisterTask \/ CheckRule \/ AddRule \/ VerifyRule
    \/ Completed

Unblock ==
    \/ \E g \in DOMAIN grants : StartUndo(g)
    \/ CheckUndo \/ ListSet \/ DeleteElement \/ RemoveRule \/ UnregisterTask

Backup ==
    \/ \E p \in Profiles : StartBackup(p)
    \/ CheckRepository \/ SaveSnapshot \/ Forget \/ BackupCompleted

Next == Environment \/ Block \/ Unblock \/ Backup

Spec == Init /\ [][Next]_vars

-----------------------------------------------------------------------------

(* ACTIONS_ACTIVES 70-82: a block is temporary even if nobody is left to   *)
(* lift it.  Whatever was killed in between, no rule is in force later     *)
(* than its grant and the time a command takes or, on Windows, the first   *)
(* repetition of the scheduled removal.                                    *)
RuleEndsWithGrant ==
    \A r \in rules :
        now <= grants[r.grant].expires
                + IF system = "Linux" THEN Latency ELSE RetryDelay

(* A block that is reported as completed is in force, and stays so until   *)
(* the last second of its grant, in which the truncation and the scheduled *)
(* removal end it.                                                         *)
BlockHolds ==
    \A g \in DOMAIN grants \ excused :
        grants[g].block = "completed" /\ now + Second <= grants[g].expires
        => RulesOn(grants[g].address) # {}

(* An undo that is reported as completed has lifted the rule of its block, *)
(* or came when the grant was over; the rule does not come back.           *)
UndoLifts ==
    \A r \in rules :
        grants[r.grant].undo = "completed" => Expired(r.grant)

(* ACTIONS_ACTIVES 59-61: retention removes old versions of the same host  *)
(* and profile.  The snapshot of a completed backup is in the repository   *)
(* unless KeepLast later ones of its own profile were made, whatever runs  *)
(* were refused or killed in between.                                      *)
KeptBackups ==
    \A s \in confirmed :
        \/ s \in repository
        \/ Cardinality({t \in DOMAIN made : t > s /\ made[t] = made[s]})
              >= KeepLast
=============================================================================
