-------------------------- MODULE ExecutorsProofs --------------------------
(***************************************************************************)
(* Proofs about Executors: for any addresses, profiles, durations and      *)
(* latencies, and any number of blocks, undos and backups, whatever is     *)
(* refused, killed or lost in a reboot in between.                         *)
(***************************************************************************)
EXTENDS Executors, FiniteSetTheorems, TLAPS

-----------------------------------------------------------------------------
(* The inductive invariant.                                                *)

BlockOf(g) == job # None /\ job.kind = "block" /\ job.grant = g
UndoOf(g) == job # None /\ job.kind = "undo" /\ job.grant = g

(* Each system has its own steps and its own form of a rule.               *)
PlatformFits ==
    /\ job # None =>
          /\ job.step \in {"nft", "list", "delete"} => system = "Linux"
          /\ job.step \in {"register", "rule", "add", "verify", "remove",
                           "untask"} => system = "Windows"
    /\ \A r \in rules :
          IF system = "Linux" THEN r.until \in Nat ELSE r.until = None

(* Jobs, rules and tasks are those of grants.                              *)
References ==
    /\ job # None /\ job.kind # "backup" => job.grant \in DOMAIN grants
    /\ \A r \in rules : r.grant \in DOMAIN grants
    /\ \A g \in Ids : tasks[g] # None => g \in DOMAIN grants

(* A command ends within Latency.                                          *)
InLatency ==
    job # None /\ job.kind # "backup" =>
        job.since <= now /\ now <= job.since + Latency

(* A block comes before its undo, and neither is done twice.               *)
BlockBeforeUndo ==
    /\ \A g \in DOMAIN grants :
          /\ grants[g].block = "approved" => grants[g].undo = "none"
          /\ BlockOf(g) => /\ grants[g].block = "running"
                           /\ grants[g].undo \in {"none", "approved"}
          /\ UndoOf(g) => /\ grants[g].undo = "running"
                          /\ grants[g].block # "approved"
                          /\ g \in excused

(* What makes room for another grant of an address.                        *)
Finished(g) ==
    \/ Expired(g)
    \/ grants[g].block = "failed" /\ grants[g].undo \in {"none", "failed"}

(* The grants of an address come one after the other, and none is applied  *)
(* while the worker is busy with an earlier one.                           *)
OneAfterTheOther ==
    \A g, h \in DOMAIN grants :
        g < h /\ grants[g].address = grants[h].address =>
            /\ Finished(g)
            /\ BlockOf(g) \/ UndoOf(g) => grants[h].block = "approved"

(* Linux: an element times out in the last second of its grant, or later   *)
(* by what the command took.                                               *)
Timeouts ==
    system = "Linux" =>
        /\ \A r \in rules :
              /\ now < r.until
              /\ r.until <= grants[r.grant].expires + Latency
              /\ grants[r.grant].expires < r.until + Second
        /\ job # None /\ job.step = "nft" =>
              /\ job.seconds >= 1
              /\ job.since + Second * job.seconds <= grants[job.grant].expires
              /\ grants[job.grant].expires
                    < job.since + Second * job.seconds + Second

(* Windows: a removal is due in the last second of its grant, and again    *)
(* RetryDelay later; the rule was there by the second attempt.             *)
Scheduled(g) == tasks[g] # None /\ tasks[g].left \in {2, 3}

Removals ==
    /\ \A g \in DOMAIN grants : tasks[g] # None =>
          /\ Deadline(g) <= tasks[g].at
          /\ tasks[g].left > 0 => now <= tasks[g].at
          /\ tasks[g].left = 3 => tasks[g].at = Deadline(g)
          /\ tasks[g].left = 2 => tasks[g].at = Deadline(g) + RetryDelay
    /\ system = "Windows" => \A r \in rules : Scheduled(r.grant)
    /\ job # None /\ job.step \in {"rule", "add"} =>
          Scheduled(job.grant) /\ job.since < Deadline(job.grant)

OwnRule(g) == \E r \in rules : r.grant = g

(* A block that has not come to its rule has none, nor has one whose rule  *)
(* is removed before the task that would have removed it.                  *)
Ruleless(g) ==
    \/ grants[g].block = "approved"
    \/ BlockOf(g) /\ job.step \in {"check", "nft", "register", "rule", "add"}
    \/ UndoOf(g) /\ job.step = "untask"

NoRuleYet == \A g \in DOMAIN grants : Ruleless(g) => ~OwnRule(g)

(* A block that was completed, or is about to be, has a rule of its own    *)
(* until the last second.                                                  *)
Applied(g) ==
    \/ grants[g].block = "completed"
    \/ BlockOf(g) /\ job.step \in {"verify", "report"}

OwnRuleHolds ==
    \A g \in DOMAIN grants \ excused :
        Applied(g) /\ now + Second <= grants[g].expires => OwnRule(g)

(* An undo that is done, or is about to be, leaves no rule.                *)
Lifted(g) ==
    \/ grants[g].undo = "completed"
    \/ UndoOf(g) /\ job.step \in {"untask", "report"}

NoRuleLeft == \A r \in rules : Lifted(r.grant) => Expired(r.grant)

(* A snapshot that is not in the repository has KeepLast later ones of its *)
(* profile, whether its backup was completed or not.                       *)
Later(s) == {t \in DOMAIN made : t > s /\ made[t] = made[s]}

SnapshotsKept ==
    /\ repository \subseteq DOMAIN made
    /\ confirmed \subseteq DOMAIN made
    /\ job # None /\ job.kind = "backup" =>
          IF job.step \in {"config", "save"} THEN Len(made) < MaxJobs
          ELSE job.snapshot \in DOMAIN made
    /\ \A s \in DOMAIN made :
          s \in repository \/ Cardinality(Later(s)) >= KeepLast

Inv ==
    /\ TypeOK
    /\ PlatformFits
    /\ References
    /\ InLatency
    /\ BlockBeforeUndo
    /\ OneAfterTheOther
    /\ Timeouts
    /\ Removals
    /\ NoRuleYet
    /\ OwnRuleHolds
    /\ NoRuleLeft
    /\ SnapshotsKept

-----------------------------------------------------------------------------
(* Seconds.                                                                *)

LEMMA Durations ==
    /\ Second \in Nat \ {0}
    /\ RetryDelay \in Nat \ {0}
    /\ Latency \in Nat
    /\ Latency < RetryDelay
    /\ KeepLast \in Nat
    /\ MaxGrants \in Nat
    /\ MaxTime \in Nat
    /\ MaxJobs \in Nat
    /\ Duration \in Nat
BY ExecutorsAssumption

LEMMA WholeSeconds ==
    ASSUME NEW t \in Int
    PROVE  /\ t \div Second \in Int
           /\ Second * (t \div Second) <= t
           /\ t < Second * (t \div Second) + Second
BY Durations

(* A removal is scheduled in the last second of its grant.                 *)
LEMMA DeadlineInLastSecond ==
    ASSUME TypeOK, NEW g \in DOMAIN grants
    PROVE  /\ Deadline(g) \in Nat
           /\ Deadline(g) <= grants[g].expires
           /\ grants[g].expires < Deadline(g) + Second
  <1>0. grants[g] \in Grant
    BY DEF TypeOK
  <1>1. grants[g].expires \in Nat
    BY <1>0 DEF Grant
  <1>2. grants[g].expires \div Second \in Nat
    BY <1>1, Durations
  <1>3. Second * (grants[g].expires \div Second) \in Nat
    BY <1>2, Durations
  <1>. QED
    BY <1>1, <1>3, WholeSeconds DEF Deadline

-----------------------------------------------------------------------------
(* The grants.                                                             *)

(* Nothing takes back a grant, or changes its address or its end.          *)
GrantsKept ==
    /\ grants' \in Seq(Grant)
    /\ Len(grants') = Len(grants)
    /\ DOMAIN grants' = DOMAIN grants
    /\ \A g \in DOMAIN grants :
          /\ grants[g] \in Grant
          /\ grants'[g].address = grants[g].address
          /\ grants'[g].expires = grants[g].expires

LEMMA GrantIds ==
    ASSUME TypeOK
    PROVE  DOMAIN grants = 1 .. Len(grants) /\ DOMAIN grants \subseteq Ids
BY Durations DEF TypeOK, Ids

LEMMA GrantsUnchanged ==
    ASSUME TypeOK, grants' = grants
    PROVE  GrantsKept
BY DEF TypeOK, GrantsKept

LEMMA BlockWritten ==
    ASSUME TypeOK, NEW g \in DOMAIN grants,
           NEW b \in {"approved", "running"} \cup Outcomes,
           grants' = [grants EXCEPT ![g].block = b]
    PROVE  /\ GrantsKept
           /\ \A h \in DOMAIN grants :
                 /\ grants'[h].undo = grants[h].undo
                 /\ grants'[h].block = IF h = g THEN b ELSE grants[h].block
  <1> DEFINE new == [grants[g] EXCEPT !.block = b]
  <1>1. grants[g] \in Grant
    BY DEF TypeOK
  <1>2. /\ new \in Grant
        /\ new.address = grants[g].address
        /\ new.expires = grants[g].expires
        /\ new.block = b
        /\ new.undo = grants[g].undo
    BY <1>1 DEF Grant
  <1>3. grants' = [grants EXCEPT ![g] = new]
    OBVIOUS
  <1> HIDE DEF new
  <1>. QED
    BY <1>1, <1>2, <1>3 DEF TypeOK, GrantsKept

LEMMA UndoWritten ==
    ASSUME TypeOK, NEW g \in DOMAIN grants,
           NEW u \in {"none", "approved", "running"} \cup Outcomes,
           grants' = [grants EXCEPT ![g].undo = u]
    PROVE  /\ GrantsKept
           /\ \A h \in DOMAIN grants :
                 /\ grants'[h].block = grants[h].block
                 /\ grants'[h].undo = IF h = g THEN u ELSE grants[h].undo
  <1> DEFINE new == [grants[g] EXCEPT !.undo = u]
  <1>1. grants[g] \in Grant
    BY DEF TypeOK
  <1>2. /\ new \in Grant
        /\ new.address = grants[g].address
        /\ new.expires = grants[g].expires
        /\ new.block = grants[g].block
        /\ new.undo = u
    BY <1>1 DEF Grant
  <1>3. grants' = [grants EXCEPT ![g] = new]
    OBVIOUS
  <1> HIDE DEF new
  <1>. QED
    BY <1>1, <1>2, <1>3 DEF TypeOK, GrantsKept

(* What the report of a job writes.                                        *)
LEMMA ReportWritten ==
    ASSUME TypeOK, References, job # None,
           NEW o \in Outcomes, grants' = Reports(o)
    PROVE  /\ GrantsKept
           /\ \A h \in DOMAIN grants :
                 /\ grants'[h].block = IF BlockOf(h) THEN o ELSE grants[h].block
                 /\ grants'[h].undo = IF UndoOf(h) THEN o ELSE grants[h].undo
  <1>1. job \in Job
    BY DEF TypeOK
  <1>2. CASE job.kind = "backup"
    BY <1>2, GrantsUnchanged DEF Reports, BlockOf, UndoOf
  <1>3. CASE job.kind = "block"
    <2>1. job.grant \in DOMAIN grants
      BY <1>3 DEF References
    <2>2. grants' = [grants EXCEPT ![job.grant].block = o]
      BY <1>3 DEF Reports
    <2>3. \A h \in DOMAIN grants : ~UndoOf(h) /\ (BlockOf(h) <=> h = job.grant)
      BY <1>3 DEF BlockOf, UndoOf
    <2>4. /\ GrantsKept
          /\ \A h \in DOMAIN grants :
                /\ grants'[h].undo = grants[h].undo
                /\ grants'[h].block = IF h = job.grant THEN o
                                       ELSE grants[h].block
      BY <2>1, <2>2, BlockWritten
    <2>. QED
      BY <2>3, <2>4
  <1>4. CASE job.kind = "undo"
    <2>1. job.grant \in DOMAIN grants
      BY <1>4 DEF References
    <2>2. grants' = [grants EXCEPT ![job.grant].undo = o]
      BY <1>4 DEF Reports
    <2>3. \A h \in DOMAIN grants : ~BlockOf(h) /\ (UndoOf(h) <=> h = job.grant)
      BY <1>4 DEF BlockOf, UndoOf
    <2>4. /\ GrantsKept
          /\ \A h \in DOMAIN grants :
                /\ grants'[h].block = grants[h].block
                /\ grants'[h].undo = IF h = job.grant THEN o
                                       ELSE grants[h].undo
      BY <2>1, <2>2, UndoWritten
    <2>. QED
      BY <2>3, <2>4
  <1>. QED
    BY <1>1, <1>2, <1>3, <1>4 DEF Job, BlockJob, UndoJob, BackupJob

(* Which job a step belongs to.                                            *)
LEMMA StepsOfJobs ==
    ASSUME TypeOK, References, job # None
    PROVE  /\ job.step \in {"nft", "register", "rule", "add", "verify"} =>
                 job.kind = "block" /\ job \in BlockJob
           /\ job.step \in {"list", "delete", "remove", "untask"} =>
                 job.kind = "undo" /\ job \in UndoJob
           /\ job.step \in {"config", "save", "forget"} =>
                 job.kind = "backup" /\ job \in BackupJob
           /\ job.kind = "block" => job \in BlockJob
           /\ job.kind = "undo" => job \in UndoJob
           /\ job.kind = "backup" => job \in BackupJob
           /\ job.kind # "backup" => job.grant \in DOMAIN grants
BY DEF TypeOK, References, Job, BlockJob, UndoJob, BackupJob

LEMMA GrantsFrame ==
    ASSUME TypeOK, GrantsKept, now' \in Nat, now <= now'
    PROVE  /\ \A g \in DOMAIN grants :
                 /\ Deadline(g)' = Deadline(g)
                 /\ Expired(g) => Expired(g)'
           /\ now' = now => \A g \in DOMAIN grants : Expired(g)' = Expired(g)
  <1>1. \A g \in DOMAIN grants : Deadline(g)' = Deadline(g)
    BY DEF GrantsKept, Deadline
  <1>2. \A g \in DOMAIN grants : grants[g].expires \in Nat
    BY DEF GrantsKept, Grant
  <1>. QED
    BY <1>1, <1>2 DEF GrantsKept, Expired, TypeOK

LEMMA NoJob == ASSUME NEW x \in Job PROVE x # None
BY NoneAssumption

(* The worker is done with its job, which came to nothing: it may have     *)
(* taken away the rule of its own block.                                   *)
LEMMA JobFailed ==
    ASSUME Inv, job # None, job' = None,
           NEW o \in {"failed", "uncertain"}, grants' = Reports(o),
           \/ rules' = rules
           \/ /\ job.kind = "block"
              /\ rules' = {r \in rules : r.grant # job.grant},
           UNCHANGED <<system, now, tasks, excused, backups>>
    PROVE  Inv'
  <1> USE DEF Inv, backups
  <1>1. /\ GrantsKept
        /\ \A h \in DOMAIN grants :
              /\ grants'[h].block = IF BlockOf(h) THEN o ELSE grants[h].block
              /\ grants'[h].undo = IF UndoOf(h) THEN o ELSE grants[h].undo
    BY ReportWritten DEF Outcomes
  <1>2. /\ \A g \in DOMAIN grants : /\ Deadline(g)' = Deadline(g)
                                    /\ Expired(g)' = Expired(g)
        /\ now' = now
    BY <1>1, GrantsFrame DEF TypeOK
  <1>3. \A h : ~BlockOf(h)' /\ ~UndoOf(h)'
    BY DEF BlockOf, UndoOf
  <1>4. rules' \subseteq rules
    OBVIOUS
  <1>5. TypeOK'
    BY <1>1 DEF TypeOK, GrantsKept
  <1>6. PlatformFits'
    BY <1>4 DEF PlatformFits
  <1>7. References'
    BY <1>1, <1>4 DEF References, GrantsKept
  <1>8. InLatency'
    BY DEF InLatency
  <1>9. BlockBeforeUndo'
    BY <1>1, <1>3 DEF BlockBeforeUndo, GrantsKept
  <1>10. OneAfterTheOther'
    <2> SUFFICES ASSUME NEW g \in DOMAIN grants, NEW h \in DOMAIN grants,
                        g < h, grants[g].address = grants[h].address
                 PROVE  Finished(g)'
      BY <1>1, <1>3 DEF OneAfterTheOther, GrantsKept
    <2>1. Finished(g)
      BY DEF OneAfterTheOther
    <2>. QED
      BY <1>1, <1>2, <2>1 DEF Finished, BlockBeforeUndo
  <1>11. Timeouts'
    BY <1>1, <1>2, <1>4 DEF Timeouts, References, GrantsKept
  <1>12. Removals'
    BY <1>1, <1>2, <1>4 DEF Removals, References, GrantsKept, Scheduled
  <1>13. OwnRuleHolds'
    <2> SUFFICES ASSUME NEW g \in DOMAIN grants \ excused, Applied(g)',
                        now + Second <= grants[g].expires
                 PROVE  OwnRule(g)'
      BY <1>1, <1>2 DEF OwnRuleHolds, GrantsKept
    <2>1. grants[g].block = "completed" /\ ~BlockOf(g)
      BY <1>1, <1>3 DEF Applied
    <2>2. OwnRule(g)
      BY <2>1 DEF OwnRuleHolds, Applied
    <2>. QED
      BY <2>1, <2>2 DEF OwnRule, BlockOf
  <1>14. NoRuleLeft'
    BY <1>1, <1>2, <1>3, <1>4 DEF NoRuleLeft, Lifted, References
  <1>15. SnapshotsKept'
    BY DEF SnapshotsKept, Later
  <1>16. NoRuleYet'
    BY <1>1, <1>3, <1>4 DEF NoRuleYet, Ruleless, OwnRule, GrantsKept
  <1>. QED
    BY <1>5, <1>6, <1>7, <1>8, <1>9, <1>10, <1>11, <1>12, <1>13, <1>14, <1>15,
       <1>16

LEMMA KilledKeeps ==
    ASSUME Inv, Killed
    PROVE  Inv'
BY JobFailed DEF Killed

LEMMA RefusedKeeps ==
    ASSUME Inv, Refused
    PROVE  Inv'
BY JobFailed DEF Refused

(* Time: elements that run out are those of grants in their last second.   *)
LEMMA TickKeeps ==
    ASSUME Inv, Tick
    PROVE  Inv'
  <1> USE DEF Inv, Tick, backups
  <1>1. GrantsKept
    BY GrantsUnchanged
  <1>2. now \in Nat /\ now' = now + 1 /\ now' \in Nat
    BY DEF TypeOK
  <1>3. \A g \in DOMAIN grants :
            /\ Deadline(g)' = Deadline(g)
            /\ Expired(g) => Expired(g)'
    BY <1>1, <1>2, GrantsFrame
  <1>4. \A g : (BlockOf(g)' <=> BlockOf(g)) /\ (UndoOf(g)' <=> UndoOf(g))
    BY DEF BlockOf, UndoOf
  <1>5. rules' \subseteq rules
    OBVIOUS
  <1>6. TypeOK'
    BY <1>2, <1>5, ExecutorsAssumption DEF TypeOK
  <1>7. PlatformFits'
    BY <1>5 DEF PlatformFits
  <1>8. References'
    BY <1>5 DEF References
  <1>9. InLatency'
    <2>1. CASE job = None \/ job.kind = "backup"
      BY <2>1 DEF InLatency
    <2>2. CASE job # None /\ job.kind # "backup"
      <3>1. job.since \in Nat
        BY <2>2 DEF TypeOK, Job, BlockJob, UndoJob, BackupJob
      <3>. QED
        BY <1>2, <2>2, <3>1, Durations DEF InLatency
    <2>. QED
      BY <2>1, <2>2
  <1>10. BlockBeforeUndo'
    BY <1>4 DEF BlockBeforeUndo
  <1>11. OneAfterTheOther'
    BY <1>3, <1>4 DEF OneAfterTheOther, Finished
  <1>12. Timeouts'
    BY <1>2, <1>5, NoneAssumption DEF Timeouts, PlatformFits
  <1>13. Removals'
    <2>1. \A g \in DOMAIN grants :
              tasks[g] # None /\ tasks[g].left > 0 => now' <= tasks[g].at
      <3> SUFFICES ASSUME NEW g \in DOMAIN grants, tasks[g] # None,
                          tasks[g].left > 0
                   PROVE  now' <= tasks[g].at
        OBVIOUS
      <3>1. g \in Ids
        BY GrantIds
      <3>2. tasks[g] \in Task
        BY <3>1 DEF TypeOK
      <3>3. ~(tasks[g].at <= now)
        BY <3>1 DEF Due
      <3>. QED
        BY <1>2, <3>2, <3>3 DEF Task
    <2>. QED
      BY <1>5, <2>1 DEF Removals, Scheduled, Deadline
  <1>14. OwnRuleHolds'
    <2> SUFFICES ASSUME NEW g \in DOMAIN grants \ excused, Applied(g),
                        now' + Second <= grants[g].expires
                 PROVE  OwnRule(g)'
      BY <1>4 DEF OwnRuleHolds, Applied
    <2>1. grants[g].expires \in Nat
      BY <1>1 DEF GrantsKept, Grant
    <2>2. now + Second <= grants[g].expires
      BY <1>2, <2>1, Durations
    <2>3. PICK r \in rules : r.grant = g
      BY <2>2 DEF OwnRuleHolds, OwnRule
    <2>4. r.until = None \/ r.until > now + 1
      BY <1>2, <2>1, <2>3, Durations DEF PlatformFits, Timeouts, TypeOK
    <2>. QED
      BY <2>3, <2>4 DEF OwnRule
  <1>15. NoRuleLeft'
    BY <1>3, <1>4, <1>5 DEF NoRuleLeft, Lifted, References
  <1>16. SnapshotsKept'
    BY DEF SnapshotsKept, Later
  <1>17. NoRuleYet'
    BY <1>4, <1>5 DEF NoRuleYet, Ruleless, OwnRule
  <1>. QED
    BY <1>6, <1>7, <1>8, <1>9, <1>10, <1>11, <1>12, <1>13, <1>14, <1>15, <1>16,
       <1>17

(* A reboot excuses every grant there is.                                  *)
LEMMA RebootKeeps ==
    ASSUME Inv, Reboot
    PROVE  Inv'
  <1> USE DEF Inv, Reboot, backups
  <1>1. /\ GrantsKept
        /\ \A h \in DOMAIN grants :
              /\ grants'[h].block =
                    IF BlockOf(h) THEN "uncertain" ELSE grants[h].block
              /\ grants'[h].undo =
                    IF UndoOf(h) THEN "uncertain" ELSE grants[h].undo
    <2>1. CASE job = None
      BY <2>1, GrantsUnchanged DEF BlockOf, UndoOf
    <2>2. CASE job # None
      BY <2>2, ReportWritten DEF Outcomes
    <2>. QED
      BY <2>1, <2>2
  <1>2. /\ \A g \in DOMAIN grants : /\ Deadline(g)' = Deadline(g)
                                    /\ Expired(g)' = Expired(g)
        /\ now' = now
    BY <1>1, GrantsFrame DEF TypeOK
  <1>3. \A h : ~BlockOf(h)' /\ ~UndoOf(h)'
    BY DEF BlockOf, UndoOf
  <1>4. TypeOK'
    <2>1. DOMAIN grants \subseteq Ids
      BY GrantIds
    <2>. QED
      BY <1>1, <2>1 DEF TypeOK, GrantsKept
  <1>5. PlatformFits'
    BY DEF PlatformFits
  <1>6. References'
    BY <1>1 DEF References, GrantsKept
  <1>7. InLatency'
    BY DEF InLatency
  <1>8. BlockBeforeUndo'
    BY <1>1, <1>3 DEF BlockBeforeUndo, GrantsKept
  <1>9. OneAfterTheOther'
    <2> SUFFICES ASSUME NEW g \in DOMAIN grants, NEW h \in DOMAIN grants,
                        g < h, grants[g].address = grants[h].address
                 PROVE  Finished(g)'
      BY <1>1, <1>3 DEF OneAfterTheOther, GrantsKept
    <2>1. Finished(g)
      BY DEF OneAfterTheOther
    <2>. QED
      BY <1>1, <1>2, <2>1 DEF Finished, BlockBeforeUndo
  <1>10. Timeouts'
    BY DEF Timeouts
  <1>11. Removals'
    BY <1>1, <1>2 DEF Removals, GrantsKept
  <1>12. OwnRuleHolds'
    BY <1>1 DEF OwnRuleHolds, GrantsKept
  <1>13. NoRuleLeft'
    BY DEF NoRuleLeft
  <1>14. SnapshotsKept'
    BY DEF SnapshotsKept, Later
  <1>15. NoRuleYet'
    BY DEF NoRuleYet, OwnRule
  <1>. QED
    BY <1>4, <1>5, <1>6, <1>7, <1>8, <1>9, <1>10, <1>11, <1>12, <1>13, <1>14,
       <1>15

LEMMA ApproveKeeps ==
    ASSUME Inv, NEW a \in Addresses, Approve(a)
    PROVE  Inv'
  <1> DEFINE n == Len(grants) + 1
             new == [address |-> a, expires |-> now + Duration,
                     block |-> "approved", undo |-> "none"]
  <1> USE DEF Inv, backups
  <1>1. new \in Grant
    BY Durations DEF Grant, TypeOK
  <1>2. /\ grants' \in Seq(Grant)
        /\ Len(grants') = n
        /\ n \notin DOMAIN grants
        /\ \A g \in DOMAIN grants : g < n
        /\ DOMAIN grants' = DOMAIN grants \cup {n}
        /\ \A g \in DOMAIN grants : grants'[g] = grants[g]
        /\ grants'[n] = new
    BY <1>1 DEF TypeOK, Approve
  <1>3. /\ new.address = a
        /\ new.block = "approved"
        /\ new.undo = "none"
    OBVIOUS
  <1> HIDE DEF n, new
  <1>4. /\ UNCHANGED <<system, now, rules, tasks, excused, job, backups>>
        /\ Len(grants) < MaxGrants
        /\ \A g \in DOMAIN grants : grants[g].address = a => Finished(g)
    BY DEF Approve, Finished
  <1>5. /\ \A g \in DOMAIN grants : /\ Deadline(g)' = Deadline(g)
                                    /\ Expired(g)' = Expired(g)
                                    /\ Finished(g)' = Finished(g)
    BY <1>2, <1>4 DEF Deadline, Expired, Finished
  <1>6. /\ \A g \in DOMAIN grants' : /\ BlockOf(g)' = BlockOf(g)
                                     /\ UndoOf(g)' = UndoOf(g)
        /\ ~BlockOf(n) /\ ~UndoOf(n)
    BY <1>2, <1>4 DEF BlockOf, UndoOf, References
  <1>7. TypeOK'
    BY <1>2, <1>4, Durations DEF TypeOK, n
  <1>8. PlatformFits'
    BY <1>4 DEF PlatformFits
  <1>9. References'
    BY <1>2, <1>4 DEF References
  <1>10. InLatency'
    BY <1>4 DEF InLatency
  <1>11. BlockBeforeUndo'
    BY <1>2, <1>3, <1>4, <1>6 DEF BlockBeforeUndo
  <1>12. OneAfterTheOther'
    <2> SUFFICES ASSUME NEW g \in DOMAIN grants', NEW h \in DOMAIN grants',
                        g < h, grants'[g].address = grants'[h].address
                 PROVE  /\ Finished(g)'
                        /\ BlockOf(g)' \/ UndoOf(g)' =>
                              grants'[h].block = "approved"
      BY DEF OneAfterTheOther
    <2>1. g \in DOMAIN grants
      BY <1>2, GrantIds
    <2>2. CASE h = n
      BY <1>2, <1>3, <1>4, <1>5, <2>1, <2>2
    <2>3. CASE h \in DOMAIN grants
      BY <1>2, <1>4, <1>5, <1>6, <2>1, <2>3 DEF OneAfterTheOther
    <2>. QED
      BY <1>2, <2>2, <2>3
  <1>13. Timeouts'
    BY <1>2, <1>4, StepsOfJobs DEF Timeouts, References
  <1>14. Removals'
    <2>1. tasks[n] = None \/ n \notin Ids
      BY <1>2 DEF References
    <2>2. n \in Ids
      BY <1>2, <1>4, Durations DEF Ids, n, TypeOK
    <2>. QED
      BY <1>2, <1>4, <1>5, <2>1, <2>2, StepsOfJobs
         DEF Removals, Scheduled, References
  <1>15. OwnRuleHolds'
    BY <1>2, <1>3, <1>4, <1>6 DEF OwnRuleHolds, Applied, OwnRule, BlockOf
  <1>16. NoRuleLeft'
    BY <1>2, <1>4, <1>5, <1>6 DEF NoRuleLeft, Lifted, References
  <1>17. SnapshotsKept'
    BY <1>4 DEF SnapshotsKept, Later
  <1>18. NoRuleYet'
    BY <1>2, <1>4, <1>6 DEF NoRuleYet, Ruleless, OwnRule, References
  <1>. QED
    BY <1>7, <1>8, <1>9, <1>10, <1>11, <1>12, <1>13, <1>14, <1>15, <1>16, <1>17,
       <1>18

LEMMA CancelKeeps ==
    ASSUME Inv, NEW g \in DOMAIN grants, Cancel(g)
    PROVE  Inv'
  <1> USE DEF Inv, backups
  <1>1. UNCHANGED <<system, now, rules, tasks, excused, job, backups>>
    BY DEF Cancel
  <1>2. /\ GrantsKept
        /\ \A h \in DOMAIN grants :
              /\ grants'[h].block = grants[h].block
              /\ grants'[h].undo = IF h = g THEN "approved" ELSE grants[h].undo
    BY UndoWritten DEF Cancel
  <1>3. /\ grants[g].block \in {"running", "completed", "uncertain"}
        /\ grants[g].undo = "none"
        /\ ~Expired(g)
    BY DEF Cancel
  <1>4. \A h \in DOMAIN grants : /\ Deadline(h)' = Deadline(h)
                                 /\ Expired(h)' = Expired(h)
    BY <1>1, <1>2, GrantsFrame DEF TypeOK
  <1>5. \A h : BlockOf(h)' = BlockOf(h) /\ UndoOf(h)' = UndoOf(h)
    BY <1>1 DEF BlockOf, UndoOf
  <1>6. TypeOK'
    BY <1>1, <1>2 DEF TypeOK, GrantsKept
  <1>7. PlatformFits'
    BY <1>1 DEF PlatformFits
  <1>8. References'
    BY <1>1, <1>2 DEF References, GrantsKept
  <1>9. InLatency'
    BY <1>1 DEF InLatency
  <1>10. BlockBeforeUndo'
    BY <1>1, <1>2, <1>3, <1>5 DEF BlockBeforeUndo, GrantsKept
  <1>11. OneAfterTheOther'
    BY <1>2, <1>3, <1>4, <1>5 DEF OneAfterTheOther, Finished, GrantsKept
  <1>12. Timeouts'
    BY <1>1, <1>2, StepsOfJobs DEF Timeouts, References, GrantsKept
  <1>13. Removals'
    BY <1>1, <1>2, <1>4, StepsOfJobs
       DEF Removals, Scheduled, References, GrantsKept
  <1>14. OwnRuleHolds'
    BY <1>1, <1>2, <1>5 DEF OwnRuleHolds, Applied, OwnRule, GrantsKept
  <1>15. NoRuleLeft'
    BY <1>1, <1>2, <1>4, <1>5 DEF NoRuleLeft, Lifted, References
  <1>16. SnapshotsKept'
    BY <1>1 DEF SnapshotsKept, Later
  <1>17. NoRuleYet'
    BY <1>1, <1>2, <1>5 DEF NoRuleYet, Ruleless, OwnRule, GrantsKept
  <1>. QED
    BY <1>6, <1>7, <1>8, <1>9, <1>10, <1>11, <1>12, <1>13, <1>14, <1>15, <1>16,
       <1>17

(* The scheduled removal of a rule comes in the last second of its grant.  *)
LEMMA CleanupRunsKeeps ==
    ASSUME Inv, NEW g \in DOMAIN grants, CleanupRuns(g)
    PROVE  Inv'
  <1> DEFINE again == [at |-> now + RetryDelay, left |-> tasks[g].left - 1]
  <1> USE DEF Inv, backups
  <1>1. /\ UNCHANGED <<system, now, grants, excused, job, backups>>
        /\ rules' = {r \in rules : r.grant # g}
        /\ tasks' = [tasks EXCEPT ![g] = IF OwnRule(g) THEN None ELSE again]
    BY DEF CleanupRuns, OwnRule
  <1>2. /\ g \in Ids
        /\ tasks[g] \in Task
        /\ tasks[g] # None /\ tasks[g].left > 0 /\ tasks[g].at <= now
        /\ now \in Nat
    BY GrantIds DEF CleanupRuns, Due, TypeOK
  <1>3. /\ again \in Task
        /\ again # None
        /\ again.at = now + RetryDelay
        /\ again.left = tasks[g].left - 1
    BY <1>2, Durations, NoneAssumption DEF Task
  <1> HIDE DEF again
  <1>4. GrantsKept
    BY <1>1, GrantsUnchanged
  <1>5. /\ DOMAIN grants' = DOMAIN grants
        /\ \A h : /\ Deadline(h)' = Deadline(h)
                  /\ Expired(h)' = Expired(h)
                  /\ Finished(h)' = Finished(h)
                  /\ BlockOf(h)' = BlockOf(h)
                  /\ UndoOf(h)' = UndoOf(h)
    BY <1>1 DEF Deadline, Expired, Finished, BlockOf, UndoOf
  <1>6. /\ Deadline(g) \in Nat
        /\ Deadline(g) <= now
        /\ grants[g].expires \in Nat
        /\ grants[g].expires < now + Second
    BY <1>2, <1>4, DeadlineInLastSecond, Durations
       DEF Removals, GrantsKept, Grant, Task
  <1>7. TypeOK'
    BY <1>1, <1>2, <1>3 DEF TypeOK
  <1>8. PlatformFits'
    BY <1>1 DEF PlatformFits
  <1>9. References'
    BY <1>1 DEF References
  <1>10. InLatency'
    BY <1>1 DEF InLatency
  <1>11. BlockBeforeUndo'
    BY <1>1, <1>5 DEF BlockBeforeUndo
  <1>12. OneAfterTheOther'
    BY <1>1, <1>5 DEF OneAfterTheOther
  <1>13. Timeouts'
    BY <1>1 DEF Timeouts
  <1>14. Removals'
    <2>1. /\ tasks[g].left = 3 => now = Deadline(g)
          /\ tasks[g].left = 2 => now = Deadline(g) + RetryDelay
      BY <1>2, <1>6, Durations DEF Removals, Task
    <2>2. \A h \in DOMAIN grants : tasks'[h] # None =>
              /\ Deadline(h) <= tasks'[h].at
              /\ tasks'[h].left > 0 => now <= tasks'[h].at
              /\ tasks'[h].left = 3 => tasks'[h].at = Deadline(h)
              /\ tasks'[h].left = 2 => tasks'[h].at = Deadline(h) + RetryDelay
      <3> SUFFICES ASSUME NEW h \in DOMAIN grants, tasks'[h] # None
                   PROVE  /\ Deadline(h) <= tasks'[h].at
                          /\ tasks'[h].left > 0 => now <= tasks'[h].at
                          /\ tasks'[h].left = 3 => tasks'[h].at = Deadline(h)
                          /\ tasks'[h].left = 2 =>
                                tasks'[h].at = Deadline(h) + RetryDelay
        OBVIOUS
      <3>1. CASE h # g
        BY <1>1, <3>1, GrantIds DEF Removals, TypeOK
      <3>2. CASE h = g
        <4>1. tasks'[h] = again
          BY <1>1, <1>2, <3>2 DEF TypeOK
        <4>. QED
          BY <1>2, <1>3, <1>6, <2>1, <3>2, <4>1, Durations DEF Task
      <3>. QED
        BY <3>1, <3>2
    <2>3. system = "Windows" => \A r \in rules' : Scheduled(r.grant)'
      BY <1>1, GrantIds DEF Removals, Scheduled, References, TypeOK
    <2>4. ASSUME job # None, job.step \in {"rule", "add"}
          PROVE  Scheduled(job.grant)' /\ job.since < Deadline(job.grant)
      <3>1. job.kind = "block" /\ job.grant \in DOMAIN grants /\ job.since \in Nat
        BY <2>4, StepsOfJobs DEF BlockJob
      <3>2. Scheduled(job.grant) /\ job.since < Deadline(job.grant)
        BY <2>4 DEF Removals
      <3>3. CASE job.grant # g
        BY <1>1, <3>1, <3>2, <3>3, GrantIds DEF Scheduled, TypeOK
      <3>4. CASE job.grant = g
        <4>1. ~OwnRule(g)
          BY <2>4, <3>1, <3>4 DEF NoRuleYet, Ruleless, BlockOf
        <4>2. tasks'[g] = again
          BY <1>1, <1>2, <4>1 DEF TypeOK
        <4>3. tasks[g].left = 3
          BY <1>2, <1>6, <2>1, <2>4, <3>1, <3>2, <3>4, Durations
             DEF Scheduled, InLatency
        <4>. QED
          BY <1>1, <1>3, <3>2, <3>4, <4>2, <4>3 DEF Scheduled
      <3>. QED
        BY <3>3, <3>4
    <2>. QED
      BY <1>1, <1>5, <2>2, <2>3, <2>4 DEF Removals
  <1>15. NoRuleYet'
    BY <1>1, <1>5 DEF NoRuleYet, Ruleless, OwnRule
  <1>16. OwnRuleHolds'
    <2> SUFFICES ASSUME NEW h \in DOMAIN grants \ excused, Applied(h),
                        now + Second <= grants[h].expires
                 PROVE  OwnRule(h)'
      BY <1>1, <1>5 DEF OwnRuleHolds, Applied
    <2>1. OwnRule(h)
      BY DEF OwnRuleHolds
    <2>2. h # g
      BY <1>2, <1>6, Durations
    <2>. QED
      BY <1>1, <2>1, <2>2 DEF OwnRule
  <1>17. NoRuleLeft'
    BY <1>1, <1>5 DEF NoRuleLeft, Lifted
  <1>18. SnapshotsKept'
    BY <1>1 DEF SnapshotsKept, Later
  <1>. QED
    BY <1>7, <1>8, <1>9, <1>10, <1>11, <1>12, <1>13, <1>14, <1>15, <1>16,
       <1>17, <1>18

-----------------------------------------------------------------------------
(* The steps of a block.                                                   *)

LEMMA StartBlockKeeps ==
    ASSUME Inv, NEW g \in DOMAIN grants, StartBlock(g)
    PROVE  Inv'
  <1> DEFINE new == [kind |-> "block", grant |-> g, since |-> now,
                     seconds |-> 0, step |-> "check"]
  <1> USE DEF Inv, backups
  <1>1. new \in BlockJob
    BY GrantIds DEF BlockJob, TypeOK
  <1>2. /\ new \in Job /\ new # None
        /\ new.kind = "block" /\ new.grant = g
        /\ new.since = now /\ new.step = "check"
    BY <1>1, NoJob DEF Job
  <1>3. /\ UNCHANGED <<system, now, rules, tasks, excused, backups>>
        /\ job' = new
        /\ job = None
        /\ grants[g].block = "approved"
        /\ ~Expired(g)
    BY DEF StartBlock
  <1> HIDE DEF new
  <1>4. /\ GrantsKept
        /\ \A h \in DOMAIN grants :
              /\ grants'[h].undo = grants[h].undo
              /\ grants'[h].block = IF h = g THEN "running" ELSE grants[h].block
    BY BlockWritten DEF StartBlock
  <1>5. \A h \in DOMAIN grants : /\ Deadline(h)' = Deadline(h)
                                 /\ Expired(h)' = Expired(h)
    BY <1>3, <1>4, GrantsFrame DEF TypeOK
  <1>6. \A h : /\ ~BlockOf(h) /\ ~UndoOf(h) /\ ~UndoOf(h)'
               /\ BlockOf(h)' <=> h = g
    BY <1>2, <1>3 DEF BlockOf, UndoOf
  <1>7. TypeOK'
    BY <1>2, <1>3, <1>4 DEF TypeOK, GrantsKept
  <1>8. PlatformFits'
    BY <1>2, <1>3 DEF PlatformFits
  <1>9. References'
    BY <1>2, <1>3, <1>4 DEF References, GrantsKept
  <1>10. InLatency'
    BY <1>2, <1>3, Durations DEF InLatency, TypeOK
  <1>11. BlockBeforeUndo'
    BY <1>3, <1>4, <1>6 DEF BlockBeforeUndo, GrantsKept
  <1>12. OneAfterTheOther'
    BY <1>3, <1>4, <1>5, <1>6, GrantIds
       DEF OneAfterTheOther, Finished, GrantsKept
  <1>13. Timeouts'
    BY <1>2, <1>3, <1>4 DEF Timeouts, References, GrantsKept
  <1>14. Removals'
    BY <1>2, <1>3, <1>4, <1>5 DEF Removals, Scheduled, References, GrantsKept
  <1>15. NoRuleYet'
    BY <1>2, <1>3, <1>4, <1>6 DEF NoRuleYet, Ruleless, OwnRule, GrantsKept
  <1>16. OwnRuleHolds'
    BY <1>2, <1>3, <1>4, <1>6 DEF OwnRuleHolds, Applied, OwnRule, GrantsKept
  <1>17. NoRuleLeft'
    BY <1>3, <1>4, <1>5, <1>6 DEF NoRuleLeft, Lifted, References
  <1>18. SnapshotsKept'
    BY <1>2, <1>3 DEF SnapshotsKept, Later
  <1>. QED
    BY <1>7, <1>8, <1>9, <1>10, <1>11, <1>12, <1>13, <1>14, <1>15, <1>16,
       <1>17, <1>18

(* A step within a block or an undo: the job goes on, the grants, the      *)
(* clock and the backups stay.                                             *)
LEMMA JobGoesOn ==
    ASSUME Inv, job # None, job.kind # "backup",
           job' \in BlockJob \cup UndoJob,
           job'.kind = job.kind, job'.grant = job.grant,
           job'.since \in {job.since, now},
           UNCHANGED <<system, now, grants, backups>>,
           rules' \subseteq Rule, tasks' \in [Ids -> Task \cup {None}],
           excused \subseteq excused', excused' \subseteq Ids
    PROVE  /\ job' # None
           /\ job.grant \in DOMAIN grants
           /\ now \in Nat
           /\ \A g : /\ Deadline(g)' = Deadline(g)
                     /\ Expired(g)' = Expired(g)
                     /\ BlockOf(g)' = BlockOf(g)
                     /\ UndoOf(g)' = UndoOf(g)
           /\ TypeOK'
           /\ InLatency'
           /\ BlockBeforeUndo'
           /\ OneAfterTheOther'
           /\ SnapshotsKept'
  <1> USE DEF Inv, backups
  <1>1. job' \in Job /\ job' # None
    BY NoJob DEF Job
  <1>2. \A g : /\ Deadline(g)' = Deadline(g)
               /\ Expired(g)' = Expired(g)
               /\ Finished(g)' = Finished(g)
               /\ BlockOf(g)' = BlockOf(g)
               /\ UndoOf(g)' = UndoOf(g)
    BY <1>1 DEF Deadline, Expired, Finished, BlockOf, UndoOf
  <1>3. TypeOK'
    BY <1>1 DEF TypeOK
  <1>4. InLatency'
    BY Durations DEF InLatency, TypeOK
  <1>5. BlockBeforeUndo'
    BY <1>2 DEF BlockBeforeUndo
  <1>6. OneAfterTheOther'
    BY <1>2 DEF OneAfterTheOther
  <1>7. SnapshotsKept'
    BY DEF SnapshotsKept, Later
  <1>8. job.grant \in DOMAIN grants
    BY DEF References
  <1>. QED
    BY <1>1, <1>2, <1>3, <1>4, <1>5, <1>6, <1>7, <1>8 DEF TypeOK

(* The seconds of an element are those left of its grant, rounded down.    *)
LEMMA CheckBlockKeeps ==
    ASSUME Inv, CheckBlock
    PROVE  Inv'
  <1> DEFINE seconds == SecondsLeft(job.grant)
             step == IF system = "Linux" THEN "nft" ELSE "register"
             new == [job EXCEPT !.seconds = seconds, !.since = now,
                                !.step = step]
  <1> USE DEF Inv, backups
  <1>1. /\ job # None /\ job.kind = "block" /\ job.step = "check"
        /\ job \in BlockJob
        /\ job.grant \in DOMAIN grants
        /\ UNCHANGED <<system, now, rules, tasks, excused, backups>>
    BY StepsOfJobs DEF CheckBlock, At
  <1>2. CASE ~(seconds \in 1 .. (Duration \div Second))
    BY <1>1, <1>2, JobFailed DEF CheckBlock
  <1>3. CASE seconds \in 1 .. (Duration \div Second)
    <2>1. job' = new /\ grants' = grants
      BY <1>3 DEF CheckBlock
    <2>2. Duration \div Second \in Int
      BY Durations, WholeSeconds
    <2>3. seconds \in Nat /\ seconds >= 1
      BY <1>3, <2>2
    <2>4. now \in Nat /\ grants[job.grant].expires \in Nat
      BY <1>1, GrantsUnchanged, <2>1 DEF TypeOK, GrantsKept, Grant
    <2>5. /\ now + Second * seconds <= grants[job.grant].expires
          /\ grants[job.grant].expires < now + Second * seconds + Second
      <3>1. grants[job.grant].expires - now \in Int
        BY <2>4
      <3>2. /\ Second * seconds <= grants[job.grant].expires - now
            /\ grants[job.grant].expires - now < Second * seconds + Second
        BY <3>1, WholeSeconds DEF SecondsLeft
      <3>3. Second * seconds \in Int
        BY <2>3, Durations
      <3>. QED
        BY <2>4, <3>2, <3>3, Durations
    <2>6. /\ new \in BlockJob
          /\ new.kind = "block" /\ new.grant = job.grant
          /\ new.since = now /\ new.seconds = seconds
          /\ new.step = step
      BY <1>1, <2>3, <2>4 DEF BlockJob
    <2> HIDE DEF new, seconds
    <2>7. /\ job' # None
          /\ \A g : /\ Deadline(g)' = Deadline(g)
                    /\ Expired(g)' = Expired(g)
                    /\ BlockOf(g)' = BlockOf(g)
                    /\ UndoOf(g)' = UndoOf(g)
          /\ TypeOK' /\ InLatency' /\ BlockBeforeUndo' /\ OneAfterTheOther'
          /\ SnapshotsKept'
      BY <1>1, <2>1, <2>6, JobGoesOn DEF TypeOK
    <2>8. PlatformFits'
      BY <1>1, <2>1, <2>6 DEF PlatformFits, TypeOK
    <2>9. References'
      BY <1>1, <2>1, <2>6 DEF References
    <2>10. Timeouts'
      BY <1>1, <2>1, <2>3, <2>5, <2>6 DEF Timeouts
    <2>11. Removals'
      BY <1>1, <2>1, <2>6, <2>7 DEF Removals, Scheduled
    <2>12. NoRuleYet'
      BY <1>1, <2>1, <2>6, <2>7
         DEF NoRuleYet, Ruleless, OwnRule, BlockOf
    <2>13. OwnRuleHolds'
      BY <1>1, <2>1, <2>6, <2>7 DEF OwnRuleHolds, Applied, OwnRule
    <2>14. NoRuleLeft'
      BY <1>1, <2>1, <2>6, <2>7 DEF NoRuleLeft, Lifted, UndoOf
    <2>. QED
      BY <2>7, <2>8, <2>9, <2>10, <2>11, <2>12, <2>13, <2>14
  <1>. QED
    BY <1>2, <1>3

(* nft adds the element of a block: the address had none, or the grant is  *)
(* excused and those that had one are finished.                            *)
LEMMA AddElementKeeps ==
    ASSUME Inv, AddElement
    PROVE  Inv'
  <1> DEFINE g == job.grant
             old == RulesOn(grants[g].address)
             until == now + Second * job.seconds
             rule == [grant |-> g, until |-> until]
             new == [job EXCEPT !.step = "report"]
  <1> USE DEF Inv, backups
  <1>1. /\ job # None /\ job.kind = "block" /\ job.step = "nft"
        /\ job \in BlockJob
        /\ g \in DOMAIN grants /\ g \in Ids
        /\ system = "Linux"
        /\ job' = new
        /\ UNCHANGED <<system, now, grants, tasks, backups>>
    BY StepsOfJobs, GrantIds DEF AddElement, At, Go, PlatformFits
  <1>2. /\ new \in BlockJob
        /\ new.kind = "block" /\ new.grant = g
        /\ new.since = job.since /\ new.step = "report"
    BY <1>1 DEF BlockJob
  <1>3. /\ now \in Nat /\ job.since \in Nat /\ job.seconds \in Nat
        /\ grants[g].expires \in Nat
        /\ now <= MaxTime
    BY <1>1, GrantsUnchanged, Durations DEF TypeOK, GrantsKept, Grant, BlockJob
  <1>4. /\ until \in Nat /\ now < until
        /\ until <= grants[g].expires + Latency
        /\ grants[g].expires < until + Second
    <2>1. Second * job.seconds \in Nat /\ Second * job.seconds >= 1
      BY <1>1, <1>3, Durations DEF Timeouts
    <2>. QED
      BY <1>1, <1>3, <2>1, Durations DEF Timeouts, InLatency
  <1>5. rule \in Rule /\ rule.grant = g /\ rule.until = until
    BY <1>1, <1>4 DEF Rule
  <1>6. \/ old = {} /\ rules' = {rule} \cup rules /\ excused' = excused
        \/ /\ rules' \in {rules, {rule} \cup (rules \ old)}
           /\ excused' = excused \cup {g}
    BY DEF AddElement
  <1> HIDE DEF new, rule, until
  <1>7. \A r \in rules' : r \in rules \/ r = rule
    BY <1>6
  <1>8. /\ job' # None
        /\ \A h : /\ Deadline(h)' = Deadline(h)
                  /\ Expired(h)' = Expired(h)
                  /\ BlockOf(h)' = BlockOf(h)
                  /\ UndoOf(h)' = UndoOf(h)
        /\ TypeOK' /\ InLatency' /\ BlockBeforeUndo' /\ OneAfterTheOther'
        /\ SnapshotsKept'
    BY <1>1, <1>2, <1>5, <1>6, <1>7, JobGoesOn DEF TypeOK
  <1>9. PlatformFits'
    BY <1>1, <1>2, <1>4, <1>5, <1>7 DEF PlatformFits
  <1>10. References'
    BY <1>1, <1>2, <1>5, <1>7 DEF References
  <1>11. Timeouts'
    BY <1>1, <1>2, <1>4, <1>5, <1>7 DEF Timeouts
  <1>12. Removals'
    BY <1>1, <1>2, <1>8 DEF Removals
  <1>13. NoRuleYet'
    BY <1>1, <1>2, <1>5, <1>7, <1>8
       DEF NoRuleYet, Ruleless, OwnRule, BlockOf, BlockBeforeUndo
  <1>14. OwnRuleHolds'
    <2> SUFFICES ASSUME NEW h \in DOMAIN grants \ excused', Applied(h)',
                        now + Second <= grants[h].expires
                 PROVE  OwnRule(h)'
      BY <1>1 DEF OwnRuleHolds
    <2>1. CASE h = g
      BY <1>5, <1>6, <2>1 DEF OwnRule
    <2>2. CASE h # g
      <3>1. Applied(h) /\ h \notin excused
        BY <1>1, <1>6, <1>8, <2>2 DEF Applied, BlockOf
      <3>2. PICK r \in rules : r.grant = h
        BY <3>1 DEF OwnRuleHolds, OwnRule
      <3>3. grants[h].block = "completed" /\ ~Expired(h)
        <4>1. grants[h].expires \in Nat
          BY GrantsUnchanged, <1>1 DEF GrantsKept, Grant
        <4>. QED
          BY <1>1, <1>3, <2>2, <3>1, <4>1, Durations
             DEF Applied, BlockOf, Expired
      <3>4. r \notin old
        <4> SUFFICES ASSUME grants[h].address = grants[g].address
                     PROVE  FALSE
          BY <3>2 DEF RulesOn
        <4>1. g < h \/ h < g
          BY <1>1, <2>2, GrantIds
        <4>. QED
          BY <1>1, <3>3, <4>1 DEF OneAfterTheOther, Finished, BlockOf
      <3>. QED
        BY <1>6, <3>2, <3>4 DEF OwnRule
    <2>. QED
      BY <2>1, <2>2
  <1>15. NoRuleLeft'
    <2>1. ~Lifted(g)'
      BY <1>1, <1>8 DEF Lifted, BlockBeforeUndo, BlockOf, UndoOf
    <2>. QED
      BY <1>1, <1>2, <1>5, <1>7, <1>8, <2>1
         DEF NoRuleLeft, Lifted, UndoOf
  <1>. QED
    BY <1>8, <1>9, <1>10, <1>11, <1>12, <1>13, <1>14, <1>15

(* Windows: the removal is scheduled before the rule is there.             *)
LEMMA RegisterTaskKeeps ==
    ASSUME Inv, RegisterTask
    PROVE  Inv'
  <1> DEFINE g == job.grant
             task == [at |-> Deadline(g), left |-> 3]
             new == [job EXCEPT !.step = "rule"]
  <1> USE DEF Inv, backups
  <1>1. /\ job # None /\ job.kind = "block" /\ job.step = "register"
        /\ job \in BlockJob
        /\ g \in DOMAIN grants /\ g \in Ids
        /\ system = "Windows"
        /\ UNCHANGED <<system, now, rules, excused, backups>>
    BY StepsOfJobs, GrantIds DEF RegisterTask, At, PlatformFits
  <1>2. CASE TooLate
    BY <1>1, <1>2, JobFailed DEF RegisterTask, GiveUp
  <1>3. CASE ~TooLate
    <2>1. /\ job' = new
          /\ tasks' = [tasks EXCEPT ![g] = task]
          /\ grants' = grants
      BY <1>3 DEF RegisterTask, Go
    <2>2. Deadline(g) \in Nat /\ now \in Nat /\ job.since \in Nat
      BY <1>1, DeadlineInLastSecond DEF TypeOK, BlockJob
    <2>3. now < Deadline(g) /\ job.since < Deadline(g)
      BY <1>1, <1>3, <2>2 DEF TooLate, InLatency
    <2>4. /\ new \in BlockJob
          /\ new.kind = "block" /\ new.grant = g
          /\ new.since = job.since /\ new.step = "rule"
      BY <1>1 DEF BlockJob
    <2>5. /\ task \in Task /\ task # None
          /\ task.at = Deadline(g) /\ task.left = 3
      BY <2>2, NoneAssumption DEF Task
    <2> HIDE DEF new, task
    <2>6. /\ tasks' \in [Ids -> Task \cup {None}]
          /\ tasks'[g] = task
          /\ \A h \in DOMAIN grants : h # g => tasks'[h] = tasks[h]
      BY <1>1, <2>1, <2>5, GrantIds DEF TypeOK
    <2>7. /\ job' # None
          /\ \A h : /\ Deadline(h)' = Deadline(h)
                    /\ Expired(h)' = Expired(h)
                    /\ BlockOf(h)' = BlockOf(h)
                    /\ UndoOf(h)' = UndoOf(h)
          /\ TypeOK' /\ InLatency' /\ BlockBeforeUndo' /\ OneAfterTheOther'
          /\ SnapshotsKept'
      BY <1>1, <2>1, <2>4, <2>6, JobGoesOn DEF TypeOK
    <2>8. PlatformFits'
      BY <1>1, <2>1, <2>4 DEF PlatformFits
    <2>9. References'
      BY <1>1, <2>1, <2>4 DEF References, TypeOK
    <2>10. Timeouts'
      BY <1>1, <2>1, <2>4 DEF Timeouts
    <2>11. Removals'
      <3>1. \A r \in rules : Scheduled(r.grant)'
        BY <1>1, <2>5, <2>6 DEF Removals, Scheduled, References
      <3>2. Scheduled(job.grant)'
        BY <2>1, <2>4, <2>5, <2>6 DEF Scheduled
      <3>. QED
        BY <1>1, <2>1, <2>2, <2>3, <2>4, <2>5, <2>6, <2>7, <3>1, <3>2
           DEF Removals
    <2>12. NoRuleYet'
      BY <1>1, <2>1, <2>4, <2>7 DEF NoRuleYet, Ruleless, OwnRule, BlockOf
    <2>13. OwnRuleHolds'
      BY <1>1, <2>1, <2>4, <2>7 DEF OwnRuleHolds, Applied, OwnRule
    <2>14. NoRuleLeft'
      BY <1>1, <2>1, <2>4, <2>7 DEF NoRuleLeft, Lifted, UndoOf
    <2>. QED
      BY <2>7, <2>8, <2>9, <2>10, <2>11, <2>12, <2>13, <2>14
  <1>. QED
    BY <1>2, <1>3

LEMMA CheckRuleKeeps ==
    ASSUME Inv, CheckRule
    PROVE  Inv'
  <1> DEFINE new == [job EXCEPT !.step = "add"]
  <1> USE DEF Inv, backups
  <1>1. /\ job # None /\ job.kind = "block" /\ job.step = "rule"
        /\ job \in BlockJob
        /\ job.grant \in DOMAIN grants
        /\ system = "Windows"
        /\ UNCHANGED <<system, now, rules, tasks, excused, backups>>
    BY StepsOfJobs DEF CheckRule, At, PlatformFits
  <1>2. CASE TooLate
    BY <1>1, <1>2, JobFailed DEF CheckRule, GiveUp
  <1>3. CASE ~TooLate
    <2>1. job' = new /\ grants' = grants
      BY <1>3 DEF CheckRule, Go
    <2>2. /\ new \in BlockJob
          /\ new.kind = "block" /\ new.grant = job.grant
          /\ new.since = job.since /\ new.step = "add"
      BY <1>1 DEF BlockJob
    <2> HIDE DEF new
    <2>3. /\ job' # None
          /\ \A h : /\ Deadline(h)' = Deadline(h)
                    /\ Expired(h)' = Expired(h)
                    /\ BlockOf(h)' = BlockOf(h)
                    /\ UndoOf(h)' = UndoOf(h)
          /\ TypeOK' /\ InLatency' /\ BlockBeforeUndo' /\ OneAfterTheOther'
          /\ SnapshotsKept'
      BY <1>1, <2>1, <2>2, JobGoesOn DEF TypeOK
    <2>4. PlatformFits'
      BY <1>1, <2>1, <2>2 DEF PlatformFits
    <2>5. References'
      BY <1>1, <2>1, <2>2 DEF References
    <2>6. Timeouts'
      BY <1>1, <2>1, <2>2 DEF Timeouts
    <2>7. Removals'
      BY <1>1, <2>1, <2>2, <2>3 DEF Removals, Scheduled
    <2>8. NoRuleYet'
      BY <1>1, <2>1, <2>2, <2>3 DEF NoRuleYet, Ruleless, OwnRule, BlockOf
    <2>9. OwnRuleHolds'
      BY <1>1, <2>1, <2>2, <2>3 DEF OwnRuleHolds, Applied, OwnRule
    <2>10. NoRuleLeft'
      BY <1>1, <2>1, <2>2, <2>3 DEF NoRuleLeft, Lifted, UndoOf
    <2>. QED
      BY <2>3, <2>4, <2>5, <2>6, <2>7, <2>8, <2>9, <2>10
  <1>. QED
    BY <1>2, <1>3

LEMMA AddRuleKeeps ==
    ASSUME Inv, AddRule
    PROVE  Inv'
  <1> DEFINE rule == [grant |-> job.grant, until |-> None]
             new == [job EXCEPT !.step = "verify"]
  <1> USE DEF Inv, backups
  <1>1. /\ job # None /\ job.kind = "block" /\ job.step = "add"
        /\ job \in BlockJob
        /\ job.grant \in DOMAIN grants /\ job.grant \in Ids
        /\ system = "Windows"
        /\ job' = new
        /\ rules' = rules \cup {rule}
        /\ UNCHANGED <<system, now, grants, tasks, excused, backups>>
    BY StepsOfJobs, GrantIds DEF AddRule, At, Go, PlatformFits
  <1>2. /\ new \in BlockJob
        /\ new.kind = "block" /\ new.grant = job.grant
        /\ new.since = job.since /\ new.step = "verify"
    BY <1>1 DEF BlockJob
  <1>3. rule \in Rule /\ rule.grant = job.grant /\ rule.until = None
    BY <1>1 DEF Rule
  <1> HIDE DEF new, rule
  <1>4. /\ job' # None
        /\ \A h : /\ Deadline(h)' = Deadline(h)
                  /\ Expired(h)' = Expired(h)
                  /\ BlockOf(h)' = BlockOf(h)
                  /\ UndoOf(h)' = UndoOf(h)
        /\ TypeOK' /\ InLatency' /\ BlockBeforeUndo' /\ OneAfterTheOther'
        /\ SnapshotsKept'
    BY <1>1, <1>2, <1>3, JobGoesOn DEF TypeOK
  <1>5. PlatformFits'
    BY <1>1, <1>2, <1>3 DEF PlatformFits
  <1>6. References'
    BY <1>1, <1>2, <1>3 DEF References
  <1>7. Timeouts'
    BY <1>1, <1>2 DEF Timeouts
  <1>8. Removals'
    BY <1>1, <1>2, <1>3, <1>4 DEF Removals, Scheduled
  <1>9. NoRuleYet'
    BY <1>1, <1>2, <1>3, <1>4
       DEF NoRuleYet, Ruleless, OwnRule, BlockOf, BlockBeforeUndo
  <1>10. OwnRuleHolds'
    <2>1. \A h \in DOMAIN grants : h # job.grant /\ Applied(h)' => Applied(h)
      BY <1>1, <1>4 DEF Applied, BlockOf
    <2>. QED
      BY <1>1, <1>3, <2>1 DEF OwnRuleHolds, OwnRule
  <1>11. NoRuleLeft'
    <2>1. ~Lifted(job.grant)'
      BY <1>1, <1>2, <1>4 DEF Lifted, BlockBeforeUndo, BlockOf, UndoOf
    <2>. QED
      BY <1>1, <1>2, <1>3, <1>4, <2>1 DEF NoRuleLeft, Lifted, UndoOf
  <1>. QED
    BY <1>4, <1>5, <1>6, <1>7, <1>8, <1>9, <1>10, <1>11

LEMMA VerifyRuleKeeps ==
    ASSUME Inv, VerifyRule
    PROVE  Inv'
  <1> DEFINE new == [job EXCEPT !.step = "report"]
  <1> USE DEF Inv, backups
  <1>1. /\ job # None /\ job.kind = "block" /\ job.step = "verify"
        /\ job \in BlockJob
        /\ job.grant \in DOMAIN grants
        /\ UNCHANGED <<system, now, tasks, excused, backups>>
    BY StepsOfJobs DEF VerifyRule, At
  <1>2. CASE TooLate
    BY <1>1, <1>2, JobFailed DEF VerifyRule, GiveUp
  <1>3. CASE ~TooLate
    <2>1. job' = new /\ grants' = grants /\ rules' = rules
      BY <1>3 DEF VerifyRule, Go
    <2>2. /\ new \in BlockJob
          /\ new.kind = "block" /\ new.grant = job.grant
          /\ new.since = job.since /\ new.step = "report"
      BY <1>1 DEF BlockJob
    <2> HIDE DEF new
    <2>3. /\ job' # None
          /\ \A h : /\ Deadline(h)' = Deadline(h)
                    /\ Expired(h)' = Expired(h)
                    /\ BlockOf(h)' = BlockOf(h)
                    /\ UndoOf(h)' = UndoOf(h)
          /\ TypeOK' /\ InLatency' /\ BlockBeforeUndo' /\ OneAfterTheOther'
          /\ SnapshotsKept'
      BY <1>1, <2>1, <2>2, JobGoesOn DEF TypeOK
    <2>4. PlatformFits'
      BY <1>1, <2>1, <2>2 DEF PlatformFits
    <2>5. References'
      BY <1>1, <2>1, <2>2 DEF References
    <2>6. Timeouts'
      BY <1>1, <2>1, <2>2 DEF Timeouts
    <2>7. Removals'
      BY <1>1, <2>1, <2>2, <2>3 DEF Removals, Scheduled
    <2>8. NoRuleYet'
      BY <1>1, <2>1, <2>2, <2>3 DEF NoRuleYet, Ruleless, OwnRule, BlockOf
    <2>9. OwnRuleHolds'
      BY <1>1, <2>1, <2>2, <2>3 DEF OwnRuleHolds, Applied, OwnRule
    <2>10. NoRuleLeft'
      BY <1>1, <2>1, <2>2, <2>3 DEF NoRuleLeft, Lifted, UndoOf
    <2>. QED
      BY <2>3, <2>4, <2>5, <2>6, <2>7, <2>8, <2>9, <2>10
  <1>. QED
    BY <1>2, <1>3

LEMMA CompletedKeeps ==
    ASSUME Inv, Completed
    PROVE  Inv'
  <1> USE DEF Inv, backups
  <1>1. /\ job # None /\ job.kind # "backup" /\ job.step = "report"
        /\ job.grant \in DOMAIN grants
        /\ job' = None
        /\ UNCHANGED <<system, now, rules, tasks, excused, backups>>
    BY DEF Completed, At, References
  <1>2. /\ GrantsKept
        /\ \A h \in DOMAIN grants :
              /\ grants'[h].block =
                    IF BlockOf(h) THEN "completed" ELSE grants[h].block
              /\ grants'[h].undo =
                    IF UndoOf(h) THEN "completed" ELSE grants[h].undo
    BY <1>1, ReportWritten DEF Outcomes, Completed
  <1>3. \A h \in DOMAIN grants : /\ Deadline(h)' = Deadline(h)
                                 /\ Expired(h)' = Expired(h)
    BY <1>1, <1>2, GrantsFrame DEF TypeOK
  <1>4. \A h : ~BlockOf(h)' /\ ~UndoOf(h)'
    BY <1>1 DEF BlockOf, UndoOf
  <1>5. TypeOK'
    BY <1>1, <1>2 DEF TypeOK, GrantsKept
  <1>6. PlatformFits'
    BY <1>1 DEF PlatformFits
  <1>7. References'
    BY <1>1, <1>2 DEF References, GrantsKept
  <1>8. InLatency'
    BY <1>1 DEF InLatency
  <1>9. BlockBeforeUndo'
    BY <1>1, <1>2, <1>4 DEF BlockBeforeUndo, GrantsKept
  <1>10. OneAfterTheOther'
    <2> SUFFICES ASSUME NEW g \in DOMAIN grants, NEW h \in DOMAIN grants,
                        g < h, grants[g].address = grants[h].address
                 PROVE  Finished(g)'
      BY <1>2, <1>4 DEF OneAfterTheOther, GrantsKept
    <2>1. Finished(g)
      BY DEF OneAfterTheOther
    <2>. QED
      BY <1>2, <1>3, <2>1 DEF Finished, BlockBeforeUndo
  <1>11. Timeouts'
    BY <1>1, <1>2 DEF Timeouts, References, GrantsKept
  <1>12. Removals'
    BY <1>1, <1>2, <1>3 DEF Removals, Scheduled, References, GrantsKept
  <1>13. NoRuleYet'
    BY <1>1, <1>2, <1>4 DEF NoRuleYet, Ruleless, OwnRule, GrantsKept
  <1>14. OwnRuleHolds'
    BY <1>1, <1>2, <1>4 DEF OwnRuleHolds, Applied, OwnRule, GrantsKept
  <1>15. NoRuleLeft'
    BY <1>1, <1>2, <1>3, <1>4 DEF NoRuleLeft, Lifted, References
  <1>16. SnapshotsKept'
    BY <1>1 DEF SnapshotsKept, Later
  <1>. QED
    BY <1>5, <1>6, <1>7, <1>8, <1>9, <1>10, <1>11, <1>12, <1>13, <1>14,
       <1>15, <1>16

-----------------------------------------------------------------------------
(* The steps of an undo.                                                   *)

LEMMA StartUndoKeeps ==
    ASSUME Inv, NEW g \in DOMAIN grants, StartUndo(g)
    PROVE  Inv'
  <1> DEFINE new == [kind |-> "undo", grant |-> g, since |-> now,
                     step |-> "check"]
  <1> USE DEF Inv, backups
  <1>1. g \in Ids /\ new \in UndoJob
    BY GrantIds DEF UndoJob, TypeOK
  <1>2. /\ new \in Job /\ new # None
        /\ new.kind = "undo" /\ new.grant = g
        /\ new.since = now /\ new.step = "check"
    BY <1>1, NoJob DEF Job
  <1>3. /\ UNCHANGED <<system, now, rules, tasks, backups>>
        /\ excused' = excused \cup {g}
        /\ job' = new
        /\ job = None
        /\ grants[g].undo = "approved"
        /\ ~Expired(g)
    BY DEF StartUndo
  <1> HIDE DEF new
  <1>4. /\ GrantsKept
        /\ \A h \in DOMAIN grants :
              /\ grants'[h].block = grants[h].block
              /\ grants'[h].undo = IF h = g THEN "running" ELSE grants[h].undo
    BY UndoWritten DEF StartUndo
  <1>5. \A h \in DOMAIN grants : /\ Deadline(h)' = Deadline(h)
                                 /\ Expired(h)' = Expired(h)
    BY <1>3, <1>4, GrantsFrame DEF TypeOK
  <1>6. \A h : /\ ~BlockOf(h) /\ ~UndoOf(h) /\ ~BlockOf(h)'
               /\ UndoOf(h)' <=> h = g
    BY <1>2, <1>3 DEF BlockOf, UndoOf
  <1>7. TypeOK'
    BY <1>1, <1>2, <1>3, <1>4 DEF TypeOK, GrantsKept
  <1>8. PlatformFits'
    BY <1>2, <1>3 DEF PlatformFits
  <1>9. References'
    BY <1>2, <1>3, <1>4 DEF References, GrantsKept
  <1>10. InLatency'
    BY <1>2, <1>3, Durations DEF InLatency, TypeOK
  <1>11. BlockBeforeUndo'
    BY <1>3, <1>4, <1>6 DEF BlockBeforeUndo, GrantsKept
  <1>12. OneAfterTheOther'
    BY <1>3, <1>4, <1>5, <1>6, GrantIds
       DEF OneAfterTheOther, Finished, GrantsKept
  <1>13. Timeouts'
    BY <1>2, <1>3, <1>4 DEF Timeouts, References, GrantsKept
  <1>14. Removals'
    BY <1>2, <1>3, <1>4, <1>5 DEF Removals, Scheduled, References, GrantsKept
  <1>15. NoRuleYet'
    BY <1>2, <1>3, <1>4, <1>6 DEF NoRuleYet, Ruleless, OwnRule, GrantsKept
  <1>16. OwnRuleHolds'
    BY <1>2, <1>3, <1>4, <1>6 DEF OwnRuleHolds, Applied, OwnRule, GrantsKept
  <1>17. NoRuleLeft'
    BY <1>2, <1>3, <1>4, <1>5, <1>6 DEF NoRuleLeft, Lifted, References
  <1>18. SnapshotsKept'
    BY <1>2, <1>3 DEF SnapshotsKept, Later
  <1>. QED
    BY <1>7, <1>8, <1>9, <1>10, <1>11, <1>12, <1>13, <1>14, <1>15, <1>16,
       <1>17, <1>18

(* An undo that changes neither rules nor tasks: it comes to its end only  *)
(* when no rule of its block is left, or the grant is over.                *)
LEMMA UndoGoesOn ==
    ASSUME Inv, job # None, job.kind = "undo",
           NEW step \in {"list", "delete", "remove", "report"},
           job' = [job EXCEPT !.since = now, !.step = step],
           step \in {"list", "delete"} => system = "Linux",
           step = "remove" => system = "Windows",
           step = "report" => ~OwnRule(job.grant) \/ Expired(job.grant),
           UNCHANGED <<system, now, firewall, backups>>
    PROVE  Inv'
  <1> USE DEF Inv, backups, firewall
  <1>1. job \in UndoJob /\ job.grant \in DOMAIN grants /\ now \in Nat
    BY StepsOfJobs DEF TypeOK
  <1>2. /\ job' \in UndoJob
        /\ job'.kind = "undo" /\ job'.grant = job.grant
        /\ job'.since = now /\ job'.step = step
    BY <1>1 DEF UndoJob
  <1>3. /\ job' # None
        /\ \A h : /\ Deadline(h)' = Deadline(h)
                  /\ Expired(h)' = Expired(h)
                  /\ BlockOf(h)' = BlockOf(h)
                  /\ UndoOf(h)' = UndoOf(h)
        /\ TypeOK' /\ InLatency' /\ BlockBeforeUndo' /\ OneAfterTheOther'
        /\ SnapshotsKept'
    BY <1>2, JobGoesOn DEF TypeOK
  <1>4. PlatformFits'
    BY <1>2 DEF PlatformFits
  <1>5. References'
    BY <1>1, <1>2 DEF References
  <1>6. Timeouts'
    BY <1>2 DEF Timeouts
  <1>7. Removals'
    BY <1>2, <1>3 DEF Removals, Scheduled
  <1>8. NoRuleYet'
    BY <1>2, <1>3 DEF NoRuleYet, Ruleless, OwnRule, BlockOf
  <1>9. OwnRuleHolds'
    BY <1>2, <1>3 DEF OwnRuleHolds, Applied, OwnRule, BlockOf
  <1>10. NoRuleLeft'
    BY <1>2, <1>3 DEF NoRuleLeft, Lifted, UndoOf, OwnRule
  <1>. QED
    BY <1>3, <1>4, <1>5, <1>6, <1>7, <1>8, <1>9, <1>10

LEMMA CheckUndoKeeps ==
    ASSUME Inv, CheckUndo
    PROVE  Inv'
  <1> DEFINE step == IF Expired(job.grant) THEN "report"
                     ELSE IF system = "Linux" THEN "list" ELSE "remove"
  <1>1. /\ job # None /\ job.kind = "undo"
        /\ job' = [job EXCEPT !.since = now, !.step = step]
        /\ UNCHANGED <<system, now, firewall, backups>>
    BY DEF CheckUndo, At
  <1>2. /\ step \in {"list", "delete", "remove", "report"}
        /\ step \in {"list", "delete"} => system = "Linux"
        /\ step = "remove" => system = "Windows"
        /\ step = "report" => ~OwnRule(job.grant) \/ Expired(job.grant)
    BY DEF Inv, TypeOK
  <1> HIDE DEF step
  <1>. QED
    BY <1>1, <1>2, UndoGoesOn

(* What is not listed is not there.                                        *)
LEMMA ListSetKeeps ==
    ASSUME Inv, ListSet
    PROVE  Inv'
  <1> DEFINE step == IF Listed(grants[job.grant].address)
                     THEN "delete" ELSE "report"
  <1>1. /\ job # None /\ job.kind = "undo" /\ job.step = "list"
        /\ job' = [job EXCEPT !.since = now, !.step = step]
        /\ UNCHANGED <<system, now, firewall, backups>>
    BY DEF ListSet, At
  <1>2. /\ step \in {"list", "delete", "remove", "report"}
        /\ step \in {"list", "delete"} => system = "Linux"
        /\ step = "remove" => system = "Windows"
        /\ step = "report" => ~OwnRule(job.grant) \/ Expired(job.grant)
    BY <1>1 DEF Inv, PlatformFits, Listed, RulesOn, OwnRule
  <1> HIDE DEF step
  <1>. QED
    BY <1>1, <1>2, UndoGoesOn

(* The rules removed with the element of an address are those of the       *)
(* undone block and of finished ones.                                      *)
LEMMA RulesRemoved ==
    ASSUME Inv, job # None, job.kind = "undo",
           NEW step \in {"untask", "report"},
           job' = [job EXCEPT !.step = step],
           step = "untask" => system = "Windows",
           rules' \subseteq rules,
           \A r \in rules' : r.grant # job.grant,
           \A r \in rules \ rules' :
              grants[r.grant].address = grants[job.grant].address,
           UNCHANGED <<system, now, grants, tasks, excused, backups>>
    PROVE  Inv'
  <1> USE DEF Inv, backups
  <1>1. job \in UndoJob /\ job.grant \in DOMAIN grants /\ now \in Nat
    BY StepsOfJobs DEF TypeOK
  <1>2. /\ job' \in UndoJob
        /\ job'.kind = "undo" /\ job'.grant = job.grant
        /\ job'.since = job.since /\ job'.step = step
    BY <1>1 DEF UndoJob
  <1>3. /\ job' # None
        /\ \A h : /\ Deadline(h)' = Deadline(h)
                  /\ Expired(h)' = Expired(h)
                  /\ BlockOf(h)' = BlockOf(h)
                  /\ UndoOf(h)' = UndoOf(h)
        /\ TypeOK' /\ InLatency' /\ BlockBeforeUndo' /\ OneAfterTheOther'
        /\ SnapshotsKept'
    BY <1>2, JobGoesOn DEF TypeOK
  <1>4. PlatformFits'
    BY <1>2 DEF PlatformFits
  <1>5. References'
    BY <1>1, <1>2 DEF References
  <1>6. Timeouts'
    BY <1>2 DEF Timeouts
  <1>7. Removals'
    BY <1>2, <1>3 DEF Removals, Scheduled
  <1>8. NoRuleYet'
    BY <1>2, <1>3 DEF NoRuleYet, Ruleless, OwnRule, BlockOf, UndoOf
  <1>9. OwnRuleHolds'
    <2> SUFFICES ASSUME NEW h \in DOMAIN grants \ excused, Applied(h)',
                        now + Second <= grants[h].expires
                 PROVE  OwnRule(h)'
      BY DEF OwnRuleHolds
    <2>1. Applied(h) /\ grants[h].block = "completed"
      BY <1>2, <1>3 DEF Applied, BlockOf
    <2>2. PICK r \in rules : r.grant = h
      BY <2>1 DEF OwnRuleHolds, OwnRule
    <2>3. ~Expired(h)
      <3>1. grants[h].expires \in Nat
        BY GrantsUnchanged DEF GrantsKept, Grant
      <3>. QED
        BY <1>1, <3>1, Durations DEF Expired
    <2>4. UndoOf(job.grant)
      BY DEF UndoOf
    <2>5. h # job.grant
      BY <1>1, <2>4 DEF BlockBeforeUndo
    <2>6. r \in rules'
      <3> SUFFICES ASSUME grants[h].address = grants[job.grant].address
                   PROVE  FALSE
        BY <2>2
      <3>1. job.grant < h \/ h < job.grant
        BY <1>1, <2>5, GrantIds
      <3>. QED
        BY <1>1, <2>1, <2>3, <2>4, <3>1 DEF OneAfterTheOther, Finished
    <2>. QED
      BY <2>2, <2>6 DEF OwnRule
  <1>10. NoRuleLeft'
    BY <1>2, <1>3 DEF NoRuleLeft, Lifted, UndoOf
  <1>. QED
    BY <1>3, <1>4, <1>5, <1>6, <1>7, <1>8, <1>9, <1>10

LEMMA DeleteElementKeeps ==
    ASSUME Inv, DeleteElement
    PROVE  Inv'
  <1> DEFINE old == RulesOn(grants[job.grant].address)
  <1>1. /\ job # None /\ job.kind = "undo"
        /\ UNCHANGED <<system, now, tasks, excused, backups>>
    BY DEF DeleteElement, At
  <1>2. CASE old = {}
    BY <1>1, <1>2, JobFailed DEF DeleteElement, GiveUp, backups
  <1>3. CASE old # {}
    <2>1. /\ rules' = rules \ old
          /\ job' = [job EXCEPT !.step = "report"]
          /\ grants' = grants
      BY <1>3 DEF DeleteElement, Go
    <2>2. /\ \A r \in rules' : r.grant # job.grant
          /\ \A r \in rules \ rules' :
                grants[r.grant].address = grants[job.grant].address
      BY <2>1 DEF RulesOn
    <2>. QED
      BY <1>1, <2>1, <2>2, RulesRemoved DEF backups
  <1>. QED
    BY <1>2, <1>3

LEMMA RemoveRuleKeeps ==
    ASSUME Inv, RemoveRule
    PROVE  Inv'
  <1>1. /\ job # None /\ job.kind = "undo" /\ job.step = "remove"
        /\ rules' = {r \in rules : r.grant # job.grant}
        /\ job' = [job EXCEPT !.step = "untask"]
        /\ UNCHANGED <<system, now, grants, tasks, excused, backups>>
    BY DEF RemoveRule, At, Go
  <1>2. system = "Windows"
    BY <1>1 DEF Inv, PlatformFits
  <1>. QED
    BY <1>1, <1>2, RulesRemoved

(* The removal is unscheduled when the rule is gone.                       *)
LEMMA UnregisterTaskKeeps ==
    ASSUME Inv, UnregisterTask
    PROVE  Inv'
  <1> DEFINE g == job.grant
             new == [job EXCEPT !.step = "report"]
  <1> USE DEF Inv, backups
  <1>1. /\ job # None /\ job.kind = "undo" /\ job.step = "untask"
        /\ job \in UndoJob
        /\ g \in DOMAIN grants
        /\ job' = new
        /\ tasks' = [tasks EXCEPT ![g] = None]
        /\ UNCHANGED <<system, now, grants, rules, excused, backups>>
    BY StepsOfJobs DEF UnregisterTask, At, Go
  <1>2. /\ new \in UndoJob
        /\ new.kind = "undo" /\ new.grant = g
        /\ new.since = job.since /\ new.step = "report"
    BY <1>1 DEF UndoJob
  <1> HIDE DEF new
  <1>3. /\ tasks' \in [Ids -> Task \cup {None}]
        /\ tasks'[g] = None
        /\ \A h \in Ids : h # g => tasks'[h] = tasks[h]
    BY <1>1, GrantIds DEF TypeOK
  <1>4. /\ job' # None
        /\ \A h : /\ Deadline(h)' = Deadline(h)
                  /\ Expired(h)' = Expired(h)
                  /\ BlockOf(h)' = BlockOf(h)
                  /\ UndoOf(h)' = UndoOf(h)
        /\ TypeOK' /\ InLatency' /\ BlockBeforeUndo' /\ OneAfterTheOther'
        /\ SnapshotsKept'
    BY <1>1, <1>2, <1>3, JobGoesOn DEF TypeOK
  <1>5. ~OwnRule(g)
    BY <1>1 DEF NoRuleYet, Ruleless, UndoOf
  <1>6. PlatformFits'
    BY <1>1, <1>2 DEF PlatformFits
  <1>7. References'
    BY <1>1, <1>2, <1>3 DEF References
  <1>8. Timeouts'
    BY <1>1, <1>2 DEF Timeouts
  <1>9. Removals'
    BY <1>1, <1>2, <1>3, <1>4, <1>5, GrantIds
       DEF Removals, Scheduled, References, OwnRule
  <1>10. NoRuleYet'
    BY <1>1, <1>2, <1>4 DEF NoRuleYet, Ruleless, OwnRule, BlockOf
  <1>11. OwnRuleHolds'
    BY <1>1, <1>2, <1>4 DEF OwnRuleHolds, Applied, OwnRule, BlockOf
  <1>12. NoRuleLeft'
    BY <1>1, <1>2, <1>4, <1>5 DEF NoRuleLeft, Lifted, UndoOf, OwnRule
  <1>. QED
    BY <1>4, <1>6, <1>7, <1>8, <1>9, <1>10, <1>11, <1>12

-----------------------------------------------------------------------------
(* The steps of a backup.                                                  *)

(* A backup does not touch the firewall.                                   *)
LEMMA BackupStep ==
    ASSUME Inv, job = None \/ job.kind = "backup",
           job' \in BackupJob \cup {None},
           UNCHANGED <<system, now, firewall>>,
           made' \in Seq(Profiles), Len(made') <= MaxJobs,
           repository' \subseteq DOMAIN made', confirmed' \subseteq DOMAIN made',
           SnapshotsKept'
    PROVE  Inv'
  <1> USE DEF Inv, firewall
  <1>1. job' \in Job \cup {None}
    BY DEF Job
  <1>2. job' # None => job'.kind = "backup"
                      /\ job'.step \in {"config", "save", "forget", "report"}
    BY DEF BackupJob
  <1>3. \A g : /\ Deadline(g)' = Deadline(g)
               /\ Expired(g)' = Expired(g)
               /\ Finished(g)' = Finished(g)
               /\ ~BlockOf(g) /\ ~UndoOf(g) /\ ~BlockOf(g)' /\ ~UndoOf(g)'
    BY <1>2 DEF Deadline, Expired, Finished, BlockOf, UndoOf
  <1>4. TypeOK'
    <2>1. DOMAIN made' = 1 .. Len(made')
      OBVIOUS
    <2>2. DOMAIN made' \subseteq Snapshots
      BY <2>1, Durations DEF Snapshots
    <2>. QED
      BY <1>1, <2>2 DEF TypeOK
  <1>5. PlatformFits'
    BY <1>2 DEF PlatformFits
  <1>6. References'
    BY <1>2 DEF References
  <1>7. InLatency'
    BY <1>2 DEF InLatency
  <1>8. BlockBeforeUndo'
    BY <1>3 DEF BlockBeforeUndo
  <1>9. OneAfterTheOther'
    BY <1>3 DEF OneAfterTheOther
  <1>10. Timeouts'
    BY <1>2 DEF Timeouts
  <1>11. Removals'
    BY <1>2, <1>3 DEF Removals, Scheduled
  <1>12. NoRuleYet'
    BY <1>3 DEF NoRuleYet, Ruleless, OwnRule
  <1>13. OwnRuleHolds'
    BY <1>3 DEF OwnRuleHolds, Applied, OwnRule
  <1>14. NoRuleLeft'
    BY <1>3 DEF NoRuleLeft, Lifted
  <1>. QED
    BY <1>4, <1>5, <1>6, <1>7, <1>8, <1>9, <1>10, <1>11, <1>12, <1>13, <1>14

LEMMA SnapshotsFinite ==
    ASSUME TypeOK, NEW s
    PROVE  /\ DOMAIN made = 1 .. Len(made)
           /\ IsFiniteSet(Later(s))
           /\ Cardinality(Later(s)) \in Nat
           /\ \A S \in SUBSET Later(s) :
                 Cardinality(S) \in Nat /\ Cardinality(S) <= Cardinality(Later(s))
  <1>1. DOMAIN made = 1 .. Len(made) /\ Len(made) \in Nat
    BY DEF TypeOK
  <1>2. IsFiniteSet(DOMAIN made)
    BY <1>1, FS_Interval
  <1>3. IsFiniteSet(Later(s))
    BY <1>2, FS_Subset DEF Later
  <1>. QED
    BY <1>1, <1>3, FS_Subset, FS_CardinalityType

LEMMA StartBackupKeeps ==
    ASSUME Inv, NEW p \in Profiles, StartBackup(p)
    PROVE  Inv'
  <1> DEFINE new == [kind |-> "backup", profile |-> p, snapshot |-> 0,
                     step |-> "config"]
  <1> USE DEF Inv
  <1>1. new \in BackupJob /\ new.kind = "backup" /\ new.step = "config"
    BY DEF BackupJob
  <1>2. /\ job = None /\ job' = new
        /\ Len(grants) + Len(made) < MaxJobs
        /\ UNCHANGED <<system, now, firewall, backups>>
    BY DEF StartBackup
  <1> HIDE DEF new
  <1>3. Len(made) < MaxJobs
    BY <1>2, Durations DEF TypeOK
  <1>4. SnapshotsKept'
    BY <1>1, <1>2, <1>3 DEF SnapshotsKept, Later, backups
  <1>. QED
    BY <1>1, <1>2, <1>4, BackupStep DEF TypeOK, SnapshotsKept, backups

LEMMA CheckRepositoryKeeps ==
    ASSUME Inv, CheckRepository
    PROVE  Inv'
  <1> DEFINE new == [job EXCEPT !.step = "save"]
  <1> USE DEF Inv
  <1>1. /\ job # None /\ job.kind = "backup" /\ job.step = "config"
        /\ job \in BackupJob /\ job' = new
        /\ UNCHANGED <<system, now, firewall, backups>>
    BY StepsOfJobs DEF CheckRepository, At, Go
  <1>2. new \in BackupJob /\ new.kind = "backup" /\ new.step = "save"
    BY <1>1 DEF BackupJob
  <1> HIDE DEF new
  <1>3. SnapshotsKept'
    BY <1>1, <1>2 DEF SnapshotsKept, Later, backups
  <1>. QED
    BY <1>1, <1>2, <1>3, BackupStep DEF TypeOK, SnapshotsKept, backups

(* Another snapshot takes nothing from those there are.                    *)
LEMMA SaveSnapshotKeeps ==
    ASSUME Inv, SaveSnapshot
    PROVE  Inv'
  <1> DEFINE n == Len(made) + 1
             step == IF job.profile \in Retained THEN "forget" ELSE "report"
             new == [job EXCEPT !.snapshot = n, !.step = step]
  <1> USE DEF Inv
  <1>1. /\ job # None /\ job.kind = "backup" /\ job.step = "save"
        /\ job \in BackupJob /\ job.profile \in Profiles
        /\ made' = Append(made, job.profile)
        /\ repository' = repository \cup {Len(made')}
        /\ job' = [job EXCEPT !.snapshot = Len(made'), !.step = step] \/ job' = None
        /\ UNCHANGED <<system, now, firewall, confirmed>>
    BY StepsOfJobs DEF SaveSnapshot, At, BackupJob
  <1>2. /\ made' \in Seq(Profiles)
        /\ Len(made') = n /\ n \in Nat
        /\ DOMAIN made = 1 .. Len(made)
        /\ DOMAIN made' = DOMAIN made \cup {n}
        /\ \A s \in DOMAIN made : made'[s] = made[s]
    BY <1>1 DEF TypeOK
  <1>3. /\ new \in BackupJob /\ new.kind = "backup"
        /\ new.snapshot = n /\ new.step \in {"forget", "report"}
    BY <1>1, <1>2 DEF BackupJob
  <1>4. job' = new \/ job' = None
    BY <1>1, <1>2
  <1> HIDE DEF new, n
  <1>5. Len(made') <= MaxJobs
    BY <1>1, <1>2, Durations DEF SnapshotsKept, TypeOK, n
  <1>6. TypeOK'
    BY <1>1, <1>2, <1>3, <1>4, <1>5, Durations
       DEF TypeOK, firewall, Job, Snapshots
  <1>7. \A s \in DOMAIN made : s \in repository' \/ Cardinality(Later(s)') >= KeepLast
    <2> SUFFICES ASSUME NEW s \in DOMAIN made, s \notin repository
                 PROVE  Cardinality(Later(s)') >= KeepLast
      BY <1>1
    <2>1. Later(s) \subseteq Later(s)'
      BY <1>2 DEF Later
    <2>2. Cardinality(Later(s)) >= KeepLast
      BY DEF SnapshotsKept
    <2>3. IsFiniteSet(Later(s)')
      <3>1. IsFiniteSet(DOMAIN made')
        BY <1>2, <1>6, FS_Interval DEF TypeOK
      <3>. QED
        BY <3>1, FS_Subset DEF Later
    <2>. QED
      BY <2>1, <2>2, <2>3, FS_Subset, FS_CardinalityType, SnapshotsFinite,
         Durations
  <1>8. SnapshotsKept'
    BY <1>1, <1>2, <1>3, <1>4, <1>7 DEF SnapshotsKept
  <1>. QED
    BY <1>1, <1>2, <1>3, <1>4, <1>5, <1>8, BackupStep DEF SnapshotsKept

(* What retention removes has KeepLast later snapshots of its own profile  *)
(* in the repository.                                                      *)
LEMMA ForgetKeeps ==
    ASSUME Inv, Forget
    PROVE  Inv'
  <1> DEFINE group == Tagged(job.profile)
             new == [job EXCEPT !.step = "report"]
  <1> USE DEF Inv
  <1>1. /\ job # None /\ job.kind = "backup" /\ job.step = "forget"
        /\ job \in BackupJob /\ job' = new
        /\ repository' \in {repository, (repository \ group) \cup Kept(group)}
        /\ UNCHANGED <<system, now, firewall, made, confirmed>>
    BY StepsOfJobs DEF Forget, At, Go
  <1>2. /\ new \in BackupJob /\ new.kind = "backup"
        /\ new.snapshot = job.snapshot /\ new.step = "report"
    BY <1>1 DEF BackupJob
  <1> HIDE DEF new
  <1>3. repository' \subseteq repository
    BY <1>1 DEF Kept, Tagged
  <1>4. \A s \in DOMAIN made : s \in repository' \/ Cardinality(Later(s)) >= KeepLast
    <2> SUFFICES ASSUME NEW s \in DOMAIN made, s \notin repository'
                 PROVE  Cardinality(Later(s)) >= KeepLast
      OBVIOUS
    <2>1. CASE s \notin repository
      BY <2>1 DEF SnapshotsKept
    <2>2. CASE s \in repository
      <3> DEFINE later == {t \in group : t > s}
      <3>1. s \in group /\ s \notin Kept(group)
        BY <1>1, <2>2
      <3>2. later \subseteq Later(s)
        BY <3>1 DEF Tagged, Later, SnapshotsKept
      <3>3. ~(Cardinality(later) < KeepLast)
        BY <3>1 DEF Kept
      <3> HIDE DEF later
      <3>4. /\ Cardinality(later) \in Nat
            /\ Cardinality(Later(s)) \in Nat
            /\ Cardinality(later) <= Cardinality(Later(s))
        BY <3>2, SnapshotsFinite
      <3>. QED
        BY <3>3, <3>4, Durations
    <2>. QED
      BY <2>1, <2>2
  <1>5. SnapshotsKept'
    BY <1>1, <1>2, <1>3, <1>4 DEF SnapshotsKept, Later
  <1>. QED
    BY <1>1, <1>2, <1>3, <1>5, BackupStep DEF TypeOK, SnapshotsKept

LEMMA BackupCompletedKeeps ==
    ASSUME Inv, BackupCompleted
    PROVE  Inv'
  <1> USE DEF Inv
  <1>1. /\ job # None /\ job.kind = "backup" /\ job.step = "report"
        /\ confirmed' = confirmed \cup {job.snapshot}
        /\ job' = None
        /\ UNCHANGED <<system, now, firewall, made, repository>>
    BY DEF BackupCompleted, At
  <1>2. SnapshotsKept'
    BY <1>1 DEF SnapshotsKept, Later
  <1>. QED
    BY <1>1, <1>2, BackupStep DEF TypeOK, SnapshotsKept

-----------------------------------------------------------------------------
(* The theorems.                                                           *)

LEMMA InitInv ==
    ASSUME Init
    PROVE  Inv
  <1> USE DEF Init
  <1>1. TypeOK
    BY Durations DEF TypeOK
  <1>2. \A g : ~BlockOf(g) /\ ~UndoOf(g)
    BY DEF BlockOf, UndoOf
  <1>3. PlatformFits /\ References /\ InLatency /\ BlockBeforeUndo
    BY DEF PlatformFits, References, InLatency, BlockBeforeUndo
  <1>4. OneAfterTheOther /\ Timeouts /\ Removals
    BY DEF OneAfterTheOther, Timeouts, Removals
  <1>5. NoRuleYet /\ OwnRuleHolds /\ NoRuleLeft /\ SnapshotsKept
    BY DEF NoRuleYet, OwnRuleHolds, NoRuleLeft, SnapshotsKept
  <1>. QED
    BY <1>1, <1>3, <1>4, <1>5 DEF Inv

LEMMA NextKeeps ==
    ASSUME Inv, [Next]_vars
    PROVE  Inv'
  <1>1. CASE Environment
    BY <1>1, TickKeeps, KilledKeeps, RebootKeeps, RefusedKeeps, ApproveKeeps,
       CancelKeeps, CleanupRunsKeeps DEF Environment
  <1>2. CASE Block
    BY <1>2, StartBlockKeeps, CheckBlockKeeps, AddElementKeeps,
       RegisterTaskKeeps, CheckRuleKeeps, AddRuleKeeps, VerifyRuleKeeps,
       CompletedKeeps DEF Block
  <1>3. CASE Unblock
    BY <1>3, StartUndoKeeps, CheckUndoKeeps, ListSetKeeps, DeleteElementKeeps,
       RemoveRuleKeeps, UnregisterTaskKeeps DEF Unblock
  <1>4. CASE Backup
    BY <1>4, StartBackupKeeps, CheckRepositoryKeeps, SaveSnapshotKeeps,
       ForgetKeeps, BackupCompletedKeeps DEF Backup
  <1>5. CASE UNCHANGED vars
    BY <1>5 DEF vars, firewall, backups, Inv, TypeOK, PlatformFits,
       References, InLatency, BlockBeforeUndo, OneAfterTheOther, Finished,
       Timeouts, Removals, Scheduled, NoRuleYet, Ruleless, OwnRuleHolds,
       Applied, NoRuleLeft, Lifted, SnapshotsKept, Later, BlockOf, UndoOf,
       OwnRule, Expired, Deadline
  <1>. QED
    BY <1>1, <1>2, <1>3, <1>4, <1>5 DEF Next

LEMMA InvHolds == Spec => []Inv
  <1>1. Init => Inv
    BY InitInv
  <1>2. Inv /\ [Next]_vars => Inv'
    BY NextKeeps
  <1>. QED
    BY <1>1, <1>2, PTL DEF Spec

(* Every rule, task, job, grant and snapshot is one of its type, and the   *)
(* clock, the grants and the snapshots stay within their bounds.           *)
THEOREM ExecutorsTyped == Spec => []TypeOK
  <1>1. Inv => TypeOK
    BY DEF Inv
  <1>. QED
    BY <1>1, InvHolds, PTL

(* A block is temporary: on Linux its element times out no later than      *)
(* Latency after its grant, on Windows the scheduled removal has come by   *)
(* its first repetition.                                                   *)
THEOREM RulesAreTemporary == Spec => []RuleEndsWithGrant
  <1>1. Inv => RuleEndsWithGrant
    <2> SUFFICES ASSUME Inv, NEW r \in rules
                 PROVE  now <= grants[r.grant].expires
                         + IF system = "Linux" THEN Latency ELSE RetryDelay
      BY DEF RuleEndsWithGrant
    <2> USE DEF Inv
    <2>1. r.grant \in DOMAIN grants /\ now \in Nat
      BY DEF References, TypeOK
    <2>2. grants[r.grant].expires \in Nat
      <3>1. grants[r.grant] \in Grant
        BY <2>1 DEF TypeOK
      <3>. QED
        BY <3>1 DEF Grant
    <2>3. CASE system = "Linux"
      BY <2>1, <2>2, <2>3, Durations DEF Timeouts, PlatformFits
    <2>4. CASE system = "Windows"
      <3>1. tasks[r.grant] \in Task
        BY <2>1, <2>4, GrantIds DEF Removals, Scheduled, TypeOK
      <3>. QED
        BY <2>1, <2>2, <2>4, <3>1, DeadlineInLastSecond, Durations
           DEF Removals, Scheduled, Task
    <2>. QED
      BY <2>3, <2>4 DEF TypeOK
  <1>. QED
    BY <1>1, InvHolds, PTL

(* A completed block that was not undone, lost in a reboot or put on an    *)
(* element that was there is in force until the last second of its grant.  *)
THEOREM BlocksHold == Spec => []BlockHolds
  <1>1. Inv => BlockHolds
    <2> SUFFICES ASSUME Inv, NEW g \in DOMAIN grants \ excused,
                        grants[g].block = "completed",
                        now + Second <= grants[g].expires
                 PROVE  RulesOn(grants[g].address) # {}
      BY DEF BlockHolds
    <2>1. PICK r \in rules : r.grant = g
      BY DEF Inv, OwnRuleHolds, Applied, OwnRule
    <2>. QED
      BY <2>1 DEF RulesOn
  <1>. QED
    BY <1>1, InvHolds, PTL

(* No rule of a block whose undo is completed is in force before its grant *)
(* is over.                                                                *)
THEOREM UndosLift == Spec => []UndoLifts
  <1>1. Inv => UndoLifts
    BY DEF Inv, NoRuleLeft, Lifted, UndoLifts
  <1>. QED
    BY <1>1, InvHolds, PTL

(* The snapshot of a completed backup is in the repository unless KeepLast *)
(* later ones of its profile were made.                                    *)
THEOREM BackupsAreKept == Spec => []KeptBackups
  <1>1. Inv => KeptBackups
    BY DEF Inv, SnapshotsKept, Later, KeptBackups
  <1>. QED
    BY <1>1, InvHolds, PTL
=============================================================================
