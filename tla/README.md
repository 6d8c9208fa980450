# CyberPME Africa: TLA+ models and proofs

CyberPME Africa is a monitoring service for small companies: a FastAPI backend
with a PostgreSQL database, a React dashboard, a Python agent on each monitored
machine, and two adapters that forward IDS alerts (Suricata, Wazuh). This
directory holds the models of the parts of it where concurrency, crashes, lost
calls or time decide whether it is right, and the proofs about them.

Line numbers below and in `PROJECT.json` refer to this repository.

## 1. The system

| Component | State it keeps | Operations | What makes it correct |
|---|---|---|---|
| Managed actions (`backend/app/managed_actions.py`) | table `managed_actions` | propose, approve, cancel/undo, list, next, complete, expire | one running action per machine, one block grant per address, an undo lifts its own block, nothing unapproved is dispatched, nothing is dispatched twice |
| Operation worker (`agent/.../operation_worker.py`) | `.operation.json` (receipt), `operation-obsolete-*.json` | process_action, start_worker | an action is executed at most once whatever is killed or lost; a saved result arrives |
| Scheduled backups (the other half of the worker's loop) | `.schedule.json`, `.schedule-report.json` (outbox), table `backup_checks` | process_schedule, create_backup_check | no profile before its interval, outages harmless and none starved by them, the dashboard tells what the machine recorded |
| Executors (`agent/.../operations.py`) | nft set or Windows rule and task, restic repository | backup, restore_test, block, unblock | a block does not outlive its grant, and holds for it; a lifted block stays lifted; retention keeps what it says |
| Network scans (`backend/app/main.py` 1146-1347, `agent/.../main.py` 287-344) | table `network_scans`, `.result.json` (outbox) | request, claim, complete, expire; scan, save, resend | one audit at a time, one execution per audit, a verdict is final, a saved result is resent |
| Suricata adapter (`integrations/suricata`) | offset file, queue directory, quarantine | read, enqueue, flush | no alert is lost, none is recorded before an older one as long as the clock tells their entries apart; the queue stays within its limit |
| Wazuh adapter (`integrations/wazuh`) | none | one POST per alert | - |
| IDS ingestion (`main.py` 1450-1800) | `security_events`, `ids_connectors` | create event, ingest, rotate/revoke token, triage | a repeated event changes nothing; a deleted connector records nothing; a renewal does not cut the sensor off |
| Accounts (`main.py` 391-757, `security.py`) | `users`, `user_sessions`, `account_security`, `auth_throttle` | login, logout, change password, MFA set-up/enable/disable/reset, disable user | only the owner makes administrators; a deactivated account gains no session; a code is used once, also across logins that cross |
| Invitations (`main.py` 776-939) | `user_invitations` | create, preview, accept | a new link replaces the ones before; a link that makes an account is used once |
| Agent identity (`main.py` 972-1097, `security.py` 272-285) | `agent_enrollment_tokens`, `agent_credentials`, `agent_security` | issue token, register, rotate, revoke | a token pairs one machine; a revoked machine stays out until paired again; crossing rotations leave the machine a live token, and registrations where their answers arrive in order |
| Metrics and alerts (`main.py` 1107-1124, 1803-1826) | `metrics`, `alerts` | create_metric | one active alert per resource |
| Checks of existing backup files and of TLS (`main.py` 1350-1431, `ssl_monitor.py`) | `backup_checks`, `ssl_checks` | report, check | - |
| Dashboard (`frontend/src`) | session flag, page data | fetch and render | - |
| Migrations, installers, build scripts | - | - | - |

The backend runs several processes against one database at READ COMMITTED; a
handler is a transaction, atomic only where it locks a row (`with_for_update`),
compares and swaps (`UPDATE ... WHERE status = ...`) or relies on a unique
constraint. Agents are threads that wait for one HTTP answer at a time and keep
what must survive in small JSON files. Nothing is pushed: agents poll.

The hard behaviours are therefore: two handlers between a read and a write;
an answer lost after the backend committed; a process killed between two file
operations; a job that expires while its result is on its way; a credential
that changes while calls made with the old one are under way. They are listed,
line by line, under `hazards` in `PROJECT.json`.

## 2. Plan

What decides whether an active operation on a customer's machine is carried out
once, or not at all, comes first; then the other flows that survive crashes and
lost calls; then the handlers whose hazards are two transactions.

| Step | Modules | State |
|---|---|---|
| 1 | `ManagedActions`, its proofs; `OperationWorker` composed with it, its proofs; `ActionContract`, the abstract specification both implement | done |
| 2 | `NetworkScans` and `ScanAgent` composed with it, their proofs | done |
| 3 | `SuricataAdapter`, its proofs | done |
| 4 | `Accounts` (users, sessions, invitations), its proofs; `SecondFactor`, its proofs | done |
| 5 | `ScheduledBackups`, its proofs | done |
| 6 | `Executors`: the commands of a block, an undo and a backup; their proofs | done |
| 7 | `AgentIdentity`, its proofs; `Incidents` (events, connectors, triage), its proofs | done |

Composition. `OperationWorker` EXTENDS `ManagedActions` and `ScanAgent` EXTENDS
`NetworkScans`: the table module has the handlers with arbitrary callers, the
composing module replaces the callers by the real program and a network, and the
handlers are used as they are. The abstract specifications worth stating are
`ActionContract` (done) and, for the accounts, a specification in which a
credential is a token that is spent once. The modules of steps 4, 6 and 7
stand alone: what they share with others (the grant of `ManagedActions`, the
agent whose identity `AgentIdentity` rotates) they take as an input.

Runs. One per question; a table module has a run of its own only if its
interesting cases need more rows than fit into the composed run. Bounds are
chosen in §5.

Theorems. For each module its type invariant, then the safety invariants of its
runs in the order in which a failure would hurt: no double execution, true
verdicts, exclusiveness, no lost result. Then the refinement.

## 3. The modules and the code

### `ManagedActions` - the table of actions

The single variable `rows` is the table `managed_actions` in the order of
`created_at`; an unused id holds the row `Absent`. A row keeps the columns a
handler reads: server, kind, status, address, requested duration, parent, who
proposed and approved it, result, and time.

| Code | Action |
|---|---|
| `listing` | `Listing` (expires, and is the only way an idle table expires) |
| `propose` | `ProposeBackup`, `ProposeBlock` |
| `approve` | `Approve`, refused by `DuplicateOf` |
| `cancel` | `Withdraw` (before dispatch), `Undo` (of a dispatched block) |
| `next_action` | `NextClaims`, `NextNothing` |
| `complete` | `Complete` (`Records`), `SameAgain` |
| `expire` | `Expire`, inside the four that call it |

A handler is one step: it locks the row it decides on (`owned`), or the server's
row (`approve` for a block, `next_action`), or compares and swaps (the claim).
Time is a countdown, `ttl` for `expires_at - now` and `age` for `now -
started_at`, changed by `Tick` only; this keeps the state space finite and loses
nothing, since the code only compares those differences. `duration_minutes`,
30 minutes of pick-up and the three hours are `BlockDurations`, `PickupWindow`
and `RunLimit`. Backups and restore tests are the same to the table and are one
kind. Reasons, profiles and messages are left out, but for whether a result is
the executor's or was made up after an interruption (`Texts`).

### `OperationWorker` - the worker, its receipt and its calls

`pc` is the place in `process_action`; `receipt` is the file
`.operation.json`; `call` and `reply` are the request the worker waits for and
the answer on its way; `late` holds requests that were given up and may still
be served. `runs`, `recorded` and `archived` are history: how often the executor
was started for an action, what it returned, what was put into
`operation-obsolete-*.json`.

`Poll`, `NothingToDo`, `WriteReceipt`, `Execute`, `Finish`, `Resend`,
`Acknowledged`, `Archive` are the lines of `process_action` in order;
`FinishUnsaved` is the failing `atomic_json` after the executor; `Abandon` is any
exception, caught by the loop of `start_worker`, with the call lost before or
after it was served or served later; `Crash` and `Restart` are a kill anywhere
and the service manager. `atomic_json` writes a new file and renames it, so a
receipt is old or new, never torn. `Enroll` is `register_agent` run again by an
administrator for another server: the running worker goes on with the identity
it was started with, so the new one takes effect at the restart. The refusal of
a *fresh* result (404 or 409 at line 60, which raises) cannot happen in the
model: a call in `posting` is made under the identity that claimed the action.
The executor is one step with any outcome.

### `ActionContract` - what active operations promise

An action is proposed, granted, handed to a machine, carried out at most once and
settled; withdrawn in time it is never carried out; only what was carried out is
settled. `OperationWorker` implements it with `phase` computed from the status of
the row (`PhaseOf`) and `carried` the set of actions with `runs[a] > 0`
(`KeepsContract`).

### `NetworkScans` and `ScanAgent` - audits of the network

`scans` is the table, `writing` the completions that have checked the status and
not yet written. `Create` is atomic because `create_network_scan` locks the
organization's row; its refusal rolls back the expiry it made, so it changes
nothing. `Claim` is the compare-and-swap of `claim_network_scan_job`. The
completion is `CompleteChecks` and `CompleteWrites`, since
`complete_network_scan_job` reads without a lock; it leaves `error` alone when
it writes the `None` it read.

`ScanAgent` adds `process_scan_job`: `outbox` is `agent-state.result.json`,
emptied in `EndScan` and filled in `Save` because `write_text` truncates and
then writes; a kill or a full disk in between (`tear`) leaves it `Torn`. Such an
agent is `Blocked`: the file is parsed outside any `try`, before anything is sent
or asked for. A refused result is
dropped when it was resent (`Delivered`), and kept for the next cycle when it was
fresh (`Refused`). An abandoned completion that was already between check and
write still writes (`WriteLate`). A second process started with `--once` beside
the service is not modelled.

### `SuricataAdapter` - from the EVE log to the backend

The log is one sequence of pieces per inode, two pieces to a line so that a line
can be half written; lines that are no alerts only move the position and are
left out. `state` is the state file (inode and offset), `queue` the directory in
the order of its listing, `quarantine` the entries set aside. `run` is the
memory of the process: which delivery it is in, what it may still deliver, what
it has opened and how far it has read. A timer starts it when it is not running.

`queue_entries` lists the directory by time stamp, then by name, and a name is a
hash. As long as the clock runs forward and its ticks tell two files apart a new
entry is the last; with the fault `clock` it may come at any place (`Places`), as
with equal stamps, where the hash decides, or after the clock was set back.
`outrun` (history) are the alerts that a later one was listed before.

`Post` and `Unlink`, `Quarantine`, `EndFlush` are `flush_queue`; `Enqueue`,
`Duplicate`, `QueueFull`, `Fragment` are one line of `process_stream` each;
`SaveOffset` is the end of `process_file`; `AfterFlush` and `AfterReading` are
the order of things in `main`. The environment appends whole or half lines,
renames, truncates or replaces the log (also under a reused inode), damages queue
entries, kills the process and cuts the power. `missed`, `torn`, `stale` and
`replaced` are history and tell why an alert could be lost. The limit in bytes is
a number of alerts. A post that is served after the adapter gave up records an
alert that is still queued, as a lost answer does; it is not modelled separately.
`copytruncate` empties a file a reader has open at a position: what is written
before that position (`passed`) is found by the next execution only, which sees
the file shorter than its offset.

### `ScheduledBackups` - the backups a machine makes by itself

`age` and `status` are the schedule file: `now - attempt` in hours, and how the
attempt ended. `outbox` is `.schedule-report.json`, which has one place. `pc`,
`job` and `pause` are where the worker is; a post that is under way carries the
outbox, so that only its answer (`reply`) and the posts that were given up
(`late`) need state. `shown` is the newest row of `backup_checks` per profile,
which is the one `BackupsPage.jsx` displays: its badge, its date of the last success and
its error. `since` is history: the hours since
the executor was really started. The flag `last` of a report and a check says
whether it is about the latest attempt of its profile, for `ShownAgrees`.

`StartCycle`, `Delivered`, `PostFails` are lines 71-78 and again 100-105: after
an old report the cycle goes on, after a new one it ends (`GoesOn`). `Choose` is
79-90: the first due profile, its attempt written, its executor started; a kill
between these two is a kill in the executor with nothing done. `AttemptFails` is
an attempt that cannot be written (full disk): the cycle ends before the executor
is called. `Finish` and `Report` write the outcome and the report, `Unsaved` is
either that cannot be written, `Crash` a kill anywhere. `Serve` is `create_backup_check`, which records every copy it
gets and refuses those its schema does (`Rejected`: a profile with a name of one
letter or a kind of its own). An age stops growing once it exceeds all it is
compared with. Profiles that are disabled, or whose interval is out of range,
are skipped by the code and are no members of `Profiles`. That `process_action`
runs between two cycles on the same thread is part of the pause.

### `Accounts` - users, sessions and invitations

`users` and `invitations` are the tables, `sessions` the accounts that have one,
`calls` the handlers that have read and not committed. None of these handlers
locks a row, so each is two steps: `CheckLogin`/`Login`,
`CheckCreate`/`CreateUser`, `CheckUpdate`/`UpdateUser`,
`CheckInvite`/`CreateInvitation`, `CheckAccept`/`AcceptInvitation`. A call keeps
what its commit will write: a column only if its value differs from the one that
was read (`Column`, what SQLAlchemy emits), the invitations it found open, or the
insert of an account that was not there, which fails when the address has one by
then. `Logout`, `ChangePassword` and `RecoverOwner` only delete sessions and are
one step. `byOwner`, `by`, `accepted` and `made` are history. A request to change
an account gives a role, or whether it is active, or both, as `update_user` takes
them.

An invitation that was accepted or revoked is `Closed`, since nothing reads it
again but an acceptance that had read it as open. Three things the model shows
that no property forbids: two invitations for one address that are created at the
same time may both stay open, until the next one closes both (`OneLinkEach` says
that they do not add up); two acceptances of one invitation for an account that
exists and is inactive may both commit (§4); and a deactivation of an account that
was read as inactive changes nothing even if an acceptance that activates it
commits in between.

### `SecondFactor` - codes, recovery codes and their sessions

One account. `profile` is its row of `account_security`, `logins` each login
between the check of its code and the compare-and-swap of `consume_mfa`, then its
session. A TOTP code is a secret and a period, a recovery code a number in the
set handed out with a secret. `Setup`, `Enable`, `Disable` and `Reset` are the
routes of `install_routes`; they lock the row and are one step. `login` is
`CheckLogin` (unlocked read) and `LoginWith` or `LoginWithout`.

Two facts about the code stand behind the premises of the properties. Where MFA
is not required, disabling and enabling it again leaves `recovery_revision` as it
was, so that a login under way since then may write its old list over the new
one; where it is required only the reset withdraws a factor, which raises the
revision, and `RecoveryListExact` holds. And a login that has checked a code of a
secret that is reset meanwhile is let in: the compare-and-swap is on the period
alone, and the reset and a new enabling set that back. Such a login is `overtaken`;
`CodeOnce` counts every use of every code but its use of a TOTP code
(`SpendOvertaken`), whose second acceptance §4 describes.

### `AgentIdentity` - tokens of agents

`enrolments` and `servers` are the tables (a server with its credential and the
flags of `agent_security`), `files` the agents' state files, `configured` the
enrolment tokens in their configurations. A command is one process of an agent
and the handler that serves it; `alive` says whether the process still waits. A
registration is posted, checked, has consumed its token (a compare-and-swap that
holds the row until the transaction ends, `Locked`), has loaded the server and its
profile (`LoadIdentity`; a revocation or a rotation may come before or after), and
is answered; a rotation is posted, checked and answered. `--register-only` and
`--rotate-token` are processes of their own, and no lock keeps two of one machine
apart: `StartRegistration` and `StartRotation` are possible whatever else is under
way. Two histories say when that hurts: an answer on its way when a registration
of its machine is committed is `overtaken`, and a machine whose file holds such an
answer is `outdated`. `GiveUp` is a kill or the timeout of the call:
the handler goes on, and what it issues then reaches nobody (`unanswered`).
`RegisterConflict` is the second of two machines of one name, whose insert fails
and whose transaction, with the consumption of its token, is undone. `Paired`
and `Rotated` write the columns that changed: a revocation that came after the
row was loaded survives both. `SaveIdentity` is `save_state` and the removal of
the enrolment token from the configuration, which is allowed to fail.

### `Incidents` - events, connectors and triage

`events` and `connector` are the rows, `sensor` the token the sensor was
configured with, `calls` the handlers between read and commit. `Ingest` and
`Report` are the two ways an event comes in; a key that is known is answered and
changes nothing, so only posts that found none are calls. `CommitEvent` is the
insert, which the unique key may refuse; the post through a connector updates
`last_event_at` in the same transaction, which fails when the connector is gone.
`BeginRotate`/`CommitRotate`, `BeginEndGrace`/`CommitEndGrace`,
`BeginDelete`/`CommitDelete` are the routes of the connector, `Resolve`,
`Acknowledge`, `Reopen` and `CommitTriage` the triage. A commit writes the columns
whose value differs from the one read (`Merged`). `interrupted` is history: it is
set when a step departs from the renewal the README of the Wazuh integration
describes (renew, reconfigure the sensor, end the transition; one administrator).
Two analysts that triage one incident at once may leave it with columns of both;
no document says otherwise.

### `Executors` - blocks and backups on the machine

The worker's job, command by command. The clock counts fractions of a second,
because `block` truncates the time left to whole seconds. `rules` are the
elements of the nft set with the time the kernel removes them, or the rules of
the Windows firewall, which stay until the scheduled task (`tasks`) or an undo
removes them. `CheckBlock`, `AddElement` are the Linux path; `RegisterTask`,
`CheckRule`, `AddRule`, `VerifyRule` the Windows one (the task comes before the
rule, so that a kill in between leaves a task without a rule, never the
reverse); `CheckUndo`, `ListSet`, `DeleteElement`, `RemoveRule`,
`UnregisterTask` are `unblock`; `CheckRepository`, `SaveSnapshot`, `Forget`,
`BackupCompleted` are `backup`. `GiveUp` is a command that fails or exceeds its
time, `Killed` the process, `Reboot` the machine, which empties the nft set.

A grant is `excused` when nothing may be concluded from it any more: it was
undone, its rule was lost in a reboot, or it came for an address that still had
an element. In the last case nft keeps the element with its old timeout; it takes
a new block of the same address within the latency of a command after the
expiry of the old. An undo that is reported after the expiry of its block leaves
the rule to the clock. A kill of the agent is taken to end the PowerShell script
it runs; a difference between the clocks of agent and backend is not modelled.

## 4. The runs

| Run | States | Question and answer |
|---|---|---|
| `managed_actions` | 154 000 | Do concurrent users, pollers and the clock keep one running action per machine, one grant per address, undos tied to their block and final verdicts? Yes. |
| `operation_worker` | 2.9 million | With kills, lost and late calls and a new enrolment: at most one execution, true verdicts, no saved result lost, nothing withdrawn carried out, the contract implemented? Yes. |
| `operation_worker_live` | 23 000 | Does every receipt clear, every running action end? Yes, an action lost on the way after three hours. |
| `executors` | 11.1 million | Whatever is slow, refused, killed or rebooted: no rule later than its grant and one command, a completed block in force, a completed undo final, retention true per profile? Yes. |
| `scan_agent` | 26 000 | With kills, torn outboxes, lost and late calls: one open audit, one execution per audit, completions that were scanned, held results; audits end and outboxes clear? Yes, unless a torn outbox blocks the agent. |
| `suricata` | 300 000 | Kills, damage, half lines, rotation at any point, a clock of any kind: is an alert lost otherwise, or recorded before an older one that the listing did not put behind it, or never recorded though the queue has room? No. |
| `suricata_backlog` | small | Does an outage of any length lose nothing? No: one alert more than the queue holds and the adapter never gets past it. |
| `scheduled_backups` | 322 000 | Whatever is killed, unwritable, refused, lost, repeated or late: no backup before its interval, the dates and errors of the dashboard true, every profile backed up again? Yes, unless the profiles before it are due whenever the worker looks. |
| `accounts` | 3.1 million | Handlers that cross between read and commit: one use of an invitation that makes an account, administrators by the owner, no more open links than handlers cross, no session for a deactivated account but from a login under way? Yes. |
| `second_factor` | 2.9 million | Two logins and every change of the factor: no code twice, an exact list of recovery codes, no session without the factor? Yes, but for a TOTP code of a login that a reset or a new enabling overtook, and with the premises of §3. |
| `agent_identity` | 385 000 | Kills, lost answers, crossing registrations and rotations of any machines: one machine per token, revocations that hold, no machine left with a dead token? Yes, unless an answer was lost, or was saved after a registration had overtaken it. |
| `incidents` | 1.5 million | Repeated and crossing posts, renewals, deletion and triage: incidents untouched by posts, a deleted connector silent, a renewal without interruption? Yes. |

The properties, by what breaks when they fail:

- *done twice*: `ExecutedOnce`, `ScannedOnce`, `OneRunning`, `KeepsContract`,
  `Spaced`, `CodeOnce`, `InvitationOnce`, `OneMachinePerToken`;
- *done without a right to*: `WithdrawnNeverRan`, `OneGrant`,
  `UndoHitsOwnBlock`, `AdminByOwner`, `OneLinkEach`,
  `InactiveGetsNoSession`, `SessionsHaveFactor`, `RevokedUntilPaired`,
  `DeletedIsSilent`;
- *told wrongly*: `VerdictIsReal`, `FinalStays`, `CompletedIsScanned`,
  `ShownAgrees`, `BlockHolds`, `UndoLifts`, `RepeatKeepsTriage`;
- *lost*: `SavedResultArrives`, `ResultHeld`, `NothingElseLost`, `InOrder`,
  `KeptBackups`, `RecoveryListExact`, `FileFollowsBackend`,
  `SensorKeepsAccess`;
- *left behind or stuck*: `RuleEndsWithGrant`, `ReceiptClears`, `RunningEnds`,
  `ScanEnds`, `OutboxClears`, `OneActiveScan`, `FittingAlertsArrive`,
  `EveryProfileRuns`, `AlertsArrive` (violated).

Every property of a passing run has a faulty variant of the code beside the
definition it replaces (marked *Faulty variant*), under which TLC finds the
property violated; nothing else uses these definitions.

### What the violated property shows

`suricata_backlog`. The offset is saved at the end of the file only. When the
queue fills up before it, the next execution delivers, starts again at the old
offset, no longer finds the delivered alerts in the queue, queues them once more
and is full at the same line. The backend gets the same alerts again and again
(it ignores the duplicates) and never the rest. With the default limit this needs
a long outage on a busy sensor, the case for which the queue exists.

### What else the models say of the code

These are behaviours of the code that the models contain. The properties name
them as exceptions, so that a run passes with them and with nothing more; where a
document says otherwise it is quoted.

- *A torn outbox blocks the agent.* The outbox of the audits is the one file of
  the agent that is written in place (`agent/cyberpme_agent/main.py` 310), and it is
  parsed outside any `try` of the cycle (293). Cut off by a kill or a full disk, it
  is neither sent nor removed, and the agent asks for no audit until someone
  removes it (`Blocked` in `ScanEnds` and `OutboxClears`). `agent/README.md` 27-28
  has results that were not handed over kept and sent again at the next cycle.
- *The badge of a scheduled backup.* The worker reports without a size
  (`operation_worker.py` 96) and `create_backup_check` takes a report without one
  for a failure (`main.py` 1426): a completed scheduled backup is displayed as
  "Action requise", beside the date of its success and no error
  (`BackupsPage.jsx` 23-30). `ShownAgrees` says that date and error are true and
  that the badge is "critical" either way.
- *Starvation of a profile.* `process_schedule` takes the first profile that is
  due, one per cycle, and bounds neither a backup (7200 s for each of its commands)
  nor the interval from below (one hour): a profile before it that is due whenever
  the worker looks keeps a later one from ever being backed up (`Starved` in
  `EveryProfileRuns`).
- *The order of alerts.* The queue is delivered by time stamp, then by a hash.
  Entries stamped alike, or after the clock was set back, are delivered in another
  order than they were logged (`outrun` in `InOrder`).
- *Half a line.* `process_stream` takes the last piece of the file for a line even
  when its newline is not there yet: an alert that is half written then is skipped
  (`torn` in `NothingElseLost`). `integrations/suricata/README.md` 49-50 has each
  alert queued before the progress is validated.
- *One code, two sessions.* Two logins check one TOTP code; one opens its session,
  resets the factor with another code, and the reset sets `last_counter` back to
  -1 (`security.py` 253); the compare-and-swap of the other (103) then passes. A
  new enabling, which sets `last_counter` to the period of its own code (218), can
  do the same. `docs/security/SECURITY-BASELINE.md` 16 and
  `VERIFICATIONS-2026-10-22.md` 34 speak of a code that is accepted once.
  (`overtaken`, `SpendOvertaken` in `CodeOnce`.)
- *One link, two acceptances.* `accept_invitation` does not look at `accepted_at`
  again before it commits (`main.py` 909-914). For an account that exists and is
  inactive there is no insert that could fail: two acceptances that cross both
  commit, the later password stands and both have a session. `README.md` 104 and
  `docs/architecture-commerciale.md` 34 have a link used once. (`made` in
  `InvitationOnce`.)
- *Two links at once.* Invitations for one address that are created at the same time
  do not see each other and both stay open (`main.py` 797-806); the next one closes
  both. `README.md` 103 has the previous link revoked.
- *A registration and a rotation of one machine.* `--register-only` and
  `--rotate-token` take no lock (`agent/cyberpme_agent/main.py` 361-369) and
  `register_agent` replaces the credential without a compare-and-swap
  (`backend/app/main.py` 1058-1062). When the answer to a rotation is saved after the
  registration that overtook it, the machine has a token the backend no longer
  knows, although no answer was lost (`outdated` in `FileFollowsBackend`).
- *A completion over an expiry.* The check and the write of an audit's completion
  are not one step (`main.py` 1272): a completion in between writes over the expiry
  of its audit.

## 5. Bounds

- *Actions and audits.* Two actions are one block and its undo, or two that
  compete for a machine; `managed_actions` has three, a block, its undo and a
  second block of the same address, which is what `UndoHitsOwnBlock` is about.
  Two audits are one that ends late and its successor.
- *Servers, agents.* Rows of different servers only meet through enrolment, for
  which `operation_worker` has two servers. Audits belong to one agent; a second
  one only takes turns. The proofs cover any number.
- *Time.* Durations of one or two units tell apart everything the code compares:
  before, at and after a limit. A block may outlast the pick-up window.
- *Late calls.* One; the theorems hold for any number.
- *Suricata.* Three alerts and room for two is the smallest case in which the queue
  has an order and fills up with one to spare; one delivery per execution makes a
  backlog take several; two inodes are a rename with the old inode reused. In
  `MCSuricataAdapter`, `Named` fixes the names of alerts and files, and `OneStruck`
  lets all faults together strike one alert: as many faults as there are, one after
  the other, but of one victim. The proofs have no such bound.
- *Accounts.* The owner, an administrator and the one he appoints are three
  addresses; two roles are "admin" and another; two handlers cross; three
  invitations are two that are created at the same time and their replacement.
  `Bounded` of `MCAccounts` leaves out the third session at a time, two logins, two
  creations or two changes under way at once, the expiry of any link but the first,
  and what comes after the third invitation: each crosses the handlers of the other
  kinds and two of the same kind only meet in one row, which the later one writes.
  The proofs have no such bound.
- *Second factor.* Two logins, two secrets (one and its successor), two recovery
  codes of each; with two periods the window of a code reaches from before the
  first to after the last.
- *Identity.* Two machines of one name, so that both registrations meet in one
  row; two enrolment tokens, two processes, three agent tokens: a pairing, a
  rotation and a registration or rotation that crosses it.
- *Incidents.* Keys do not interact, so one; two notes tell two analysts apart;
  four tokens are a renewal that crosses another and its successor.
- *Executors.* One address and two grants, the second after the first; a second
  is two ticks, so that truncation loses one; a grant lasts two seconds, a command
  up to one, and the repetition of a Windows task comes after it as in the code
  (`Latency < RetryDelay`); eight ticks see both grants end. Two profiles in one
  repository, one of them retained, `keep_last` at its least, and three jobs.
- *Scheduled backups.* Two profiles, with intervals of three and four hours, can
  be due in either order or together. A backup takes up to two hours and the pause
  after it one, so that the first profile can be due again whenever the worker looks
  and starve the second, as well as leave it its turn. (With backups of one hour
  `EveryProfileRuns` holds without its exception, and says less.)
- Symmetry is used in runs without liveness properties only.

Deadlock checking is off in the three action runs (`ManagedActions.cfg`,
`OperationWorker.cfg`, `OperationWorkerLive.cfg`) and in `Accounts.cfg`,
`SecondFactor.cfg`, `AgentIdentity.cfg`, `Incidents.cfg` and `Executors.cfg`,
where the system stops legitimately: the requests, tokens or periods a bound
allows for were used up and nobody calls any more.

## 6. Fairness

- `OperationWorker`: weak fairness of time, the restart and the end of the
  executor, whose commands have timeouts; strong fairness of each step of a cycle
  and of the backend's answer. A service manager restarts the agent and the loop
  repeats for ever, so a step that is possible again and again is taken in the
  end: the worker is not killed each time just before it. Nobody is obliged to
  look at the dashboard.
- `ScanAgent`: the same, per agent.
- `SuricataAdapter`: the timer fires for ever (strong, since a start is only
  possible while nothing runs); a running process goes on (weak); the backend,
  asked again and again, answers (strong fairness of `Post` and `Unlink`). Kills
  and power cuts are finitely many: one at the same place of every execution
  would defeat any program. This is stated as `<>[][Undisturbed]_vars` on the way a
  process ends, because a kill in its last step looks like its end.
- `ScheduledBackups`: the loop goes on, executor and calls end (weak), the service
  is restarted (weak; `Restart=on-failure` in its unit) and hours pass (strong,
  since they pass while the worker waits). Nothing is assumed of the backend: a
  post may fail for ever, and `EveryProfileRuns` holds all the same. Its premise is
  that kills and attempts that cannot be written are finitely many
  (`<>[][Settled]_vars`): a kill in every first backup would keep the second from
  being begun, and a disk that is full for ever any backup at all. Outcomes and
  reports that cannot be written need no premise.
- `Accounts`, `SecondFactor`, `AgentIdentity`, `Incidents`, `Executors`: none.
  Their handlers run when someone calls, the code retries nothing there, and every
  property is about safety. What `RuleEndsWithGrant` needs of time is in the
  guard of `Tick`: the clock does not pass the end of a command or a due task.

## 7. What is proved

All theorems are for any number of servers, agents, actions, audits, profiles,
accounts, invitations, tokens, codes, handlers under way, late calls and any limits.
They rest on the assumptions named in the modules
(`ManagedActionsAssumption`, `OperationWorkerAssumption`,
`NetworkScansAssumption`, `ScanAgentAssumption`,
`ScheduledBackupsAssumption`, `AccountsAssumption`, `IdentityAssumption`,
`IncidentsAssumption`, `SecondFactorAssumption`, `SuricataAssumption`,
`ExecutorsAssumption`, the `NoneAssumption` of `Accounts`, `AgentIdentity`,
`Incidents`, `SecondFactor` and `Executors`, and the `AbsentAssumption` of
`SuricataAdapter`): bounds are natural numbers, the
roles are the code's, the handlers under way are finitely many (`Accounts` and
`Incidents`, which count them), a command is given up before a Windows task is tried again
(45 seconds against one minute), `keep_last` is in the range the policy accepts,
and `None` and `Absent` are none of the data. TLC evaluates all of them.

A module of proofs belongs to one component, or to one and the component it is
composed with or next to: `OperationWorkerProofs` begins with the table of actions
and `AlertPathProofs` has both ends of an alert's path.

*Table of actions* (`OperationWorkerProofs`, first part). `TypeCorrect` first. `Inv` joins
`OneRunning`, `OneGrant`, the two undo properties and `ApprovedBeforeDispatch`
with `UndoNeverProposed`, the strengthening without which approving an undo
could give it a time of its own. From it `OneActionAtATime`, `OneGrantPerAddress`,
`UndoIsSafe`, `OnlyApprovedLeave`; `VerdictsStay` is an action property from the
same invariant.

*Worker* (`OperationWorkerProofs`). `TableImplemented` shows that the composed
system is one of the behaviours of the table, so the above holds of it.
`WorkerInvariant` is the induction: `Shape` (where the worker is tells what it
holds and waits for), `Tokens` (one token per action goes from the table through
the reply and the receipt to the executor, where it is spent), `Sent` (what is
on its way under a receipt's name is what the receipt says), `Verdicts`,
`AnswersHold` (an answer that lets the receipt go is still true of the table),
`Arrivals`. From it `AtMostOnce`, `NothingWithdrawnRuns`, `VerdictsAreReal`,
`ResultsArrive`, `OnlyForeignArchived`; `ContractKept` is the refinement, one
step of the abstract contract or a stutter for each step.

*Audits* (`ScanAgentProofs`). `OneOpenAudit` for the table
under arbitrary agents needs `WritesExisting`, a completion's row is still there.
The composed system is *not* a behaviour of the table alone (an abandoned
completion changes hands), so `OneAuditOfAgents` is proved by its own induction,
`ScanInvariant`: an audit is handed out once and before its only execution
(`Unstarted`, `HandedOnce`, `UnderWay`), what is saved, sent or being written is
what was found (`Truthful`), a reply to a completion means that the audit has
ended (`AnsweredEnded`), and a running audit with a result is in its agent's
outbox (`Held`). From it `ScansOnce`, `CompletedWasScanned`, `ResultsAreHeld`.

*Scheduled backups* (`ScheduledBackupsProofs`). `BackupInvariant` is the
induction: the ages in the file are the hours that passed (`age = since`), from
which `BackupsSpaced` follows, and what is in the outbox, on its way or on the
dashboard about the latest attempt agrees with the schedule (`Agreement`): a date of
success for a completed one, an error for a failed one, no size for either. An
outcome is written over "running" only (`Placed`), of which no report tells, so
that writing it contradicts nothing: `DashboardAgrees`.

*Accounts* (`AccountsProofs`). The properties speak of the tables; `Inv` adds what
a handler between its reads and its commit still knows: an account that was found
is still there (`Targets`), whoever is to become an administrator was appointed by
the owner (`Appointed`), acceptances of one invitation are for one address
(`Invited`). `Once`: whoever still accepts an invitation that was accepted finds the
account there, and if that acceptance made the account, means to insert it himself
and fails. `Replaced`: the open invitations of an address come from different
handlers, because a handler finds the one its last run left open and takes it back
(with `Numbered`: the next invitation has a number nobody has). The
checks preserve the invariant by one lemma (`BeginKeeps`), the commits by one for
each table. From it `OneUse`, `OwnerAppoints`, `LinksBounded` (by counting: the
handlers number an address's links), and the action property `DeactivationEnds`.

*Second factor* (`SecondFactorProofs`). `CodeOnce` holds because the profile has
moved past a code that was accepted: past its period, or to a later revision of
the list. `Unspent` says this of the codes left in the profile and of those a
login has read and may still consume, `Numbered` that no code belongs to a secret
which is only prepared, so that enabling it starts with a list nobody has used. A
login that a reset or a new enabling overtook is outside of this for TOTP codes,
since the period it is compared with was set back, and within it for recovery
codes, whose revision only grows.
`ListCurrent` is where `required` enters: a list that can still be written back is
the one in force. From the invariant `NoCodeTwice`, `ListIsExact` and, with
`Overtook`, `FactorIsAsked`. Disabling and the reset are one lemma
(`WithdrawalKeeps`), and so are all steps that consume a code (`Accepted`).

*Identity* (`AgentIdentityProofs`). A transaction that has consumed an enrolment
token is alone with it (`Consumed`), which gives `OneMachine`. For `NoDeadToken`
the induction needs that a token on its way is nowhere else (`Unshared`, `Fresh`),
that of the answers on their way to a host's machine the one the backend knows is
`Latest` unless a registration overtook it (a rotation that replaced it would have
had it in hand), and that a machine which lost its host to another has nothing in
hand that opens it (`Owned`). Nothing is assumed of how many processes a machine
runs, or which.
`RevocationHolds` is an action property of the two steps that write the row.

*Incidents* (`AlertPathProofs`, second part). A renewal under way has read the tokens that are
there unless a step departed from the procedure (`ReadsCurrent`), which gives
`RenewalWithoutInterruption`; `OnlyTriageChanges` and `DeletionIsImmediate` are
action properties that need the rows' types and `TriagesExisting`.

*Suricata adapter* (`AlertPathProofs`, first part). `NothingElseLost` is not
inductive alone: when the offset is saved, what lies between the old offset and
the new one stops being unread, so all of it must be kept already. That is
`ReadIsKept`, which in turn needs to know where the reader and the offset are
(`ReaderInLog`, `OffsetInLog`), that only the log of the first reading can be
rotated under a reader (`ReplacedIsLast`), and that an entry is unlinked only
when the backend has it (`PostedIsRegistered`). A kill may come between any two
of these steps and needs nothing more. Without a rotation what the process has
still to read is what lies beyond the offset (`UnreadIsBeyond`); a rotation's
own losses are noted where they happen (`LossesAreNoted`). `InOrder` needs the
order of the log (`WrittenOnce`, `LogInOrder`, `FormerFilesFirst`: the log's
alerts are later than those of any file before it) and of the queue, whose entries
are in order but for those in `outrun` (`QueueInOrder`; `Inserted` is the lemma on
an entry that comes at any place), and `NothingElseLost` itself: when an alert is queued, an
earlier one still unread would lie before the reader, where everything is kept
(`EarlierIsPast`). From the invariant `AdapterTyped`, `AlertsAreNotLost`,
`AlertsInOrder`. What these leave open, `OnlyFaultsLose` closes: `missed`, `torn`
and `quarantine` stay empty without the fault that fills each, so that
`missed` excuses nothing but a rotation (`NewIsUnread`), and a reader between two
whole lines finds a whole one (`NoFragment`); `outrun` stays empty while the clock
tells entries apart. `CrashesLoseNothing` is what the
adapter's README promises: an outage, a restart of the sensor at any point or a
full queue loses no alert, whatever the clock does, and only the clock changes an
order.

*Executors* (`ExecutorsProofs`). That a rule ends with its grant follows from
what a rule and a removal know of the grant's end: `Timeouts`, an element's
timeout was computed from whole seconds before the command and counts from its
end, at most `Latency` later; `Removals`, a task is due in the grant's last
second and, as a removal may fail while its rule is being added, once more
`RetryDelay` later. `WholeSeconds` is the arithmetic of both. `BlockHolds` and
`UndoLifts` are about two grants of one address, since Linux knows an element by
its address only: `OneAfterTheOther` says that a later grant exists only when
the earlier is over or came to nothing, and that the worker is at one of them;
`BlockBeforeUndo` that an undo finds the block begun and is excused from then on;
`NoRuleYet`, `OwnRuleHolds`, `NoRuleLeft` follow a rule through the steps of a
block and an undo. `KeptBackups` needs `SnapshotsKept`: what the retention has
taken has `KeepLast` later snapshots of its profile, completed or not. From the
invariant `ExecutorsTyped`, `RulesAreTemporary`, `BlocksHold`, `UndosLift`,
`BackupsAreKept`; a reboot, a kill and a lost report are steps like the others.

Some of these theorems state what no run checks separately, being shown there as
part of a stronger property: `UndoFollowsBlock`, `ApprovedBeforeDispatch`,
`NeverRedispatched`, `RunningIsAccounted`, `ArchivedIsForeign` and the type
invariants.

*Only model-checked.* All liveness properties (the proof system has no rules for
fairness and ENABLED that its provers can use): `ReceiptClears`, `RunningEnds`,
`FittingAlertsArrive`, `ScanEnds`, `OutboxClears`, `EveryProfileRuns`; and the
violated property, which is one counterexample. Every safety property a run checks
is a theorem. No module that is proved about uses a RECURSIVE operator, and no theorem needs induction over
data, which the installed provers cannot do.

## 8. Not modelled

Left out: the dashboard, whose user is any
sequence of calls; the scanner, restic, PostgreSQL, nmap and SMTP, external
programs that are a step with any outcome; TLS checks and the Wazuh adapter,
which keep no state; migrations, seeds, installers and builds. Of the modelled
components: the limit of login attempts, which only refuses; the permissions of
an identity and the shared enrolment key, off by default; `restore_test`, which
fills a fresh directory nothing else reads. `create_metric` and `update_alerts`:
the agent waits for the answer to each measure, so that only a post it gave up
can cross the next one; both may then open an alert, and later measures resolve
them one by one. Row locks are
modelled by atomic handlers, so a deadlock between two transactions is not: the
one we see (`managed_actions.py:183`) is ended by PostgreSQL.
