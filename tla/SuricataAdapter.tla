-------------------------- MODULE SuricataAdapter --------------------------
(***************************************************************************)
(* The adapter that forwards Suricata's alerts to the backend              *)
(* (integrations/suricata/cyberpme-suricata).                              *)
(*                                                                         *)
(* A timer starts a process every few seconds, never two at once.  It      *)
(* delivers what its queue directory holds, reads the EVE log from the     *)
(* offset of its state file to the end, puts every new alert in the queue, *)
(* saves the offset, and delivers again.  Meanwhile Suricata appends to    *)
(* the log, the log is rotated, the backend comes and goes, and the        *)
(* process may be killed between any two operations on files.              *)
(*                                                                         *)
(* Lines that hold no alert are left out: reading one only moves the       *)
(* position.  A line is two pieces long, so that it can be half written.   *)
(***************************************************************************)
EXTENDS Integers, Sequences, FiniteSets

CONSTANTS
    Alerts,         \* the alerts, each with its stable key
    Inodes,         \* the identities a log file may have
    QueueLimit,     \* alerts max_queue_bytes leaves room for
    MaxDeliveries,  \* deliveries in one execution
    Faults,         \* which of rotate, half, crash, corrupt, clock may happen
    Absent

ASSUME SuricataAssumption ==
    /\ QueueLimit \in Nat \ {0}
    /\ MaxDeliveries \in Nat \ {0}
    /\ Inodes # {}
    /\ Faults \subseteq {"rotate", "half", "crash", "corrupt", "clock"}

VARIABLES
    eve,         \* the file now named eve.json
    files,       \* the pieces of lines each file holds
    unfinished,  \* the alert Suricata has written half of, or Absent
    state,       \* the state file: [inode, offset], or Absent
    queue,       \* the queue directory, in the order of its listing:
                 \* the time stamps of the files, then their names
    unreadable,  \* entries of the queue whose file is damaged
    quarantine,  \* entries moved out of the way
    registered,  \* the alerts the backend has recorded
    run,         \* the memory of the running process, or Absent
    written,     \* history: the alerts in the order they were logged
    stale,       \* history: the saved offset is one of a former file
    torn,        \* history: the alerts read while half written
    missed,      \* history: the alerts a rotation took out of reach
    passed,      \* history: those written where a reader had been before
                 \* its file was truncated
    outrun       \* history: the alerts another was listed before although
                 \* it was queued after them

log == <<eve, files, unfinished, written, passed>>
saved == <<state, stale>>
store == <<saved, queue, unreadable, quarantine, outrun>>
adapterVars == <<eve, files, unfinished, state, queue, unreadable, quarantine,
                 registered, run, written, stale, torn, missed, passed,
                 outrun>>

Pieces == Alerts \X {"start", "end"}

States == [inode : Inodes, offset : Nat]

Runs == [at : {"flushing", "posted", "reading"},
         second : BOOLEAN,      \* the delivery after the reading
         readLog : BOOLEAN,     \* not --flush-only
         slice : Nat,           \* entries this delivery may still take
         delivered : Nat,
         failed : BOOLEAN,      \* delivery_error is set
         inode : Inodes,        \* the file that was opened
         pos : Nat,             \* how much of it has been read
         replaced : BOOLEAN]    \* history: it was rotated since

ASSUME AbsentAssumption == Absent \notin Alerts \cup States \cup Runs

Members(s) == {s[i] : i \in DOMAIN s}
Queued(k) == k \in Members(queue)

AdapterInit ==
    /\ eve \in Inodes
    /\ files = [i \in Inodes |-> <<>>]
    /\ unfinished = Absent
    /\ state = Absent
    /\ queue = <<>>
    /\ unreadable = {}
    /\ quarantine = {}
    /\ registered = {}
    /\ run = Absent
    /\ written = <<>>
    /\ stale = FALSE
    /\ torn = {}
    /\ missed = {}
    /\ passed = {}
    /\ outrun = {}

-----------------------------------------------------------------------------
(* What the next reading would start from, and what it would find.         *)

(* Faulty variant: without a saved offset the reading begins at the end.   *)
LoadOffsetAtEnd(i) ==
    IF state # Absent /\ state.inode = i /\ state.offset <= Len(files[i])
    THEN state.offset ELSE Len(files[i])

LoadOffset(i) ==
    IF state # Absent /\ state.inode = i /\ state.offset <= Len(files[i])
    THEN state.offset ELSE 0

Beyond(i, p, k) ==
    \E q \in 1 .. Len(files[i]) : q > p /\ files[i][q] = <<k, "start">>

Unread(k) ==
    \/ Beyond(eve, LoadOffset(eve), k)
    \/ run # Absent /\ run.at = "reading" /\ Beyond(run.inode, run.pos, k)

Kept(k) == Queued(k) \/ k \in registered \cup quarantine \cup torn

(* The alerts a step leaves out of reach of every later reading.           *)
Overtaken ==
    {k \in Members(written') : /\ Unread(k) \/ k \notin Members(written)
                              /\ ~Unread(k)'
                              /\ ~Kept(k)'}

(* A rotation loses them at once, or later: when the process that still    *)
(* had the old file open ends, or when an offset saved for a former file   *)
(* is taken for one of the file that has its inode now.                    *)
Rotated == stale \/ (run # Absent /\ run.replaced)
LogStep == missed' = missed \cup Overtaken
OwnStep == missed' = missed \cup IF Rotated THEN Overtaken ELSE {}

-----------------------------------------------------------------------------
(* The process.                                                            *)

StartRun(readLog) ==
    /\ run = Absent
    /\ run' = [at |-> "flushing", second |-> FALSE, readLog |-> readLog,
               slice |-> MaxDeliveries, delivered |-> 0, failed |-> FALSE,
               inode |-> eve, pos |-> 0, replaced |-> FALSE]
    /\ UNCHANGED <<log, store, registered, torn, missed>>

(* The second delivery, unless the first failed or used up the budget.     *)
AfterReading(r) ==
    IF ~r.failed /\ r.delivered < MaxDeliveries
    THEN [r EXCEPT !.at = "flushing", !.second = TRUE,
                   !.slice = MaxDeliveries - r.delivered]
    ELSE Absent

AfterFlush(r) ==
    IF r.second THEN Absent
    ELSE IF r.readLog
         THEN [r EXCEPT !.at = "reading", !.inode = eve,
                        !.pos = LoadOffset(eve)]
         ELSE AfterReading(r)

Delivering == run # Absent /\ run.at = "flushing" /\ run.slice > 0
              /\ queue # <<>>

Post ==
    /\ Delivering
    /\ Head(queue) \notin unreadable
    /\ registered' = registered \cup {Head(queue)}
    /\ run' = [run EXCEPT !.at = "posted"]
    /\ UNCHANGED <<log, store, torn>>
    /\ OwnStep

(* Faulty variant: an entry is removed whether or not it was delivered.    *)
DeliveryFailsDropped ==
    /\ Delivering
    /\ Head(queue) \notin unreadable
    /\ queue' = Tail(queue)
    /\ run' = AfterFlush([run EXCEPT !.failed = TRUE])
    /\ UNCHANGED <<log, saved, unreadable, quarantine, registered, torn,
                   outrun>>
    /\ OwnStep

(* No answer, an error, or an answer that is lost: the first failure ends  *)
(* the delivery.                                                           *)
DeliveryFails ==
    /\ \/ /\ Delivering
          /\ Head(queue) \notin unreadable
          /\ registered' \in {registered, registered \cup {Head(queue)}}
       \/ /\ run # Absent /\ run.at = "posted"
          /\ UNCHANGED registered
    /\ run' = AfterFlush([run EXCEPT !.failed = TRUE])
    /\ UNCHANGED <<log, store, torn>>
    /\ OwnStep

Unlink ==
    /\ run # Absent /\ run.at = "posted"
    /\ queue' = Tail(queue)
    /\ unreadable' = unreadable \ {Head(queue)}
    /\ run' = [run EXCEPT !.at = "flushing", !.slice = @ - 1,
                          !.delivered = @ + 1]
    /\ UNCHANGED <<log, saved, quarantine, registered, torn, outrun>>
    /\ OwnStep

Quarantine ==
    /\ Delivering
    /\ Head(queue) \in unreadable
    /\ queue' = Tail(queue)
    /\ unreadable' = unreadable \ {Head(queue)}
    /\ quarantine' = quarantine \cup {Head(queue)}
    /\ run' = [run EXCEPT !.slice = @ - 1]
    /\ UNCHANGED <<log, saved, registered, torn, outrun>>
    /\ OwnStep

EndFlush ==
    /\ run # Absent /\ run.at = "flushing"
    /\ ~Delivering
    /\ run' = AfterFlush(run)
    /\ UNCHANGED <<log, store, registered, torn>>
    /\ OwnStep

Reading == run # Absent /\ run.at = "reading"
Opened == files[run.inode]
AtEnd == run.pos >= Len(Opened)

(* A whole line lies ahead, and its alert is k.                            *)
LineAhead(k) ==
    /\ run.pos + 2 <= Len(Opened)
    /\ Opened[run.pos + 1] = <<k, "start">>
    /\ Opened[run.pos + 2] = <<k, "end">>

(* Where the next entry comes in the listing: last, since its file is the  *)
(* newest; but files stamped within one tick of the clock are listed by    *)
(* the hash in their names, and a clock set back stamps them earlier.      *)
Places ==
    IF "clock" \in Faults THEN 1 .. Len(queue) + 1 ELSE {Len(queue) + 1}

Enqueue(k) ==
    /\ Reading
    /\ LineAhead(k)
    /\ ~Queued(k)
    /\ Len(queue) < QueueLimit
    /\ \E p \in Places :
          LET later == SubSeq(queue, p, Len(queue))
          IN  /\ queue' = Append(SubSeq(queue, 1, p - 1), k) \o later
              /\ outrun' = outrun \cup Members(later)
    /\ run' = [run EXCEPT !.pos = @ + 2]
    /\ UNCHANGED <<log, saved, unreadable, quarantine, registered, torn>>
    /\ OwnStep

Duplicate(k) ==
    /\ Reading
    /\ LineAhead(k)
    /\ Queued(k)
    /\ run' = [run EXCEPT !.pos = @ + 2]
    /\ UNCHANGED <<log, store, registered, torn>>
    /\ OwnStep

(* Faulty variant: the offset is saved although the reading was cut short. *)
QueueFullSaved(k) ==
    /\ Reading
    /\ LineAhead(k)
    /\ ~Queued(k)
    /\ Len(queue) >= QueueLimit
    /\ state' = [inode |-> run.inode, offset |-> run.pos + 2]
    /\ run' = Absent
    /\ UNCHANGED <<log, stale, queue, unreadable, quarantine, registered,
                   torn, outrun>>
    /\ OwnStep

(* No room: the execution ends at once, the offset stays what it was.      *)
QueueFull(k) ==
    /\ Reading
    /\ LineAhead(k)
    /\ ~Queued(k)
    /\ Len(queue) >= QueueLimit
    /\ run' = Absent
    /\ UNCHANGED <<log, store, registered, torn>>
    /\ OwnStep

(* A piece that is not a whole line is no JSON: it is reported and passed. *)
Fragment ==
    /\ Reading
    /\ ~AtEnd
    /\ \A k \in Alerts : ~LineAhead(k)
    /\ run' = [run EXCEPT !.pos = @ + 1]
    /\ torn' = IF Opened[run.pos + 1][2] = "start"
               THEN torn \cup {Opened[run.pos + 1][1]} ELSE torn
    /\ UNCHANGED <<log, store, registered>>
    /\ OwnStep

(* The end of the file: only now is the offset saved.                      *)
SaveOffset ==
    /\ Reading
    /\ AtEnd
    /\ state' = [inode |-> run.inode, offset |-> run.pos]
    /\ stale' = (run.replaced /\ run.inode = eve)
    /\ run' = AfterReading(run)
    /\ UNCHANGED <<log, queue, unreadable, quarantine, registered, torn,
                   outrun>>
    /\ OwnStep

-----------------------------------------------------------------------------
(* The world around it.                                                    *)

(* Killed, or ended by an error of the file system.                        *)
Abort ==
    /\ "crash" \in Faults
    /\ run # Absent
    /\ run' = Absent
    /\ UNCHANGED <<log, store, registered, torn>>
    /\ OwnStep

(* The machine stops and the state file, written without fsync, is empty.  *)
PowerCut ==
    /\ "crash" \in Faults
    /\ state # Absent
    /\ state' = Absent
    /\ stale' = FALSE
    /\ run' = Absent
    /\ UNCHANGED <<log, queue, unreadable, quarantine, registered, torn,
                   outrun>>
    /\ OwnStep

Corrupt(k) ==
    /\ "corrupt" \in Faults
    /\ Queued(k)
    /\ unreadable' = unreadable \cup {k}
    /\ UNCHANGED <<log, saved, queue, quarantine, registered, run, torn,
                   missed, outrun>>

Logged(k, pieces) ==
    /\ files' = [files EXCEPT ![eve] = @ \o pieces]
    /\ passed' = IF Reading /\ run.replaced /\ run.inode = eve
                    /\ Len(files[eve]) < run.pos
                 THEN passed \cup {k} ELSE passed

WriteLine(k) ==
    /\ unfinished = Absent
    /\ k \notin Members(written)
    /\ Logged(k, << <<k, "start">>, <<k, "end">> >>)
    /\ written' = Append(written, k)
    /\ UNCHANGED <<eve, unfinished, store, registered, run, torn>>
    /\ LogStep

StartLine(k) ==
    /\ "half" \in Faults
    /\ unfinished = Absent
    /\ k \notin Members(written)
    /\ Logged(k, << <<k, "start">> >>)
    /\ unfinished' = k
    /\ written' = Append(written, k)
    /\ UNCHANGED <<eve, store, registered, run, torn>>
    /\ LogStep

EndLine ==
    /\ unfinished # Absent
    /\ Logged(unfinished, << <<unfinished, "end">> >>)
    /\ unfinished' = Absent
    /\ UNCHANGED <<eve, store, registered, run, written, torn>>
    /\ LogStep

(* logrotate: the log is truncated in place (i = eve), or a new file takes *)
(* its name.  A deleted file's inode is free again, unless it is open.     *)
Rotate(i) ==
    /\ "rotate" \in Faults
    /\ unfinished = Absent
    /\ files[eve] # <<>>
    /\ Reading /\ run.inode = i => i = eve
    /\ eve' = i
    /\ files' = [files EXCEPT ![i] = <<>>]
    /\ run' = IF Reading THEN [run EXCEPT !.replaced = TRUE] ELSE run
    /\ stale' = (state # Absent /\ state.inode = i)
    /\ UNCHANGED <<unfinished, state, queue, unreadable, quarantine,
                   registered, written, passed, torn, outrun>>
    /\ LogStep

-----------------------------------------------------------------------------

FlushStep == Post \/ Unlink \/ Quarantine \/ EndFlush

ReadStep ==
    \/ \E k \in Alerts : Enqueue(k) \/ Duplicate(k) \/ QueueFull(k)
    \/ Fragment
    \/ SaveOffset

Environment ==
    \/ DeliveryFails \/ Abort \/ PowerCut
    \/ \E k \in Alerts : Corrupt(k) \/ WriteLine(k) \/ StartLine(k)
    \/ EndLine
    \/ \E i \in Inodes : Rotate(i)

AdapterNext ==
    \/ \E readLog \in BOOLEAN : StartRun(readLog)
    \/ FlushStep \/ ReadStep \/ Environment

AdapterSpec == AdapterInit /\ [][AdapterNext]_adapterVars

(* Neither a kill nor a power cut: a process ends by its own steps.  (Abort *)
(* itself does not tell a kill from the end of a process that was done.)   *)
Undisturbed ==
    /\ run # Absent /\ run' = Absent => FlushStep \/ ReadStep \/ DeliveryFails
    /\ state # Absent => state' # Absent

(* The timer fires for ever, a process goes on unless it is killed, and it *)
(* is killed finitely often; the backend, called again and again, answers  *)
(* again and again.                                                        *)
Fairness ==
    /\ SF_adapterVars(StartRun(TRUE))
    /\ WF_adapterVars(FlushStep)
    /\ SF_adapterVars(Post)
    /\ SF_adapterVars(Unlink)
    /\ WF_adapterVars(ReadStep)
    /\ WF_adapterVars(EndLine)
    /\ <>[][Undisturbed]_adapterVars

FairSpec == AdapterSpec /\ Fairness

-----------------------------------------------------------------------------

AdapterTypeOK ==
    /\ eve \in Inodes
    /\ files \in [Inodes -> Seq(Pieces)]
    /\ unfinished \in Alerts \cup {Absent}
    /\ state \in States \cup {Absent}
    /\ queue \in Seq(Alerts)
    /\ \A a, b \in DOMAIN queue : queue[a] = queue[b] => a = b
    /\ Len(queue) <= QueueLimit
    /\ unreadable \subseteq Members(queue)
    /\ quarantine \subseteq Alerts
    /\ registered \subseteq Alerts
    /\ run \in Runs \cup {Absent}
    /\ written \in Seq(Alerts)
    /\ torn \subseteq Members(written)
    /\ missed \subseteq Members(written)
    /\ passed \subseteq Members(written)
    /\ outrun \subseteq Members(written)

(* Whatever crashes, fails or fills up, an alert that was logged is still  *)
(* to be read, or queued, or recorded by the backend; it is lost only when *)
(* it was read half written, quarantined as damaged or rotated away.       *)
NothingElseLost ==
    \A k \in Members(written) : Kept(k) \/ Unread(k) \/ k \in missed

(* The backend learns of alerts in the order they happened: when one is    *)
(* recorded, none that came before it is still waiting, through kills,     *)
(* readings cut short and rotations.  Two exceptions: one that was         *)
(* written, after its file had been truncated under a reader, where that   *)
(* reader had been before (the next execution finds it); and one that the  *)
(* listing puts behind an alert queued after it.                           *)
InOrder ==
    \A i, j \in DOMAIN written :
        i < j /\ written[j] \in registered =>
            written[i] \in registered \cup quarantine
                             \cup torn \cup missed \cup passed \cup outrun

(* README 50-52: an outage of the network or of the backend loses nothing, *)
(* so every alert logged is recorded in the end.                           *)
AlertsArrive ==
    \A k \in Alerts : k \in Members(written) ~> k \in registered

(* That is so as long as what is queued and what is still to be read never *)
(* exceed the queue together, however long the backend was out of reach.   *)
BacklogFits ==
    Cardinality({k \in Alerts : Queued(k) \/ Beyond(eve, LoadOffset(eve), k)})
        <= QueueLimit

FittingAlertsArrive ==
    []BacklogFits =>
        \A k \in Alerts :
            k \in Members(written) ~>
                k \in registered \cup quarantine \cup torn \cup missed
=============================================================================
