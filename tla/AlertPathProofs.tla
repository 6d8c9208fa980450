-------------------------- MODULE AlertPathProofs --------------------------
(***************************************************************************)
(* Proofs about the two ends of an alert's path: SuricataAdapter, which    *)
(* brings it from the log to the backend, for any number of alerts and     *)
(* files, and Incidents, which records it and its triage, for any number   *)
(* of keys, notes, tokens and handlers under way.                          *)
(***************************************************************************)
EXTENDS SuricataAdapter, Incidents, FiniteSetTheorems, TLAPS

-----------------------------------------------------------------------------
(***************************************************************************)
(* The adapter: AdapterInv, and the steps that keep it.                    *)
(***************************************************************************)

(* The alerts on their way from the log to the backend.                    *)

Start(f, q, k) == q \in 1 .. Len(files[f]) /\ files[f][q] = <<k, "start">>

(* What has the order of a later alert behind it for good.                 *)
Past(k) ==
    k \in registered \cup quarantine \cup torn \cup missed \cup passed \cup outrun

(* The files hold alerts that were logged, and so does the queue.          *)
LinesAreLogged ==
    /\ unfinished # Absent => unfinished \in Members(written)
    /\ \A f \in Inodes, q \in Nat, k \in Alerts :
          Start(f, q, k) => k \in Members(written)

QueuedIsLogged == Members(queue) \cup registered \subseteq Members(written)

(* An entry is unlinked when the backend has recorded it.                  *)
PostedIsRegistered ==
    run # Absent /\ run.at = "posted" =>
        /\ queue # <<>>
        /\ Head(queue) \in registered
        /\ run.slice > 0

(* The log is read once in an execution: a reader whose file was rotated   *)
(* goes on to the last delivery.                                           *)
ReplacedIsLast ==
    run # Absent /\ run.replaced => run.at = "reading" \/ run.second

(* Unless the log was rotated, the saved offset and the reader are within  *)
(* it, and the reader is ahead of the offset.                              *)
OffsetInLog ==
    ~stale /\ state # Absent /\ state.inode = eve =>
        state.offset <= Len(files[eve])

ReaderInLog ==
    Reading /\ ~run.replaced =>
        /\ run.inode = eve
        /\ run.pos <= Len(files[eve])
        /\ ~stale => LoadOffset(eve) <= run.pos

(* What the reader has gone past is kept: all of it since the offset, or,  *)
(* when the log was truncated under it, all that was not written where it  *)
(* had been before.                                                        *)
ReadIsKept ==
    Reading /\ run.inode = eve =>
        \A q \in Nat, k \in Alerts :
            Start(eve, q, k) /\ q <= run.pos =>
                \/ Kept(k)
                \/ run.replaced /\ k \in passed
                \/ ~run.replaced /\ q <= LoadOffset(eve)

(* Alerts are logged once, each file holds them in order, and those of the *)
(* log are later than those of any former one.                             *)
WrittenOnce ==
    \A i, j \in DOMAIN written : written[i] = written[j] => i = j

LogInOrder ==
    \A f \in Inodes, p, q \in Nat, i, j \in DOMAIN written :
        Start(f, p, written[i]) /\ Start(f, q, written[j]) /\ i < j => p < q

FormerFilesFirst ==
    \A f \in Inodes \ {eve}, p, q \in Nat, i, j \in DOMAIN written :
        Start(f, p, written[i]) /\ Start(eve, q, written[j]) => i < j

(* An alert in the queue has those that came before it in front of it, or  *)
(* behind it for good.                                                     *)
QueueInOrder ==
    \A b \in DOMAIN queue, i, j \in DOMAIN written :
        queue[b] = written[j] /\ i < j =>
            \/ Past(written[i])
            \/ \E a \in DOMAIN queue : a < b /\ queue[a] = written[i]

AdapterInv ==
    /\ AdapterTypeOK
    /\ LinesAreLogged
    /\ QueuedIsLogged
    /\ PostedIsRegistered
    /\ ReplacedIsLast
    /\ OffsetInLog
    /\ ReaderInLog
    /\ ReadIsKept
    /\ NothingElseLost
    /\ WrittenOnce
    /\ LogInOrder
    /\ FormerFilesFirst
    /\ QueueInOrder
    /\ InOrder

-----------------------------------------------------------------------------
(* Operators.                                                              *)

LEMMA MembersOfAppend ==
    ASSUME NEW S, NEW s \in Seq(S), NEW x \in S
    PROVE  /\ Append(s, x) \in Seq(S)
           /\ Len(Append(s, x)) = Len(s) + 1
           /\ DOMAIN Append(s, x) = DOMAIN s \cup {Len(s) + 1}
           /\ Append(s, x)[Len(s) + 1] = x
           /\ \A i \in DOMAIN s : i < Len(s) + 1 /\ Append(s, x)[i] = s[i]
           /\ Members(Append(s, x)) = Members(s) \cup {x}
  <1>1. Append(s, x) \in Seq(S)
    OBVIOUS
  <1>2. Len(Append(s, x)) = Len(s) + 1
    OBVIOUS
  <1>3. DOMAIN s = 1 .. Len(s) /\ Len(s) \in Nat
    OBVIOUS
  <1>4. DOMAIN Append(s, x) = 1 .. Len(s) + 1
    BY <1>1, <1>2
  <1>5. DOMAIN Append(s, x) = DOMAIN s \cup {Len(s) + 1}
    BY <1>3, <1>4
  <1>6. Append(s, x)[Len(s) + 1] = x
    OBVIOUS
  <1>7. \A i \in DOMAIN s : i < Len(s) + 1 /\ Append(s, x)[i] = s[i]
    BY <1>3
  <1>8. Members(Append(s, x)) = Members(s) \cup {x}
    BY <1>5, <1>6, <1>7 DEF Members
  <1> QED BY <1>1, <1>2, <1>5, <1>6, <1>7, <1>8

LEMMA MembersOfTail ==
    ASSUME NEW S, NEW s \in Seq(S), s # <<>>
    PROVE  /\ Tail(s) \in Seq(S)
           /\ Len(Tail(s)) = Len(s) - 1
           /\ \A i \in DOMAIN Tail(s) : /\ i + 1 \in DOMAIN s
                                       /\ Tail(s)[i] = s[i + 1]
           /\ \A i \in DOMAIN s : i = 1 \/ i - 1 \in DOMAIN Tail(s)
           /\ 1 \in DOMAIN s
           /\ Head(s) = s[1]
           /\ Head(s) \in S
           /\ Members(s) = Members(Tail(s)) \cup {Head(s)}
  <1>1. Len(s) \in Nat \ {0} /\ DOMAIN s = 1 .. Len(s)
    OBVIOUS
  <1>2. Tail(s) \in Seq(S) /\ Len(Tail(s)) = Len(s) - 1
    OBVIOUS
  <1>3. DOMAIN Tail(s) = 1 .. Len(s) - 1
    BY <1>2
  <1>4. \A i \in DOMAIN Tail(s) : i + 1 \in DOMAIN s /\ Tail(s)[i] = s[i + 1]
    BY <1>1, <1>3
  <1>5. \A i \in DOMAIN s : i = 1 \/ i - 1 \in DOMAIN Tail(s)
    BY <1>1, <1>3
  <1>6. 1 \in DOMAIN s /\ Head(s) = s[1] /\ Head(s) \in S
    BY <1>1
  <1>7. \A i \in DOMAIN s : i = 1 \/ s[i] \in Members(Tail(s))
    <2>1. TAKE i \in DOMAIN s
    <2>2. CASE i # 1
      <3>1. i - 1 \in DOMAIN Tail(s)
        BY <1>5, <2>2
      <3>2. Tail(s)[i - 1] = s[(i - 1) + 1] /\ (i - 1) + 1 = i
        BY <1>1, <1>4, <3>1
      <3> QED BY <3>1, <3>2 DEF Members
    <2> QED BY <2>2
  <1>8. Members(s) = Members(Tail(s)) \cup {Head(s)}
    BY <1>4, <1>6, <1>7 DEF Members
  <1> QED BY <1>2, <1>4, <1>5, <1>6, <1>8

LEMMA Concatenated ==
    ASSUME NEW S, NEW s \in Seq(S), NEW t \in Seq(S)
    PROVE  /\ s \o t \in Seq(S)
           /\ Len(s \o t) = Len(s) + Len(t)
           /\ \A q \in 1 .. Len(s) : (s \o t)[q] = s[q]
           /\ \A q \in 1 .. Len(t) : (s \o t)[Len(s) + q] = t[q]
  OBVIOUS

(* Another element x put at place p of a sequence, and what that makes it. *)
From(s, p) == SubSeq(s, p, Len(s))
WithAt(s, p, x) == Append(SubSeq(s, 1, p - 1), x) \o From(s, p)

IsWithAt(t, S, s, p, x) ==
    /\ t \in Seq(S)
    /\ Len(t) = Len(s) + 1
    /\ t[p] = x
    /\ \A i \in 1 .. Len(s) : i < p => t[i] = s[i]
    /\ \A i \in 1 .. Len(s) : p <= i => t[i + 1] = s[i]
    /\ \A i \in DOMAIN t :
          \/ i \in DOMAIN s /\ i < p /\ t[i] = s[i]
          \/ i = p
          \/ i - 1 \in DOMAIN s /\ p <= i - 1 /\ t[i] = s[i - 1]
    /\ Members(t) = Members(s) \cup {x}
    /\ \A i \in 1 .. Len(s) : p <= i => s[i] \in Members(From(s, p))
    /\ Members(From(s, p)) \subseteq Members(s)

LEMMA Inserted ==
    ASSUME NEW S, NEW s \in Seq(S), NEW x \in S, NEW p \in 1 .. Len(s) + 1,
           NEW t, t = WithAt(s, p, x)
    PROVE  IsWithAt(t, S, s, p, x)
  <1> DEFINE a == SubSeq(s, 1, p - 1)
             b == SubSeq(s, p, Len(s))
             c == Append(a, x)
  <1>1. /\ Len(s) \in Nat /\ p \in Nat /\ DOMAIN s = 1 .. Len(s)
        /\ 1 <= p /\ p <= Len(s) + 1
    OBVIOUS
  <1>2. /\ a \in Seq(S) /\ Len(a) = p - 1
        /\ \A i \in 1 .. p - 1 : a[i] = s[i]
    OBVIOUS
  <1>3. /\ b \in Seq(S) /\ Len(b) = Len(s) - p + 1
        /\ \A i \in 1 .. Len(s) - p + 1 : b[i] = s[p + i - 1]
    OBVIOUS
  <1> HIDE DEF a, b
  <1>4. /\ c \in Seq(S) /\ Len(c) = p /\ c[p] = x
        /\ \A i \in 1 .. p - 1 : c[i] = s[i]
    BY <1>1, <1>2
  <1> HIDE DEF c
  <1>5. t = c \o b
    BY DEF a, b, c, WithAt, From
  <1>6. /\ t \in Seq(S) /\ Len(t) = p + (Len(s) - p + 1)
        /\ \A i \in 1 .. p : t[i] = c[i]
        /\ \A i \in 1 .. Len(s) - p + 1 : t[p + i] = b[i]
    <2>1. /\ c \o b \in Seq(S)
          /\ Len(c \o b) = Len(c) + Len(b)
          /\ \A i \in 1 .. Len(c) : (c \o b)[i] = c[i]
          /\ \A i \in 1 .. Len(b) : (c \o b)[Len(c) + i] = b[i]
      BY <1>3, <1>4, Concatenated
    <2> QED BY <1>3, <1>4, <1>5, <2>1, Zenon
  <1>7. Len(t) = Len(s) + 1 /\ DOMAIN t = 1 .. Len(s) + 1
    <2>1. p + (Len(s) - p + 1) = Len(s) + 1
      BY <1>1
    <2>2. Len(t) = Len(s) + 1
      BY <1>6, <2>1, Zenon
    <2>3. DOMAIN t = 1 .. Len(t)
      BY <1>6
    <2> QED BY <2>2, <2>3, Zenon
  <1>8. t[p] = x /\ \A i \in 1 .. Len(s) : i < p => t[i] = s[i]
    <2>1. p \in 1 .. p
      BY <1>1
    <2>2. t[p] = x
      BY <1>4, <1>6, <2>1, Zenon
    <2>3. ASSUME NEW i \in 1 .. Len(s), i < p
          PROVE  t[i] = s[i]
      <3>1. i \in 1 .. p /\ i \in 1 .. p - 1
        BY <1>1, <2>3
      <3> QED BY <1>4, <1>6, <3>1, Zenon
    <2> QED BY <2>2, <2>3
  <1>9. ASSUME NEW i \in 1 .. Len(s), p <= i
        PROVE  t[i + 1] = s[i] /\ s[i] \in Members(b)
    <2>1. /\ i - p + 1 \in 1 .. Len(s) - p + 1
          /\ p + (i - p + 1) = i + 1 /\ p + (i - p + 1) - 1 = i
      BY <1>1, <1>9
    <2>2. t[i + 1] = b[i - p + 1] /\ b[i - p + 1] = s[i]
      BY <1>3, <1>6, <2>1
    <2>3. i - p + 1 \in DOMAIN b
      BY <1>3, <2>1
    <2> QED BY <2>2, <2>3 DEF Members
  <1>10. ASSUME NEW i \in DOMAIN t
         PROVE  \/ i \in DOMAIN s /\ i < p /\ t[i] = s[i]
                \/ i = p
                \/ i - 1 \in DOMAIN s /\ p <= i - 1 /\ t[i] = s[i - 1]
    <2>0. i \in 1 .. Len(s) + 1
      BY <1>7, Zenon
    <2>1. CASE i < p
      <3>1. i \in 1 .. Len(s)
        BY <1>1, <2>0, <2>1
      <3> QED BY <1>1, <1>8, <2>1, <3>1, Zenon
    <2>2. CASE i > p
      <3>1. i - 1 \in 1 .. Len(s) /\ p <= i - 1 /\ (i - 1) + 1 = i
        BY <1>1, <2>0, <2>2
      <3>2. t[(i - 1) + 1] = s[i - 1]
        BY <1>9, <3>1, Zenon
      <3> QED BY <1>1, <3>1, <3>2, Zenon
    <2> QED BY <1>1, <2>0, <2>1, <2>2
  <1>11. Members(t) = Members(s) \cup {x}
    <2>1. Members(t) \subseteq Members(s) \cup {x}
      BY <1>8, <1>10 DEF Members
    <2>2. x \in Members(t)
      BY <1>1, <1>7, <1>8 DEF Members
    <2>3. ASSUME NEW i \in DOMAIN s
          PROVE  s[i] \in Members(t)
      <3>0. i \in 1 .. Len(s)
        BY <1>1, Zenon
      <3>1. CASE i < p
        <4>1. i \in 1 .. Len(s) + 1
          BY <1>1, <3>0
        <4>2. i \in DOMAIN t /\ t[i] = s[i]
          BY <1>7, <1>8, <3>0, <3>1, <4>1, Zenon
        <4> QED BY <4>2 DEF Members
      <3>2. CASE p <= i
        <4>0. i + 1 \in 1 .. Len(s) + 1
          BY <1>1, <3>0
        <4>1. i + 1 \in DOMAIN t /\ t[i + 1] = s[i]
          BY <1>7, <1>9, <3>0, <3>2, <4>0, Zenon
        <4> QED BY <4>1 DEF Members
      <3> QED BY <1>1, <3>0, <3>1, <3>2
    <2> QED BY <2>1, <2>2, <2>3 DEF Members
  <1>12. Members(b) \subseteq Members(s)
    <2>1. ASSUME NEW i \in DOMAIN b
          PROVE  b[i] \in Members(s)
      <3>1. i \in 1 .. Len(s) - p + 1
        BY <1>1, <1>3
      <3>2. p + i - 1 \in 1 .. Len(s)
        BY <1>1, <3>1
      <3>3. b[i] = s[p + i - 1] /\ p + i - 1 \in DOMAIN s
        BY <1>1, <1>3, <3>1, <3>2, Zenon
      <3> QED BY <3>3 DEF Members
    <2> QED BY <2>1 DEF Members
  <1> QED BY <1>6, <1>7, <1>8, <1>9, <1>10, <1>11, <1>12
            DEF b, From, IsWithAt

LEMMA LoadOffsetInLog ==
    ASSUME AdapterTypeOK, NEW i \in Inodes
    PROVE  /\ LoadOffset(i) \in Nat
           /\ LoadOffset(i) <= Len(files[i])
           /\ Len(files[i]) \in Nat
  <1>1. files[i] \in Seq(Pieces)
    BY DEF AdapterTypeOK
  <1>2. Len(files[i]) \in Nat
    BY <1>1
  <1>3. state # Absent => state.offset \in Nat
    BY DEF AdapterTypeOK, States
  <1> QED BY <1>2, <1>3 DEF LoadOffset

LEMMA AfterReadingRun ==
    ASSUME AdapterTypeOK, NEW r \in Runs
    PROVE  /\ AfterReading(r) \in Runs \cup {Absent}
           /\ AfterReading(r) # Absent =>
                 /\ AfterReading(r).at = "flushing"
                 /\ AfterReading(r).second
                 /\ AfterReading(r).replaced = r.replaced
                 /\ AfterReading(r).pos = r.pos
  <1>1. MaxDeliveries \in Nat /\ r.delivered \in Nat
    BY SuricataAssumption DEF Runs
  <1>2. CASE ~r.failed /\ r.delivered < MaxDeliveries
    <2> DEFINE new == [r EXCEPT !.at = "flushing", !.second = TRUE,
                                !.slice = MaxDeliveries - r.delivered]
    <2>1. MaxDeliveries - r.delivered \in Nat
      BY <1>1, <1>2
    <2>2. /\ new \in Runs /\ new.at = "flushing" /\ new.second
          /\ new.replaced = r.replaced /\ new.pos = r.pos
      BY <2>1 DEF Runs
    <2>3. AfterReading(r) = new
      BY <1>2 DEF AfterReading
    <2> QED BY <2>2, <2>3
  <1>3. CASE ~(~r.failed /\ r.delivered < MaxDeliveries)
    BY <1>3 DEF AfterReading
  <1> QED BY <1>2, <1>3

LEMMA AfterFlushRun ==
    ASSUME AdapterTypeOK, NEW r \in Runs
    PROVE  /\ AfterFlush(r) \in Runs \cup {Absent}
           /\ AfterFlush(r) # Absent =>
                 \/ /\ AfterFlush(r).at = "flushing"
                    /\ AfterFlush(r).second
                    /\ AfterFlush(r).replaced = r.replaced
                    /\ AfterFlush(r).pos = r.pos
                 \/ /\ AfterFlush(r).at = "reading"
                    /\ AfterFlush(r).inode = eve
                    /\ AfterFlush(r).pos = LoadOffset(eve)
                    /\ AfterFlush(r).replaced = r.replaced
                    /\ ~r.second
  <1>1. CASE r.second
    BY <1>1 DEF AfterFlush
  <1>2. CASE ~r.second /\ r.readLog
    <2> DEFINE new == [r EXCEPT !.at = "reading", !.inode = eve,
                                !.pos = LoadOffset(eve)]
    <2>1. eve \in Inodes /\ LoadOffset(eve) \in Nat
      BY LoadOffsetInLog DEF AdapterTypeOK
    <2>2. /\ new \in Runs
          /\ new.at = "reading" /\ new.inode = eve
          /\ new.pos = LoadOffset(eve)
          /\ new.replaced = r.replaced
      BY <2>1 DEF Runs
    <2>3. AfterFlush(r) = new
      BY <1>2 DEF AfterFlush
    <2> QED BY <1>2, <2>2, <2>3
  <1>3. CASE ~r.second /\ ~r.readLog
    BY <1>3, AfterReadingRun DEF AfterFlush
  <1> QED BY <1>1, <1>2, <1>3

-----------------------------------------------------------------------------
(* What steps of the process leave as it is.                               *)

LEMMA SameLog ==
    ASSUME AdapterInv, UNCHANGED log
    PROVE  /\ \A f \in Inodes, q \in Nat, k \in Alerts :
                 Start(f, q, k)' <=> Start(f, q, k)
           /\ LinesAreLogged'
           /\ WrittenOnce'
           /\ LogInOrder'
           /\ FormerFilesFirst'
  <1>1. /\ eve' = eve /\ files' = files /\ unfinished' = unfinished
        /\ written' = written
    BY DEF log
  <1>2. LinesAreLogged'
    BY <1>1 DEF AdapterInv, LinesAreLogged, Start, Members
  <1>3. WrittenOnce'
    BY <1>1 DEF AdapterInv, WrittenOnce
  <1>4. LogInOrder'
    BY <1>1 DEF AdapterInv, LogInOrder, Start
  <1>5. FormerFilesFirst'
    BY <1>1 DEF AdapterInv, FormerFilesFirst, Start
  <1> QED BY <1>1, <1>2, <1>3, <1>4, <1>5 DEF Start

LEMMA SameOffset ==
    ASSUME AdapterInv, UNCHANGED <<log, saved>>
    PROVE  /\ OffsetInLog'
           /\ \A i \in Inodes : LoadOffset(i)' = LoadOffset(i)
           /\ \A k : Beyond(eve, LoadOffset(eve), k)'
                      <=> Beyond(eve, LoadOffset(eve), k)
  <1>1. eve' = eve /\ files' = files /\ state' = state /\ stale' = stale
    BY DEF log, saved
  <1> QED BY <1>1 DEF AdapterInv, OffsetInLog, LoadOffset, Beyond

(* A step leaves out of reach what it does not keep, and is to say so.     *)
LEMMA LossesAreNoted ==
    ASSUME AdapterInv, LogStep,
           Members(written) \subseteq Members(written'),
           \A k \in Alerts : Kept(k) => Kept(k)'
    PROVE  /\ NothingElseLost'
           /\ missed \subseteq missed'
           /\ missed' \subseteq Members(written')
           /\ Members(written) \subseteq Alerts
  <1>1. missed' = missed \cup Overtaken
    BY DEF LogStep
  <1>2. Members(written) \subseteq Alerts /\ missed \subseteq Members(written)
    BY DEF AdapterInv, AdapterTypeOK, Members
  <1>3. missed' \subseteq Members(written')
    BY <1>1, <1>2 DEF Overtaken
  <1>4. ASSUME NEW k \in Members(written'), ~Kept(k)', ~Unread(k)'
        PROVE  k \in missed'
    <2>1. CASE k \notin Members(written)
      BY <1>1, <1>4, <2>1 DEF Overtaken
    <2>2. CASE k \in Members(written)
      <3>1. ~Kept(k)
        BY <1>2, <1>4, <2>2
      <3>2. Unread(k) \/ k \in missed
        BY <2>2, <3>1 DEF AdapterInv, NothingElseLost
      <3> QED BY <1>1, <1>4, <3>2 DEF Overtaken
    <2> QED BY <2>1, <2>2
  <1>5. NothingElseLost'
    BY <1>4, Zenon DEF NothingElseLost, Members
  <1> QED BY <1>1, <1>2, <1>3, <1>5

(* Unless the log was rotated, what the process has still to read is what  *)
(* lies beyond the saved offset.                                           *)
LEMMA UnreadIsBeyond ==
    ASSUME AdapterInv, ~Rotated, NEW k, Unread(k)
    PROVE  Beyond(eve, LoadOffset(eve), k)
  <1>1. CASE run # Absent /\ run.at = "reading" /\ Beyond(run.inode, run.pos, k)
    <2>1. run.inode = eve /\ LoadOffset(eve) <= run.pos
      BY <1>1 DEF AdapterInv, ReaderInLog, Reading, Rotated
    <2>2. LoadOffset(eve) \in Nat /\ run.pos \in Nat
      BY <1>1, LoadOffsetInLog DEF AdapterInv, AdapterTypeOK, Runs
    <2> QED BY <1>1, <2>1, <2>2 DEF Beyond
  <1> QED BY <1>1 DEF Unread

LEMMA OwnLosses ==
    ASSUME AdapterInv, OwnStep, written' = written,
           \A k \in Alerts : Kept(k) => Kept(k)',
           ~Rotated =>
             \A k \in Alerts : Beyond(eve, LoadOffset(eve), k) =>
                \/ Beyond(eve, LoadOffset(eve), k)'
                \/ Kept(k)'
    PROVE  /\ NothingElseLost'
           /\ missed \subseteq missed'
           /\ missed' \subseteq Members(written')
  <1>1. CASE Rotated
    <2>1. LogStep
      BY <1>1 DEF OwnStep, LogStep
    <2> QED BY <2>1, LossesAreNoted
  <1>2. CASE ~Rotated
    <2>1. missed' = missed
      BY <1>2 DEF OwnStep
    <2>2. Members(written) \subseteq Alerts /\ missed \subseteq Members(written)
      BY DEF AdapterInv, AdapterTypeOK, Members
    <2>3. Members(written') = Members(written)
      BY DEF Members
    <2>4. ASSUME NEW k \in Members(written)
          PROVE  Kept(k)' \/ Unread(k)' \/ k \in missed'
      <3>1. Kept(k) \/ Unread(k) \/ k \in missed
        BY <2>4 DEF AdapterInv, NothingElseLost
      <3>2. CASE Unread(k)
        <4>1. Beyond(eve, LoadOffset(eve), k)
          BY <1>2, <3>2, UnreadIsBeyond
        <4>2. Beyond(eve, LoadOffset(eve), k)' \/ Kept(k)'
          BY <1>2, <2>2, <4>1
        <4> QED BY <4>2 DEF Unread
      <3> QED BY <2>1, <2>2, <3>1, <3>2
    <2>5. NothingElseLost'
      BY <2>3, <2>4, Zenon DEF NothingElseLost, Members
    <2> QED BY <2>1, <2>2, <2>3, <2>5
  <1> QED BY <1>1, <1>2

LEMMA OwnFrame ==
    ASSUME AdapterInv, OwnStep, UNCHANGED <<log, saved>>,
           \A k \in Alerts : Kept(k) => Kept(k)'
    PROVE  /\ LinesAreLogged' /\ WrittenOnce' /\ LogInOrder'
           /\ FormerFilesFirst' /\ OffsetInLog'
           /\ NothingElseLost'
           /\ missed \subseteq missed'
           /\ missed' \subseteq Members(written')
  <1>1. written' = written
    BY DEF log
  <1>2. \A k : Beyond(eve, LoadOffset(eve), k)'
                 <=> Beyond(eve, LoadOffset(eve), k)
    BY SameOffset
  <1>3. /\ NothingElseLost'
        /\ missed \subseteq missed'
        /\ missed' \subseteq Members(written')
    BY <1>1, <1>2, OwnLosses
  <1> QED BY <1>3, SameLog, SameOffset

(* The queue and what the backend has recorded stay: so does their order.  *)
LEMMA SameOrder ==
    ASSUME AdapterInv, UNCHANGED <<queue, registered, written>>,
           \A k \in Alerts : Past(k) => Past(k)'
    PROVE  /\ QueuedIsLogged' /\ QueueInOrder' /\ InOrder'
  <1>1. QueuedIsLogged'
    BY DEF AdapterInv, QueuedIsLogged, Members
  <1>2. \A i \in DOMAIN written : written[i] \in Alerts
    BY DEF AdapterInv, AdapterTypeOK
  <1>3. QueueInOrder'
    BY <1>2 DEF AdapterInv, QueueInOrder
  <1>4. ASSUME NEW i \in DOMAIN written, NEW j \in DOMAIN written,
               i < j, written[j] \in registered
        PROVE  Past(written[i])'
    <2>1. Past(written[i])
      BY <1>4 DEF AdapterInv, InOrder, Past
    <2> QED BY <1>2, <2>1
  <1>5. InOrder'
    BY <1>4 DEF InOrder, Past
  <1> QED BY <1>1, <1>3, <1>5

(* The head of the queue has all that came before it behind it.            *)
LEMMA HeadIsRecorded ==
    ASSUME AdapterInv, UNCHANGED <<queue, written>>, queue # <<>>,
           registered' \in {registered, registered \cup {Head(queue)}},
           \A k : Past(k) => Past(k)'
    PROVE  QueuedIsLogged' /\ QueueInOrder' /\ InOrder'
  <1>1. /\ Head(queue) = queue[1] /\ 1 \in DOMAIN queue
        /\ Head(queue) \in Members(queue)
    BY MembersOfTail DEF AdapterInv, AdapterTypeOK
  <1>2. QueuedIsLogged'
    BY <1>1 DEF AdapterInv, QueuedIsLogged, Members
  <1>3. QueueInOrder'
    BY DEF AdapterInv, QueueInOrder
  <1>4. ASSUME NEW i \in DOMAIN written, NEW j \in DOMAIN written,
               i < j, written[j] \in registered'
        PROVE  Past(written[i])'
    <2>1. CASE written[j] \in registered
      BY <1>4, <2>1 DEF AdapterInv, InOrder, Past
    <2>2. CASE written[j] = queue[1]
      <3>1. \/ Past(written[i])
            \/ \E a \in DOMAIN queue : a < 1 /\ queue[a] = written[i]
        BY <1>1, <1>4, <2>2 DEF AdapterInv, QueueInOrder
      <3>2. \A a \in DOMAIN queue : ~(a < 1)
        BY DEF AdapterInv, AdapterTypeOK
      <3> QED BY <3>1, <3>2
    <2> QED BY <1>1, <1>4, <2>1, <2>2
  <1>5. InOrder'
    BY <1>4 DEF InOrder, Past
  <1> QED BY <1>2, <1>3, <1>5

(* The head of the queue leaves it when it is recorded or set aside.       *)
LEMMA HeadLeaves ==
    ASSUME AdapterInv, queue # <<>>, queue' = Tail(queue),
           NEW head, head = Head(queue),
           unreadable' = unreadable \ {head},
           UNCHANGED <<registered, written>>,
           Past(head)',
           \A k : Past(k) => Past(k)'
    PROVE  /\ QueuedIsLogged' /\ QueueInOrder' /\ InOrder'
           /\ queue' \in Seq(Alerts)
           /\ \A a, b \in DOMAIN queue' : queue'[a] = queue'[b] => a = b
           /\ Len(queue') <= QueueLimit
           /\ unreadable' \subseteq Members(queue')
           /\ Members(queue) = Members(queue') \cup {head}
           /\ head \in Alerts
  <1>1. /\ queue \in Seq(Alerts) /\ Len(queue) <= QueueLimit
        /\ QueueLimit \in Nat
        /\ DOMAIN queue \subseteq Nat /\ DOMAIN queue' \subseteq Nat
    BY SuricataAssumption, MembersOfTail DEF AdapterInv, AdapterTypeOK
  <1>2. /\ queue' \in Seq(Alerts)
        /\ Len(queue') = Len(queue) - 1
        /\ \A i \in DOMAIN queue' : /\ i + 1 \in DOMAIN queue
                                   /\ queue'[i] = queue[i + 1]
        /\ \A i \in DOMAIN queue : i = 1 \/ i - 1 \in DOMAIN queue'
        /\ head = queue[1]
        /\ head \in Alerts
        /\ Members(queue) = Members(queue') \cup {head}
    BY <1>1, MembersOfTail
  <1>3. QueuedIsLogged'
    <2>1. Members(queue)' = Members(queue')
      BY DEF Members
    <2>2. Members(written)' = Members(written)
      BY DEF Members
    <2> QED BY <1>2, <2>1, <2>2 DEF AdapterInv, QueuedIsLogged
  <1>4. ASSUME NEW b \in DOMAIN queue', NEW i \in DOMAIN written,
               NEW j \in DOMAIN written, queue'[b] = written[j], i < j
        PROVE  \/ Past(written[i])'
               \/ \E a \in DOMAIN queue' : a < b /\ queue'[a] = written[i]
    <2>1. b + 1 \in DOMAIN queue /\ queue[b + 1] = written[j]
      BY <1>2, <1>4
    <2>2. \/ Past(written[i])
          \/ \E a \in DOMAIN queue : a < b + 1 /\ queue[a] = written[i]
      BY <1>4, <2>1 DEF AdapterInv, QueueInOrder
    <2>3. ASSUME NEW a \in DOMAIN queue, a < b + 1, queue[a] = written[i]
          PROVE  \/ Past(written[i])'
                 \/ \E c \in DOMAIN queue' : c < b /\ queue'[c] = written[i]
      <3>1. CASE a = 1
        BY <1>2, <2>3, <3>1
      <3>2. CASE a # 1
        <4>1. a - 1 \in DOMAIN queue' /\ a - 1 < b
          BY <1>1, <1>2, <2>3, <3>2
        <4>2. queue'[a - 1] = queue[(a - 1) + 1] /\ (a - 1) + 1 = a
          BY <1>1, <1>2, <4>1
        <4> QED BY <2>3, <4>1, <4>2
      <3> QED BY <3>1, <3>2
    <2> QED BY <2>2, <2>3
  <1>5. QueueInOrder'
    BY <1>4 DEF QueueInOrder
  <1>6. ASSUME NEW i \in DOMAIN written, NEW j \in DOMAIN written,
               i < j, written[j] \in registered
        PROVE  Past(written[i])'
    BY <1>6 DEF AdapterInv, InOrder, Past
  <1>7. InOrder'
    BY <1>6 DEF InOrder, Past
  <1>8. \A a, b \in DOMAIN queue' : queue'[a] = queue'[b] => a = b
    <2>1. TAKE a, b \in DOMAIN queue'
    <2>2. HAVE queue'[a] = queue'[b]
    <2>3. a + 1 \in DOMAIN queue /\ b + 1 \in DOMAIN queue
      BY <1>2
    <2>4. queue[a + 1] = queue[b + 1]
      BY <1>2, <2>2
    <2>5. a + 1 = b + 1
      BY <2>3, <2>4 DEF AdapterInv, AdapterTypeOK
    <2> QED BY <1>1, <2>5
  <1>9. unreadable' \subseteq Members(queue')
    BY <1>2 DEF AdapterInv, AdapterTypeOK
  <1>10. Len(queue') <= QueueLimit
    BY <1>1, <1>2
  <1> QED BY <1>2, <1>3, <1>5, <1>7, <1>8, <1>9, <1>10

(* No log is read: nothing is to be said of the reader.                    *)
LEMMA NoReader ==
    ASSUME ~Reading'
    PROVE  ReaderInLog' /\ ReadIsKept'
  BY DEF ReaderInLog, ReadIsKept

(* The reader goes on over what is kept.                                   *)
LEMMA ReaderAdvances ==
    ASSUME AdapterInv, UNCHANGED <<log, saved>>,
           Reading, run' \in Runs, run'.at = "reading",
           run'.inode = run.inode, run'.replaced = run.replaced,
           run.pos < run'.pos, run'.pos <= Len(Opened),
           \A k \in Alerts : Kept(k) => Kept(k)',
           \A q \in Nat, k \in Alerts :
              Start(run.inode, q, k) /\ run.pos < q /\ q <= run'.pos => Kept(k)'
    PROVE  ReaderInLog' /\ ReadIsKept'
  <1>1. eve' = eve /\ files' = files /\ state' = state /\ stale' = stale
        /\ passed' = passed
    BY DEF log, saved
  <1>2. run.inode \in Inodes /\ run.pos \in Nat /\ run'.pos \in Nat
        /\ eve \in Inodes
    BY DEF AdapterInv, AdapterTypeOK, Reading, Runs
  <1>3. LoadOffset(eve)' = LoadOffset(eve) /\ LoadOffset(eve) \in Nat
    BY <1>2, <1>1, LoadOffsetInLog DEF AdapterInv, LoadOffset
  <1>4. ReaderInLog'
    BY <1>1, <1>2, <1>3 DEF AdapterInv, ReaderInLog, Reading, Opened
  <1>5. ASSUME run.inode = eve, NEW q \in Nat, NEW k \in Alerts,
               Start(eve, q, k), q <= run'.pos
        PROVE  \/ Kept(k)'
               \/ run.replaced /\ k \in passed
               \/ ~run.replaced /\ q <= LoadOffset(eve)
    <2>1. CASE run.pos < q
      BY <1>5, <2>1
    <2>2. CASE q <= run.pos
      BY <1>5, <2>2 DEF AdapterInv, ReadIsKept
    <2> QED BY <1>2, <2>1, <2>2
  <1>6. ReadIsKept'
    BY <1>1, <1>3, <1>5 DEF ReadIsKept, Start
  <1> QED BY <1>4, <1>6

(* The reading begins at the saved offset.                                 *)
LEMMA DeliveryEnds ==
    ASSUME AdapterInv, UNCHANGED <<log, saved>>,
           run # Absent, run.at # "reading",
           NEW r \in Runs, r.second = run.second, r.replaced = run.replaced,
           run' = AfterFlush(r)
    PROVE  /\ run' \in Runs \cup {Absent}
           /\ PostedIsRegistered' /\ ReplacedIsLast'
           /\ ReaderInLog' /\ ReadIsKept'
  <1>1. eve' = eve /\ files' = files /\ state' = state /\ stale' = stale
    BY DEF log, saved
  <1>2. eve \in Inodes /\ AdapterTypeOK
    BY DEF AdapterInv, AdapterTypeOK
  <1>3. /\ LoadOffset(eve)' = LoadOffset(eve) /\ LoadOffset(eve) \in Nat
        /\ LoadOffset(eve) <= Len(files[eve])
    BY <1>1, <1>2, LoadOffsetInLog DEF LoadOffset
  <1>4. run.replaced => run.second
    BY DEF AdapterInv, ReplacedIsLast
  <1>5. /\ run' \in Runs \cup {Absent}
        /\ run' # Absent =>
              \/ run'.at = "flushing" /\ run'.second
              \/ /\ run'.at = "reading"
                 /\ run'.inode = eve
                 /\ run'.pos = LoadOffset(eve)
                 /\ run'.replaced = r.replaced
                 /\ ~r.second
    BY <1>2, AfterFlushRun
  <1>6. PostedIsRegistered' /\ ReplacedIsLast'
    BY <1>5 DEF PostedIsRegistered, ReplacedIsLast
  <1>7. CASE ~Reading'
    BY <1>5, <1>6, <1>7, NoReader
  <1>8. CASE Reading'
    <2>1. /\ run'.inode = eve /\ run'.pos = LoadOffset(eve)
          /\ run'.replaced = r.replaced /\ ~r.second
      BY <1>5, <1>8 DEF Reading
    <2>2. run'.replaced = run.replaced /\ ~run.replaced
      BY <1>4, <2>1
    <2>3. ReaderInLog'
      BY <1>1, <1>3, <2>1 DEF ReaderInLog
    <2>4. ReadIsKept'
      BY <1>1, <1>3, <2>1, <2>2 DEF ReadIsKept
    <2> QED BY <1>5, <1>6, <2>3, <2>4
  <1> QED BY <1>7, <1>8

-----------------------------------------------------------------------------
(* Every step of the process keeps the invariant.                          *)

LEMMA StartRunKeeps ==
    ASSUME AdapterInv, NEW readLog \in BOOLEAN, StartRun(readLog)
    PROVE  AdapterInv'
  <1> DEFINE new == [at |-> "flushing", second |-> FALSE, readLog |-> readLog,
                     slice |-> MaxDeliveries, delivered |-> 0,
                     failed |-> FALSE, inode |-> eve, pos |-> 0,
                     replaced |-> FALSE]
  <1>1. /\ run' = new
        /\ UNCHANGED <<log, saved, queue, unreadable, quarantine, registered,
                       torn, outrun, missed>>
    BY DEF StartRun, store
  <1>2. UNCHANGED <<eve, files, unfinished, written, passed, state, stale>>
    BY <1>1 DEF log, saved
  <1>3. new \in Runs
    BY SuricataAssumption DEF AdapterInv, AdapterTypeOK, Runs
  <1>4. run = Absent
    BY DEF StartRun
  <1>5. AdapterTypeOK'
    BY <1>1, <1>2, <1>3 DEF AdapterInv, AdapterTypeOK, Members
  <1>6. \A k : (Kept(k) => Kept(k)') /\ (Past(k) => Past(k)')
    BY <1>1, <1>2 DEF Kept, Past, Queued, Members
  <1>7. \A k : Unread(k) => Unread(k)'
    BY <1>4, <1>1, SameOffset DEF Unread
  <1>8. NothingElseLost'
    BY <1>1, <1>2, <1>6, <1>7 DEF AdapterInv, NothingElseLost, Members
  <1>9. QueuedIsLogged' /\ QueueInOrder' /\ InOrder'
    BY <1>1, <1>2, <1>6, SameOrder
  <1>10. PostedIsRegistered' /\ ReplacedIsLast' /\ ~Reading'
    BY <1>1, <1>3 DEF PostedIsRegistered, ReplacedIsLast, Reading
  <1> QED BY <1>1, <1>5, <1>8, <1>9, <1>10, SameLog, SameOffset, NoReader
          DEF AdapterInv

LEMMA PostKeeps ==
    ASSUME AdapterInv, Post
    PROVE  AdapterInv'
  <1> DEFINE new == [run EXCEPT !.at = "posted"]
  <1>1. /\ UNCHANGED <<log, saved, queue, unreadable, quarantine, torn, outrun>>
        /\ OwnStep
        /\ run' = new
        /\ registered' = registered \cup {Head(queue)}
    BY DEF Post, store
  <1>2. UNCHANGED <<eve, files, unfinished, written, passed, state, stale>>
    BY <1>1 DEF log, saved
  <1>3. /\ run # Absent /\ run.at = "flushing" /\ run.slice > 0
        /\ queue # <<>>
    BY DEF Post, Delivering
  <1>4. /\ new \in Runs /\ new.at = "posted" /\ new.slice = run.slice
        /\ new.second = run.second /\ new.replaced = run.replaced
    BY <1>3 DEF AdapterInv, AdapterTypeOK, Runs
  <1>5. /\ Head(queue) \in Alerts
        /\ Head(queue) = queue[1] /\ 1 \in DOMAIN queue
        /\ Head(queue) \in Members(queue)
    BY <1>3, MembersOfTail DEF AdapterInv, AdapterTypeOK
  <1>6. \A k : Kept(k) => Kept(k)'
    BY <1>1 DEF Kept, Queued, Members
  <1>7. /\ LinesAreLogged' /\ WrittenOnce' /\ LogInOrder'
        /\ FormerFilesFirst' /\ OffsetInLog'
        /\ NothingElseLost'
        /\ missed \subseteq missed'
        /\ missed' \subseteq Members(written')
    BY <1>1, <1>6, OwnFrame
  <1>8. AdapterTypeOK'
    BY <1>1, <1>2, <1>4, <1>5, <1>7 DEF AdapterInv, AdapterTypeOK, Members
  <1>9. \A k : Past(k) => Past(k)'
    BY <1>1, <1>2, <1>7 DEF Past
  <1>10. QueuedIsLogged' /\ QueueInOrder' /\ InOrder'
    BY <1>1, <1>2, <1>3, <1>9, HeadIsRecorded
  <1>11. PostedIsRegistered' /\ ReplacedIsLast' /\ ~Reading'
    BY <1>1, <1>3, <1>4 DEF AdapterInv, PostedIsRegistered, ReplacedIsLast,
                            Reading
  <1> QED BY <1>7, <1>8, <1>10, <1>11, NoReader DEF AdapterInv

LEMMA DeliveryFailsKeeps ==
    ASSUME AdapterInv, DeliveryFails
    PROVE  AdapterInv'
  <1> DEFINE r == [run EXCEPT !.failed = TRUE]
  <1>1. /\ UNCHANGED <<log, saved, queue, unreadable, quarantine, torn, outrun>>
        /\ OwnStep
        /\ run' = AfterFlush(r)
    BY DEF DeliveryFails, store
  <1>2. UNCHANGED <<eve, files, unfinished, written, passed, state, stale>>
    BY <1>1 DEF log, saved
  <1>3. /\ run # Absent /\ run.at # "reading"
        /\ queue # <<>>
        /\ registered' \in {registered, registered \cup {Head(queue)}}
    BY DEF DeliveryFails, Delivering, AdapterInv, PostedIsRegistered
  <1>4. r \in Runs /\ r.second = run.second /\ r.replaced = run.replaced
    BY <1>3 DEF AdapterInv, AdapterTypeOK, Runs
  <1>5. Head(queue) \in Alerts
    BY <1>3, MembersOfTail DEF AdapterInv, AdapterTypeOK
  <1>6. \A k : Kept(k) => Kept(k)'
    BY <1>1, <1>3 DEF Kept, Queued, Members
  <1>7. /\ LinesAreLogged' /\ WrittenOnce' /\ LogInOrder'
        /\ FormerFilesFirst' /\ OffsetInLog'
        /\ NothingElseLost'
        /\ missed \subseteq missed'
        /\ missed' \subseteq Members(written')
    BY <1>1, <1>6, OwnFrame
  <1>8. \A k : Past(k) => Past(k)'
    BY <1>1, <1>2, <1>3, <1>7 DEF Past
  <1>9. QueuedIsLogged' /\ QueueInOrder' /\ InOrder'
    BY <1>1, <1>2, <1>3, <1>8, HeadIsRecorded
  <1>10. /\ run' \in Runs \cup {Absent}
         /\ PostedIsRegistered' /\ ReplacedIsLast'
         /\ ReaderInLog' /\ ReadIsKept'
    BY <1>1, <1>3, <1>4, DeliveryEnds
  <1>11. AdapterTypeOK'
    BY <1>1, <1>2, <1>3, <1>5, <1>7, <1>10
       DEF AdapterInv, AdapterTypeOK, Members
  <1> QED BY <1>7, <1>9, <1>10, <1>11 DEF AdapterInv

LEMMA UnlinkKeeps ==
    ASSUME AdapterInv, Unlink
    PROVE  AdapterInv'
  <1> DEFINE new == [run EXCEPT !.at = "flushing", !.slice = @ - 1,
                                !.delivered = @ + 1]
  <1>1. /\ UNCHANGED <<log, saved, quarantine, registered, torn, outrun>>
        /\ OwnStep
        /\ run' = new
        /\ queue' = Tail(queue)
        /\ unreadable' = unreadable \ {Head(queue)}
    BY DEF Unlink
  <1>2. UNCHANGED <<eve, files, unfinished, written, passed, state, stale>>
    BY <1>1 DEF log, saved
  <1>3. /\ run # Absent /\ run.at = "posted" /\ run.slice > 0
        /\ queue # <<>> /\ Head(queue) \in registered
    BY DEF Unlink, AdapterInv, PostedIsRegistered
  <1>4. /\ new \in Runs /\ new.at = "flushing"
        /\ new.second = run.second /\ new.replaced = run.replaced
    <2>1. run \in Runs
      BY <1>3 DEF AdapterInv, AdapterTypeOK
    <2>2. run.slice - 1 \in Nat /\ run.delivered + 1 \in Nat
      BY <1>3, <2>1 DEF Runs
    <2> QED BY <1>3, <2>1, <2>2 DEF Runs
  <1>5. Members(queue) = Members(queue') \cup {Head(queue)}
    BY <1>1, <1>3, MembersOfTail DEF AdapterInv, AdapterTypeOK
  <1>6. \A k : Kept(k) => Kept(k)'
    BY <1>1, <1>3, <1>5 DEF Kept, Queued, Members
  <1>7. /\ LinesAreLogged' /\ WrittenOnce' /\ LogInOrder'
        /\ FormerFilesFirst' /\ OffsetInLog'
        /\ NothingElseLost'
        /\ missed \subseteq missed'
        /\ missed' \subseteq Members(written')
    BY <1>1, <1>6, OwnFrame
  <1>8. \A k : Past(k) => Past(k)'
    BY <1>1, <1>2, <1>7 DEF Past
  <1>9. /\ QueuedIsLogged' /\ QueueInOrder' /\ InOrder'
        /\ queue' \in Seq(Alerts)
        /\ \A a, b \in DOMAIN queue' : queue'[a] = queue'[b] => a = b
        /\ Len(queue') <= QueueLimit
        /\ unreadable' \subseteq Members(queue')
    <2>1. PICK h : h = Head(queue)
      OBVIOUS
    <2>2. Past(h)'
      BY <1>1, <1>3, <2>1 DEF Past
    <2> QED BY <1>1, <1>2, <1>3, <1>8, <2>1, <2>2, HeadLeaves
  <1>10. AdapterTypeOK'
    BY <1>1, <1>2, <1>4, <1>7, <1>9
       DEF AdapterInv, AdapterTypeOK, Members
  <1>11. PostedIsRegistered' /\ ReplacedIsLast' /\ ~Reading'
    BY <1>1, <1>3, <1>4 DEF AdapterInv, PostedIsRegistered, ReplacedIsLast,
                            Reading
  <1> QED BY <1>7, <1>9, <1>10, <1>11, NoReader DEF AdapterInv

LEMMA QuarantineKeeps ==
    ASSUME AdapterInv, Quarantine
    PROVE  AdapterInv'
  <1> DEFINE new == [run EXCEPT !.slice = @ - 1]
  <1>1. /\ UNCHANGED <<log, saved, registered, torn, outrun>>
        /\ OwnStep
        /\ run' = new
        /\ queue' = Tail(queue)
        /\ unreadable' = unreadable \ {Head(queue)}
        /\ quarantine' = quarantine \cup {Head(queue)}
    BY DEF Quarantine
  <1>2. UNCHANGED <<eve, files, unfinished, written, passed, state, stale>>
    BY <1>1 DEF log, saved
  <1>3. /\ run # Absent /\ run.at = "flushing" /\ run.slice > 0
        /\ queue # <<>>
    BY DEF Quarantine, Delivering
  <1>4. /\ new \in Runs /\ new.at = "flushing"
        /\ new.second = run.second /\ new.replaced = run.replaced
    <2>1. run \in Runs
      BY <1>3 DEF AdapterInv, AdapterTypeOK
    <2>2. run.slice - 1 \in Nat
      BY <1>3, <2>1 DEF Runs
    <2> QED BY <1>3, <2>1, <2>2 DEF Runs
  <1>5. /\ Members(queue) = Members(queue') \cup {Head(queue)}
        /\ Head(queue) \in Alerts
    BY <1>1, <1>3, MembersOfTail DEF AdapterInv, AdapterTypeOK
  <1>6. \A k : Kept(k) => Kept(k)'
    BY <1>1, <1>3, <1>5 DEF Kept, Queued, Members
  <1>7. /\ LinesAreLogged' /\ WrittenOnce' /\ LogInOrder'
        /\ FormerFilesFirst' /\ OffsetInLog'
        /\ NothingElseLost'
        /\ missed \subseteq missed'
        /\ missed' \subseteq Members(written')
    BY <1>1, <1>6, OwnFrame
  <1>8. \A k : Past(k) => Past(k)'
    BY <1>1, <1>2, <1>7 DEF Past
  <1>9. /\ QueuedIsLogged' /\ QueueInOrder' /\ InOrder'
        /\ queue' \in Seq(Alerts)
        /\ \A a, b \in DOMAIN queue' : queue'[a] = queue'[b] => a = b
        /\ Len(queue') <= QueueLimit
        /\ unreadable' \subseteq Members(queue')
    <2>1. PICK h : h = Head(queue)
      OBVIOUS
    <2>2. Past(h)'
      BY <1>1, <1>3, <2>1 DEF Past
    <2> QED BY <1>1, <1>2, <1>3, <1>8, <2>1, <2>2, HeadLeaves
  <1>10. AdapterTypeOK'
    BY <1>1, <1>2, <1>4, <1>5, <1>7, <1>9
       DEF AdapterInv, AdapterTypeOK, Members
  <1>11. PostedIsRegistered' /\ ReplacedIsLast' /\ ~Reading'
    BY <1>1, <1>3, <1>4 DEF AdapterInv, PostedIsRegistered, ReplacedIsLast,
                            Reading
  <1> QED BY <1>7, <1>9, <1>10, <1>11, NoReader DEF AdapterInv

LEMMA EndFlushKeeps ==
    ASSUME AdapterInv, EndFlush
    PROVE  AdapterInv'
  <1>1. /\ UNCHANGED <<log, saved, queue, unreadable, quarantine, registered,
                       torn, outrun>>
        /\ OwnStep
        /\ run' = AfterFlush(run)
    BY DEF EndFlush, store
  <1>2. UNCHANGED <<eve, files, unfinished, written, passed, state, stale>>
    BY <1>1 DEF log, saved
  <1>3. run # Absent /\ run.at # "reading" /\ run \in Runs
    BY DEF EndFlush, AdapterInv, AdapterTypeOK
  <1>4. \A k : Kept(k) => Kept(k)'
    BY <1>1 DEF Kept, Queued, Members
  <1>5. /\ LinesAreLogged' /\ WrittenOnce' /\ LogInOrder'
        /\ FormerFilesFirst' /\ OffsetInLog'
        /\ NothingElseLost'
        /\ missed \subseteq missed'
        /\ missed' \subseteq Members(written')
    BY <1>1, <1>4, OwnFrame
  <1>6. \A k : Past(k) => Past(k)'
    BY <1>1, <1>2, <1>5 DEF Past
  <1>7. QueuedIsLogged' /\ QueueInOrder' /\ InOrder'
    BY <1>1, <1>2, <1>6, SameOrder
  <1>8. /\ run' \in Runs \cup {Absent}
        /\ PostedIsRegistered' /\ ReplacedIsLast'
        /\ ReaderInLog' /\ ReadIsKept'
    BY <1>1, <1>3, DeliveryEnds
  <1>9. AdapterTypeOK'
    BY <1>1, <1>2, <1>5, <1>8 DEF AdapterInv, AdapterTypeOK, Members
  <1> QED BY <1>5, <1>7, <1>8, <1>9 DEF AdapterInv

(* The line ahead of the reader, and the reader behind it.                 *)
LEMMA WholeLine ==
    ASSUME AdapterInv, Reading, NEW k \in Alerts, LineAhead(k),
           run' = [run EXCEPT !.pos = @ + 2]
    PROVE  /\ run' \in Runs /\ run'.at = "reading"
           /\ run'.inode = run.inode /\ run'.replaced = run.replaced
           /\ run.pos < run'.pos /\ run'.pos <= Len(Opened)
           /\ run.inode \in Inodes /\ run.pos \in Nat
           /\ Start(run.inode, run.pos + 1, k)
           /\ k \in Members(written)
           /\ \A q \in Nat, x \in Alerts :
                 Start(run.inode, q, x) /\ run.pos < q /\ q <= run'.pos => x = k
  <1>1. /\ run \in Runs /\ run.at = "reading"
        /\ run.inode \in Inodes /\ run.pos \in Nat
    BY DEF Reading, AdapterInv, AdapterTypeOK, Runs
  <1>2. /\ run' \in Runs /\ run'.at = "reading"
        /\ run'.inode = run.inode /\ run'.replaced = run.replaced
        /\ run'.pos = run.pos + 2
    BY <1>1 DEF Runs
  <1>3. /\ run.pos + 2 <= Len(Opened)
        /\ Opened[run.pos + 1] = <<k, "start">>
        /\ Opened[run.pos + 2] = <<k, "end">>
    BY DEF LineAhead
  <1>4. Len(Opened) \in Nat
    BY <1>1, LoadOffsetInLog DEF AdapterInv, Opened
  <1>5. Start(run.inode, run.pos + 1, k)
    BY <1>1, <1>3, <1>4 DEF Start, Opened
  <1>6. k \in Members(written)
    <2>1. run.pos + 1 \in Nat
      BY <1>1
    <2> QED BY <1>1, <1>5, <2>1 DEF AdapterInv, LinesAreLogged
  <1>7. ASSUME NEW q \in Nat, NEW x \in Alerts,
               Start(run.inode, q, x), run.pos < q, q <= run'.pos
        PROVE  x = k
    <2>1. q = run.pos + 1 \/ q = run.pos + 2
      BY <1>1, <1>2, <1>7
    <2>2. Opened[q] = <<x, "start">>
      BY <1>7 DEF Start, Opened
    <2> QED BY <1>3, <2>1, <2>2
  <1> QED BY <1>1, <1>2, <1>3, <1>5, <1>6, <1>7

(* What was logged before the alert ahead is queued or behind it.          *)
LEMMA EarlierIsPast ==
    ASSUME AdapterInv, Reading, NEW i \in DOMAIN written,
           NEW j \in DOMAIN written, i < j,
           run.inode \in Inodes, run.pos \in Nat,
           Start(run.inode, run.pos + 1, written[j])
    PROVE  Past(written[i]) \/ Queued(written[i])
  <1>1. written[i] \in Alerts /\ written[i] \in Members(written)
    BY DEF AdapterInv, AdapterTypeOK, Members
  <1>2. /\ eve \in Inodes /\ Len(files[eve]) \in Nat
        /\ LoadOffset(eve) \in Nat /\ Len(files[run.inode]) \in Nat
        /\ DOMAIN written \subseteq Nat
    BY LoadOffsetInLog DEF AdapterInv, AdapterTypeOK
  <1>3. \A q \in Nat : Start(run.inode, q, written[i]) => q < run.pos + 1
    BY DEF AdapterInv, LogInOrder
  <1>4. CASE Beyond(run.inode, run.pos, written[i])
    <2>1. PICK q \in 1 .. Len(files[run.inode]) :
             q > run.pos /\ files[run.inode][q] = <<written[i], "start">>
      BY <1>4 DEF Beyond
    <2>2. q \in Nat /\ Start(run.inode, q, written[i])
      BY <1>2, <2>1 DEF Start
    <2> QED BY <1>3, <2>1, <2>2
  <1>5. CASE Beyond(eve, LoadOffset(eve), written[i])
    <2>1. PICK q \in 1 .. Len(files[eve]) :
             /\ q > LoadOffset(eve)
             /\ files[eve][q] = <<written[i], "start">>
      BY <1>5 DEF Beyond
    <2>2. q \in Nat /\ Start(eve, q, written[i])
      BY <1>2, <2>1 DEF Start
    <2>3. CASE run.inode = eve
      <3>1. q <= run.pos
        BY <1>3, <2>2, <2>3
      <3>2. Kept(written[i]) \/ written[i] \in passed
        BY <1>1, <1>2, <2>1, <2>2, <2>3, <3>1 DEF AdapterInv, ReadIsKept
      <3> QED BY <3>2 DEF Kept, Past
    <2>4. CASE run.inode # eve
      <3>1. run.pos + 1 \in Nat
        OBVIOUS
      <3>2. j < i
        BY <2>2, <2>4, <3>1 DEF AdapterInv, FormerFilesFirst
      <3> QED BY <1>2, <3>2
    <2> QED BY <2>3, <2>4
  <1>6. Kept(written[i]) \/ Unread(written[i]) \/ written[i] \in missed
    BY <1>1 DEF AdapterInv, NothingElseLost
  <1> QED BY <1>4, <1>5, <1>6 DEF Unread, Kept, Past

LEMMA EnqueueKeeps ==
    ASSUME AdapterInv, NEW k \in Alerts, Enqueue(k)
    PROVE  AdapterInv'
  <1>1. /\ UNCHANGED <<log, saved, unreadable, quarantine, registered, torn>>
        /\ OwnStep
        /\ Reading /\ LineAhead(k) /\ ~Queued(k)
        /\ run' = [run EXCEPT !.pos = @ + 2]
        /\ Len(queue) < QueueLimit
    BY DEF Enqueue
  <1>14. PICK p \in Places :
            /\ queue' = Append(SubSeq(queue, 1, p - 1), k)
                            \o SubSeq(queue, p, Len(queue))
            /\ outrun' = outrun \cup Members(SubSeq(queue, p, Len(queue)))
    BY DEF Enqueue
  <1>2. UNCHANGED <<eve, files, unfinished, written, passed, state, stale>>
    BY <1>1 DEF log, saved
  <1>3. /\ run' \in Runs /\ run'.at = "reading"
        /\ run'.inode = run.inode /\ run'.replaced = run.replaced
        /\ run.pos < run'.pos /\ run'.pos <= Len(Opened)
        /\ run.inode \in Inodes /\ run.pos \in Nat
        /\ Start(run.inode, run.pos + 1, k)
        /\ k \in Members(written)
        /\ \A q \in Nat, x \in Alerts :
              Start(run.inode, q, x) /\ run.pos < q /\ q <= run'.pos => x = k
    BY <1>1, WholeLine
  <1>15. /\ queue \in Seq(Alerts) /\ Len(queue) \in Nat /\ QueueLimit \in Nat
         /\ DOMAIN queue = 1 .. Len(queue)
         /\ p \in 1 .. Len(queue) + 1
    BY SuricataAssumption DEF AdapterInv, AdapterTypeOK, Places
  <1>4. /\ queue' \in Seq(Alerts)
        /\ Len(queue') = Len(queue) + 1
        /\ queue'[p] = k
        /\ \A b \in DOMAIN queue : b < p => queue'[b] = queue[b]
        /\ \A b \in DOMAIN queue : p <= b => queue'[b + 1] = queue[b]
        /\ \A b \in DOMAIN queue' :
              \/ b \in DOMAIN queue /\ b < p /\ queue'[b] = queue[b]
              \/ b = p
              \/ b - 1 \in DOMAIN queue /\ p <= b - 1
                     /\ queue'[b] = queue[b - 1]
        /\ Members(queue') = Members(queue) \cup {k}
        /\ \A b \in DOMAIN queue : p <= b => queue[b] \in outrun'
        /\ outrun \subseteq outrun' /\ outrun' \subseteq outrun \cup Members(queue)
    <2>1. PICK q : q = queue'
      OBVIOUS
    <2>2. /\ q = WithAt(queue, p, k)
          /\ outrun' = outrun \cup Members(From(queue, p))
      BY <1>14, <2>1 DEF WithAt, From
    <2>3. IsWithAt(q, Alerts, queue, p, k)
      BY <1>15, <2>2, Inserted, Zenon
    <2> QED BY <1>15, <2>1, <2>2, <2>3 DEF IsWithAt
  <1>16. DOMAIN queue' = 1 .. Len(queue) + 1 /\ DOMAIN queue' \subseteq Int
    BY <1>4, <1>15
  <1>5. \A x : Kept(x) => Kept(x)'
    BY <1>1, <1>4 DEF Kept, Queued, Members
  <1>6. /\ LinesAreLogged' /\ WrittenOnce' /\ LogInOrder'
        /\ FormerFilesFirst' /\ OffsetInLog'
        /\ NothingElseLost'
        /\ missed \subseteq missed'
        /\ missed' \subseteq Members(written')
    BY <1>1, <1>5, OwnFrame
  <1>7. \A x : Past(x) => Past(x)'
    BY <1>1, <1>2, <1>4, <1>6 DEF Past
  <1>8. AdapterTypeOK'
    <2>1. ASSUME NEW a \in DOMAIN queue', NEW b \in DOMAIN queue',
                 queue'[a] = queue'[b]
          PROVE  a = b
      <3>1. \A c \in DOMAIN queue : queue[c] # k
        BY <1>1 DEF Queued, Members
      <3>2. \A c, d \in DOMAIN queue : queue[c] = queue[d] => c = d
        BY DEF AdapterInv, AdapterTypeOK
      <3>3. a \in Int /\ b \in Int /\ p \in Int
        BY <1>15, <1>16
      <3> QED BY <1>4, <2>1, <3>1, <3>2, <3>3
    <2>2. Members(queue)' = Members(queue')
      BY DEF Members
    <2>3. Members(written)' = Members(written)
      BY <1>2 DEF Members
    <2>4. Len(queue') <= QueueLimit
      BY <1>1, <1>4, <1>15
    <2>6. Members(queue) \subseteq Members(written)
      BY DEF AdapterInv, QueuedIsLogged
    <2>7. outrun \subseteq Members(written)
      BY DEF AdapterInv, AdapterTypeOK
    <2>5. outrun' \subseteq Members(written)'
      BY <1>4, <2>3, <2>6, <2>7
    <2> QED BY <1>1, <1>2, <1>3, <1>4, <1>6, <2>1, <2>2, <2>3, <2>4, <2>5
            DEF AdapterInv, AdapterTypeOK
  <1>9. QueuedIsLogged'
    <2>1. Members(queue)' = Members(queue')
      BY DEF Members
    <2>2. Members(written)' = Members(written)
      BY <1>2 DEF Members
    <2> QED BY <1>1, <1>3, <1>4, <2>1, <2>2 DEF AdapterInv, QueuedIsLogged
  <1>10. QueueInOrder'
    <2>1. SUFFICES ASSUME NEW b \in DOMAIN queue', NEW i \in DOMAIN written,
                          NEW j \in DOMAIN written,
                          queue'[b] = written[j], i < j
                   PROVE  \/ Past(written[i])'
                          \/ \E a \in DOMAIN queue' :
                                a < b /\ queue'[a] = written[i]
      BY <1>2 DEF QueueInOrder
    <2>2. ASSUME NEW a \in DOMAIN queue, queue[a] = written[i],
                 \/ b = p
                 \/ b < p /\ a < b
                 \/ p < b /\ a < b - 1
          PROVE  \/ Past(written[i])'
                 \/ \E c \in DOMAIN queue' : c < b /\ queue'[c] = written[i]
      <3>1. CASE a < p
        <4>1. a \in DOMAIN queue' /\ a < b /\ queue'[a] = queue[a]
          BY <1>4, <1>15, <1>16, <2>2, <3>1
        <4> QED BY <2>2, <4>1
      <3>2. CASE p <= a
        BY <1>2, <1>4, <2>2, <3>2 DEF Past
      <3> QED BY <1>15, <3>1, <3>2
    <2>3. CASE b = p
      <3>1. Past(written[i]) \/ Queued(written[i])
        BY <1>1, <1>3, <1>4, <2>1, <2>3, EarlierIsPast
      <3>2. CASE Queued(written[i])
        <4>1. PICK a \in DOMAIN queue : queue[a] = written[i]
          BY <3>2 DEF Queued, Members
        <4> QED BY <2>2, <2>3, <4>1
      <3> QED BY <1>2, <1>7, <3>1, <3>2
    <2>4. CASE b \in DOMAIN queue /\ b < p /\ queue'[b] = queue[b]
      <3>1. \/ Past(written[i])
            \/ \E a \in DOMAIN queue : a < b /\ queue[a] = written[i]
        BY <2>1, <2>4 DEF AdapterInv, QueueInOrder
      <3> QED BY <1>2, <1>7, <2>2, <2>4, <3>1
    <2>5. CASE b - 1 \in DOMAIN queue /\ p <= b - 1 /\ queue'[b] = queue[b - 1]
      <3>1. \/ Past(written[i])
            \/ \E a \in DOMAIN queue : a < b - 1 /\ queue[a] = written[i]
        BY <2>1, <2>5 DEF AdapterInv, QueueInOrder
      <3>2. p < b
        BY <1>15, <1>16, <2>5
      <3> QED BY <1>2, <1>7, <2>2, <3>1, <3>2
    <2> QED BY <1>4, <2>3, <2>4, <2>5
  <1>11. InOrder'
    <2>1. ASSUME NEW i \in DOMAIN written, NEW j \in DOMAIN written,
                 i < j, written[j] \in registered
          PROVE  Past(written[i])'
      BY <1>2, <1>7, <2>1 DEF AdapterInv, InOrder, Past
    <2> QED BY <1>1, <1>2, <2>1 DEF InOrder, Past
  <1>12. ReaderInLog' /\ ReadIsKept'
    <2>1. Kept(k)'
      BY <1>4 DEF Kept, Queued, Members
    <2> QED BY <1>1, <1>3, <1>5, <2>1, ReaderAdvances
  <1>13. PostedIsRegistered' /\ ReplacedIsLast'
    BY <1>3 DEF PostedIsRegistered, ReplacedIsLast
  <1> QED BY <1>6, <1>8, <1>9, <1>10, <1>11, <1>12, <1>13 DEF AdapterInv

LEMMA DuplicateKeeps ==
    ASSUME AdapterInv, NEW k \in Alerts, Duplicate(k)
    PROVE  AdapterInv'
  <1>1. /\ UNCHANGED <<log, saved, queue, unreadable, quarantine, registered,
                       torn, outrun>>
        /\ OwnStep
        /\ Reading /\ LineAhead(k) /\ Queued(k)
        /\ run' = [run EXCEPT !.pos = @ + 2]
    BY DEF Duplicate, store
  <1>2. UNCHANGED <<eve, files, unfinished, written, passed, state, stale>>
    BY <1>1 DEF log, saved
  <1>3. /\ run' \in Runs /\ run'.at = "reading"
        /\ run'.inode = run.inode /\ run'.replaced = run.replaced
        /\ run.pos < run'.pos /\ run'.pos <= Len(Opened)
        /\ \A q \in Nat, x \in Alerts :
              Start(run.inode, q, x) /\ run.pos < q /\ q <= run'.pos => x = k
    BY <1>1, WholeLine
  <1>4. \A x : Kept(x) => Kept(x)'
    BY <1>1 DEF Kept, Queued, Members
  <1>5. /\ LinesAreLogged' /\ WrittenOnce' /\ LogInOrder'
        /\ FormerFilesFirst' /\ OffsetInLog'
        /\ NothingElseLost'
        /\ missed \subseteq missed'
        /\ missed' \subseteq Members(written')
    BY <1>1, <1>4, OwnFrame
  <1>6. AdapterTypeOK'
    BY <1>1, <1>2, <1>3, <1>5 DEF AdapterInv, AdapterTypeOK, Members
  <1>7. \A x : Past(x) => Past(x)'
    BY <1>1, <1>2, <1>5 DEF Past
  <1>8. QueuedIsLogged' /\ QueueInOrder' /\ InOrder'
    BY <1>1, <1>2, <1>7, SameOrder
  <1>9. ReaderInLog' /\ ReadIsKept'
    <2>1. Kept(k)'
      BY <1>1 DEF Kept, Queued, Members
    <2> QED BY <1>1, <1>3, <1>4, <2>1, ReaderAdvances
  <1>10. PostedIsRegistered' /\ ReplacedIsLast'
    BY <1>3 DEF PostedIsRegistered, ReplacedIsLast
  <1> QED BY <1>5, <1>6, <1>8, <1>9, <1>10 DEF AdapterInv

(* The process ends, whatever it was doing: it is killed, or has no room.  *)
LEMMA EndKeeps ==
    ASSUME AdapterInv, (\E k \in Alerts : QueueFull(k)) \/ Abort
    PROVE  AdapterInv'
  <1>1. /\ UNCHANGED <<log, saved, queue, unreadable, quarantine, registered,
                       torn, outrun>>
        /\ OwnStep
        /\ run' = Absent
    BY DEF QueueFull, Abort, store
  <1>2. UNCHANGED <<eve, files, unfinished, written, passed, state, stale>>
    BY <1>1 DEF log, saved
  <1>3. \A x : Kept(x) => Kept(x)'
    BY <1>1 DEF Kept, Queued, Members
  <1>4. /\ LinesAreLogged' /\ WrittenOnce' /\ LogInOrder'
        /\ FormerFilesFirst' /\ OffsetInLog'
        /\ NothingElseLost'
        /\ missed \subseteq missed'
        /\ missed' \subseteq Members(written')
    BY <1>1, <1>3, OwnFrame
  <1>5. AdapterTypeOK'
    BY <1>1, <1>2, <1>4 DEF AdapterInv, AdapterTypeOK, Members
  <1>6. \A x : Past(x) => Past(x)'
    BY <1>1, <1>2, <1>4 DEF Past
  <1>7. QueuedIsLogged' /\ QueueInOrder' /\ InOrder'
    BY <1>1, <1>2, <1>6, SameOrder
  <1>8. PostedIsRegistered' /\ ReplacedIsLast' /\ ~Reading'
    BY <1>1 DEF PostedIsRegistered, ReplacedIsLast, Reading
  <1> QED BY <1>4, <1>5, <1>7, <1>8, NoReader DEF AdapterInv

LEMMA FragmentKeeps ==
    ASSUME AdapterInv, Fragment
    PROVE  AdapterInv'
  <1> DEFINE piece == Opened[run.pos + 1]
  <1>1. /\ UNCHANGED <<log, saved, queue, unreadable, quarantine, registered,
                       outrun>>
        /\ OwnStep
        /\ Reading /\ ~AtEnd
        /\ run' = [run EXCEPT !.pos = @ + 1]
        /\ torn' = IF piece[2] = "start" THEN torn \cup {piece[1]} ELSE torn
    BY DEF Fragment, store
  <1>2. UNCHANGED <<eve, files, unfinished, written, passed, state, stale>>
    BY <1>1 DEF log, saved
  <1>3. /\ run \in Runs /\ run.at = "reading"
        /\ run.inode \in Inodes /\ run.pos \in Nat
    BY <1>1 DEF Reading, AdapterInv, AdapterTypeOK, Runs
  <1>4. /\ run' \in Runs /\ run'.at = "reading"
        /\ run'.inode = run.inode /\ run'.replaced = run.replaced
        /\ run'.pos = run.pos + 1
    BY <1>1, <1>3 DEF Runs
  <1>5. /\ Len(Opened) \in Nat /\ Opened \in Seq(Pieces)
        /\ run.pos + 1 \in 1 .. Len(Opened)
    BY <1>1, <1>3, LoadOffsetInLog DEF AdapterInv, AdapterTypeOK, Opened, AtEnd
  <1>6. piece \in Pieces
    BY <1>5
  <1>7. piece[2] = "start" =>
           Start(run.inode, run.pos + 1, piece[1]) /\ piece[1] \in Alerts
    BY <1>5, <1>6 DEF Pieces, Start, Opened
  <1>8. piece[2] = "start" => piece[1] \in Members(written)
    BY <1>3, <1>7 DEF AdapterInv, LinesAreLogged
  <1>9. \A x : Kept(x) => Kept(x)'
    BY <1>1 DEF Kept, Queued, Members
  <1>10. /\ LinesAreLogged' /\ WrittenOnce' /\ LogInOrder'
         /\ FormerFilesFirst' /\ OffsetInLog'
         /\ NothingElseLost'
         /\ missed \subseteq missed'
         /\ missed' \subseteq Members(written')
    BY <1>1, <1>9, OwnFrame
  <1>11. AdapterTypeOK'
    BY <1>1, <1>2, <1>4, <1>8, <1>10 DEF AdapterInv, AdapterTypeOK, Members
  <1>12. \A x : Past(x) => Past(x)'
    BY <1>1, <1>2, <1>10 DEF Past
  <1>13. QueuedIsLogged' /\ QueueInOrder' /\ InOrder'
    BY <1>1, <1>2, <1>12, SameOrder
  <1>14. ReaderInLog' /\ ReadIsKept'
    <2>1. ASSUME NEW q \in Nat, NEW x \in Alerts,
                 Start(run.inode, q, x), run.pos < q, q <= run'.pos
          PROVE  x \in torn'
      <3>1. q = run.pos + 1
        BY <1>3, <1>4, <2>1
      <3>2. piece = <<x, "start">>
        BY <2>1, <3>1 DEF Start, Opened
      <3> QED BY <1>1, <3>2
    <2>2. \A q \in Nat, x \in Alerts :
             Start(run.inode, q, x) /\ run.pos < q /\ q <= run'.pos => Kept(x)'
      BY <2>1 DEF Kept
    <2>3. run.pos < run'.pos /\ run'.pos <= Len(Opened)
      BY <1>3, <1>4, <1>5
    <2> QED BY <1>1, <1>4, <1>9, <2>2, <2>3, ReaderAdvances
  <1>15. PostedIsRegistered' /\ ReplacedIsLast'
    BY <1>4 DEF PostedIsRegistered, ReplacedIsLast
  <1> QED BY <1>10, <1>11, <1>13, <1>14, <1>15 DEF AdapterInv

(* What the reader leaves behind when it saves its offset is kept.         *)
LEMMA SaveOffsetKeeps ==
    ASSUME AdapterInv, SaveOffset
    PROVE  AdapterInv'
  <1>1. /\ UNCHANGED <<log, queue, unreadable, quarantine, registered, torn, outrun>>
        /\ OwnStep
        /\ Reading /\ AtEnd
        /\ state' = [inode |-> run.inode, offset |-> run.pos]
        /\ stale' = (run.replaced /\ run.inode = eve)
        /\ run' = AfterReading(run)
    BY DEF SaveOffset
  <1>2. UNCHANGED <<eve, files, unfinished, written, passed>>
    BY <1>1 DEF log
  <1>3. /\ run \in Runs /\ run # Absent /\ run.at = "reading"
        /\ run.inode \in Inodes /\ run.pos \in Nat
        /\ eve \in Inodes /\ Len(files[eve]) \in Nat
    BY <1>1, LoadOffsetInLog DEF Reading, AdapterInv, AdapterTypeOK, Runs
  <1>4. /\ state' \in States /\ state' # Absent
        /\ state'.inode = run.inode /\ state'.offset = run.pos
    BY <1>1, <1>3, AbsentAssumption DEF States
  <1>5. /\ run' \in Runs \cup {Absent}
        /\ run' # Absent => run'.at = "flushing" /\ run'.second
    BY <1>1, <1>3, AfterReadingRun DEF AdapterInv
  <1>6. \A x : Kept(x) => Kept(x)'
    BY <1>1 DEF Kept, Queued, Members
  <1>7. ASSUME ~Rotated, NEW x \in Alerts, Beyond(eve, LoadOffset(eve), x)
        PROVE  Beyond(eve, LoadOffset(eve), x)' \/ Kept(x)'
    <2>1. /\ ~run.replaced /\ run.inode = eve /\ run.pos <= Len(files[eve])
      BY <1>1, <1>3, <1>7 DEF AdapterInv, ReaderInLog, Rotated
    <2>2. LoadOffset(eve)' = run.pos
      BY <1>2, <1>4, <2>1 DEF LoadOffset
    <2>3. PICK q \in 1 .. Len(files[eve]) :
             q > LoadOffset(eve) /\ files[eve][q] = <<x, "start">>
      BY <1>7 DEF Beyond
    <2>4. q \in Nat /\ LoadOffset(eve) \in Nat
      BY <1>3, LoadOffsetInLog DEF AdapterInv
    <2>5. CASE q <= run.pos
      <3>1. Start(eve, q, x)
        BY <2>3 DEF Start
      <3>2. Kept(x)
        BY <1>1, <2>1, <2>3, <2>4, <2>5, <3>1 DEF AdapterInv, ReadIsKept
      <3> QED BY <1>6, <3>2
    <2>6. CASE q > run.pos
      BY <1>2, <2>2, <2>3, <2>6 DEF Beyond
    <2> QED BY <1>3, <2>4, <2>5, <2>6
  <1>8. /\ NothingElseLost'
        /\ missed \subseteq missed'
        /\ missed' \subseteq Members(written')
    BY <1>1, <1>2, <1>6, <1>7, OwnLosses
  <1>9. AdapterTypeOK'
    BY <1>1, <1>2, <1>4, <1>5, <1>8 DEF AdapterInv, AdapterTypeOK, Members
  <1>10. OffsetInLog'
    BY <1>1, <1>2, <1>3, <1>4 DEF AdapterInv, OffsetInLog, ReaderInLog
  <1>11. \A x : Past(x) => Past(x)'
    BY <1>1, <1>2, <1>8 DEF Past
  <1>12. QueuedIsLogged' /\ QueueInOrder' /\ InOrder'
    BY <1>1, <1>2, <1>11, SameOrder
  <1>13. PostedIsRegistered' /\ ReplacedIsLast' /\ ~Reading'
    BY <1>5 DEF PostedIsRegistered, ReplacedIsLast, Reading
  <1> QED BY <1>1, <1>8, <1>9, <1>10, <1>12, <1>13, SameLog, NoReader
          DEF AdapterInv

(* Without a saved offset the log is read again from its beginning.        *)
LEMMA PowerCutKeeps ==
    ASSUME AdapterInv, PowerCut
    PROVE  AdapterInv'
  <1>1. /\ UNCHANGED <<log, queue, unreadable, quarantine, registered, torn, outrun>>
        /\ OwnStep
        /\ state' = Absent /\ stale' = FALSE /\ run' = Absent
    BY DEF PowerCut
  <1>2. UNCHANGED <<eve, files, unfinished, written, passed>>
    BY <1>1 DEF log
  <1>3. \A x : Kept(x) => Kept(x)'
    BY <1>1 DEF Kept, Queued, Members
  <1>4. ASSUME NEW x, Beyond(eve, LoadOffset(eve), x)
        PROVE  Beyond(eve, LoadOffset(eve), x)'
    <2>1. LoadOffset(eve)' = 0
      BY <1>1 DEF LoadOffset
    <2>2. LoadOffset(eve) \in Nat /\ Len(files[eve]) \in Nat
      BY LoadOffsetInLog DEF AdapterInv, AdapterTypeOK
    <2> QED BY <1>2, <1>4, <2>1, <2>2 DEF Beyond
  <1>5. /\ NothingElseLost'
        /\ missed \subseteq missed'
        /\ missed' \subseteq Members(written')
    BY <1>1, <1>2, <1>3, <1>4, OwnLosses
  <1>6. AdapterTypeOK'
    BY <1>1, <1>2, <1>5 DEF AdapterInv, AdapterTypeOK, Members
  <1>7. \A x : Past(x) => Past(x)'
    BY <1>1, <1>2, <1>5 DEF Past
  <1>8. QueuedIsLogged' /\ QueueInOrder' /\ InOrder'
    BY <1>1, <1>2, <1>7, SameOrder
  <1>9. /\ PostedIsRegistered' /\ ReplacedIsLast' /\ OffsetInLog'
        /\ ~Reading'
    BY <1>1 DEF PostedIsRegistered, ReplacedIsLast, OffsetInLog, Reading
  <1> QED BY <1>1, <1>5, <1>6, <1>8, <1>9, SameLog, NoReader DEF AdapterInv

-----------------------------------------------------------------------------
(* So does what happens around it.                                         *)

(* An entry may be damaged, or nothing happens at all.                     *)
LEMMA CorruptKeeps ==
    ASSUME AdapterInv,
           (\E k \in Alerts : Corrupt(k)) \/ UNCHANGED adapterVars
    PROVE  AdapterInv'
  <1>1. UNCHANGED <<log, saved, queue, quarantine, registered, run, torn, outrun,
                    missed>>
    BY DEF Corrupt, adapterVars, log, saved
  <1>2. UNCHANGED <<eve, files, unfinished, written, passed, state, stale>>
    BY <1>1 DEF log, saved
  <1>3. AdapterTypeOK'
    <2>1. /\ Members(queue)' = Members(queue)
          /\ Members(written)' = Members(written)
      BY <1>1, <1>2 DEF Members
    <2>2. unreadable' \subseteq Members(queue)
      BY DEF Corrupt, adapterVars, Queued, AdapterInv, AdapterTypeOK
    <2> QED BY <1>1, <1>2, <2>1, <2>2 DEF AdapterInv, AdapterTypeOK
  <1>4. \A x : Past(x) => Past(x)'
    BY <1>1, <1>2 DEF Past
  <1>5. QueuedIsLogged' /\ QueueInOrder' /\ InOrder'
    BY <1>1, <1>2, <1>4, SameOrder
  <1>6. \A x : (Kept(x)' <=> Kept(x)) /\ (Unread(x)' <=> Unread(x))
    BY <1>1, <1>2 DEF Kept, Queued, Members, Unread, Beyond, LoadOffset
  <1>7. NothingElseLost'
    BY <1>1, <1>2, <1>6 DEF AdapterInv, NothingElseLost, Members
  <1>8. PostedIsRegistered' /\ ReplacedIsLast'
    BY <1>1 DEF AdapterInv, PostedIsRegistered, ReplacedIsLast
  <1>9. LoadOffset(eve)' = LoadOffset(eve)
    BY <1>2 DEF LoadOffset
  <1>10. ReaderInLog'
    BY <1>1, <1>2, <1>9 DEF AdapterInv, ReaderInLog, Reading
  <1>11. ReadIsKept'
    BY <1>1, <1>2, <1>6, <1>9 DEF AdapterInv, ReadIsKept, Reading, Start
  <1> QED BY <1>1, <1>3, <1>5, <1>7, <1>8, <1>10, <1>11, SameLog, SameOffset
          DEF AdapterInv

(* What Suricata appends comes after what the log holds.                   *)
LEMMA LogGrows ==
    ASSUME AdapterInv, NEW k \in Alerts, NEW begins \in BOOLEAN,
           NEW pieces \in Seq(Pieces), pieces # <<>>,
           \A q \in DOMAIN pieces, x \in Alerts :
              pieces[q] = <<x, "start">> <=> begins /\ q = 1 /\ x = k,
           Logged(k, pieces), eve' = eve
    PROVE  /\ files' \in [Inodes -> Seq(Pieces)]
           /\ Len(files[eve]) < Len(files'[eve])
           /\ Len(files'[eve]) \in Nat
           /\ \A f \in Inodes, q \in Nat, x \in Alerts :
                 Start(f, q, x)' <=>
                    \/ Start(f, q, x)
                    \/ begins /\ f = eve /\ q = Len(files[eve]) + 1 /\ x = k
  <1>1. eve \in Inodes /\ files \in [Inodes -> Seq(Pieces)]
    BY DEF AdapterInv, AdapterTypeOK
  <1> DEFINE old == files[eve]
             new == old \o pieces
  <1>2. /\ old \in Seq(Pieces) /\ Len(old) \in Nat
        /\ Len(pieces) \in Nat \ {0} /\ DOMAIN pieces = 1 .. Len(pieces)
    BY <1>1
  <1>3. /\ new \in Seq(Pieces)
        /\ Len(new) = Len(old) + Len(pieces)
        /\ \A q \in 1 .. Len(old) : new[q] = old[q]
        /\ \A q \in 1 .. Len(pieces) : new[Len(old) + q] = pieces[q]
    BY <1>2
  <1>4. /\ files' \in [Inodes -> Seq(Pieces)]
        /\ files'[eve] = new
        /\ \A f \in Inodes : f # eve => files'[f] = files[f]
    BY <1>1, <1>3 DEF Logged
  <1>5. ASSUME NEW f \in Inodes, NEW q \in Nat, NEW x \in Alerts
        PROVE  Start(f, q, x)' <=>
                  \/ Start(f, q, x)
                  \/ begins /\ f = eve /\ q = Len(old) + 1 /\ x = k
    <2>1. CASE f # eve
      BY <1>4, <2>1 DEF Start
    <2>2. CASE f = eve /\ q \in 1 .. Len(old)
      <3>1. q \in 1 .. Len(new) /\ q # Len(old) + 1
        BY <1>2, <1>3, <2>2
      <3> QED BY <1>3, <1>4, <2>2, <3>1 DEF Start
    <2>3. CASE f = eve /\ q > Len(old)
      <3>1. ~Start(f, q, x)
        BY <1>2, <2>3 DEF Start
      <3>2. CASE q > Len(new)
        <4>1. q # Len(old) + 1
          BY <1>2, <1>3, <3>2
        <4>2. ~Start(f, q, x)'
          BY <1>2, <1>3, <1>4, <2>3, <3>2 DEF Start
        <4> QED BY <3>1, <4>1, <4>2
      <3>3. CASE q <= Len(new)
        <4>1. q - Len(old) \in 1 .. Len(pieces) /\ q \in 1 .. Len(new)
          BY <1>2, <1>3, <2>3, <3>3
        <4>2. new[Len(old) + (q - Len(old))] = pieces[q - Len(old)]
          BY <1>3, <4>1
        <4>3. new[q] = pieces[q - Len(old)]
          <5>1. Len(old) + (q - Len(old)) = q
            BY <1>2
          <5> QED BY <4>2, <5>1
        <4>4. Start(f, q, x)' <=> pieces[q - Len(old)] = <<x, "start">>
          BY <1>4, <2>3, <4>1, <4>3 DEF Start
        <4>5. Start(f, q, x)' <=> begins /\ q - Len(old) = 1 /\ x = k
          BY <1>2, <4>1, <4>4
        <4> QED BY <1>2, <2>3, <3>1, <4>5
      <3> QED BY <1>2, <1>3, <3>2, <3>3
    <2>4. CASE q = 0
      BY <1>2, <2>4 DEF Start
    <2> QED BY <1>2, <2>1, <2>2, <2>3, <2>4
  <1>6. Len(old) < Len(new) /\ Len(new) \in Nat
    BY <1>2, <1>3
  <1> QED BY <1>4, <1>5, <1>6

(* A reader is still within the log, and what was written behind it is     *)
(* noted.                                                                  *)
LEMMA ReaderInGrownLog ==
    ASSUME AdapterInv, NEW k \in Alerts, NEW begins \in BOOLEAN,
           NEW pieces \in Seq(Pieces), Logged(k, pieces),
           UNCHANGED <<eve, state, stale, queue, quarantine, registered, run,
                       torn, outrun>>,
           files' \in [Inodes -> Seq(Pieces)],
           Len(files[eve]) < Len(files'[eve]),
           Len(files'[eve]) \in Nat,
           \A f \in Inodes, q \in Nat, x \in Alerts :
              Start(f, q, x)' <=>
                 \/ Start(f, q, x)
                 \/ begins /\ f = eve /\ q = Len(files[eve]) + 1 /\ x = k
    PROVE  /\ OffsetInLog' /\ ReaderInLog' /\ ReadIsKept'
           /\ PostedIsRegistered' /\ ReplacedIsLast'
           /\ passed \subseteq passed' /\ passed' \subseteq passed \cup {k}
  <1>1. /\ eve \in Inodes
        /\ LoadOffset(eve) \in Nat /\ Len(files[eve]) \in Nat
        /\ state # Absent => state.offset \in Nat
        /\ run # Absent => run.pos \in Nat
    BY LoadOffsetInLog DEF AdapterInv, AdapterTypeOK, Runs, States
  <1>2. /\ LoadOffset(eve) <= LoadOffset(eve)'
        /\ LoadOffset(eve)' \in Nat
        /\ ~stale => LoadOffset(eve)' = LoadOffset(eve)
    BY <1>1 DEF LoadOffset, AdapterInv, OffsetInLog
  <1>3. OffsetInLog'
    BY <1>1 DEF AdapterInv, OffsetInLog
  <1>4. ReaderInLog'
    BY <1>1, <1>2 DEF AdapterInv, ReaderInLog, Reading
  <1>5. /\ passed \subseteq passed' /\ passed' \subseteq passed \cup {k}
        /\ Reading /\ run.replaced /\ run.inode = eve
              /\ Len(files[eve]) < run.pos => k \in passed'
    BY DEF Logged
  <1>6. \A x : Kept(x)' <=> Kept(x)
    BY DEF Kept, Queued, Members
  <1>7. ASSUME Reading, run.inode = eve, NEW q \in Nat, NEW x \in Alerts,
               Start(eve, q, x)', q <= run.pos
        PROVE  \/ Kept(x)
               \/ run.replaced /\ x \in passed'
               \/ ~run.replaced /\ q <= LoadOffset(eve)'
    <2>1. CASE Start(eve, q, x)
      <3>1. \/ Kept(x)
            \/ run.replaced /\ x \in passed
            \/ ~run.replaced /\ q <= LoadOffset(eve)
        BY <1>7, <2>1 DEF AdapterInv, ReadIsKept
      <3> QED BY <1>1, <1>2, <1>5, <3>1
    <2>2. CASE q = Len(files[eve]) + 1 /\ x = k
      <3>1. Len(files[eve]) < run.pos
        BY <1>1, <1>7, <2>2 DEF Reading
      <3>2. run.replaced
        BY <1>1, <1>7, <3>1 DEF AdapterInv, ReaderInLog, Reading
      <3> QED BY <1>5, <1>7, <2>2, <3>1, <3>2
    <2> QED BY <1>1, <1>7, <2>1, <2>2
  <1>8. ReadIsKept'
    BY <1>6, <1>7 DEF ReadIsKept, Reading
  <1>9. PostedIsRegistered' /\ ReplacedIsLast'
    BY DEF AdapterInv, PostedIsRegistered, ReplacedIsLast
  <1> QED BY <1>3, <1>4, <1>5, <1>8, <1>9

(* A new alert is later than all others, in the log as in their order.     *)
LEMMA LineBegins ==
    ASSUME AdapterInv, NEW k \in Alerts, k \notin Members(written),
           NEW pieces \in Seq(Pieces), pieces # <<>>,
           \A q \in DOMAIN pieces, x \in Alerts :
              pieces[q] = <<x, "start">> <=> q = 1 /\ x = k,
           Logged(k, pieces),
           written' = Append(written, k),
           unfinished' \in {Absent, k},
           UNCHANGED <<eve, store, registered, run, torn>>,
           LogStep
    PROVE  AdapterInv'
  <1> DEFINE n == Len(written) + 1
             end == Len(files[eve]) + 1
  <1>1. UNCHANGED <<eve, state, stale, queue, unreadable, quarantine,
                    registered, run, torn, outrun>>
    BY DEF store, saved
  <1>2. /\ files' \in [Inodes -> Seq(Pieces)]
        /\ Len(files[eve]) < Len(files'[eve])
        /\ Len(files'[eve]) \in Nat
        /\ \A f \in Inodes, q \in Nat, x \in Alerts :
              Start(f, q, x)' <=>
                 \/ Start(f, q, x)
                 \/ f = eve /\ q = end /\ x = k
    <2>1. PICK begins \in BOOLEAN : begins
      OBVIOUS
    <2>2. \A q \in DOMAIN pieces, x \in Alerts :
             pieces[q] = <<x, "start">> <=> begins /\ q = 1 /\ x = k
      BY <2>1
    <2>3. /\ files' \in [Inodes -> Seq(Pieces)]
          /\ Len(files[eve]) < Len(files'[eve])
          /\ Len(files'[eve]) \in Nat
          /\ \A f \in Inodes, q \in Nat, x \in Alerts :
                Start(f, q, x)' <=>
                   \/ Start(f, q, x)
                   \/ begins /\ f = eve /\ q = end /\ x = k
      BY <1>1, <2>2, LogGrows
    <2> QED BY <2>1, <2>3
  <1>3. /\ OffsetInLog' /\ ReaderInLog' /\ ReadIsKept'
        /\ PostedIsRegistered' /\ ReplacedIsLast'
        /\ passed \subseteq passed' /\ passed' \subseteq passed \cup {k}
    <2>1. \A f \in Inodes, q \in Nat, x \in Alerts :
             Start(f, q, x)' <=>
                \/ Start(f, q, x)
                \/ TRUE /\ f = eve /\ q = Len(files[eve]) + 1 /\ x = k
      BY <1>2
    <2> QED BY <1>1, <1>2, <2>1, ReaderInGrownLog
  <1>4. /\ written \in Seq(Alerts) /\ Len(written) \in Nat
        /\ written' \in Seq(Alerts)
        /\ DOMAIN written' = DOMAIN written \cup {n}
        /\ written'[n] = k
        /\ \A i \in DOMAIN written : i < n /\ written'[i] = written[i]
        /\ Members(written') = Members(written) \cup {k}
        /\ Members(written)' = Members(written')
        /\ \A i \in DOMAIN written : written[i] \in Members(written)
        /\ DOMAIN written \subseteq Nat
        /\ Members(written) \subseteq Alerts
    BY MembersOfAppend DEF AdapterInv, AdapterTypeOK, Members
  <1>5. \A x : Kept(x)' <=> Kept(x)
    BY <1>1 DEF Kept, Queued, Members
  <1>6. /\ NothingElseLost'
        /\ missed \subseteq missed'
        /\ missed' \subseteq Members(written')
    BY <1>4, <1>5, LossesAreNoted
  <1>7. \A x : Past(x) => Past(x)'
    BY <1>1, <1>3, <1>6 DEF Past
  <1>8. AdapterTypeOK'
    <2>1. Members(queue)' = Members(queue)
      BY <1>1 DEF Members
    <2>2. unfinished' \in Alerts \cup {Absent}
      OBVIOUS
    <2>3. /\ torn \subseteq Members(written')
          /\ missed' \subseteq Members(written')
          /\ passed' \subseteq Members(written')
      BY <1>3, <1>4, <1>6 DEF AdapterInv, AdapterTypeOK
    <2> QED BY <1>1, <1>2, <1>4, <2>1, <2>2, <2>3 DEF AdapterInv, AdapterTypeOK
  <1>9. LinesAreLogged'
    BY <1>2, <1>4 DEF AdapterInv, LinesAreLogged
  <1>10. QueuedIsLogged'
    <2>1. Members(queue)' = Members(queue)
      BY <1>1 DEF Members
    <2> QED BY <1>1, <1>4, <2>1 DEF AdapterInv, QueuedIsLogged
  <1>11. WrittenOnce'
    BY <1>4 DEF AdapterInv, WrittenOnce
  <1>12. \A f \in Inodes, q \in Nat : ~Start(f, q, k)
    BY DEF AdapterInv, LinesAreLogged
  <1>13. eve \in Inodes /\ Len(files[eve]) \in Nat
         /\ \A q \in Nat : \A x : Start(eve, q, x) => q < end
    BY LoadOffsetInLog DEF AdapterInv, AdapterTypeOK, Start
  <1>14. LogInOrder'
    <2>1. SUFFICES ASSUME NEW f \in Inodes, NEW p \in Nat, NEW q \in Nat,
                          NEW i \in DOMAIN written', NEW j \in DOMAIN written',
                          i < j,
                          \/ Start(f, p, written'[i])
                          \/ f = eve /\ p = end /\ written'[i] = k,
                          \/ Start(f, q, written'[j])
                          \/ f = eve /\ q = end /\ written'[j] = k
                   PROVE  p < q
      <3>1. \A i \in DOMAIN written' : written'[i] \in Alerts
        BY <1>4
      <3> QED BY <1>2, <3>1 DEF LogInOrder
    <2>2. i \in DOMAIN written /\ written'[i] = written[i] /\ written[i] # k
      BY <1>4, <2>1
    <2>3. Start(f, p, written[i])
      BY <2>1, <2>2
    <2>4. CASE j \in DOMAIN written
      <3>1. written'[j] = written[j] /\ written[j] # k
        BY <1>4, <2>4
      <3> QED BY <2>1, <2>2, <2>3, <2>4, <3>1 DEF AdapterInv, LogInOrder
    <2>5. CASE j = n
      <3>1. f = eve /\ q = end
        BY <1>4, <1>12, <2>1, <2>5
      <3> QED BY <1>13, <2>3, <3>1
    <2> QED BY <1>4, <2>4, <2>5
  <1>15. FormerFilesFirst'
    <2>1. SUFFICES ASSUME NEW f \in Inodes \ {eve},
                          NEW p \in Nat, NEW q \in Nat,
                          NEW i \in DOMAIN written', NEW j \in DOMAIN written',
                          Start(f, p, written'[i]),
                          \/ Start(eve, q, written'[j])
                          \/ written'[j] = k
                   PROVE  i < j
      <3>1. \A i \in DOMAIN written' : written'[i] \in Alerts
        BY <1>4
      <3> QED BY <1>1, <1>2, <1>13, <3>1 DEF FormerFilesFirst
    <2>2. i \in DOMAIN written /\ written'[i] = written[i]
      BY <1>4, <1>12, <2>1
    <2>3. CASE j \in DOMAIN written
      <3>1. written'[j] = written[j] /\ written[j] # k
        BY <1>4, <2>3
      <3> QED BY <2>1, <2>2, <2>3, <3>1 DEF AdapterInv, FormerFilesFirst
    <2>4. CASE j = n
      BY <1>4, <2>2, <2>4
    <2> QED BY <1>4, <2>3, <2>4
  <1>16. QueueInOrder'
    <2>1. SUFFICES ASSUME NEW b \in DOMAIN queue,
                          NEW i \in DOMAIN written', NEW j \in DOMAIN written',
                          queue[b] = written'[j], i < j
                   PROVE  \/ Past(written[i])'
                          \/ \E a \in DOMAIN queue :
                                a < b /\ queue[a] = written'[i]
      BY <1>1 DEF QueueInOrder
    <2>2. queue[b] \in Members(written)
      BY DEF AdapterInv, QueuedIsLogged, Members
    <2>3. j \in DOMAIN written
      BY <1>4, <2>1, <2>2
    <2>4. i \in DOMAIN written /\ written'[i] = written[i]
          /\ written'[j] = written[j]
      BY <1>4, <2>1, <2>3
    <2>5. \/ Past(written[i])
          \/ \E a \in DOMAIN queue : a < b /\ queue[a] = written[i]
      BY <2>1, <2>3, <2>4 DEF AdapterInv, QueueInOrder
    <2> QED BY <1>7, <2>4, <2>5
  <1>17. InOrder'
    <2>1. SUFFICES ASSUME NEW i \in DOMAIN written', NEW j \in DOMAIN written',
                          i < j, written'[j] \in registered
                   PROVE  Past(written[i])'
      BY <1>1 DEF InOrder, Past
    <2>2. written'[j] \in Members(written)
      BY <2>1 DEF AdapterInv, QueuedIsLogged
    <2>3. j \in DOMAIN written
      BY <1>4, <2>1, <2>2
    <2>4. i \in DOMAIN written /\ written'[i] = written[i]
          /\ written'[j] = written[j]
      BY <1>4, <2>1, <2>3
    <2>5. Past(written[i])
      BY <2>1, <2>3, <2>4 DEF AdapterInv, InOrder, Past
    <2> QED BY <1>7, <2>4, <2>5
  <1> QED BY <1>3, <1>6, <1>8, <1>9, <1>10, <1>11, <1>14, <1>15, <1>16, <1>17
          DEF AdapterInv

LEMMA LinePieces ==
    ASSUME NEW k \in Alerts,
           NEW pieces \in { << <<k, "start">>, <<k, "end">> >>,
                            << <<k, "start">> >> }
    PROVE  /\ pieces \in Seq(Pieces) /\ pieces # <<>>
           /\ \A q \in DOMAIN pieces, x \in Alerts :
                 pieces[q] = <<x, "start">> <=> q = 1 /\ x = k
  <1>1. CASE pieces = << <<k, "start">>, <<k, "end">> >>
    <2>1. pieces \in Seq(Pieces) /\ pieces # <<>> /\ DOMAIN pieces = 1 .. 2
      BY <1>1 DEF Pieces
    <2>2. pieces[1] = <<k, "start">> /\ pieces[2] = <<k, "end">>
      BY <1>1
    <2>3. ASSUME NEW q \in DOMAIN pieces, NEW x \in Alerts
          PROVE  pieces[q] = <<x, "start">> <=> q = 1 /\ x = k
      <3>1. CASE q = 1
        BY <2>2, <3>1
      <3>2. CASE q = 2
        BY <2>2, <3>2
      <3> QED BY <2>1, <2>3, <3>1, <3>2
    <2> QED BY <2>1, <2>3
  <1>2. CASE pieces = << <<k, "start">> >>
    <2>1. pieces \in Seq(Pieces) /\ pieces # <<>> /\ DOMAIN pieces = 1 .. 1
      BY <1>2 DEF Pieces
    <2>2. pieces[1] = <<k, "start">>
      BY <1>2
    <2> QED BY <2>1, <2>2
  <1> QED BY <1>1, <1>2

LEMMA WriteLineKeeps ==
    ASSUME AdapterInv, NEW k \in Alerts, WriteLine(k) \/ StartLine(k)
    PROVE  AdapterInv'
  <1>1. PICK pieces \in { << <<k, "start">>, <<k, "end">> >>,
                          << <<k, "start">> >> } : Logged(k, pieces)
    BY DEF WriteLine, StartLine
  <1>2. /\ k \notin Members(written)
        /\ written' = Append(written, k)
        /\ unfinished' \in {Absent, k}
        /\ UNCHANGED <<eve, store, registered, run, torn>>
        /\ LogStep
    BY DEF WriteLine, StartLine
  <1>3. /\ pieces \in Seq(Pieces) /\ pieces # <<>>
        /\ \A q \in DOMAIN pieces, x \in Alerts :
              pieces[q] = <<x, "start">> <=> q = 1 /\ x = k
    BY LinePieces
  <1> QED BY <1>1, <1>2, <1>3, LineBegins

LEMMA EndLineKeeps ==
    ASSUME AdapterInv, EndLine
    PROVE  AdapterInv'
  <1> DEFINE pieces == << <<unfinished, "end">> >>
  <1>1. /\ unfinished \in Alerts /\ unfinished \in Members(written)
        /\ Logged(unfinished, pieces)
        /\ unfinished' = Absent
        /\ UNCHANGED <<eve, state, stale, queue, unreadable, quarantine,
                       registered, run, written, torn, outrun>>
        /\ LogStep
    BY DEF EndLine, store, saved, AdapterInv, AdapterTypeOK, LinesAreLogged
  <1>2. pieces \in Seq(Pieces) /\ pieces # <<>> /\ DOMAIN pieces = 1 .. 1
    BY <1>1 DEF Pieces
  <1>3. \A q \in DOMAIN pieces : \A x : pieces[q] # <<x, "start">>
    BY <1>2
  <1> HIDE DEF pieces
  <1>4. PICK begins \in BOOLEAN : ~begins
    OBVIOUS
  <1>5. \A q \in DOMAIN pieces, x \in Alerts :
           pieces[q] = <<x, "start">> <=> begins /\ q = 1 /\ x = unfinished
    BY <1>3, <1>4
  <1>6. /\ files' \in [Inodes -> Seq(Pieces)]
        /\ Len(files[eve]) < Len(files'[eve])
        /\ Len(files'[eve]) \in Nat
        /\ \A f \in Inodes, q \in Nat, x \in Alerts :
              Start(f, q, x)' <=>
                 \/ Start(f, q, x)
                 \/ begins /\ f = eve /\ q = Len(files[eve]) + 1
                           /\ x = unfinished
    <2>1. PICK k : k = unfinished
      OBVIOUS
    <2> QED BY <1>1, <1>2, <1>5, <2>1, LogGrows
  <1>7. /\ OffsetInLog' /\ ReaderInLog' /\ ReadIsKept'
        /\ PostedIsRegistered' /\ ReplacedIsLast'
        /\ passed \subseteq passed'
        /\ passed' \subseteq passed \cup {unfinished}
    BY <1>1, <1>2, <1>6, ReaderInGrownLog
  <1>8. \A f \in Inodes, q \in Nat, x \in Alerts :
           Start(f, q, x)' <=> Start(f, q, x)
    BY <1>4, <1>6
  <1>9. \A x : Kept(x) => Kept(x)'
    BY <1>1 DEF Kept, Queued, Members
  <1>10. /\ Members(written)' = Members(written)
         /\ Members(queue)' = Members(queue)
    BY <1>1 DEF Members
  <1>11. /\ NothingElseLost'
         /\ missed \subseteq missed'
         /\ missed' \subseteq Members(written')
    BY <1>1, <1>9, LossesAreNoted
  <1>12. AdapterTypeOK'
    <2>1. passed' \subseteq Members(written)
      BY <1>1, <1>7 DEF AdapterInv, AdapterTypeOK
    <2> QED BY <1>1, <1>6, <1>10, <1>11, <2>1 DEF AdapterInv, AdapterTypeOK
  <1>13. \A x : Past(x) => Past(x)'
    BY <1>1, <1>7, <1>11 DEF Past
  <1>14. QueuedIsLogged' /\ QueueInOrder' /\ InOrder'
    BY <1>1, <1>13, SameOrder
  <1>15. LinesAreLogged'
    BY <1>1, <1>8, <1>10 DEF AdapterInv, LinesAreLogged
  <1>16. WrittenOnce'
    BY <1>1 DEF AdapterInv, WrittenOnce
  <1>17. \A i \in DOMAIN written : written[i] \in Alerts
    BY DEF AdapterInv, AdapterTypeOK
  <1>18. LogInOrder'
    BY <1>1, <1>8, <1>17 DEF AdapterInv, LogInOrder
  <1>19. FormerFilesFirst'
    <2>1. eve \in Inodes
      BY DEF AdapterInv, AdapterTypeOK
    <2> QED BY <1>1, <1>8, <1>17, <2>1 DEF AdapterInv, FormerFilesFirst
  <1> QED BY <1>7, <1>11, <1>12, <1>14, <1>15, <1>16, <1>18, <1>19
          DEF AdapterInv

(* A rotation begins an empty log: every other file is a former one.       *)
LEMMA RotateKeeps ==
    ASSUME AdapterInv, NEW new \in Inodes, Rotate(new)
    PROVE  AdapterInv'
  <1>1. /\ Reading /\ run.inode = new => new = eve
        /\ eve' = new
        /\ files' = [files EXCEPT ![new] = <<>>]
        /\ run' = IF Reading THEN [run EXCEPT !.replaced = TRUE] ELSE run
        /\ stale' = (state # Absent /\ state.inode = new)
        /\ UNCHANGED <<unfinished, state, queue, unreadable, quarantine,
                       registered, written, passed, torn, outrun>>
        /\ LogStep
    BY DEF Rotate
  <1>2. files \in [Inodes -> Seq(Pieces)]
    BY DEF AdapterInv, AdapterTypeOK
  <1>3. /\ files' \in [Inodes -> Seq(Pieces)]
        /\ files'[new] = <<>>
        /\ \A f \in Inodes : f # new => files'[f] = files[f]
    BY <1>1, <1>2
  <1>4. \A q \in Nat, x \in Alerts : ~Start(new, q, x)'
    BY <1>3 DEF Start
  <1>5. \A f \in Inodes, q \in Nat, x \in Alerts :
           Start(f, q, x)' => Start(f, q, x)
    BY <1>3, <1>4 DEF Start
  <1>6. /\ run' \in Runs \cup {Absent}
        /\ Reading' => Reading /\ run'.replaced /\ run'.inode = run.inode
        /\ ~Reading => run' = run
        /\ Reading => run' # Absent /\ run'.at = "reading"
    BY <1>1, AbsentAssumption DEF AdapterInv, AdapterTypeOK, Reading, Runs
  <1>7. \A x : Kept(x) => Kept(x)'
    BY <1>1 DEF Kept, Queued, Members
  <1>8. Members(written)' = Members(written) /\ Members(queue)' = Members(queue)
    BY <1>1 DEF Members
  <1>9. /\ NothingElseLost'
        /\ missed \subseteq missed'
        /\ missed' \subseteq Members(written')
    BY <1>1, <1>7, LossesAreNoted
  <1>10. AdapterTypeOK'
    BY <1>1, <1>3, <1>6, <1>8, <1>9 DEF AdapterInv, AdapterTypeOK
  <1>11. \A x : Past(x) => Past(x)'
    BY <1>1, <1>9 DEF Past
  <1>12. QueuedIsLogged' /\ QueueInOrder' /\ InOrder'
    BY <1>1, <1>11, SameOrder
  <1>13. LinesAreLogged'
    BY <1>1, <1>5, <1>8 DEF AdapterInv, LinesAreLogged
  <1>14. WrittenOnce'
    BY <1>1 DEF AdapterInv, WrittenOnce
  <1>15. \A i \in DOMAIN written : written[i] \in Alerts
    BY DEF AdapterInv, AdapterTypeOK
  <1>16. LogInOrder'
    BY <1>1, <1>5, <1>15 DEF AdapterInv, LogInOrder
  <1>17. FormerFilesFirst'
    BY <1>1, <1>4, <1>15 DEF FormerFilesFirst
  <1>18. OffsetInLog'
    BY <1>1 DEF OffsetInLog
  <1>19. ReaderInLog'
    BY <1>6 DEF ReaderInLog
  <1>20. ReadIsKept'
    BY <1>1, <1>4, <1>6 DEF ReadIsKept
  <1>21. PostedIsRegistered' /\ ReplacedIsLast'
    <2>1. CASE Reading
      BY <1>6, <2>1 DEF PostedIsRegistered, ReplacedIsLast
    <2>2. CASE ~Reading
      BY <1>1, <1>6, <2>2 DEF AdapterInv, PostedIsRegistered, ReplacedIsLast
    <2> QED BY <2>1, <2>2
  <1> QED BY <1>9, <1>10, <1>12, <1>13, <1>14, <1>16, <1>17, <1>18, <1>19,
             <1>20, <1>21 DEF AdapterInv

-----------------------------------------------------------------------------

LEMMA AdapterBegins ==
    ASSUME AdapterInit
    PROVE  AdapterInv
  <1>1. AdapterTypeOK
    BY SuricataAssumption DEF AdapterInit, AdapterTypeOK, Members
  <1>2. \A f \in Inodes, q \in Nat : \A k : ~Start(f, q, k)
    BY DEF AdapterInit, Start
  <1>3. Members(written) = {} /\ Members(queue) = {}
    BY DEF AdapterInit, Members
  <1>4. LinesAreLogged /\ QueuedIsLogged
    BY <1>2, <1>3 DEF AdapterInit, LinesAreLogged, QueuedIsLogged
  <1>5. /\ PostedIsRegistered /\ ReplacedIsLast /\ OffsetInLog
        /\ ReaderInLog /\ ReadIsKept
    BY DEF AdapterInit, PostedIsRegistered, ReplacedIsLast, OffsetInLog,
           ReaderInLog, ReadIsKept, Reading
  <1>6. /\ NothingElseLost /\ WrittenOnce /\ LogInOrder /\ FormerFilesFirst
        /\ QueueInOrder /\ InOrder
    BY <1>2, <1>3 DEF AdapterInit, NothingElseLost, WrittenOnce, LogInOrder,
                     FormerFilesFirst, QueueInOrder, InOrder
  <1> QED BY <1>1, <1>4, <1>5, <1>6 DEF AdapterInv

LEMMA AdapterGoesOn ==
    ASSUME AdapterInv, [AdapterNext]_adapterVars
    PROVE  AdapterInv'
  <1>1. CASE \E readLog \in BOOLEAN : StartRun(readLog)
    BY <1>1, StartRunKeeps
  <1>2. CASE FlushStep
    BY <1>2, PostKeeps, UnlinkKeeps, QuarantineKeeps, EndFlushKeeps
       DEF FlushStep
  <1>3. CASE ReadStep
    BY <1>3, EnqueueKeeps, DuplicateKeeps, EndKeeps, FragmentKeeps,
       SaveOffsetKeeps DEF ReadStep
  <1>4. CASE Environment
    BY <1>4, DeliveryFailsKeeps, EndKeeps, PowerCutKeeps, CorruptKeeps,
       WriteLineKeeps, EndLineKeeps, RotateKeeps DEF Environment
  <1>5. CASE UNCHANGED adapterVars
    BY <1>5, CorruptKeeps
  <1> QED BY <1>1, <1>2, <1>3, <1>4, <1>5 DEF AdapterNext

LEMMA AdapterInvariant == AdapterSpec => []AdapterInv
  BY AdapterBegins, AdapterGoesOn, PTL DEF AdapterSpec

(* The adapter's state stays within its types: the queue never grows past  *)
(* its limit, and holds no alert twice (cyberpme-suricata, enqueue).       *)
THEOREM AdapterTyped == AdapterSpec => []AdapterTypeOK
  <1>1. AdapterInv => AdapterTypeOK
    BY DEF AdapterInv
  <1> QED BY <1>1, AdapterInvariant, PTL

(* However often the process is killed, the offset lost, an entry damaged, *)
(* the queue full or the backend out of reach, every alert that was logged *)
(* is recorded, queued or still to be read, unless it was read half        *)
(* written, damaged or rotated away.                                       *)
THEOREM AlertsAreNotLost == AdapterSpec => []NothingElseLost
  <1>1. AdapterInv => NothingElseLost
    BY DEF AdapterInv
  <1> QED BY <1>1, AdapterInvariant, PTL

(* The backend records the alerts in the order in which Suricata logged    *)
(* them, whatever it refuses or is too late to answer.                     *)
THEOREM AlertsInOrder == AdapterSpec => []InOrder
  <1>1. AdapterInv => InOrder
    BY DEF AdapterInv
  <1> QED BY <1>1, AdapterInvariant, PTL

-----------------------------------------------------------------------------
(* What each fault can take away, and that nothing else can.               *)

Unrotated ==
    "rotate" \notin Faults =>
        /\ ~stale
        /\ run # Absent => ~run.replaced
        /\ missed = {} /\ passed = {}

(* Without half a line the files hold whole ones, and offsets and readers  *)
(* are between two of them.                                                *)
Even(n) == \E m \in Nat : n = 2 * m

Whole(f) ==
    /\ Even(Len(f))
    /\ \A m \in Nat : 2 * m < Len(f) =>
          \E k \in Alerts : /\ f[2 * m + 1] = <<k, "start">>
                            /\ f[2 * m + 2] = <<k, "end">>

WholeLines ==
    "half" \notin Faults =>
        /\ unfinished = Absent /\ torn = {}
        /\ \A i \in Inodes : Whole(files[i])
        /\ run # Absent => Even(run.pos)
        /\ state # Absent => Even(state.offset)

Undamaged == "corrupt" \notin Faults => unreadable = {} /\ quarantine = {}

Listed == "clock" \notin Faults => outrun = {}

(* An alert is read half written only where Suricata writes half a line at *)
(* a time, set aside only where the queue's files are damaged, and out of  *)
(* reach only where the log is rotated; and it is listed behind one queued *)
(* after it only where the clock does not tell the two apart.              *)
LossesHaveCauses ==
    /\ missed \cup passed # {} => "rotate" \in Faults
    /\ torn # {} => "half" \in Faults
    /\ quarantine # {} => "corrupt" \in Faults
    /\ outrun # {} => "clock" \in Faults

(* An alert that was logged is recorded, queued or still to be read, and   *)
(* recorded after those that came before it, but for those the listing has *)
(* put behind a later one: none, where every file has a stamp of its own.  *)
NoneLost ==
    /\ \A k \in Members(written) : k \in registered \/ Queued(k) \/ Unread(k)
    /\ \A i, j \in DOMAIN written :
          i < j /\ written[j] \in registered =>
              written[i] \in registered \cup outrun
    /\ "clock" \notin Faults => outrun = {}

ProcessStep ==
    \/ \E readLog \in BOOLEAN : StartRun(readLog)
    \/ FlushStep \/ ReadStep
    \/ DeliveryFails \/ Abort \/ PowerCut
    \/ \E k \in Alerts : Corrupt(k)

LEMMA UnrotatedProcess ==
    ASSUME AdapterInv, Unrotated, "rotate" \notin Faults, ProcessStep
    PROVE  Unrotated'
  <1>1. /\ ~stale /\ missed = {} /\ passed = {} /\ ~Rotated
        /\ run # Absent => run \in Runs /\ ~run.replaced
    BY DEF Unrotated, Rotated, AdapterInv, AdapterTypeOK
  <1>2. OwnStep => missed' = {}
    BY <1>1 DEF OwnStep
  <1>3. ASSUME NEW readLog \in BOOLEAN, StartRun(readLog)
        PROVE  Unrotated'
    BY <1>1, <1>3 DEF StartRun, log, store, saved, Unrotated
  <1>4. CASE Post
    BY <1>1, <1>2, <1>4
       DEF Post, Delivering, log, store, saved, Unrotated, Runs
  <1>5. CASE DeliveryFails
    <2> DEFINE r == [run EXCEPT !.failed = TRUE]
    <2>1. run # Absent /\ run' = AfterFlush(r) /\ OwnStep
          /\ stale' = stale /\ passed' = passed
      BY <1>5 DEF DeliveryFails, Delivering, log, store, saved
    <2>2. r \in Runs /\ ~r.replaced
      BY <1>1, <2>1 DEF Runs
    <2>3. run' # Absent => ~run'.replaced
      BY <2>1, <2>2, AfterFlushRun DEF AdapterInv
    <2> QED BY <1>1, <1>2, <2>1, <2>3 DEF Unrotated
  <1>6. CASE Unlink
    BY <1>1, <1>2, <1>6 DEF Unlink, log, saved, Unrotated, Runs
  <1>7. CASE Quarantine
    BY <1>1, <1>2, <1>7 DEF Quarantine, Delivering, log, saved, Unrotated, Runs
  <1>8. CASE EndFlush
    <2>1. run # Absent /\ run' = AfterFlush(run) /\ OwnStep
          /\ stale' = stale /\ passed' = passed
      BY <1>8 DEF EndFlush, log, store, saved
    <2>2. run' # Absent => ~run'.replaced
      BY <1>1, <2>1, AfterFlushRun DEF AdapterInv
    <2> QED BY <1>1, <1>2, <2>1, <2>2 DEF Unrotated
  <1>9. CASE \E k \in Alerts : Enqueue(k) \/ Duplicate(k)
    BY <1>1, <1>2, <1>9
       DEF Enqueue, Duplicate, Reading, log, store, saved, Unrotated, Runs
  <1>10. CASE (\E k \in Alerts : QueueFull(k)) \/ Abort
    BY <1>1, <1>2, <1>10 DEF QueueFull, Abort, log, store, saved, Unrotated
  <1>11. CASE Fragment
    BY <1>1, <1>2, <1>11
       DEF Fragment, Reading, log, store, saved, Unrotated, Runs
  <1>12. CASE SaveOffset
    <2>1. run # Absent /\ run' = AfterReading(run) /\ OwnStep
          /\ stale' = (run.replaced /\ run.inode = eve) /\ passed' = passed
      BY <1>12 DEF SaveOffset, Reading, log
    <2>2. run' # Absent => ~run'.replaced
      BY <1>1, <2>1, AfterReadingRun DEF AdapterInv
    <2> QED BY <1>1, <1>2, <2>1, <2>2 DEF Unrotated
  <1>13. CASE PowerCut
    BY <1>1, <1>2, <1>13 DEF PowerCut, log, Unrotated
  <1>14. CASE \E k \in Alerts : Corrupt(k)
    BY <1>1, <1>14 DEF Corrupt, log, saved, Unrotated
  <1> QED BY <1>3, <1>4, <1>5, <1>6, <1>7, <1>8, <1>9, <1>10, <1>11, <1>12,
             <1>13, <1>14 DEF ProcessStep, FlushStep, ReadStep

(* What is appended to a log that nobody rotates is found by its reader.   *)
LEMMA NewIsUnread ==
    ASSUME AdapterInv, Unrotated, "rotate" \notin Faults,
           NEW k \in Alerts, NEW begins \in BOOLEAN,
           NEW pieces \in Seq(Pieces), pieces # <<>>,
           \A q \in DOMAIN pieces, x \in Alerts :
              pieces[q] = <<x, "start">> <=> begins /\ q = 1 /\ x = k,
           Logged(k, pieces), LogStep,
           Members(written') \subseteq Alerts,
           \A x \in Members(written') : x \in Members(written) \/ (begins /\ x = k),
           UNCHANGED <<eve, state, stale, run>>
    PROVE  Unrotated'
  <1>1. /\ ~stale /\ missed = {} /\ passed = {}
        /\ run # Absent => ~run.replaced
    BY DEF Unrotated
  <1>2. /\ Len(files[eve]) < Len(files'[eve])
        /\ Len(files'[eve]) \in Nat
        /\ \A f \in Inodes, q \in Nat, x \in Alerts :
              Start(f, q, x)' <=>
                 \/ Start(f, q, x)
                 \/ begins /\ f = eve /\ q = Len(files[eve]) + 1 /\ x = k
    BY LogGrows
  <1>3. /\ eve \in Inodes
        /\ LoadOffset(eve) \in Nat /\ LoadOffset(eve) <= Len(files[eve])
        /\ Len(files[eve]) \in Nat
        /\ state # Absent => state.offset \in Nat
        /\ run # Absent => run.pos \in Nat /\ run.inode \in Inodes
    BY LoadOffsetInLog DEF AdapterInv, AdapterTypeOK, Runs, States
  <1>4. LoadOffset(eve)' = LoadOffset(eve)
    BY <1>1, <1>2, <1>3 DEF LoadOffset, AdapterInv, OffsetInLog
  <1>5. ASSUME NEW x \in Alerts, Unread(x) \/ (begins /\ x = k)
        PROVE  Unread(x)'
    <2>1. PICK q \in Nat : q > LoadOffset(eve) /\ Start(eve, q, x)'
      <3>1. CASE Unread(x)
        <4>1. Beyond(eve, LoadOffset(eve), x)
          BY <1>1, <3>1, UnreadIsBeyond DEF Rotated
        <4>2. PICK q \in 1 .. Len(files[eve]) :
                 q > LoadOffset(eve) /\ files[eve][q] = <<x, "start">>
          BY <4>1 DEF Beyond
        <4>3. q \in Nat /\ Start(eve, q, x)
          BY <4>2 DEF Start
        <4> QED BY <1>2, <1>3, <4>2, <4>3
      <3>2. CASE begins /\ x = k
        BY <1>2, <1>3, <3>2
      <3> QED BY <1>5, <3>1, <3>2
    <2>2. Beyond(eve, LoadOffset(eve), x)'
      BY <1>4, <2>1 DEF Beyond, Start
    <2> QED BY <2>2 DEF Unread
  <1>6. missed' = {}
    <2>1. Members(written)' = Members(written')
      BY DEF Members
    <2>2. \A x \in Members(written') :
             Unread(x) \/ x \notin Members(written) => Unread(x)'
      BY <1>5
    <2>3. Overtaken = {}
      BY <2>2 DEF Overtaken
    <2> QED BY <1>1, <2>3 DEF LogStep
  <1>7. passed' = {}
    BY <1>1 DEF Logged, Reading
  <1> QED BY <1>1, <1>6, <1>7 DEF Unrotated

LEMMA Evens ==
    ASSUME NEW n \in Nat
    PROVE  /\ Even(0)
           /\ Even(n) => Even(n + 2)
           /\ \A m \in Nat : Even(n) /\ 2 * m < n => 2 * m + 2 <= n
  <1>1. Even(0)
    BY DEF Even
  <1>2. ASSUME Even(n)
        PROVE  Even(n + 2)
    <2>1. PICK m \in Nat : n = 2 * m
      BY <1>2 DEF Even
    <2>2. m + 1 \in Nat /\ n + 2 = 2 * (m + 1)
      BY <2>1
    <2> QED BY <2>2 DEF Even
  <1>3. ASSUME NEW m \in Nat, Even(n), 2 * m < n
        PROVE  2 * m + 2 <= n
    <2>1. PICK h \in Nat : n = 2 * h
      BY <1>3 DEF Even
    <2> QED BY <1>3, <2>1
  <1> QED BY <1>1, <1>2, <1>3

(* Ahead of a reader between two lines is a whole one.                     *)
LEMMA NoFragment ==
    ASSUME AdapterInv, WholeLines, "half" \notin Faults, Reading, ~AtEnd
    PROVE  \E k \in Alerts : LineAhead(k)
  <1>1. /\ run.inode \in Inodes /\ run.pos \in Nat
        /\ Whole(Opened) /\ Even(run.pos)
    BY DEF WholeLines, Reading, AdapterInv, AdapterTypeOK, Runs, Opened
  <1>2. Len(Opened) \in Nat
    BY <1>1, LoadOffsetInLog DEF AdapterInv, Opened
  <1>3. PICK m \in Nat : run.pos = 2 * m
    BY <1>1 DEF Even
  <1>4. 2 * m < Len(Opened)
    BY <1>1, <1>2, <1>3 DEF AtEnd
  <1>5. 2 * m + 2 <= Len(Opened)
    BY <1>1, <1>2, <1>4, Evens DEF Whole
  <1>6. PICK k \in Alerts : /\ Opened[2 * m + 1] = <<k, "start">>
                            /\ Opened[2 * m + 2] = <<k, "end">>
    BY <1>1, <1>4 DEF Whole
  <1> QED BY <1>3, <1>5, <1>6 DEF LineAhead

LEMMA WholeProcess ==
    ASSUME AdapterInv, WholeLines, "half" \notin Faults, ProcessStep
    PROVE  WholeLines'
  <1>1. /\ unfinished = Absent /\ torn = {}
        /\ \A i \in Inodes : Whole(files[i])
        /\ run # Absent => run \in Runs /\ run.pos \in Nat /\ Even(run.pos)
        /\ state # Absent => Even(state.offset)
    BY DEF WholeLines, AdapterInv, AdapterTypeOK, Runs
  <1>2. Even(0) /\ Even(LoadOffset(eve))
    BY <1>1, Evens DEF LoadOffset
  <1>3. SUFFICES /\ unfinished' = Absent /\ torn' = {} /\ files' = files
                 /\ run' # Absent => Even(run'.pos)
                 /\ state' # Absent => Even(state'.offset)
    BY <1>1 DEF WholeLines
  <1>4. /\ unfinished' = unfinished /\ files' = files
    BY DEF ProcessStep, StartRun, FlushStep, Post, Unlink, Quarantine, EndFlush,
           ReadStep, Enqueue, Duplicate, QueueFull, Fragment, SaveOffset,
           DeliveryFails, Abort, PowerCut, Corrupt, log
  <1>5. ASSUME NEW readLog \in BOOLEAN, StartRun(readLog)
        PROVE  /\ torn' = torn /\ state' = state
               /\ run' # Absent => Even(run'.pos)
    BY <1>2, <1>5 DEF StartRun, store, saved
  <1>6. CASE Post
    BY <1>1, <1>4, <1>6 DEF Post, Delivering, store, saved, Runs
  <1>7. CASE DeliveryFails
    <2> DEFINE r == [run EXCEPT !.failed = TRUE]
    <2>1. run # Absent /\ run' = AfterFlush(r) /\ torn' = torn /\ state' = state
      BY <1>7 DEF DeliveryFails, Delivering, store, saved
    <2>2. r \in Runs /\ r.pos = run.pos
      BY <1>1, <2>1 DEF Runs
    <2>3. run' # Absent => run'.pos \in {run.pos, LoadOffset(eve)}
      BY <2>1, <2>2, AfterFlushRun DEF AdapterInv
    <2> QED BY <1>1, <1>2, <1>4, <2>1, <2>3
  <1>8. CASE Unlink
    BY <1>1, <1>4, <1>8 DEF Unlink, saved, Runs
  <1>9. CASE Quarantine
    BY <1>1, <1>4, <1>9 DEF Quarantine, Delivering, saved, Runs
  <1>10. CASE EndFlush
    <2>1. run # Absent /\ run' = AfterFlush(run) /\ torn' = torn
          /\ state' = state
      BY <1>10 DEF EndFlush, store, saved
    <2>2. run' # Absent => run'.pos \in {run.pos, LoadOffset(eve)}
      BY <1>1, <2>1, AfterFlushRun DEF AdapterInv
    <2> QED BY <1>1, <1>2, <1>4, <2>1, <2>2
  <1>11. CASE \E k \in Alerts : Enqueue(k) \/ Duplicate(k)
    <2>1. /\ run # Absent /\ run' = [run EXCEPT !.pos = @ + 2]
          /\ torn' = torn /\ state' = state
      BY <1>11 DEF Enqueue, Duplicate, Reading, store, saved
    <2>2. run'.pos = run.pos + 2
      BY <1>1, <2>1 DEF Runs
    <2> QED BY <1>1, <1>4, <2>1, <2>2, Evens
  <1>12. CASE (\E k \in Alerts : QueueFull(k)) \/ Abort
    BY <1>1, <1>4, <1>12 DEF QueueFull, Abort, store, saved
  <1>13. CASE Fragment
    BY <1>13, NoFragment DEF Fragment
  <1>14. CASE SaveOffset
    <2>1. /\ run # Absent /\ run' = AfterReading(run) /\ torn' = torn
          /\ state'.offset = run.pos
      BY <1>14 DEF SaveOffset, Reading
    <2>2. run' # Absent => run'.pos = run.pos
      BY <1>1, <2>1, AfterReadingRun DEF AdapterInv
    <2> QED BY <1>1, <1>4, <2>1, <2>2
  <1>15. CASE PowerCut
    BY <1>1, <1>4, <1>15 DEF PowerCut
  <1>16. CASE \E k \in Alerts : Corrupt(k)
    BY <1>1, <1>4, <1>16 DEF Corrupt, saved
  <1> QED BY <1>1, <1>4, <1>5, <1>6, <1>7, <1>8, <1>9, <1>10, <1>11, <1>12,
             <1>13, <1>14, <1>15, <1>16 DEF ProcessStep, FlushStep, ReadStep

LEMMA WholeLog ==
    ASSUME AdapterInv, WholeLines, "half" \notin Faults,
           \/ \E k \in Alerts : WriteLine(k)
           \/ \E i \in Inodes : Rotate(i)
    PROVE  WholeLines'
  <1>1. /\ unfinished = Absent /\ torn = {}
        /\ files \in [Inodes -> Seq(Pieces)]
        /\ \A i \in Inodes : Whole(files[i])
        /\ run # Absent => run \in Runs /\ Even(run.pos)
        /\ state # Absent => Even(state.offset)
    BY DEF WholeLines, AdapterInv, AdapterTypeOK
  <1>2. ASSUME NEW k \in Alerts, WriteLine(k)
        PROVE  WholeLines'
    <2> DEFINE pieces == << <<k, "start">>, <<k, "end">> >>
               old == files[eve]
               new == old \o pieces
    <2>1. /\ files' = [files EXCEPT ![eve] = new]
          /\ UNCHANGED <<unfinished, torn, run, state>>
      BY <1>2 DEF WriteLine, Logged, store, saved
    <2>2. eve \in Inodes /\ old \in Seq(Pieces) /\ Len(old) \in Nat
          /\ Whole(old)
      BY <1>1 DEF AdapterInv, AdapterTypeOK
    <2>3. pieces \in Seq(Pieces) /\ Len(pieces) = 2
          /\ pieces[1] = <<k, "start">> /\ pieces[2] = <<k, "end">>
      BY DEF Pieces
    <2> HIDE DEF pieces
    <2>4. /\ Len(new) = Len(old) + 2
          /\ \A q \in 1 .. Len(old) : new[q] = old[q]
          /\ new[Len(old) + 1] = pieces[1]
          /\ new[Len(old) + 2] = pieces[2]
      <3>0. old \in Seq(Pieces) /\ pieces \in Seq(Pieces)
        BY <2>2, <2>3
      <3>1. /\ Len(new) = Len(old) + Len(pieces)
            /\ \A q \in 1 .. Len(old) : new[q] = old[q]
            /\ \A q \in 1 .. Len(pieces) : new[Len(old) + q] = pieces[q]
        BY <3>0, Concatenated
      <3>2. 1 \in 1 .. Len(pieces) /\ 2 \in 1 .. Len(pieces)
        BY <2>3
      <3> QED BY <2>3, <3>1, <3>2
    <2>5. Even(Len(old)) /\ Even(Len(new))
      BY <2>2, <2>4, Evens DEF Whole
    <2>6. ASSUME NEW m \in Nat, 2 * m < Len(new)
          PROVE  \E x \in Alerts : /\ new[2 * m + 1] = <<x, "start">>
                                   /\ new[2 * m + 2] = <<x, "end">>
      <3>1. CASE 2 * m < Len(old)
        <4>1. 2 * m + 2 <= Len(old)
          BY <2>2, <2>5, <3>1, Evens
        <4>2. 2 * m + 1 \in 1 .. Len(old) /\ 2 * m + 2 \in 1 .. Len(old)
          BY <2>2, <4>1
        <4>3. PICK x \in Alerts : /\ old[2 * m + 1] = <<x, "start">>
                                  /\ old[2 * m + 2] = <<x, "end">>
          BY <2>2, <3>1 DEF Whole
        <4> QED BY <2>4, <4>2, <4>3
      <3>2. CASE 2 * m >= Len(old)
        <4>1. PICK h \in Nat : Len(old) = 2 * h
          BY <2>5 DEF Even
        <4>2. 2 * m = Len(old)
          BY <2>4, <2>6, <3>2, <4>1
        <4>3. new[2 * m + 1] = pieces[1] /\ new[2 * m + 2] = pieces[2]
          BY <2>4, <4>2, Zenon
        <4> QED BY <2>3, <4>3
      <3>3. 2 * m < Len(old) \/ 2 * m >= Len(old)
        BY <2>2, <2>6
      <3> QED BY <3>1, <3>2, <3>3
    <2>7. Whole(new)
      BY <2>5, <2>6 DEF Whole
    <2>8. \A i \in Inodes : Whole(files'[i])
      BY <1>1, <2>1, <2>2, <2>7
    <2> QED BY <1>1, <2>1, <2>8 DEF WholeLines
  <1>3. ASSUME NEW i \in Inodes, Rotate(i)
        PROVE  WholeLines'
    <2>1. /\ files' = [files EXCEPT ![i] = <<>>]
          /\ UNCHANGED <<unfinished, torn, state>>
          /\ run' = IF Reading THEN [run EXCEPT !.replaced = TRUE] ELSE run
      BY <1>3 DEF Rotate
    <2>2. Whole(<<>>)
      BY Evens DEF Whole
    <2>3. \A j \in Inodes : Whole(files'[j])
      BY <1>1, <2>1, <2>2
    <2>4. run' # Absent => Even(run'.pos)
      BY <1>1, <2>1 DEF Reading, Runs
    <2> QED BY <1>1, <2>1, <2>3, <2>4 DEF WholeLines
  <1> QED BY <1>2, <1>3

LEMMA LineUnrotated ==
    ASSUME AdapterInv, AdapterInv', Unrotated, "rotate" \notin Faults,
           EndLine \/ \E k \in Alerts : WriteLine(k) \/ StartLine(k)
    PROVE  Unrotated'
  <1>1. Members(written') \subseteq Alerts
    BY DEF AdapterInv, AdapterTypeOK, Members
  <1>2. written \in Seq(Alerts)
    BY DEF AdapterInv, AdapterTypeOK
  <1>3. ASSUME NEW k \in Alerts, WriteLine(k) \/ StartLine(k)
        PROVE  Unrotated'
    <2>1. PICK begins \in BOOLEAN : begins
      OBVIOUS
    <2>2. /\ UNCHANGED <<eve, state, stale, run>> /\ LogStep
          /\ written' = Append(written, k)
      BY <1>3 DEF WriteLine, StartLine, store, saved
    <2>3. \A x \in Members(written') : x \in Members(written) \/ (begins /\ x = k)
      BY <1>2, <2>1, <2>2, MembersOfAppend
    <2>4. PICK pieces \in { << <<k, "start">>, <<k, "end">> >>,
                            << <<k, "start">> >> } : Logged(k, pieces)
      BY <1>3 DEF WriteLine, StartLine
    <2>5. /\ pieces \in Seq(Pieces) /\ pieces # <<>>
          /\ \A q \in DOMAIN pieces, x \in Alerts :
                pieces[q] = <<x, "start">> <=> begins /\ q = 1 /\ x = k
      <3>1. /\ pieces \in Seq(Pieces) /\ pieces # <<>>
            /\ \A q \in DOMAIN pieces, x \in Alerts :
                  pieces[q] = <<x, "start">> <=> q = 1 /\ x = k
        BY LinePieces
      <3> QED BY <2>1, <3>1
    <2> QED BY <1>1, <2>2, <2>3, <2>4, <2>5, NewIsUnread
  <1>4. CASE EndLine
    <2>1. PICK begins \in BOOLEAN : ~begins
      OBVIOUS
    <2>2. PICK k : k = unfinished
      OBVIOUS
    <2> DEFINE pieces == << <<k, "end">> >>
    <2>3. /\ UNCHANGED <<eve, state, stale, run>> /\ LogStep
          /\ written' = written
          /\ Logged(k, pieces) /\ k \in Alerts
      BY <1>4, <2>2
         DEF EndLine, store, saved, AdapterInv, AdapterTypeOK
    <2>4. pieces \in Seq(Pieces) /\ pieces # <<>> /\ DOMAIN pieces = 1 .. 1
      BY <2>3 DEF Pieces
    <2>5. \A q \in DOMAIN pieces, x \in Alerts :
             pieces[q] = <<x, "start">> <=> begins /\ q = 1 /\ x = k
      BY <2>1, <2>4
    <2> HIDE DEF pieces
    <2>6. \A x \in Members(written') : x \in Members(written) \/ (begins /\ x = k)
      BY <2>3 DEF Members
    <2> QED BY <1>1, <2>3, <2>4, <2>5, <2>6, NewIsUnread
  <1> QED BY <1>3, <1>4

LEMMA CausesGoOn ==
    ASSUME AdapterInv, AdapterInv', Unrotated, WholeLines, Undamaged, Listed,
           [AdapterNext]_adapterVars
    PROVE  Unrotated' /\ WholeLines' /\ Undamaged' /\ Listed'
  <1>1. CASE UNCHANGED adapterVars
    BY <1>1 DEF adapterVars, Unrotated, WholeLines, Undamaged, Listed
  <1>2. CASE AdapterNext
    <2>1. ASSUME "rotate" \notin Faults
          PROVE  Unrotated'
      <3>1. \A i \in Inodes : ~Rotate(i)
        BY <2>1 DEF Rotate
      <3> QED BY <1>2, <2>1, <3>1, UnrotatedProcess, LineUnrotated
              DEF AdapterNext, Environment, ProcessStep
    <2>2. ASSUME "half" \notin Faults
          PROVE  WholeLines'
      <3>1. ~EndLine /\ \A k \in Alerts : ~StartLine(k)
        BY <2>2 DEF EndLine, StartLine, WholeLines
      <3> QED BY <1>2, <2>2, <3>1, WholeProcess, WholeLog
              DEF AdapterNext, Environment, ProcessStep
    <2>3. ASSUME "corrupt" \notin Faults
          PROVE  Undamaged'
      <3>1. unreadable = {} /\ quarantine = {}
        BY <2>3 DEF Undamaged
      <3>2. ~Quarantine /\ \A k \in Alerts : ~Corrupt(k)
        BY <2>3, <3>1 DEF Quarantine, Corrupt
      <3>3. unreadable' = {} /\ quarantine' = {}
        BY <1>2, <3>1, <3>2
           DEF AdapterNext, StartRun, FlushStep, Post, Unlink, EndFlush,
               ReadStep, Enqueue, Duplicate, QueueFull, Fragment, SaveOffset,
               Environment, DeliveryFails, Abort, PowerCut, WriteLine,
               StartLine, EndLine, Rotate, store
      <3> QED BY <3>3 DEF Undamaged
    <2>4. ASSUME "clock" \notin Faults
          PROVE  Listed'
      <3>1. outrun = {}
        BY <2>4 DEF Listed
      <3>2. ASSUME NEW k \in Alerts, Enqueue(k)
            PROVE  outrun' = {}
        <4>1. Len(queue) \in Nat /\ queue \in Seq(Alerts)
          BY DEF AdapterInv, AdapterTypeOK
        <4>2. outrun' = outrun \cup
                  Members(SubSeq(queue, Len(queue) + 1, Len(queue)))
          BY <2>4, <3>2 DEF Enqueue, Places
        <4>3. SubSeq(queue, Len(queue) + 1, Len(queue)) = <<>>
          BY <4>1
        <4> QED BY <3>1, <4>2, <4>3 DEF Members
      <3>3. outrun' = {}
        BY <1>2, <3>1, <3>2
           DEF AdapterNext, StartRun, FlushStep, Post, Unlink, Quarantine,
               EndFlush, ReadStep, Duplicate, QueueFull, Fragment, SaveOffset,
               Environment, DeliveryFails, Abort, PowerCut, Corrupt, WriteLine,
               StartLine, EndLine, Rotate, store
      <3> QED BY <3>3 DEF Listed
    <2> QED BY <2>1, <2>2, <2>3, <2>4
            DEF Unrotated, WholeLines, Undamaged, Listed
  <1> QED BY <1>1, <1>2

LEMMA CausesInvariant ==
    AdapterSpec =>
        [](AdapterInv /\ Unrotated /\ WholeLines /\ Undamaged /\ Listed)
  <1>1. AdapterInit => Unrotated /\ WholeLines /\ Undamaged /\ Listed
    BY Evens DEF AdapterInit, Unrotated, WholeLines, Undamaged, Listed, Whole
  <1> QED BY <1>1, AdapterInvariant, CausesGoOn, PTL DEF AdapterSpec

(* Each way an alert can be lost takes its own fault: process_stream reads *)
(* half a line, flush_queue sets a damaged entry aside, process_file finds *)
(* another file, or a shorter one, than it had read; and queue_entries     *)
(* lists one after a later one where their stamps are equal or reversed.   *)
THEOREM OnlyFaultsLose == AdapterSpec => []LossesHaveCauses
  <1>1. Unrotated /\ WholeLines /\ Undamaged /\ Listed => LossesHaveCauses
    BY DEF Unrotated, WholeLines, Undamaged, Listed, LossesHaveCauses
  <1> QED BY <1>1, CausesInvariant, PTL

(* Kills and power cuts, at any moment and however many, a full queue and  *)
(* a backend out of reach lose nothing, whatever the stamps of the queue's *)
(* files: what README 49-56 of the adapter promises, where the log is not  *)
(* rotated, is written in whole lines, and the queue's files are sound.    *)
(* The order is kept as far as the listing of the queue keeps it           *)
(* (queue_entries), and altogether where no two stamps are equal or        *)
(* reversed.                                                               *)
THEOREM CrashesLoseNothing ==
    ASSUME Faults \subseteq {"crash", "clock"}
    PROVE  AdapterSpec => []NoneLost
  <1>1. AdapterInv /\ Unrotated /\ WholeLines /\ Undamaged /\ Listed => NoneLost
    <2>1. SUFFICES ASSUME AdapterInv, Unrotated, WholeLines, Undamaged, Listed
                   PROVE  NoneLost
      OBVIOUS
    <2>2. missed = {} /\ passed = {} /\ torn = {} /\ quarantine = {}
      BY <2>1 DEF Unrotated, WholeLines, Undamaged
    <2> QED BY <2>1, <2>2
            DEF AdapterInv, NothingElseLost, InOrder, Kept, NoneLost, Listed
  <1> QED BY <1>1, CausesInvariant, PTL

-----------------------------------------------------------------------------
(***************************************************************************)
(* The incidents: Inv, and the steps that keep it.                         *)
(***************************************************************************)

(* As long as nothing has interrupted the sensor, a renewal under way has  *)
(* read the tokens that are there.                                         *)
ReadsCurrent ==
    connector # None /\ ~interrupted =>
        \A c \in Calls : Is(c, "rotate") =>
            /\ calls[c].read.token = connector.token
            /\ calls[c].read.previous = connector.previous

(* An incident under triage exists.                                        *)
TriagesExisting == \A c \in Calls : Is(c, "triage") => events[calls[c].key] # None

Inv ==
    /\ TypeOK
    /\ ReadsCurrent
    /\ TriagesExisting
    /\ SensorKeepsAccess

-----------------------------------------------------------------------------
(* Rows.                                                                   *)

LEMMA MergedEvent ==
    ASSUME NEW row \in Event, NEW read \in Event, NEW want \in Event
    PROVE  Merged(row, read, want) \in Event
  <1>1. DOMAIN row = {"status", "acknowledgedAt", "resolvedAt", "note"}
    BY DEF Event
  <1>2. Merged(row, read, want) =
           [status |-> IF want.status # read.status THEN want.status
                       ELSE row.status,
            acknowledgedAt |->
               IF want.acknowledgedAt # read.acknowledgedAt
               THEN want.acknowledgedAt ELSE row.acknowledgedAt,
            resolvedAt |-> IF want.resolvedAt # read.resolvedAt
                           THEN want.resolvedAt ELSE row.resolvedAt,
            note |-> IF want.note # read.note THEN want.note ELSE row.note]
    BY <1>1 DEF Merged
  <1> QED BY <1>2 DEF Event

LEMMA MergedConnector ==
    ASSUME NEW row \in Connector, NEW read \in Connector, NEW want \in Connector
    PROVE  LET merged == Merged(row, read, want)
           IN  /\ merged \in Connector
               /\ merged.previous = IF want.previous # read.previous
                                    THEN want.previous ELSE row.previous
  <1>1. DOMAIN row = {"token", "previous", "over"}
    BY DEF Connector
  <1>2. Merged(row, read, want) =
           [token |-> IF want.token # read.token THEN want.token
                      ELSE row.token,
            previous |-> IF want.previous # read.previous THEN want.previous
                         ELSE row.previous,
            over |-> IF want.over # read.over THEN want.over ELSE row.over]
    BY <1>1 DEF Merged
  <1> QED BY <1>2 DEF Connector

LEMMA RenewedShape ==
    ASSUME NEW call \in Renewal, connector \in Connector, issued + 1 \in Tokens
    PROVE  /\ Renewed(call) \in Connector
           /\ call.grace =>
                 /\ ~Renewed(call).over
                 /\ Renewed(call).previous =
                       IF call.read.token # call.read.previous
                       THEN call.read.token ELSE connector.previous
  <1> DEFINE want == [token |-> issued + 1, over |-> FALSE,
                      previous |-> IF call.grace THEN call.read.token ELSE None]
             row == Merged(connector, call.read, want)
  <1>1. call.read \in Connector /\ call.grace \in BOOLEAN
    BY DEF Renewal
  <1>2. want \in Connector
    BY <1>1 DEF Connector
  <1>3. /\ row \in Connector
        /\ row.previous = IF want.previous # call.read.previous
                          THEN want.previous ELSE connector.previous
    BY <1>1, <1>2, MergedConnector
  <1>4. Renewed(call) = IF call.grace THEN [row EXCEPT !.over = FALSE] ELSE row
    BY DEF Renewed
  <1>5. call.grace => want.previous = call.read.token
    OBVIOUS
  <1> HIDE DEF row, want
  <1>6. /\ [row EXCEPT !.over = FALSE] \in Connector
        /\ ~[row EXCEPT !.over = FALSE].over
        /\ [row EXCEPT !.over = FALSE].previous = row.previous
    BY <1>3 DEF Connector
  <1> QED BY <1>1, <1>3, <1>4, <1>5, <1>6

(* A handler under way has the fields of its kind.                         *)
LEMMA CallShape ==
    ASSUME TypeOK, NEW c \in Calls, calls[c] # None
    PROVE  /\ Is(c, "ingest") \/ Is(c, "report") => calls[c] \in Ingestion
           /\ Is(c, "rotate") => calls[c] \in Renewal
           /\ Is(c, "triage") => calls[c] \in Triage
  <1>1. calls[c] \in Ingestion \cup Renewal \cup Closing \cup Triage
    BY DEF TypeOK
  <1> QED BY <1>1 DEF Is, Ingestion, Renewal, Closing, Triage

LEMMA TwoManage ==
    ASSUME NEW c \in Managing, NEW d \in Managing, c # d
    PROVE  Cardinality(Managing) > 1
  <1>1. IsFiniteSet(Managing)
    BY IncidentsAssumption, FS_Subset DEF Managing
  <1>2. {c, d} \subseteq Managing
    OBVIOUS
  <1>3. Cardinality({c, d}) = 2
    <2>1. IsFiniteSet({c}) /\ Cardinality({c}) = 1
      BY FS_Singleton
    <2>2. Cardinality({c} \cup {d}) = Cardinality({c}) + 1
      BY <2>1, FS_AddElement
    <2>3. {c} \cup {d} = {c, d}
      OBVIOUS
    <2> QED BY <2>1, <2>2, <2>3
  <1>4. Cardinality({c, d}) <= Cardinality(Managing)
    BY <1>1, <1>2, FS_Subset
  <1>5. Cardinality(Managing) \in Nat
    BY <1>1, FS_CardinalityType
  <1> QED BY <1>3, <1>4, <1>5

-----------------------------------------------------------------------------
(* A handler begins or ends and leaves the tables as they are.             *)

LEMMA BeginKeeps ==
    ASSUME Inv, NEW c \in Calls,
           NEW call \in Ingestion \cup Renewal \cup Closing \cup Triage,
           Begin(c, call),
           call.kind = "rotate" => call.read = connector,
           call.kind = "triage" => events[call.key] # None,
           UNCHANGED <<connector, issued, sensor, events, interrupted>>
    PROVE  Inv'
  <1> USE DEF Inv
  <1>1. /\ calls' \in [Calls -> Ingestion \cup Renewal \cup Closing \cup Triage
                                   \cup {None}]
        /\ calls'[c] = call
        /\ \A d \in Calls : d # c => calls'[d] = calls[d]
    BY DEF Begin, TypeOK
  <1>2. TypeOK'
    BY <1>1 DEF TypeOK
  <1>3. ReadsCurrent'
    BY <1>1 DEF ReadsCurrent, Is
  <1>4. TriagesExisting'
    BY <1>1 DEF TriagesExisting, Is
  <1>5. SensorKeepsAccess'
    BY DEF SensorKeepsAccess, Accepts
  <1> QED BY <1>2, <1>3, <1>4, <1>5

LEMMA EndShape ==
    ASSUME TypeOK, NEW c \in Calls, End(c)
    PROVE  /\ calls' \in [Calls -> Ingestion \cup Renewal \cup Closing
                                   \cup Triage \cup {None}]
           /\ calls'[c] = None
           /\ \A d \in Calls : calls'[d] # None =>
                 d # c /\ calls'[d] = calls[d]
  BY DEF End, TypeOK

LEMMA SenderKeeps ==
    ASSUME Inv, NEW c \in Calls, Sender(c)
    PROVE  Inv'
  <1>1. ASSUME NEW k \in Keys, NEW token, Ingest(c, k, token)
        PROVE  Inv'
    BY <1>1, BeginKeeps DEF Ingest, Ingestion
  <1>2. ASSUME NEW k \in Keys, Report(c, k)
        PROVE  Inv'
    BY <1>2, BeginKeeps DEF Report, Ingestion
  <1> QED BY <1>1, <1>2 DEF Sender

(* Only events change, and none of them disappears.                        *)
LEMMA EventsKeep ==
    ASSUME Inv, NEW c \in Calls, End(c),
           events' \in [Keys -> Event \cup {None}],
           \A k \in Keys : events[k] # None => events'[k] # None,
           UNCHANGED <<connector, issued, sensor, interrupted>>
    PROVE  Inv'
  <1> USE DEF Inv
  <1>1. /\ calls' \in [Calls -> Ingestion \cup Renewal \cup Closing \cup Triage
                                   \cup {None}]
        /\ \A d \in Calls : calls'[d] # None =>
              d # c /\ calls'[d] = calls[d]
    BY EndShape
  <1>2. TypeOK'
    BY <1>1 DEF TypeOK
  <1>3. ReadsCurrent'
    BY <1>1 DEF ReadsCurrent, Is
  <1>4. \A d \in Calls : Is(d, "triage") => calls[d].key \in Keys
    BY CallShape DEF Triage, Is
  <1>5. TriagesExisting'
    BY <1>1, <1>4 DEF TriagesExisting, Is
  <1>6. SensorKeepsAccess'
    BY DEF SensorKeepsAccess, Accepts
  <1> QED BY <1>2, <1>3, <1>5, <1>6

LEMMA NewEvent == New \in Event
  BY DEF New, Event

LEMMA CommitEventKeeps ==
    ASSUME Inv, NEW c \in Calls, CommitEvent(c)
    PROVE  Inv'
  <1>1. End(c) /\ UNCHANGED <<connector, issued, sensor, interrupted>>
    BY DEF CommitEvent
  <1>2. calls[c].key \in Keys
    BY CallShape DEF CommitEvent, Is, Ingestion, Inv
  <1>3. /\ events' \in [Keys -> Event \cup {None}]
        /\ \A k \in Keys : events[k] # None => events'[k] # None
    BY <1>2, NewEvent, NoneAssumption DEF CommitEvent, Inv, TypeOK
  <1> QED BY <1>1, <1>3, EventsKeep

(* What a triage writes.                                                   *)
LEMMA TriageShape ==
    ASSUME Inv, NEW c \in Calls, CommitTriage(c)
    PROVE  \E row \in Event :
              /\ calls[c].key \in Keys /\ events[calls[c].key] # None
              /\ Is(c, "triage") /\ End(c)
              /\ events' = [events EXCEPT ![calls[c].key] = row]
              /\ UNCHANGED <<connector, issued, sensor, interrupted>>
  <1> DEFINE call == calls[c]
             merged == Merged(events[call.key], call.read, call.want)
             row == [merged EXCEPT !.resolvedAt = call.want.resolvedAt \/ @]
  <1>1. Is(c, "triage") /\ call \in Triage
    BY CallShape DEF CommitTriage, Is, Inv
  <1>2. /\ call.key \in Keys /\ call.read \in Event /\ call.want \in Event
    BY <1>1 DEF Triage
  <1>3. events[call.key] \in Event
    BY <1>1, <1>2 DEF Inv, TriagesExisting, TypeOK
  <1>4. merged \in Event
    BY <1>2, <1>3, MergedEvent
  <1>5. (call.want.resolvedAt \/ merged.resolvedAt) \in BOOLEAN
    OBVIOUS
  <1>6. row \in Event
    <2> HIDE DEF merged
    <2> QED BY <1>4, <1>5 DEF Event
  <1>7. events' = [events EXCEPT ![call.key] = row]
    BY DEF CommitTriage
  <1>8. End(c) /\ UNCHANGED <<connector, issued, sensor, interrupted>>
    BY DEF CommitTriage
  <1> QED BY <1>1, <1>2, <1>3, <1>6, <1>7, <1>8, NoneAssumption

LEMMA CommitTriageKeeps ==
    ASSUME Inv, NEW c \in Calls, CommitTriage(c)
    PROVE  Inv'
  <1>1. PICK row \in Event :
              /\ calls[c].key \in Keys /\ events[calls[c].key] # None
              /\ Is(c, "triage") /\ End(c)
              /\ events' = [events EXCEPT ![calls[c].key] = row]
              /\ UNCHANGED <<connector, issued, sensor, interrupted>>
    BY TriageShape
  <1>2. /\ events' \in [Keys -> Event \cup {None}]
        /\ \A k \in Keys : events[k] # None => events'[k] # None
    BY <1>1, NoneAssumption DEF Inv, TypeOK
  <1> QED BY <1>1, <1>2, EventsKeep

LEMMA BeginTriageKeeps ==
    ASSUME Inv, NEW c \in Calls, NEW k \in Keys, NEW want \in Event,
           events[k] # None, BeginTriage(c, k, want)
    PROVE  Inv'
  <1> DEFINE call == [kind |-> "triage", key |-> k, read |-> events[k],
                      want |-> want]
  <1>1. call \in Triage
    BY DEF Triage, Inv, TypeOK
  <1> QED BY <1>1, BeginKeeps DEF BeginTriage

LEMMA AnalystKeeps ==
    ASSUME Inv, NEW c \in Calls, Analyst(c)
    PROVE  Inv'
  <1>1. /\ Acknowledged \in Event
        /\ \A note \in Notes \cup {None} : /\ Reopened(note) \in Event
                                          /\ Resolved(note) \in Event
    BY DEF Acknowledged, Reopened, Resolved, Event
  <1>2. ASSUME NEW k \in Keys, Resolve(c, k)
        PROVE  Inv'
    BY <1>1, <1>2, BeginTriageKeeps DEF Resolve
  <1>3. ASSUME NEW k \in Keys, Acknowledge(c, k)
        PROVE  Inv'
    BY <1>1, <1>3, BeginTriageKeeps DEF Acknowledge
  <1>4. ASSUME NEW k \in Keys, Reopen(c, k)
        PROVE  Inv'
    BY <1>1, <1>4, BeginTriageKeeps DEF Reopen
  <1> QED BY <1>2, <1>3, <1>4, CommitTriageKeeps DEF Analyst

-----------------------------------------------------------------------------
(* The tokens of the connector.                                            *)

(* A renewal in peace has read the token the sensor has, and leaves it     *)
(* behind as the previous one.                                             *)
LEMMA CommitRotateKeeps ==
    ASSUME Inv, NEW c \in Calls, CommitRotate(c)
    PROVE  Inv'
  <1> USE DEF Inv
  <1> DEFINE call == calls[c]
  <1>1. /\ Is(c, "rotate") /\ connector # None
        /\ connector' = Renewed(call) /\ issued' = issued + 1
        /\ Disturbed(call.grace) /\ End(c)
        /\ UNCHANGED <<sensor, events>>
    BY DEF CommitRotate
  <1>2. /\ call \in Renewal /\ connector \in Connector
        /\ issued + 1 \in Tokens
    BY <1>1, CallShape, IncidentsAssumption
       DEF CommitRotate, Is, TypeOK, Tokens
  <1>3. /\ calls' \in [Calls -> Ingestion \cup Renewal \cup Closing \cup Triage
                                   \cup {None}]
        /\ \A d \in Calls : calls'[d] # None =>
              d # c /\ calls'[d] = calls[d]
    BY <1>1, EndShape
  <1>4. TypeOK'
    BY <1>1, <1>2, <1>3, RenewedShape DEF TypeOK, Disturbed
  <1>5. TriagesExisting'
    BY <1>1, <1>3 DEF TriagesExisting, Is
  <1>6. ASSUME ~interrupted'
        PROVE  /\ ~interrupted /\ call.grace /\ sensor = connector.token
               /\ \A d \in Calls : d # c => ~Is(d, "rotate")
    <2>1. /\ ~interrupted /\ call.grace /\ SensorMoved
          /\ ~(Cardinality(Managing) > 1)
      BY <1>1, <1>6 DEF Disturbed
    <2>2. c \in Managing
      BY <1>1 DEF Managing
    <2>3. ASSUME NEW d \in Calls, d # c
          PROVE  ~Is(d, "rotate")
      BY <2>1, <2>2, <2>3, TwoManage DEF Managing
    <2> QED BY <2>1, <2>3 DEF SensorMoved
  <1>7. ReadsCurrent'
    BY <1>3, <1>6 DEF ReadsCurrent, Is
  <1>8. SensorKeepsAccess'
    <2> SUFFICES ASSUME ~interrupted', connector' # None
                 PROVE  connector'.previous = sensor /\ ~connector'.over
      BY <1>1 DEF SensorKeepsAccess, Accepts
    <2>1. /\ call.read.token = connector.token
          /\ call.read.previous = connector.previous
      BY <1>1, <1>6 DEF ReadsCurrent
    <2> QED BY <1>1, <1>2, <1>6, <2>1, RenewedShape
  <1> QED BY <1>4, <1>5, <1>7, <1>8

LEMMA CommitEndGraceKeeps ==
    ASSUME Inv, NEW c \in Calls, CommitEndGrace(c)
    PROVE  Inv'
  <1> USE DEF Inv
  <1> DEFINE row == [connector EXCEPT !.previous = None, !.over = FALSE]
  <1>1. /\ Is(c, "endGrace") /\ connector # None /\ connector' = row
        /\ Disturbed(TRUE) /\ End(c)
        /\ UNCHANGED <<issued, sensor, events>>
    BY DEF CommitEndGrace
  <1>2. row \in Connector /\ row.token = connector.token
    BY <1>1 DEF TypeOK, Connector
  <1>3. /\ calls' \in [Calls -> Ingestion \cup Renewal \cup Closing \cup Triage
                                   \cup {None}]
        /\ \A d \in Calls : calls'[d] # None =>
              d # c /\ calls'[d] = calls[d]
    BY <1>1, EndShape
  <1>4. TypeOK'
    BY <1>1, <1>2, <1>3 DEF TypeOK, Disturbed
  <1>5. TriagesExisting'
    BY <1>1, <1>3 DEF TriagesExisting, Is
  <1>6. ASSUME ~interrupted'
        PROVE  /\ sensor = connector.token
               /\ \A d \in Calls : d # c => ~Is(d, "rotate")
    <2>1. SensorMoved /\ ~(Cardinality(Managing) > 1)
      BY <1>1, <1>6 DEF Disturbed
    <2>2. c \in Managing
      BY <1>1 DEF Managing
    <2>3. ASSUME NEW d \in Calls, d # c
          PROVE  ~Is(d, "rotate")
      BY <2>1, <2>2, <2>3, TwoManage DEF Managing
    <2> QED BY <2>1, <2>3 DEF SensorMoved
  <1>7. ReadsCurrent'
    BY <1>3, <1>6 DEF ReadsCurrent, Is
  <1>8. SensorKeepsAccess'
    BY <1>1, <1>2, <1>6 DEF SensorKeepsAccess, Accepts
  <1> QED BY <1>4, <1>5, <1>7, <1>8

(* The connector is gone, or a handler finds that it is.                   *)
LEMMA GoneKeeps ==
    ASSUME Inv, NEW c \in Calls, CommitDelete(c) \/ CommitFails(c)
    PROVE  Inv'
  <1> USE DEF Inv
  <1>1. /\ connector' = None /\ End(c)
        /\ UNCHANGED <<issued, sensor, events, interrupted>>
    BY DEF CommitDelete, CommitFails
  <1>2. /\ calls' \in [Calls -> Ingestion \cup Renewal \cup Closing \cup Triage
                                   \cup {None}]
        /\ \A d \in Calls : calls'[d] # None =>
              d # c /\ calls'[d] = calls[d]
    BY <1>1, EndShape
  <1> QED BY <1>1, <1>2
          DEF TypeOK, ReadsCurrent, TriagesExisting, SensorKeepsAccess, Is

LEMMA AdministratorKeeps ==
    ASSUME Inv, NEW c \in Calls, Administrator(c)
    PROVE  Inv'
  <1>1. ASSUME NEW grace \in BOOLEAN, BeginRotate(c, grace)
        PROVE  Inv'
    <2> DEFINE call == [kind |-> "rotate", read |-> connector, grace |-> grace]
    <2>1. call \in Renewal
      BY <1>1 DEF BeginRotate, Renewal, Inv, TypeOK
    <2> QED BY <1>1, <2>1, BeginKeeps DEF BeginRotate
  <1>2. CASE BeginEndGrace(c)
    BY <1>2, BeginKeeps DEF BeginEndGrace, Closing
  <1>3. CASE BeginDelete(c)
    BY <1>3, BeginKeeps DEF BeginDelete, Closing
  <1> QED BY <1>1, <1>2, <1>3, CommitRotateKeeps, CommitEndGraceKeeps, GoneKeeps
          DEF Administrator

LEMMA GraceEndsKeeps ==
    ASSUME Inv, GraceEnds
    PROVE  Inv'
  <1> USE DEF Inv
  <1>1. /\ connector \in Connector
        /\ connector' = [connector EXCEPT !.over = TRUE]
        /\ interrupted' = (interrupted \/ ~SensorMoved)
        /\ UNCHANGED <<issued, sensor, events, calls>>
    BY DEF GraceEnds, TypeOK
  <1>2. /\ connector' \in Connector /\ connector'.token = connector.token
        /\ connector'.previous = connector.previous /\ connector # None
    BY <1>1, NoneAssumption DEF Connector
  <1>3. TypeOK'
    BY <1>1, <1>2 DEF TypeOK
  <1>4. ReadsCurrent'
    BY <1>1, <1>2 DEF ReadsCurrent, Is
  <1>5. TriagesExisting'
    BY <1>1 DEF TriagesExisting, Is
  <1>6. SensorKeepsAccess'
    BY <1>1, <1>2 DEF SensorKeepsAccess, Accepts, SensorMoved
  <1> QED BY <1>3, <1>4, <1>5, <1>6

LEMMA ConfigureKeeps ==
    ASSUME Inv, Configure
    PROVE  Inv'
  <1> USE DEF Inv
  <1>1. /\ connector # None /\ sensor' = connector.token
        /\ UNCHANGED <<connector, issued, events, calls, interrupted>>
    BY DEF Configure
  <1>2. TypeOK'
    BY <1>1 DEF TypeOK, Connector
  <1>3. ReadsCurrent' /\ TriagesExisting'
    BY <1>1 DEF ReadsCurrent, TriagesExisting, Is
  <1>4. SensorKeepsAccess'
    BY <1>1 DEF SensorKeepsAccess, Accepts
  <1> QED BY <1>2, <1>3, <1>4

-----------------------------------------------------------------------------
(* The theorems.                                                           *)

LEMMA InitInv ==
    ASSUME Init
    PROVE  Inv
  <1>1. connector \in Connector /\ connector.token = 1
    BY IncidentsAssumption DEF Init, Connector, Tokens
  <1>2. TypeOK
    <2>1. 1 \in Tokens
      BY IncidentsAssumption DEF Tokens
    <2>2. /\ events \in [Keys -> Event \cup {None}]
          /\ calls \in [Calls -> Ingestion \cup Renewal \cup Closing
                                  \cup Triage \cup {None}]
      BY DEF Init
    <2>3. /\ issued \in Tokens /\ sensor \in Tokens /\ interrupted \in BOOLEAN
      BY <2>1 DEF Init
    <2> QED BY <1>1, <2>2, <2>3 DEF TypeOK
  <1>3. \A c \in Calls : \A k : ~Is(c, k)
    BY DEF Init, Is
  <1>4. ReadsCurrent /\ TriagesExisting
    BY <1>3 DEF ReadsCurrent, TriagesExisting
  <1>5. SensorKeepsAccess
    BY <1>1 DEF Init, SensorKeepsAccess, Accepts
  <1> QED BY <1>2, <1>4, <1>5 DEF Inv

LEMMA StepInv ==
    ASSUME Inv, [Next]_vars
    PROVE  Inv'
  <1>1. CASE UNCHANGED vars
    BY <1>1 DEF vars, Inv, TypeOK, ReadsCurrent, TriagesExisting,
                SensorKeepsAccess, Accepts, Is
  <1> QED BY <1>1, SenderKeeps, CommitEventKeeps, AdministratorKeeps,
             AnalystKeeps, GraceEndsKeeps, ConfigureKeeps DEF Next

(* The tables and every handler under way agree (Inv).                     *)
THEOREM IncidentsInvariant == Spec => []Inv
  <1>1. Init => Inv
    BY InitInv
  <1>2. Inv /\ [Next]_vars => Inv'
    BY StepInv
  <1> QED BY <1>1, <1>2, PTL DEF Spec

(* wazuh/README 47-60: a renewal by the procedure never locks the sensor   *)
(* out.                                                                    *)
THEOREM RenewalWithoutInterruption == Spec => []SensorKeepsAccess
  <1>1. Inv => SensorKeepsAccess
    BY DEF Inv
  <1> QED BY <1>1, IncidentsInvariant, PTL

(* The steps that write no event.                                          *)
LEMMA EventsWritten ==
    ASSUME [Next]_vars
    PROVE  \/ UNCHANGED events
           \/ \E c \in Calls : CommitEvent(c) \/ CommitTriage(c)
  <1>1. CASE UNCHANGED vars
    BY <1>1 DEF vars
  <1>2. ASSUME NEW c \in Calls, Sender(c)
        PROVE  UNCHANGED events
    BY <1>2 DEF Sender, Ingest, Report
  <1>3. ASSUME NEW c \in Calls, Administrator(c)
        PROVE  UNCHANGED events
    BY <1>3 DEF Administrator, BeginRotate, CommitRotate, BeginEndGrace,
                CommitEndGrace, BeginDelete, CommitDelete, CommitFails
  <1>4. ASSUME NEW c \in Calls, Analyst(c)
        PROVE  UNCHANGED events \/ CommitTriage(c)
    BY <1>4 DEF Analyst, Resolve, Acknowledge, Reopen, BeginTriage
  <1>5. CASE GraceEnds \/ Configure
    BY <1>5 DEF GraceEnds, Configure
  <1> QED BY <1>1, <1>2, <1>3, <1>4, <1>5 DEF Next

(* The effect of the insert of an event.                                   *)
LEMMA InsertShape ==
    ASSUME Inv, NEW c \in Calls, CommitEvent(c)
    PROVE  /\ calls[c].key \in Keys
           /\ calls'[c] = None
           /\ calls[c] # None
           /\ \A k \in Keys : events'[k] # events[k] =>
                 /\ k = calls[c].key /\ CanInsert(calls[c])
                 /\ events[k] = None
  <1>1. calls[c].key \in Keys
    BY CallShape DEF CommitEvent, Is, Ingestion, Inv
  <1>2. calls'[c] = None /\ calls[c] # None
    BY EndShape DEF CommitEvent, Inv, Is
  <1> QED BY <1>1, <1>2 DEF CommitEvent, CanInsert, Inv, TypeOK

(* A repeated or crossing post never changes an incident.                  *)
THEOREM OnlyTriageChanges == Spec => RepeatKeepsTriage
  <1> DEFINE Only == \A k \in Keys :
          events[k] # None /\ events'[k] # events[k] =>
              /\ events'[k] # None
              /\ \E c \in Triages(k) : calls'[c] = None
  <1>1. ASSUME Inv, [Next]_vars
        PROVE  Only
    <2>1. CASE UNCHANGED events
      BY <2>1
    <2>2. ASSUME NEW c \in Calls, CommitEvent(c)
          PROVE  Only
      BY <1>1, <2>2, InsertShape
    <2>3. ASSUME NEW c \in Calls, CommitTriage(c)
          PROVE  Only
      <3>1. PICK row \in Event :
              /\ calls[c].key \in Keys /\ events[calls[c].key] # None
              /\ Is(c, "triage") /\ End(c)
              /\ events' = [events EXCEPT ![calls[c].key] = row]
              /\ UNCHANGED <<connector, issued, sensor, interrupted>>
        BY <1>1, <2>3, TriageShape
      <3>2. calls'[c] = None /\ c \in Triages(calls[c].key)
        BY <1>1, <3>1, EndShape DEF Inv, Triages
      <3> QED BY <1>1, <3>1, <3>2, NoneAssumption DEF Inv, TypeOK
    <2> HIDE DEF Only
    <2> QED BY <1>1, <2>1, <2>2, <2>3, EventsWritten
  <1> QED BY <1>1, IncidentsInvariant, PTL DEF Spec, RepeatKeepsTriage

(* Nothing is recorded through a connector once it is deleted.             *)
THEOREM DeletionIsImmediate == Spec => DeletedIsSilent
  <1> DEFINE Only == \A k \in Keys :
          events[k] = None /\ events'[k] # None /\ connector = None =>
              \E c \in Calls : /\ Is(c, "report")
                               /\ calls[c].key = k
                               /\ calls'[c] = None
  <1>1. ASSUME Inv, [Next]_vars
        PROVE  Only
    <2>1. CASE UNCHANGED events
      BY <2>1
    <2>2. ASSUME NEW c \in Calls, CommitEvent(c)
          PROVE  Only
      <3>1. connector = None /\ CanInsert(calls[c]) => Is(c, "report")
        BY <2>2 DEF CommitEvent, CanInsert, Is
      <3> QED BY <1>1, <2>2, <3>1, InsertShape
    <2>3. ASSUME NEW c \in Calls, CommitTriage(c)
          PROVE  Only
      <3>1. PICK row \in Event :
              /\ calls[c].key \in Keys /\ events[calls[c].key] # None
              /\ Is(c, "triage") /\ End(c)
              /\ events' = [events EXCEPT ![calls[c].key] = row]
              /\ UNCHANGED <<connector, issued, sensor, interrupted>>
        BY <1>1, <2>3, TriageShape
      <3> QED BY <1>1, <3>1 DEF Inv, TypeOK
    <2> HIDE DEF Only
    <2> QED BY <1>1, <2>1, <2>2, <2>3, EventsWritten
  <1> QED BY <1>1, IncidentsInvariant, PTL DEF Spec, DeletedIsSilent
=============================================================================
