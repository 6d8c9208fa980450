----------------------------- MODULE Incidents -----------------------------
(***************************************************************************)
(* Security events: their ingestion through a connector or by the agent,   *)
(* the tokens of the connector, and the triage of the incidents            *)
(* (backend/app/main.py).                                                  *)
(*                                                                         *)
(* Every handler reads rows without a lock, checks, and commits a moment   *)
(* later.  The commit writes the columns whose value differs from the one  *)
(* that was read; it fails if a row to be updated is gone or if the key of *)
(* an event is taken.  A call that fails is repeated by its sender, as any *)
(* call may be.                                                            *)
(***************************************************************************)
EXTENDS Integers, FiniteSets

CONSTANTS
    Keys,       \* the keys of the events of one server
    Notes,      \* what an analyst may write
    Calls,      \* the handlers that may be under way
    MaxToken,   \* bound: tokens the connector may be given
    None

ASSUME IncidentsAssumption ==
    /\ MaxToken \in Nat \ {0}
    /\ None \notin Nat \cup Notes
    /\ IsFiniteSet(Calls)

VARIABLES
    connector,   \* the row of ids_connectors, None once deleted
    issued,      \* the number of tokens it was given
    sensor,      \* the token the sensor is configured with
    events,      \* security_events
    calls,       \* the handlers between their reads and their commit
    interrupted  \* history: the renewal was not done as README 47-60 says

vars == <<connector, issued, sensor, events, calls, interrupted>>

Tokens == 1 .. MaxToken
Connector == [token : Tokens, previous : Tokens \cup {None},
              over : BOOLEAN]     \* previous_token_expires_at has passed
Event == [status : {"new", "acknowledged", "resolved"},
          acknowledgedAt : BOOLEAN, resolvedAt : BOOLEAN,
          note : Notes \cup {None}]
New == [status |-> "new", acknowledgedAt |-> FALSE, resolvedAt |-> FALSE,
        note |-> None]

Ingestion == [kind : {"ingest", "report"}, key : Keys]
Renewal == [kind : {"rotate"}, read : Connector, grace : BOOLEAN]
Closing == [kind : {"endGrace", "delete"}]
Triage == [kind : {"triage"}, key : Keys, read : Event, want : Event]

ASSUME NoneAssumption == None \notin Connector \cup Event

TypeOK ==
    /\ connector \in Connector \cup {None}
    /\ issued \in Tokens
    /\ sensor \in Tokens
    /\ events \in [Keys -> Event \cup {None}]
    /\ calls \in [Calls -> Ingestion \cup Renewal \cup Closing \cup Triage
                           \cup {None}]
    /\ interrupted \in BOOLEAN

(* create_ids_connector has shown the token and the sensor has it.         *)
Init ==
    /\ connector = [token |-> 1, previous |-> None, over |-> FALSE]
    /\ issued = 1
    /\ sensor = 1
    /\ events = [k \in Keys |-> None]
    /\ calls = [c \in Calls |-> None]
    /\ interrupted = FALSE

Begin(c, call) ==
    /\ calls[c] = None
    /\ calls' = [calls EXCEPT ![c] = call]

End(c) == calls' = [calls EXCEPT ![c] = None]

Is(c, kind) == calls[c] # None /\ calls[c].kind = kind

Merged(row, read, want) ==
    [f \in DOMAIN row |-> IF want[f] # read[f] THEN want[f] ELSE row[f]]

-----------------------------------------------------------------------------
(* Ingestion.                                                              *)

Accepts(token) ==
    /\ connector # None
    /\ \/ token = connector.token
       \/ token = connector.previous /\ ~connector.over

(* A known key is answered with the event it names; nothing is written.    *)
Ingest(c, k, token) ==
    /\ Accepts(token)
    /\ events[k] = None
    /\ Begin(c, [kind |-> "ingest", key |-> k])
    /\ UNCHANGED <<connector, issued, sensor, events, interrupted>>

(* create_security_event, the same for an agent.                           *)
Report(c, k) ==
    /\ events[k] = None
    /\ Begin(c, [kind |-> "report", key |-> k])
    /\ UNCHANGED <<connector, issued, sensor, events, interrupted>>

(* Faulty variant: last_event_at is not written with the event, so that    *)
(* nothing ties the insert to the connector.                               *)
CanInsertUntied(call) == events[call.key] = None

(* Faulty variant: an insert whose key is taken replaces the row.          *)
CanInsertOver(call) == call.kind = "ingest" => connector # None

(* The update of last_event_at finds the connector, the insert no row.     *)
CanInsert(call) ==
    /\ call.kind = "ingest" => connector # None
    /\ events[call.key] = None

CommitEvent(c) ==
    /\ Is(c, "ingest") \/ Is(c, "report")
    /\ events' = IF CanInsert(calls[c])
                 THEN [events EXCEPT ![calls[c].key] = New] ELSE events
    /\ End(c)
    /\ UNCHANGED <<connector, issued, sensor, interrupted>>

-----------------------------------------------------------------------------
(* The tokens of the connector.                                            *)

Managing == {c \in Calls : Is(c, "rotate") \/ Is(c, "endGrace")}
SensorMoved == connector # None /\ sensor = connector.token

(* A renewal interrupts the sensor if it is not finished when the next one *)
(* or the end of the transition takes effect, if it leaves no transition,  *)
(* or if two administrators work at the same time.                         *)
Disturbed(smooth) ==
    interrupted' = (interrupted \/ ~smooth \/ ~SensorMoved
                    \/ Cardinality(Managing) > 1)

BeginRotate(c, grace) ==
    /\ connector # None
    /\ Begin(c, [kind |-> "rotate", read |-> connector, grace |-> grace])
    /\ UNCHANGED <<connector, issued, sensor, events, interrupted>>

(* Faulty variant: the token before the last one is kept.                  *)
RenewedLate(call) ==
    Merged(connector, call.read,
        [token |-> issued + 1, over |-> FALSE,
         previous |-> IF call.grace THEN call.read.previous ELSE None])

(* The new row: previous_token_expires_at goes with previous_token_hash.   *)
Renewed(call) ==
    LET row == Merged(connector, call.read,
                  [token |-> issued + 1, over |-> FALSE,
                   previous |-> IF call.grace THEN call.read.token ELSE None])
    IN  IF call.grace THEN [row EXCEPT !.over = FALSE] ELSE row

CommitRotate(c) ==
    /\ Is(c, "rotate")
    /\ connector # None
    /\ issued < MaxToken
    /\ connector' = Renewed(calls[c])
    /\ issued' = issued + 1
    /\ Disturbed(calls[c].grace)
    /\ End(c)
    /\ UNCHANGED <<sensor, events>>

BeginEndGrace(c) ==
    /\ connector # None
    /\ connector.previous # None
    /\ Begin(c, [kind |-> "endGrace"])
    /\ UNCHANGED <<connector, issued, sensor, events, interrupted>>

CommitEndGrace(c) ==
    /\ Is(c, "endGrace")
    /\ connector # None
    /\ connector' = [connector EXCEPT !.previous = None, !.over = FALSE]
    /\ Disturbed(TRUE)
    /\ End(c)
    /\ UNCHANGED <<issued, sensor, events>>

BeginDelete(c) ==
    /\ connector # None
    /\ Begin(c, [kind |-> "delete"])
    /\ UNCHANGED <<connector, issued, sensor, events, interrupted>>

CommitDelete(c) ==
    /\ Is(c, "delete")
    /\ connector' = None
    /\ End(c)
    /\ UNCHANGED <<issued, sensor, events, interrupted>>

(* A connector that was read and is gone at the commit.                    *)
CommitFails(c) ==
    /\ Is(c, "rotate") \/ Is(c, "endGrace")
    /\ connector = None
    /\ End(c)
    /\ UNCHANGED <<connector, issued, sensor, events, interrupted>>

GraceEnds ==
    /\ connector # None
    /\ connector.previous # None /\ ~connector.over
    /\ connector' = [connector EXCEPT !.over = TRUE]
    /\ interrupted' = (interrupted \/ ~SensorMoved)
    /\ UNCHANGED <<issued, sensor, events, calls>>

(* configure-cyberpme with the new token.                                  *)
Configure ==
    /\ connector # None
    /\ sensor' = connector.token
    /\ UNCHANGED <<connector, issued, events, calls, interrupted>>

-----------------------------------------------------------------------------
(* Triage.                                                                 *)

Resolved(note) ==
    [status |-> "resolved", acknowledgedAt |-> TRUE, resolvedAt |-> TRUE,
     note |-> note]

Acknowledged ==
    [status |-> "acknowledged", acknowledgedAt |-> TRUE,
     resolvedAt |-> FALSE, note |-> None]

Reopened(note) ==
    [status |-> "new", acknowledgedAt |-> FALSE, resolvedAt |-> FALSE,
     note |-> note]

Triages(k) == {c \in Calls : Is(c, "triage") /\ calls[c].key = k}

BeginTriage(c, k, want) ==
    /\ Begin(c, [kind |-> "triage", key |-> k, read |-> events[k],
                 want |-> want])
    /\ UNCHANGED <<connector, issued, sensor, events, interrupted>>

Resolve(c, k) ==
    /\ events[k] # None
    /\ \E note \in Notes : BeginTriage(c, k, Resolved(note))

Acknowledge(c, k) ==
    /\ events[k] # None
    /\ events[k].status # "resolved"
    /\ BeginTriage(c, k, Acknowledged)

Reopen(c, k) ==
    /\ events[k] # None
    /\ \E note \in Notes \cup {None} :
          BeginTriage(c, k, Reopened(note))

(* resolved_at is a new time whenever it is set, hence always written.     *)
CommitTriage(c) ==
    /\ Is(c, "triage")
    /\ LET call == calls[c]
           row == Merged(events[call.key], call.read, call.want)
       IN  events' = [events EXCEPT ![call.key] =
                        [row EXCEPT !.resolvedAt = call.want.resolvedAt \/ @]]
    /\ End(c)
    /\ UNCHANGED <<connector, issued, sensor, interrupted>>

-----------------------------------------------------------------------------

Sender(c) ==
    \E k \in Keys :
        \/ \E token \in 1 .. issued : Ingest(c, k, token)
        \/ Report(c, k)

Administrator(c) ==
    \/ \E grace \in BOOLEAN : BeginRotate(c, grace)
    \/ CommitRotate(c)
    \/ BeginEndGrace(c) \/ CommitEndGrace(c)
    \/ BeginDelete(c) \/ CommitDelete(c)
    \/ CommitFails(c)

Analyst(c) ==
    \/ \E k \in Keys : Resolve(c, k) \/ Acknowledge(c, k) \/ Reopen(c, k)
    \/ CommitTriage(c)

Next ==
    \/ \E c \in Calls :
          Sender(c) \/ CommitEvent(c) \/ Administrator(c) \/ Analyst(c)
    \/ GraceEnds \/ Configure

Spec == Init /\ [][Next]_vars

-----------------------------------------------------------------------------

(* A repeated post, or one that crosses the first, answers with the event  *)
(* that is there: only an analyst changes an incident, and nothing removes *)
(* it, so that a late copy never opens a resolved incident again.          *)
RepeatKeepsTriage ==
    [][\A k \in Keys :
          events[k] # None /\ events'[k] # events[k] =>
              /\ events'[k] # None
              /\ \E c \in Triages(k) : calls'[c] = None]_vars

(* architecture-commerciale 66-67: deleting a connector ends its access at *)
(* once.  A post that was let in before the deletion records nothing after *)
(* it, because it writes to the connector's row as well.                   *)
DeletedIsSilent ==
    [][\A k \in Keys :
          events[k] = None /\ events'[k] # None /\ connector = None =>
              \E c \in Calls : /\ Is(c, "report")
                               /\ calls[c].key = k
                               /\ calls'[c] = None]_vars

(* wazuh/README 47-60, renewal without interruption: as long as renewals   *)
(* follow the procedure the sensor's token is accepted, before and after   *)
(* it is reconfigured.                                                     *)
SensorKeepsAccess ==
    connector # None /\ ~interrupted => Accepts(sensor)
=============================================================================
