-------------------------- MODULE ZonePredictions --------------------------
(***************************************************************************)
(* ml-worker: every interval a pipeline process extracts the sensors'      *)
(* records to a file, predicts water levels zone by zone, stores each      *)
(* prediction, announces it on Kafka, records an alert and updates the     *)
(* zone's risk status. Each of the three writes is a transaction of its    *)
(* own: the administrators' requests run between them.                     *)
(*                                                                         *)
(* The model's inference and the CSV files between its scripts are a       *)
(* choice of the predicted peak. Levels are in millimetres.                *)
(***************************************************************************)
EXTENDS Integers, FiniteSets

CONSTANTS
  Zones,
  None,
  Peaks,      \* predicted peak levels
  Warning,    \* MIN(warning_m), MIN(critical_m) of a zone's active sensors,
  Critical,   \*   or the defaults 3.0 and 4.0
  WithDb,     \* not --skip-db
  WithKafka,  \* not --skip-kafka, and a broker is configured
  ScriptSends,     \* the broker predict_xgb.py is configured with is there
  ScriptWarning, ScriptCritical,  \* the script's own levels, 3.0 and 5.0 by default
  MaxRuns,    \* bound: runs of the pipeline
  MaxErrors   \* bound: errors the code swallows, of the database and of the broker

ASSUME PredictionsAssumption ==
  /\ IsFiniteSet(Zones)
  /\ None \notin Zones
  /\ Peaks \subseteq Nat
  /\ Warning \in Nat
  /\ Critical \in Nat \ {0}
  /\ WithDb \in BOOLEAN
  /\ WithKafka \in BOOLEAN
  /\ ScriptSends \in BOOLEAN
  /\ ScriptWarning \in Nat /\ ScriptCritical \in Nat
  /\ MaxRuns \in Nat
  /\ MaxErrors \in Nat

VARIABLES
  pc,        \* the pipeline: "asleep", "extract", "load", "loop", "write", "announce",
             \*   "record", "status", "flush"
  run,       \* runs of the pipeline so far
  outcome,   \* of the last run that ended: "none", "ok", "failed"
  file,      \* the adapter file holds records
  found,     \* the extraction of this run found records
  todo,      \* zones of zone_info the loop has not reached
  served,    \* zones whose predictions are in all_predictions
  cur,       \* the zone in the loop's body
  peak,      \* its predicted_peak_level_m
  buffer,    \* events in the Kafka producer
  topics,    \* events on analytics.predictions and system.alerts
  refused,   \* history: events whose delivery failed
  stray,     \* events of the zone "UNKNOWN" on the topics, which predict_xgb.py sends
  exists,    \* rows of zones
  status,    \* their risk_level
  active,    \* their active_alerts
  rows,      \* flood_predictions
  alerts,    \* alert_events, each known by its prediction
  resolved,  \* history: alert:resolved events
  gone,      \* history: zones that have been deleted
  errors     \* errors swallowed

worker == <<pc, run, outcome, file, found, todo, served, cur, peak>>
kafka == <<buffer, topics, refused, stray>>
board == <<exists, status, active>>
db == <<board, rows, alerts>>
vars == <<worker, kafka, db, resolved, gone, errors>>

Init ==
  /\ pc = "asleep"
  /\ run = 0
  /\ outcome = "none"
  /\ file = FALSE
  /\ found = FALSE
  /\ todo = {}
  /\ served = {}
  /\ cur = None
  /\ peak = 0
  /\ buffer = {}
  /\ topics = {}
  /\ refused = {}
  /\ stray = {}
  /\ exists \in SUBSET Zones
  /\ status = [z \in Zones |-> None]
  /\ active = [z \in Zones |-> 0]
  /\ rows = {}
  /\ alerts = {}
  /\ resolved = {}
  /\ gone = {}
  /\ errors = 0

-----------------------------------------------------------------------------
(* Risk: severity_from_peak and the score a zone's row can hold.           *)

Severity(p, warning, critical) ==
  IF p >= critical THEN "CRITICAL"
  ELSE IF p >= warning THEN "HIGH"
  ELSE IF 4 * p >= 3 * warning THEN "MEDIUM"
  ELSE "LOW"

SeverityFromPeak(p) == Severity(p, Warning, Critical)

Severe == {"HIGH", "CRITICAL"}

\* round(min(100, 100 * peak / critical), 1) is 100.0: too large for zones.risk_score,
\* which is NUMERIC(6,4).
ScoreOverflows(p) == 2000 * p >= 1999 * Critical

\* A row of flood_predictions: what zone, of which run, with what severity.
Row(z, p) == [zone |-> z, run |-> run, severity |-> SeverityFromPeak(p)]

Event(k, z, p) == [kind |-> k, zone |-> z, run |-> run, severity |-> SeverityFromPeak(p)]

\* publish_prediction_events of predict_xgb.py: the features have no zone_id, so that its
\* events are of the zone "UNKNOWN". It flushes before it ends, and fails silently.
ScriptEvents(p) ==
  LET s == Severity(p, ScriptWarning, ScriptCritical)
      kinds == {"zone:risk:update", "prediction:new"}
                 \cup IF s \in Severe THEN {"alert:new"} ELSE {}
  IN IF ScriptSends THEN {[kind |-> k, run |-> run, severity |-> s] : k \in kinds} ELSE {}

-----------------------------------------------------------------------------
(* The pipeline: one process per run.                                      *)

\* The worker starts the pipeline.
Start ==
  /\ pc = "asleep"
  /\ run < MaxRuns
  /\ pc' = "extract"
  /\ run' = run + 1
  /\ found' = FALSE
  /\ todo' = {}
  /\ served' = {}
  /\ UNCHANGED <<outcome, file, cur, peak, kafka, db, resolved, gone, errors>>

\* extract_influx_data.py writes the records it finds; it leaves the file as it is, and
\* succeeds, when it finds none.
Extract ==
  /\ pc = "extract"
  /\ found' \in BOOLEAN
  /\ file' = (file \/ found')
  /\ pc' = "load"
  /\ UNCHANGED <<run, outcome, todo, served, cur, peak, kafka, db, resolved, gone, errors>>

\* The records are read back from the file, and the sensors' zones and the zones from
\* the database, once for the run. Without a record of a zone the run fails.
Load ==
  /\ pc = "load"
  /\ file
  /\ exists # {}
  /\ pc' = "loop"
  /\ todo' = exists
  /\ UNCHANGED <<run, outcome, file, found, served, cur, peak, kafka, db, resolved, gone, errors>>

\* Nothing to predict from: no rows of the zone, no complete features, no prediction.
Skip ==
  /\ pc = "loop"
  /\ \E z \in todo : todo' = todo \ {z}
  /\ UNCHANGED <<pc, run, outcome, file, found, served, cur, peak, kafka, db, resolved, gone, errors>>

\* The next zone of the loop gets a prediction, by transform_infer.py and predict_xgb.py,
\* which sends events of its own whatever the options of the pipeline say. What follows is for the events: without
\* a producer the prediction only goes to the CSV file.
Predict ==
  /\ pc = "loop"
  /\ \E z \in todo, p \in Peaks :
       /\ todo' = todo \ {z}
       /\ served' = served \cup {z}
       /\ stray' = stray \cup ScriptEvents(p)
       /\ IF WithKafka
            THEN /\ pc' = IF WithDb THEN "write" ELSE "announce"
                 /\ cur' = z
                 /\ peak' = p
            ELSE UNCHANGED <<pc, cur, peak>>
  /\ UNCHANGED <<run, outcome, file, found, buffer, topics, refused, db, resolved, gone, errors>>

\* Mutant: an error of the insert is swallowed.
WriteSwallows ==
  /\ pc = "write"
  /\ rows' \in {rows, rows \cup {Row(cur, peak)}}
  /\ pc' = "announce"
  /\ UNCHANGED <<run, outcome, file, found, todo, served, cur, peak, kafka, board, alerts,
                 resolved, gone, errors>>

\* write_prediction_return_id: the foreign key wants the zone to be there still.
WritePrediction ==
  /\ pc = "write"
  /\ cur \in exists
  /\ rows' = rows \cup {Row(cur, peak)}
  /\ pc' = "announce"
  /\ UNCHANGED <<run, outcome, file, found, todo, served, cur, peak, kafka, board, alerts,
                 resolved, gone, errors>>

\* publish_zone_events up to its database part: the events go to the producer's buffer.
Announce ==
  /\ pc = "announce"
  /\ buffer' = buffer \cup {Event("zone:risk:update", cur, peak), Event("prediction:new", cur, peak)}
       \cup IF SeverityFromPeak(peak) \in Severe THEN {Event("alert:new", cur, peak)} ELSE {}
  /\ pc' = IF WithDb THEN "record" ELSE "loop"
  /\ UNCHANGED <<run, outcome, file, found, todo, served, cur, peak, topics, refused, stray, db,
                 resolved, gone, errors>>

\* An error that the code catches and drops.
Swallow == errors < MaxErrors /\ errors' = errors + 1

\* Mutant: only critical predictions are recorded.
RecordAlertCritical ==
  /\ pc = "record"
  /\ IF SeverityFromPeak(peak) = "CRITICAL" /\ Row(cur, peak) \in rows
       THEN \/ /\ alerts' = alerts \cup {Row(cur, peak)}
               /\ UNCHANGED errors
            \/ Swallow /\ UNCHANGED alerts
       ELSE UNCHANGED <<alerts, errors>>
  /\ pc' = "status"
  /\ UNCHANGED <<run, outcome, file, found, todo, served, cur, peak, kafka, board, rows,
                 resolved, gone>>

\* The alert of a severe prediction is recorded, unless the prediction was deleted with
\* its zone or the insert fails otherwise: an error is swallowed.
RecordAlert ==
  /\ pc = "record"
  /\ IF SeverityFromPeak(peak) \in Severe /\ Row(cur, peak) \in rows
       THEN \/ /\ alerts' = alerts \cup {Row(cur, peak)}
               /\ UNCHANGED errors
            \/ Swallow /\ UNCHANGED alerts
       ELSE UNCHANGED <<alerts, errors>>
  /\ pc' = "status"
  /\ UNCHANGED <<run, outcome, file, found, todo, served, cur, peak, kafka, board, rows,
                 resolved, gone>>

\* Mutant: every prediction counts as an alert.
UpdateStatusCountsAll ==
  /\ pc = "status"
  /\ IF cur \in exists /\ ~ScoreOverflows(peak)
       THEN /\ status' = [status EXCEPT ![cur] = SeverityFromPeak(peak)]
            /\ active' = [active EXCEPT ![cur] = @ + 1]
       ELSE UNCHANGED <<status, active>>
  /\ pc' = "loop"
  /\ UNCHANGED <<run, outcome, file, found, todo, served, cur, peak, kafka, exists, rows, alerts,
                 resolved, gone, errors>>

\* update_zone_risk_status: one UPDATE of the zone's row, if it is there and the score
\* fits its column; an error is swallowed.
UpdateStatus ==
  /\ pc = "status"
  /\ IF cur \in exists /\ ~ScoreOverflows(peak)
       THEN \/ /\ status' = [status EXCEPT ![cur] = SeverityFromPeak(peak)]
               /\ active' = [active EXCEPT ![cur] =
                               @ + IF SeverityFromPeak(peak) \in Severe THEN 1 ELSE 0]
               /\ UNCHANGED errors
            \/ Swallow /\ UNCHANGED <<status, active>>
       ELSE UNCHANGED <<status, active, errors>>
  /\ pc' = "loop"
  /\ UNCHANGED <<run, outcome, file, found, todo, served, cur, peak, kafka, exists, rows, alerts,
                 resolved, gone>>

\* The loop is over and has predictions: their CSV is written.
EndLoop ==
  /\ pc = "loop"
  /\ todo = {}
  /\ served # {}
  /\ pc' = "flush"
  /\ UNCHANGED <<run, outcome, file, found, todo, served, cur, peak, kafka, db, resolved, gone, errors>>

\* Mutant: the process returns without a flush.
FinishWithoutFlush ==
  /\ pc = "flush"
  /\ pc' = "asleep"
  /\ outcome' = "ok"
  /\ buffer' = {}
  /\ UNCHANGED <<run, file, found, todo, served, cur, peak, topics, refused, stray, db, resolved, gone, errors>>

\* kafka_producer.flush() returns when no event is left in the buffer.
Finish ==
  /\ pc = "flush"
  /\ buffer = {}
  /\ pc' = "asleep"
  /\ outcome' = "ok"
  /\ UNCHANGED <<run, file, found, todo, served, cur, peak, kafka, db, resolved, gone, errors>>

\* Mutant: an exception escapes the worker's loop.
FailStops ==
  /\ pc # "asleep"
  /\ pc' = "stopped"
  /\ outcome' = "failed"
  /\ buffer' = {}
  /\ UNCHANGED <<run, file, found, todo, served, cur, peak, topics, refused, stray, db, resolved, gone, errors>>

\* A step raises: a script exits with an error, the database or the broker is away, a
\* zone has no valid prediction, a zone was deleted before its prediction is written. The
\* process ends with what it has not sent; the worker sleeps and goes on.
Fail ==
  /\ pc # "asleep"
  /\ pc' = "asleep"
  /\ outcome' = "failed"
  /\ buffer' = {}
  /\ UNCHANGED <<run, file, found, todo, served, cur, peak, topics, refused, stray, db, resolved, gone, errors>>

-----------------------------------------------------------------------------
(* Kafka: the producer's thread.                                           *)

Deliver ==
  /\ \E e \in buffer :
       /\ buffer' = buffer \ {e}
       /\ topics' = topics \cup {e}
  /\ UNCHANGED <<worker, refused, stray, db, resolved, gone, errors>>

\* The retries of an event are exhausted; nobody looks at its future.
Refuse ==
  /\ Swallow
  /\ \E e \in buffer :
       /\ buffer' = buffer \ {e}
       /\ refused' = refused \cup {e}
  /\ UNCHANGED <<worker, topics, stray, db, resolved, gone>>

-----------------------------------------------------------------------------
(* The administrators.                                                     *)

\* POST /zones of a new zone: without a risk level, without alerts.
CreateZone ==
  /\ \E z \in Zones \ exists : exists' = exists \cup {z}
  /\ UNCHANGED <<worker, kafka, status, active, rows, alerts, resolved, gone, errors>>

Without(z, S) == {r \in S : r.zone # z}

\* DELETE /zones: the predictions and their alerts go with the zone.
DeleteZone ==
  /\ \E z \in exists :
       /\ exists' = exists \ {z}
       /\ status' = [status EXCEPT ![z] = None]
       /\ active' = [active EXCEPT ![z] = 0]
       /\ rows' = Without(z, rows)
       /\ alerts' = Without(z, alerts)
       /\ gone' = gone \cup {z}
  /\ UNCHANGED <<worker, kafka, resolved, errors>>

\* The tables the migrations create.
Tables == {"zones", "sensor_nodes", "zone_shelters", "anomalies", "rivers", "users",
           "model_metadata", "flood_predictions", "alert_events", "historical_floods"}

\* _lookup_alert_zone selects from a table alerts; the error is swallowed.
LookupAlertZone(a) == IF "alerts" \in Tables THEN a.zone ELSE None

\* PATCH /alerts/{alert_id}: the zone's count goes down, if the zone is found, and
\* alert:resolved is published; the alert itself stays.
ResolveAlert ==
  /\ \E a \in alerts :
       LET z == LookupAlertZone(a) IN
         /\ active' = IF z \in exists /\ active[z] > 0 THEN [active EXCEPT ![z] = @ - 1] ELSE active
         /\ resolved' = resolved \cup {[alert |-> a, zone |-> z]}
  /\ UNCHANGED <<worker, kafka, exists, status, rows, alerts, gone, errors>>

-----------------------------------------------------------------------------
Next ==
  \/ Start \/ Extract \/ Load \/ Skip \/ Predict
  \/ WritePrediction \/ Announce \/ RecordAlert \/ UpdateStatus
  \/ EndLoop \/ Finish \/ Fail
  \/ Deliver \/ Refuse
  \/ CreateZone \/ DeleteZone \/ ResolveAlert

Spec == Init /\ [][Next]_vars

\* The code raises here whatever else happens.
Raises ==
  \/ pc = "load" /\ (~file \/ exists = {})
  \/ pc = "write" /\ cur \notin exists
  \/ pc = "loop" /\ todo = {} /\ served = {}

\* The sequential process goes on, by its next step or by raising.
Pipeline ==
  \/ Start \/ Extract \/ Load \/ Skip \/ Predict
  \/ WritePrediction \/ Announce \/ RecordAlert \/ UpdateStatus
  \/ EndLoop \/ Finish
  \/ Raises /\ Fail

\* The worker's processes run, and the broker answers in the end.
FairSpec ==
  /\ Spec
  /\ WF_vars(Pipeline)
  /\ WF_vars(Deliver)

-----------------------------------------------------------------------------
(* Properties. *)

Severities == {"LOW", "MEDIUM", "HIGH", "CRITICAL"}
Rows == [zone : Zones, run : 1..MaxRuns, severity : Severities]
Events == [kind : {"zone:risk:update", "prediction:new", "alert:new"},
           zone : Zones, run : 1..MaxRuns, severity : Severities]

\* Every variable keeps its type; an alert row belongs to a prediction that is there.
TypeOK ==
  /\ pc \in {"asleep", "extract", "load", "loop", "write", "announce", "record", "status", "flush"}
  /\ run \in 0..MaxRuns
  /\ outcome \in {"none", "ok", "failed"}
  /\ file \in BOOLEAN
  /\ found \in BOOLEAN
  /\ todo \subseteq Zones
  /\ served \subseteq Zones
  /\ cur \in Zones \cup {None}
  /\ peak \in Peaks \cup {0}
  /\ buffer \subseteq Events /\ topics \subseteq Events /\ refused \subseteq Events
  /\ stray \subseteq [kind : {"zone:risk:update", "prediction:new", "alert:new"},
                      run : 1..MaxRuns, severity : Severities]
  /\ exists \subseteq Zones
  /\ status \in [Zones -> Severities \cup {None}]
  /\ active \in [Zones -> 0..MaxRuns]
  /\ rows \subseteq Rows
  /\ alerts \subseteq rows
  /\ resolved \subseteq [alert : Rows, zone : Zones \cup {None}]
  /\ gone \subseteq Zones
  /\ errors \in 0..MaxErrors

\* "prediction:new" and the other events of a run follow the prediction's row: whoever
\* hears of a prediction finds it in the database with the same severity, unless the zone
\* was deleted.
AnnouncedIsStored ==
  WithDb =>
    \A e \in buffer \cup topics \cup refused :
      e.run = run /\ e.zone \notin gone =>
        [zone |-> e.zone, run |-> e.run, severity |-> e.severity] \in rows

\* A run predicts a zone once.
OnePerRun ==
  \A r1, r2 \in rows : r1.zone = r2.zone /\ r1.run = r2.run => r1 = r2

\* The zone table shows no level that was not predicted for this zone, and it counts an
\* alert for a severe prediction at most once. (A zone that is deleted and created again
\* while the run is at it gets the level of a prediction that is gone.)
BoardWasPredicted ==
  \A z \in Zones \ gone :
    LET predicted == {r \in rows : r.zone = z} IN
      /\ status[z] # None => \E r \in predicted : r.severity = status[z]
      /\ active[z] <= Cardinality({r \in predicted : r.severity \in Severe})

\* A run that succeeds is complete: each zone's prediction is on its topic or was refused
\* by the broker, although the process has ended, and "predictions were stored per-zone
\* earlier when DB enabled".
SuccessIsComplete ==
  pc = "asleep" /\ outcome = "ok" /\ WithKafka =>
    \A z \in served :
      /\ \E e \in topics \cup refused :
           e.kind = "prediction:new" /\ e.zone = z /\ e.run = run
      /\ WithDb /\ z \notin gone => \E r \in rows : r.zone = z /\ r.run = run

\* A run that succeeds without a swallowed error has recorded every alert it announced.
AlertsRecorded ==
  pc = "asleep" /\ outcome = "ok" /\ WithDb /\ errors = 0 =>
    \A e \in topics :
      e.kind = "alert:new" /\ e.run = run /\ e.zone \notin gone =>
        \E a \in alerts : a.zone = e.zone /\ a.run = e.run

\* The pipeline's failures do not stop the worker: every run is followed by the next.
WorkerGoesOn == \A r \in 0..MaxRuns - 1 : run = r ~> run > r

\* "Update zone risk status ... based on prediction summary": after a run without errors
\* the zone table shows the level that was predicted.
ZoneTableFollows ==
  pc = "asleep" /\ outcome = "ok" /\ errors = 0 =>
    \A r \in rows : r.run = run => status[r.zone] = r.severity
=============================================================================
