# Formal specifications of the flood monitoring backend

TLA+ models of the backend in `src/`: what its processes do to Kafka, InfluxDB,
Postgres, Clerk and the browsers, step by step, with the TLC configurations that
check them on small instances and the theorems the TLA+ proof system (TLAPS)
proves for every instance.

    tlc -config LiveWatchdog.cfg MCLiveEvents.tla     # a run
    tlapm LiveEventsProofs.tla                        # the proofs of a module

## 1. The system

    devices --MQTT--> mqtt-kafka-service --raw topic--> kafka-influx-service
                                                         |  |  \-- system.diagnostics, anomalies
                                             telemetry.live  InfluxDB
                                                         |       |
    browsers <--Socket.IO-- api (app/ws/live.py)         |   ml-worker (pipeline)
        ^          |  ^------- Kafka topics -------------+-------+   |
        |          +-- sensor:offline --> system.alerts              Postgres: flood_predictions,
    admin API (app/api) -- Clerk, Postgres                            alert_events, zones

| Part | State it keeps | Operations | Interacts with |
|---|---|---|---|
| Live events, `app/ws/live.py` | last-seen table, zone cache and its lock, consumer positions | four fan-out loops, the watchdog, `_lookup_zone`, `_ensure_tasks` | Kafka, Postgres, browsers; the watchdog writes the topic one of the loops reads |
| Anomaly detector, `kafka-influx-service/anomaly.py` | a window of readings per sensor | `is_anomaly` | used by the bridge below |
| Kafka to InfluxDB bridge, `kafka-influx-service` | consumer offsets, retry counter, detector, producer buffers | `process_message`, poll, reconnect | raw topic, InfluxDB, `anomalies`, two topics |
| MQTT to Kafka bridge, `mqtt-kafka-service` | subscription, producer batches | `on_connect`, `on_message`, `normalize_payload`, shutdown | MQTT broker, raw topic |
| ML worker, `ml-worker`, `scripts/extract_influx_data.py` | adapter file, tables of predictions and alerts | a pipeline run: extract, load, predict, store, announce, update the zone | InfluxDB, Postgres, `analytics.predictions`, `system.alerts` |
| Machine learning, `ml` | model directory: models, feature columns, config | training (`transform.py`, `train_xgb.py`), inference (`transform_infer.py`, `predict_xgb.py`), station tables (`adapters`) | run by the worker and by hand, both on the model directory |
| Users, `app/api/routers/users.py`, `webhooks.py`, `location.py`, `scripts/setup-admin-user.py` | Clerk accounts, table `users` | POST, PATCH, DELETE, the Clerk webhook, resolve, the setup script | Clerk and its dashboard, Postgres |
| Administration, `app/api/routers/admin.py` | tables of rivers, zones, sensors, shelters | CRUD, resolve an alert | Postgres, `system.alerts`; the pipeline and the services below read its tables |
| Zone, sensor, intelligence services | none | queries, point in polygon, severities, online rule | Postgres, InfluxDB |
| Authentication, bootstrap, migrations, gateway, monitoring | none at run time | | |

What makes each of them hard, and what makes it correct:

* **Live events.** Five asyncio tasks interleave at every `await`; a sweep works on a
  snapshot; one lock is held across a database call in a thread; consumers commit in
  the background and start at the *end* of a topic without a committed offset. Correct
  means: one verdict per silence, one zone per sensor, an exact fan-out between two
  stops, at most one event lost per stop, and nobody waits for the lock for ever.
* **Detector.** Boundaries of window, warm-up and score; rejected readings leave no
  trace; NaN compares false.
* **Kafka to InfluxDB.** Crashes between two of: judging, writing, publishing,
  committing. Correct means: no record is skipped, what is shown live is stored, a
  record delivered once is stored or reported but not both, every record is dealt with in
  the end, and all of it looks like a ledger that is worked off in order.
* **MQTT to Kafka.** Sessions that forget subscriptions, batches that are repeated and
  overtake each other, a shutdown that may or may not flush, five units of time.
* **ML worker.** Three transactions per zone with administrators between them, errors
  swallowed in two of them, files that outlive a run. Correct means: who hears of a
  prediction finds its row, a run that succeeds is complete, a run that found readings
  predicts from them.
* **Machine learning.** Lags are numbers of rows, the window of readings moves from run to
  run, readings come late, and two programs decide by different rules which rows to keep;
  training rewrites in place, file by file, a directory the worker is reading, and may stop
  within a file; administrators move the sensors while a run is under way. Correct means: a
  row is asked about only if it could be trained on, its features are of its past and do not
  depend on the window, no run predicts fewer horizons than a whole training has, and a
  training that goes through mends what others left.
* **Users.** Two systems written one after the other, a third writer - the webhook - that is
  late, repeated and out of order, and others that do not validate: the Clerk dashboard,
  devices, the setup script, the deletion of a zone.
* **Administration and its readers.** Three kinds of foreign keys, links between zones
  that may form any graph, and readers that put together what several statements saw at
  different moments. Correct means: no reference dangles, the pipeline knows its zones
  and their upstream neighbours, what was raised as an alert is listed as one.

## 2. The modules

Every component is one module; `MC...` instantiates it for TLC; `...Proofs` holds its
theorems. An action is the code between two points at which something else can happen:
an `await` in the event loop, a call that leaves a process, a transaction. Names follow
the source.

**LiveEvents** (`app/ws/live.py`). `task[t]` is where each of the five tasks stands and
the sensor and zone it holds; `Connect` is `_ensure_tasks`; `Subscribe`, `Receive`,
`ReceivePoison`, `Emit` are a loop's body; `LookupZone`, `AcquireLock`, `FetchZone`,
`FinishLookup` are `_lookup_zone` around its two awaits; `StartProducer`, `Sweep`,
`NextStale`, `PublishOffline`, `PublishFails`, `StopTracking` are the watchdog.
`AutoCommit`, `Crash` and `Restart` fall between any two of them. Kafka is a log per
topic, a committed offset and a position. Time is the number of ticks since a sensor was
heard, saturated just above the threshold. `CreateSensor` and `DeleteZone` are the
administrator who moves a sensor while its zone is being looked up.

**AnomalyDetector** (`anomaly.py`). The window is a sequence; the Z-score test is
written without root and division, `n (n x - S)^2 > z^2 sum (n h_i - S)^2`, so that it
is exact over the integers; floating-point rounding is not modelled.

**SensorBridge** (`main.py`, `schema.py`, `kafka_client.py`, `db.py`). It INSTANCEs
AnomalyDetector on its own variable `history`: `Judge` calls the detector as
`process_message` calls `is_anomaly`, and a process that ends forgets the windows.
`Poll` commits the position reached before and fetches a batch; `Judge`, `Alert`,
`Save`, `Write`, `WriteFails`, `Publish` are `process_message`; `Fail` is the outer
`except`, after which the process connects again (`Abandon`) or exits (`Die`), which is
not the same state as after a `Crash`: a process is `killed` or has `exited`. A record the
deserializer of the consumer cannot decode makes every fetch of it raise. `influx`
holds offsets: a point is keyed by sensor and time, so a second write changes nothing,
whereas `rows` counts, because every row of `anomalies` has a new id. `Feeds` are the
sequences of records the topic may get.

**ReadingLedger**. The abstract specification of the same service, seen from the broker,
InfluxDB and the table: records are settled in the order of the topic, `Open` and
`Settle`; on the way a record may be stored, recorded or announced, telemetry only after
it was stored; the offset moves over settled records only; events that wait may be lost,
and nothing else is. It knows no polls, batches, detector, crashes or retries.
SensorBridge instantiates it as `Ledger`; `LedgerKept` is the refinement, a property of
the run and a theorem.

**MqttBridge** (`mqtt-kafka-service/main.py`). `OnConnect`, `OnDisconnect`, `OnMessage`
are the callbacks; `SendBatch`, `Acked`, `Nacked` the producer's thread with
`acks=all`, `retries=3` and several requests in flight; `Interrupt` and `Flush` the
shutdown; `Kill` and `Restart` the container's. Timestamps are known by their number of
digits, which is what both `normalize_payload` and the consumer's `parse_timestamp` look
at. Those two are modelled together because their guesses must agree.

**ZonePredictions** (`run_influx_ml_pipeline.py`, `pipeline/predictions.py`,
`worker.py`, `extract_influx_data.py`, and `admin.py` for what administrators do
meanwhile). A run is `Start`, `Extract`, `Load`, then per zone `Predict`,
`WritePrediction`, `Announce`, `RecordAlert`, `UpdateStatus`, and `Finish`; every step may
fail. The inference is a choice of the predicted peak, in millimetres, from which
severity and score follow as in the code. `stray` holds the events `predict_xgb.py` sends
on its own, for a zone "UNKNOWN". Zone deletion follows the foreign keys of the
migrations.

**Features** (`transform.py`, `transform_infer.py`, `split_by_time` of `train_xgb.py`). A
table has a row per time and in each row the readings at every distance upstream; `has` are
the distances it has columns for, with which `Columns`, `Feature` and `Trained` vary. A value
is the *set of readings* it is the mean of: two values are equal only if the same sensors
measured them at the same time, which is all the properties need and lets them speak of
where a number comes from. `Shifted` is `series.shift`, `Trained` and `Inferred` are the
rows the two scripts keep. `Share` leaves the rounding of `int(n * 0.7)` open, because
the float product may fall below the whole number.

**Forecast** (`run_influx_ml_pipeline.py`, `pipeline/influx.py`, `extract_influx_data.py`,
`json_to_csv_station.py`, `predict_xgb.py`, `train_xgb.py`). EXTENDS Features with the
time between them. `Report` stores a reading, up to `MaxDelay` late; `ChangeRegistry`
replaces the tables of sensors and zones, at any moment, by any of `Registries` (request by
request that is ZoneRegistry). A run is `Extract` (with the range `Widened` for the warm-up),
`Load` (one station, or the sensors of all zones), `LoadZones` (the zones and their upstream
chains, by a second statement), then for each target `Zone`, `ReadColumns`, `ReadHorizons`,
`LoadModel` for each horizon, `Predict`, and `Done`. Training is `Train`, `SaveModel` for
each horizon, `WriteColumns`, `WriteConfig`, each of which opens its file - which empties
it - and then writes it, and `StopTraining` at any point: a file that was open stays torn
(`partial`, `torn`) until a later training writes it. A run that meets a torn or missing file
ends. The same horizons may be trained again. `ZoneTable` and `StationTable` are the two ways
a table is made, the second with columns for the stations of the `--columns` header, and only
if every device id has a number (`Numbered`). What is done with a prediction is in
ZonePredictions, which takes the prediction as a choice.

**ZoneRegistry** (`admin.py`, the migrations, and what reads their tables:
`pipeline/influx.py`, `pipeline/predictions.py`, `intelligence.py`). A table is a function
per column; a zone exists when it has a river.
Each request of an administrator is one SQL statement and one action, with the foreign
keys as guards (`Linked`, `Held`) and their `ON DELETE` clauses in `DeleteZone`. The
pipeline is `LoadSensors` and `LoadZones` (the two statements of `load_pg_mappings`),
then per zone `Judge` (the thresholds are a third statement; when it fails, that is only
logged and the defaults are used) and `Store`, and `EndRun`.
A listing of the intelligence service is `OpenPage`, `JudgeAgain`, `Respond`. The upstream
chain is a recursive function on what was loaded. ZonePredictions takes thresholds as
constants and follows the events; here they change and the events are left out.

**UserSync** (`users.py`, `webhooks.py`, `location.py`). `Post`, `Insert`,
`InsertFails`, `Rollback` are POST; `Read`, `Patch`, `Write` are PATCH; `Deactivate` is
DELETE; `Created`, `Updated`, `Deleted` the webhook. Clerk is external: it takes an
account or refuses it and reports every change. `DashboardEdit` sets any role and zone in
the public metadata, as `docs/auth-setup-summary.md:65` tells operators to, and the webhook
writes what it finds there (`webhooks.py:39`); `SetupAdmin` is `scripts/setup-admin-user.py`,
`Resolve` a device. `DeleteZone` takes the zone from its users, `CreateZone` may bring it
back. `unchecked` keeps the pairs of role and zone that a user was given past
`_validate_zone_rules` by one of these. `Accepts` is what the constraints of the
table take. A webhook that was answered with an error is sent again, at any later time.

## 3. The runs

Each run answers a question; all of them explore the whole reachable state space.

| Run | Question | Bounds |
|---|---|---|
| LiveWatchdog | Do interleavings of two loops, the watchdog and an administrator break one-verdict, one-zone or the fan-out? | a sensor that moves between two zones, two records per topic, a loop that may die |
| LiveProgress | Does everyone get the lock, does a loop catch up, does a silent sensor get its verdict, what does a stop lose? | a sensor, two records, one restart, skipped and fatal records |
| LiveRearm *(violated)* | Is a sensor re-armed by its next telemetry? | two sensors, three records |
| DetectorRun | Window, warm-up and lock-out | the production values 10, 3 and 5; two levels |
| BridgeDelivery | Is a record skipped, shown but not stored, given two fates or stuck? Does the bridge implement the ledger? | four topics: graded readings with a jump, a jump from a flat history (score above ten, which is not stored), one with an unreadable record and one with a record that does not decode; one retry before an exit; crashes and redelivery without bound |
| MqttDelivery | Repetitions, order, losses, time units, re-subscription | eight payloads, two messages, two retries, two lost connections, three failed deliveries |
| PredictionsRuns | Do rows, events, alerts and the zone table agree? Is a run that succeeds complete? | one zone, four severities, two runs, one swallowed error |
| PredictionsCritical *(violated)* | Does the zone table follow a critical prediction? | one zone, one run |
| ForecastRun | Does a run use what it found, from rows that could be trained on, with features of the past that do not depend on the window? When do predictions go back? Is a model directory that trainings left half way ever predicted from, and is it mended? | two registries - one zone above the other with a sensor each, or both sensors in one zone - and a station; three readings, one tick late at most; two ranges; two trainings, of all or of fewer horizons, and one change of the registry, six together (below) |
| UsersLifecycle | Do webhooks that are late, repeated or bring unvalidated pairs make a row that nobody was given, reactivate or lose a user? | two ids with one email, one zone, two administrators, three roles (one unknown), three requests or outside changes, two faults |
| UsersDrift *(violated)* | Can a rolled back creation leave an active row? | as above |
| RegistryRun | Do references hold, does the pipeline know its zones and their neighbours, is an alert listed as one? | two rivers, three zones, two sensors with two pairs of thresholds, one shelter, three requests of administrators |

Why the bounds are enough. The races need one sensor, two tasks and one event in flight
while another arrives: two records are the first instance in which a record is overtaken
or committed early. A detector state is decided by the window, and its boundary (ten
members and three deviations) is at the production values. Redelivery needs one crash or
one failed poll; a second adds no step of a new kind, and the proofs cover any number.
A retry overtakes with two messages in flight. A run of the pipeline treats zones one
after the other and independently; the proofs cover any number of zones and runs. Two
ids with one email are the first instance of a refused row. Three
readings with a lag of one are two rows and a row that comes late between them or is cut
off by the range; a training for fewer horizons than before is the first instance in which
the files of two trainings can disagree. Readings, changes of the registry and trainings
share one bound, `MaxEvents`, in which a training weighs two: a prediction that goes back in
time takes a training, three readings and a change, six together, and a training that mends
what another left takes two trainings and two readings. Three zones are the longest
chain the pipeline looks at (`--upstream-limit` 2), the payloads link them in a loop and
across rivers, and three requests are what it takes to create a zone, move a sensor to it
and delete another between two statements of a reader; the proofs cover any number.
Histories (`sent`, `ended`,
`tries`, `unchecked`, `by`, ...) are only read by properties.

**Fairness.** LiveEvents: weak fairness of every task (the event loop runs what is ready)
and of time; strong fairness of `AcquireLock`, because `asyncio.Lock` serves its waiters
in order. SensorBridge: weak fairness of the process and its restart
(`restart: unless-stopped`), strong fairness of booting, connecting and polling: Kafka
may fail again and again but not for ever; a fetch of a record that does not decode is not
assumed to succeed (`Decodable`), and `EveryRecordEnds` says nothing of a topic with one.
That property is about behaviours in which kills from outside stop some day,
`<>[][~Crash]_vars`; retries and exits of the process's own, which are other steps to other
states (`Die`), need not stop. MqttBridge: weak fairness of the client's and
the producer's threads and of the flush. ZonePredictions: weak fairness of the pipeline,
which is one sequential process, and of the producer's thread. Forecast: none, all its
properties are about safety. UserSync: weak fairness of
the requests' steps and of webhook delivery; nothing is assumed of its order. No
administrator, device or browser is assumed to act.

`CHECK_DEADLOCK FALSE` is set where a bounded environment has nothing left to do: the
topics are full, all requests made, or MQTT's process has ended by an interrupt.

## 4. What was found

* **LiveRearm.** `_sensor_last_seen.pop` (`live.py:239`) runs after two awaits. Telemetry
  handled in between is wiped out; if the sensor then falls silent, nobody notices. The
  comment in line 238 says it "re-arms on next telemetry arrival".
* **PredictionsCritical.** The score of a critical prediction is 100.0,
  `zones.risk_score` is NUMERIC(6,4), and the error is swallowed: the zone table never
  shows CRITICAL and never counts its alert.
* **UsersDrift.** A `user.created` that comes again after `user.deleted` leaves an
  active user without an account: "so the two systems never drift" (`users.py:125`).

Further behaviour met while modelling; the models contain it and no property denies it:
the watchdog declares a sensor offline from a snapshot although it was heard since
(`live.py:222`); polls that keep failing never exhaust `max_retries`, because each
connection resets the counter (`kafka-influx-service/main.py:281`); a message without a
measured field is forwarded with 0.0 (`mqtt-kafka-service/main.py:98`); an extraction
without records succeeds and leaves the file of the run before
(`extract_influx_data.py:192`); with `--skip-kafka` nothing is stored
(`run_influx_ml_pipeline.py:301`); `_lookup_alert_zone` reads a table that does not
exist (`admin.py:418`); a device gives a citizen a zone, after which every PATCH that
keeps it is refused (`location.py:57`, `users.py:78`); a PATCH writes back the
`is_active` it read before it called Clerk (`users.py:335`); offsets survive a restart and
the detector does not, so that a discarded reading that is delivered again may be accepted
and written, against "Do NOT write anomalous data to InfluxDB"
(`kafka-influx-service/main.py:141`); a record that is not JSON makes every poll raise from
then on (`kafka_client.py:39`); `predict_xgb.py` announces every prediction of the
pipeline a second time, for a zone "UNKNOWN" and by its own thresholds
(`predict_xgb.py:119`); the email of a deactivated user stays UNIQUE, so that the person
cannot be created again (`0003_users_table.sql:6`); a role and zone set in the Clerk
dashboard - the officer without a zone of `docs/auth-setup-summary.md:65`, who then breaks the
rule of `users.py:66` - reach the row unvalidated (`webhooks.py:39`), and
`setup-admin-user.py:37` makes a deactivated admin active again and keeps the zone.

About the registry: POST on a deactivated sensor answers success and leaves it inactive
(`admin.py:112`); PATCH cannot clear a link between zones (`admin.py:274`), and a zone
another one is linked to cannot be deleted: the error is not caught (`admin.py:311`);
deletion is hard and clears the zone of its sensors; the listing of one zone's alerts asks
for thresholds on a closed connection, swallows the error and judges by the defaults,
whatever the docstring says of the minimum across all active sensors
(`intelligence.py:265`, `:57`); the defaults of the pipeline and of the intelligence
service differ, so that a CRITICAL alert may be listed as HIGH (`predictions.py:29`,
`intelligence.py:54`).

About predictions: the bridge writes the measurements `sensor_readings` and
`sensor_status` with the tag `sensor_id` and the field `water_level_m`
(`kafka-influx-service/main.py:145`), whereas the extraction asks for
`flood_measurements` (`extract_influx_data.py:30`) and the worker for `water_level_cm`
(`pipeline/influx.py:13`), so that without a writer of that measurement the worker finds
nothing; Forecast takes what is in it as given. Horizons are numbers of rows
(`transform.py:35`, for hourly data) and are announced as minutes. Upstream readings join a
row only when they have the same second. A station is the first number of a device id, so
that two devices may be one station; the default mapping of the single-station run is not
in the repository, and `mapping_station_long` names a field that the extraction does not
write. A range like `1h30m` is not understood and hence not widened
(`run_influx_ml_pipeline.py:175`). A second training leaves models of the first for the
horizons it does not have; a run may use models of two trainings. A file that training has
opened and not yet written makes a run fail, a model (`train_xgb.py:197`) as well as the two
text files (`:203`, `:223`), and one that a training was stopped in makes every run fail until
another training goes through (`Repaired`): nothing is written to the side and renamed.
In a table without the station of the longest lag, training keeps rows that inference
drops, because `transform.py:77` leaves its lags out and `max_lag` does not depend on it; the
precondition is part of `TrainedAreInferred`. When the sensors that measured last leave a
zone, the next prediction for it may be from an earlier row (`influx.py:83`): `NeverBack`
says that this is the only way. A run that finds nothing predicts
from the file of an earlier one, although an empty extraction is an error
(`run_influx_ml_pipeline.py:230`). `list_anomalies` limits before it filters.

## 5. What is proved

For every value of the constants that satisfies the named assumptions of its module -
any sensors, zones, records, levels, thresholds, crashes and runs. Each inductive
invariant was an invariant of the module's run before it was proved.

* **LiveEventsProofs**: `InvariantHolds`, and from it `TypeCorrect`, `NoSpam`,
  `ZonesAgree`, `FanoutIsExact`, `LossesAreBounded`, and `CacheIsStable`. None of the last
  five is inductive.
  `LockInv` ties a task's place to the lock: a task is in a query exactly when it holds
  the lock, and then the cache has no zone for its sensor, so the zone it stores cannot
  contradict one that another task carries. `WatchInv` ties the watchdog's list and the
  sensor in its hand to the tracked ones: a sensor leaves the list when it is taken in
  hand, so it cannot be handled twice. `OffsetInv` ties a loop's place to its offsets:
  a loop that is busy has exactly one record to emit, the one at its position. `LossInv`
  counts the events that were due and never emitted, up to a record (`Missed`): up to the
  position of an idle loop, or to the record before the one a busy loop has, there is at
  most one for each restart. The record under way is the one more that a stop can add, and
  a loop that runs is never behind the committed offset, so nothing between the two is
  skipped by the next subscription.
* **AnomalyDetectorProofs**: `DetectorTypeCorrect`, `WarmupHappensOnce`, `FlatIsKept`, and
  `RememberedReadingsPass`: a reading that was accepted and is still remembered is not
  flagged when it comes again. The last is an inequality of Samuelson's - none of n values
  is more than sqrt(n - 1) standard deviations from their mean - and its hypothesis,
  `Square(ZThreshold) >= HistorySize - 1`, holds with equality for the code's 3.0 and 10:
  with a history of 11 the theorem would be false. It is proved for every window without a
  NaN from a sum of squares that is not negative, over the recursive function `SumOf`. No
  induction theorem of the library is used: `NatInduct` is one for *sets* of numbers, by
  the least number outside the set, and shows that the sums exist and what they are.
* **SensorBridgeProofs**: `BridgeInvariant`, `NoRecordIsSkipped`,
  `LiveReadingsAreStored`, `FatesExclude`, `LedgerImplemented`. `PlaceInv`: the committed
  offset is behind the record in hand and everything before that record has ended.
  `HandInv`: what the stores hold of the record in hand agrees with the step it has
  reached, which is what carries a fate from one store to the next. `LedgerImplemented` is a
  refinement: every step of the bridge is a step of ReadingLedger or leaves its variables
  alone; it needs the inductive invariant, because the ledger works in order and commits
  settled records only.
  `LedgerSuffices` shows that the ledger is worth implementing: alone it implies that
  nothing is skipped and that what is shown is stored. `NothingIsTakenBack` follows from its
  steps: stored, recorded, published and settled only grow.
* **MqttBridgeProofs**: `MqttInvariant`, and from it `RetriesReorder`,
  `MessagesAccountedFor`, and, for payloads whose times are of the units devices use
  (`Dated`), `StampsAreWallClocks`. `OrderInv` is what carries the order through the
  producer: a batch on its first attempt has a later message than all that are before it,
  on the topic, on the connection and in the queue. A retry goes to the front with later
  first attempts behind it, and is exempt from then on. `AttemptInv` is what bounds the
  copies: the producer holds a message at most once, and its attempts on the topic are
  different and all before the one it holds, so that a message is on the topic at most
  `Retries + 1` times.
* **ForecastProofs**: about Features, that a row between two times has the same rows above
  it as in the whole table (`SameRows`, `ShiftedBetween`), hence `FeaturesAreWindowFree`
  and `FeaturesAreOfThePast`, and `TrainedRowsAreInferred`: a row with a value at the
  largest lag has that many rows before it. About a run, `RunInvariant`, and from it
  `FoundReadingsAreUsed`, `PredictionsNeverGoBack` and `RangeIsEnough`. `LastInv` is what
  carries the last prediction to the next run, over any changes of the registry: the readings
  it was made from are stored, and either all are in the file or all of the file is later,
  because readings are never removed and a run that finds none keeps the file. So an earlier
  row can only be taken if none of them counts for the zone any more. `RangeIsEnough`:
  `MaxLag + 1` intervals hold as many regular readings, shown by mapping them one to one to
  the rows. About the model directory, `DirectoryInvariant`, and from it `HorizonsAreWhole`
  (`config.json` is written after the models it names, and no model is ever removed) and
  `TrainingRepairs` (a training opens and writes every file it names, and what it does not
  name is not read, because `config.json` names horizons). The invariant says for each stage
  of a training which files are there and which of them are whole. `SplitNeverTooSmall`: whichever way the
  products of `split_by_time` are rounded, ten rows are enough.
* **UserSyncProofs**: `UserInvariant`, and from it `RuleAlwaysHolds` and
  `OnlyAdministratorsReactivate`. The invariant says of everything under way that a
  request brings a validated pair of role and zone, and a webhook one that was validated or
  that the user was given, as it stands, past the validation (`unchecked`); and that a request
  that changes a user has a row to change; so any order of writes is as good as any other, and
  no order makes up an unfit pair of two fit ones. That rows never go away needs that no row
  is taken for `None`,
  which is part of `UserAssumption`.
* **ZonePredictionsProofs**: `PredictionsInvariant`, and from it
  `AnnouncementsAreStored`, `ZonesOncePerRun`, `SuccessMeansComplete` (with Kafka
  configured; without it the code does not store), `AlertsWereRecorded`. The
  invariant says of each served zone how many of the steps of its body are done, with
  the exceptions that deletion, failure and a swallowed error make. `BoardIsPredicted`
  has an argument of its own: a zone counts fewer alerts than it has severe rows while one
  of them is still to be counted (`Counting`, `BoardInv`). That the counter stays in its
  type needs that a zone has one turn in each run (`TurnInv`): `TypeCorrect`.
* **ZoneRegistryProofs**: `RegistryInvariant`, and from it `ReferencesExist`,
  `MappingsAgree`, `AlertsAreListed`, `StationsAreThoseAbove`. Actions of
  administrators and of readers are treated apart: the first keep the readers' part of the
  invariant, the second the tables. `LoadedZonesKnown` is not inductive; `ReadInv` adds that between the two
  statements a zone with sensors that is not gone still exists. `AlertInv` carries from the
  verdict to the page that an alert is severe by the thresholds it was judged by; the step
  to the listing's own defaults is `SevereForBoth`, which needs `DefaultsAssumption`.
  `StationsAreThoseAbove` is about the recursive chain: its first two zones, once there,
  stay as the chain is followed further (`FirstTwoStay`), over links that may form a circle.
  It needs `UpstreamLimit >= 2`, which is the default of `--upstream-limit`
  (`ml-worker/worker.py:59`); with 1 the pipeline would leave the second station empty.

Only model-checked: the seven liveness properties (`CatchesUp`, `TrackedGetsVerdict`,
`EveryRecordEnds`, `ListensAgain`, `Forwards`, `WorkerGoesOn`, `GetsRow`), because the
prover has no rules for fairness. Every invariant and every action property of a run is
stated by a theorem.

## 6. What is not modelled

* Queries that change nothing and compare nothing (dashboards, listings, single rows; all of
  the zone and the sensor service), response formats, logging, metrics.
* The occupancy of shelters and the status of anomalies: columns nobody else reads.
* Authentication: a check per request without state.
* The numbers of machine learning: fitting, metrics, levels and means. Features and rows
  are followed by which readings they come from. `json_to_csv.py` (for exports of another
  layout), `run_predict.py` and the other scripts that run the steps by hand, and the
  options `--fields`, `--limit`, `--dry-run`, `--no-sort`.
* Postgres, Kafka, InfluxDB, Clerk and the MQTT broker beyond what the code relies on.
* Gateway, monitoring and infrastructure: configuration only. `restart: unless-stopped`
  is used.
* In UserSync, names, and changes of an email made in Clerk's dashboard.
* In Forecast, a table that lacks a column `feature_columns.txt` names, which ends a run
  (`predict_xgb.py:269`), and `--horizons`. Two trainings do not write at the same time.

## 7. Plan

In this order:

1. *(done)* LiveEvents, AnomalyDetector, SensorBridge and their proofs: the path of a
   reading to the browsers.
2. *(done)* MqttBridge, ZonePredictions, UserSync, ZoneRegistry and their proofs.
3. *(done)* ReadingLedger, the abstract specification of the bridge to InfluxDB, and
   liveness of the bridge; Features and Forecast with proofs.
4. **Pipeline**: one abstract specification of a reading - sent, stored or reported,
   shown - that MqttBridge, SensorBridge (through ReadingLedger) and LiveEvents implement
   together; the composition as a module and the step-wise refinement as a theorem.
5. **Rules**: the pure functions - point in polygon of the zone service, the online rules
   of the sensor service against the watchdog's - checked against reference definitions
   over bounded inputs.
6. *(done)* Proofs of the invariants that had been left to TLC: `OneLostPerStop`,
   `BoardWasPredicted`, `RememberedIsAccepted`, `StationsAreUpstream`.
