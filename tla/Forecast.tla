------------------------------ MODULE Forecast -------------------------------
(***************************************************************************)
(* From stored measurements to predictions: run_influx_ml_pipeline.py has  *)
(* extract_influx_data.py write the last readings to an adapter file,      *)
(* makes a table for each zone (or for one station), drops the rows that   *)
(* lack history, and asks the models of the model directory, which         *)
(* train_xgb.py may be writing at that moment.                             *)
(*                                                                         *)
(* A reading is who measured when; levels are not needed to tell which     *)
(* readings a prediction rests on. What is done with a prediction (rows,   *)
(* events, alerts) is in ZonePredictions.                                  *)
(***************************************************************************)
EXTENDS Features

CONSTANTS
  Sensors,       \* device ids
  Zones,         \* zones of the registry
  NoZone,        \* no zone, and no target
  Registries,    \* what the tables of sensors and zones may hold: [of, above], where
                 \*   of[s] is the zone of an active sensor, or NoZone, and above[z] is,
                 \*   for a zone z there is, the zone at each distance upstream, if any
  Stations,      \* the values of --target for the single-station run
  Header,        \* the stations in the header of the --columns file
  Number,        \* the first number in a device id, -1 if there is none
  Rank,          \* the place of a device id in their order
  Sampling,      \* --sampling-minutes
  Requests,      \* values of --range that parse_time_range understands
  Horizons,      \* FORECAST_HORIZONS
  Trainings,     \* the horizons of the data sets models are trained on
  MaxTime,       \* bound: the clock
  MaxDelay,      \* bound: how late a reading may be stored
  MaxReading,    \* bound: the time of a reading
  MaxPoints,     \* bound: readings
  MaxTrainings,  \* bound: trainings
  MaxChanges,    \* bound: changes of the registry
  MaxEvents      \* bound: all three together

Times == 0..MaxTime
Reading == [device : Sensors, at : Times]
Targets == Zones \cup Stations

ASSUME ForecastAssumption ==
  /\ NoZone \notin Zones
  /\ Registries # {}
  /\ \A g \in Registries :
       /\ DOMAIN g.above \subseteq Zones
       /\ g.of \in [Sensors -> DOMAIN g.above \cup {NoZone}]
       /\ g.above \in [DOMAIN g.above -> [Distances -> SUBSET Zones]]
  /\ Stations \subseteq Header
  /\ Header \subseteq Nat
  /\ Number \in [Sensors -> Nat \cup {-1}]
  /\ Rank \in [Sensors -> Nat]
  /\ Sampling \in Nat \ {0}
  /\ Requests \subseteq Nat
  /\ Horizons \subseteq Nat \ {0}
  /\ Trainings \subseteq SUBSET Horizons
  /\ {} \notin Trainings
  /\ {MaxTime, MaxDelay, MaxReading, MaxPoints, MaxTrainings, MaxChanges, MaxEvents}
       \subseteq Nat

VARIABLES
  now,        \* the clock of InfluxDB
  points,     \* the measurement
  registry,   \* the tables of sensors and zones
  changes,    \* number of its changes
  file,       \* the readings in the adapter file; none if there is no file
  asked,      \* when this run's extraction was asked
  range,      \* how far back
  found,      \* whether it found anything
  pc,         \* what the run does next
  mapping,    \* sensor_to_zone and zone_info, as it has read them
  todo,       \* zones it has still to come to
  target,     \* the one it predicts for
  want,       \* horizons it predicts for
  loaded,     \* those it has loaded the model of
  last,       \* last[x]: the time the last prediction for x was made from, or -1
  by,         \* history: by[x]: the sensors that measured x at that time
  models,     \* the horizons of the files models/xgb_t_plus_<h>.json there are
  partial,    \* those open for writing, or that were when training was stopped
  columns,    \* whether feature_columns.txt has been written
  config,     \* the horizons in config.json; none if there is no file
  torn,       \* as partial, of these two files
  trainer,    \* what train_xgb.py does next
  plan,       \* the horizons it trains for
  left,       \* those without a model yet
  trainings,  \* number of trainings
  complete,   \* history: trainings that have written all their models
  intact      \* history: whether the last training has gone through to the end

postgres == <<registry, changes>>
run == <<file, asked, range, found, pc, mapping, todo, target, want, loaded, last, by>>
directory == <<models, partial, columns, config, torn>>
training == <<trainer, plan, left, trainings, complete, intact>>
vars == <<now, points, postgres, run, directory, training>>

-----------------------------------------------------------------------------
(* Tables. *)

\* aggregate_zone_metrics and build_zone_rows, by the registry g: a row for each time at
\* which a sensor of the zone measured; the zones upstream are looked up at exactly that
\* time. The columns of all stations are there.
ZoneTable(z, R, g) ==
  LET Of(zs, t) == {r \in R : g.of[r.device] \in zs /\ r.at = t}
      rows == {r.at : r \in {r \in R : g.of[r.device] = z}}
  IN  [rows |-> rows,
       has |-> Distances,
       cell |-> [d \in Distances |-> [t \in rows |-> Of(g.above[z][d], t)]]]

\* build_rows of json_to_csv_station.py: a row for each time at which anybody measured;
\* of two sensors with the number of a station the later one in the file is taken. There
\* are columns for the stations of the header.
StationTable(n, R) ==
  LET Of(m, t) == {r \in R : Number[r.device] = m /\ r.at = t}
      Kept(m, t) == {r \in Of(m, t) : \A q \in Of(m, t) : Rank[q.device] <= Rank[r.device]}
      rows == {r.at : r \in R}
  IN  [rows |-> rows,
       has |-> {d \in Distances : n - d \in Header},
       cell |-> [d \in Distances |-> [t \in rows |-> Kept(n - d, t)]]]

TableOf(x, R, g) == IF x \in Zones THEN ZoneTable(x, R, g) ELSE StationTable(x, R)

\* Whether a reading of s makes a row for x.
Counts(s, x, g) == x \in Zones => g.of[s] = x

\* Who measured the row for x at t.
MeasuredBy(x, t, R, g) == {r.device : r \in {r \in R : r.at = t /\ Counts(r.device, x, g)}}

\* The row a prediction is made from: the last one (iloc[-1]).
Base(T) == CHOOSE t \in Inferred(T) : \A u \in Inferred(T) : u <= t

-----------------------------------------------------------------------------
\* Before a run has read the registry.
Unread == [of |-> [s \in Sensors |-> NoZone], above |-> << >>]

Init ==
  /\ now = 0
  /\ points = {}
  /\ registry \in Registries /\ changes = 0
  /\ file = {}
  /\ asked = 0 /\ range = 0 /\ found = FALSE
  /\ pc = "idle" /\ mapping = Unread /\ todo = {} /\ target = NoZone
  /\ want = {} /\ loaded = {}
  /\ last = [x \in Targets |-> -1] /\ by = [x \in Targets |-> {}]
  /\ models = {} /\ partial = {} /\ columns = FALSE /\ config = {} /\ torn = {}
  /\ trainer = "idle" /\ plan = {} /\ left = {} /\ trainings = 0
  /\ complete = {} /\ intact = FALSE

Tick ==
  /\ now < MaxTime
  /\ now' = now + 1
  /\ UNCHANGED <<points, postgres, run, directory, training>>

\* Bound: readings, changes and trainings together, where a training weighs two.
Within(weight) == Cardinality(points) + changes + 2 * trainings + weight <= MaxEvents

\* A point is written, with a time that may have passed.
Report(s, t) ==
  /\ t <= now /\ now <= t + MaxDelay /\ t <= MaxReading
  /\ [device |-> s, at |-> t] \notin points
  /\ Cardinality(points) < MaxPoints /\ Within(1)
  /\ points' = points \cup {[device |-> s, at |-> t]}
  /\ UNCHANGED <<now, postgres, run, directory, training>>

\* Administrators register, move and deactivate sensors, link and delete zones (which
\* ZoneRegistry follows request by request).
ChangeRegistry(g) ==
  /\ g # registry
  /\ changes < MaxChanges /\ Within(1)
  /\ registry' = g
  /\ changes' = changes + 1
  /\ UNCHANGED <<now, points, run, directory, training>>

-----------------------------------------------------------------------------
(* The pipeline. *)

\* Mutant: the range covers the lags only, not the row they lead back from.
WidenedToLags(requested) ==
  IF requested < MaxLag * Sampling THEN MaxLag * Sampling ELSE requested

\* The range that is asked for, widened to cover the warm-up.
Widened(requested) ==
  IF requested < (MaxLag + 1) * Sampling THEN (MaxLag + 1) * Sampling ELSE requested

\* range(start: -n): up to now, and without it.
Window(n) == {r \in points : now - n <= r.at /\ r.at < now}

\* Mutant: a file that is there is not written again.
ExtractOnce ==
  /\ pc = "idle"
  /\ asked' = now
  /\ \E q \in Requests : range' = Widened(q)
  /\ found' = (Window(range') # {})
  /\ file' = IF found' /\ file = {} THEN Window(range') ELSE file
  /\ pc' = "load"
  /\ UNCHANGED <<now, points, postgres, mapping, todo, target, want, loaded, last, by, directory,
                 training>>

\* extract_influx_data.py: without records it exits with 0 and leaves the file alone.
\* (When it exits with 1 the run is over, and nothing has changed.)
Extract ==
  /\ pc = "idle"
  /\ asked' = now
  /\ \E q \in Requests : range' = Widened(q)
  /\ \/ Window(range') # {} /\ found' = TRUE /\ file' = Window(range')
     \/ Window(range') = {} /\ found' = FALSE /\ UNCHANGED file
  /\ pc' = "load"
  /\ UNCHANGED <<now, points, postgres, mapping, todo, target, want, loaded, last, by, directory,
                 training>>

\* What is over with a run, and what stays.
extraction == <<asked, range, found>>
prediction == <<mapping, todo, target, want, loaded>>
others == <<now, points, postgres, file, directory, training>>

EndRun ==
  /\ pc' = "idle" /\ asked' = 0 /\ range' = 0 /\ found' = FALSE
  /\ mapping' = Unread /\ todo' = {} /\ target' = NoZone /\ want' = {} /\ loaded' = {}

\* parse_station_value raises for a device id without a number.
Numbered(R) == \A r \in R : Number[r.device] # -1

\* The adapter file is read, for all zones - then so is sensor_nodes - or for a station.
Load ==
  /\ pc = "load"
  /\ \/ /\ file # {}
        /\ mapping' = [mapping EXCEPT !.of = registry.of]
        /\ pc' = "info"
        /\ UNCHANGED <<extraction, todo, target, want, loaded>>
     \/ /\ file # {} /\ Numbered(file)
        /\ \E n \in Stations : todo' = {n}
        /\ pc' = "zones"
        /\ UNCHANGED <<extraction, mapping, target, want, loaded>>
     \/ ~(file # {} /\ Numbered(file)) /\ EndRun
  /\ UNCHANGED <<others, last, by>>

\* Then zones is read, later. Without a reading of any zone the run fails.
LoadZones ==
  /\ pc = "info"
  /\ \/ /\ \E r \in file : mapping.of[r.device] # NoZone
        /\ mapping' = [mapping EXCEPT !.above = registry.above]
        /\ todo' = DOMAIN registry.above
        /\ pc' = "zones"
        /\ UNCHANGED <<extraction, target, want, loaded>>
     \/ (\A r \in file : mapping.of[r.device] = NoZone) /\ EndRun
  /\ UNCHANGED <<others, last, by>>

Table(x) == TableOf(x, file, mapping)

\* The next zone: its table and its features. Without any it is passed over.
Zone(x) ==
  /\ pc = "zones"
  /\ x \in todo
  /\ todo' = todo \ {x}
  /\ \/ Inferred(Table(x)) # {} /\ target' = x /\ pc' = "columns"
     \/ Inferred(Table(x)) = {} /\ UNCHANGED <<target, pc>>
  /\ UNCHANGED <<others, extraction, mapping, want, loaded, last, by>>

\* predict_xgb.py: load_feature_columns. Without the file the run fails, and with
\* one that is not whole, at the latest when a model is given the columns.
ReadColumns ==
  /\ pc = "columns"
  /\ \/ /\ columns /\ "columns" \notin torn
        /\ pc' = "horizons"
        /\ UNCHANGED <<extraction, prediction>>
     \/ ~(columns /\ "columns" \notin torn) /\ EndRun
  /\ UNCHANGED <<others, last, by>>

\* Those of config.json if it is there and names any, or those of the files there are,
\* whole or not.
Available == IF config = {} THEN models ELSE config

\* resolve_horizons, with no horizons asked for.
ReadHorizons ==
  /\ pc = "horizons"
  /\ \/ /\ "config" \notin torn
        /\ Available # {}
        /\ want' = Available
        /\ loaded' = {}
        /\ pc' = "predict"
        /\ UNCHANGED <<extraction, mapping, todo, target>>
     \/ ("config" \in torn \/ Available = {}) /\ EndRun
  /\ UNCHANGED <<others, last, by>>

\* The models are loaded one by one, and each predicts. The run fails where there is no
\* file, or one that is not whole.
LoadModel(h) ==
  /\ pc = "predict"
  /\ h \in want \ loaded /\ \A g \in want \ loaded : h <= g
  /\ \/ /\ h \in models \ partial
        /\ loaded' = loaded \cup {h}
        /\ UNCHANGED <<extraction, pc, mapping, todo, target, want>>
     \/ h \notin models \ partial /\ EndRun
  /\ UNCHANGED <<others, last, by>>

\* Mutant: the first row is taken.
PredictFirst ==
  /\ pc = "predict"
  /\ loaded = want
  /\ LET S == Inferred(Table(target))
         base == CHOOSE t \in S : \A u \in S : t <= u
     IN  /\ last' = [last EXCEPT ![target] = base]
         /\ by' = [by EXCEPT ![target] = MeasuredBy(target, base, file, mapping)]
  /\ pc' = "zones"
  /\ UNCHANGED <<others, extraction, prediction>>

\* What is passed on is the prediction from the last row.
Predict ==
  /\ pc = "predict"
  /\ loaded = want
  /\ LET base == Base(Table(target))
     IN  /\ last' = [last EXCEPT ![target] = base]
         /\ by' = [by EXCEPT ![target] = MeasuredBy(target, base, file, mapping)]
  /\ pc' = "zones"
  /\ UNCHANGED <<others, extraction, prediction>>

\* The output is written, or there is nothing to write: the run is over.
Done ==
  /\ pc = "zones"
  /\ todo = {}
  /\ EndRun
  /\ UNCHANGED <<others, last, by>>

Pipeline ==
  \/ Extract \/ Load \/ LoadZones \/ (\E x \in Targets : Zone(x))
  \/ ReadColumns \/ ReadHorizons \/ (\E h \in Horizons : LoadModel(h)) \/ Predict \/ Done

-----------------------------------------------------------------------------
(* train_xgb.py, run by hand while the worker goes on. *)

\* Mutant: the feature columns are known before the models are, and written first.
TrainColumnsFirst(hs) ==
  /\ trainer = "idle"
  /\ trainings < MaxTrainings /\ Within(2)
  /\ trainings' = trainings + 1
  /\ trainer' = "fit" /\ plan' = hs /\ left' = hs /\ intact' = FALSE
  /\ columns' = TRUE
  /\ UNCHANGED <<now, points, postgres, run, models, partial, config, torn, complete>>

\* Mutant: a horizon that has a model is not trained again.
TrainMissing(hs) ==
  /\ trainer = "idle"
  /\ trainings < MaxTrainings /\ Within(2)
  /\ trainings' = trainings + 1
  /\ plan' = hs /\ left' = hs \ models /\ intact' = FALSE
  /\ trainer' = IF left' = {} THEN "columns" ELSE "fit"
  /\ complete' = IF left' = {} THEN complete \cup {hs} ELSE complete
  /\ UNCHANGED <<now, points, postgres, run, directory>>

\* The data is read and split.
Train(hs) ==
  /\ trainer = "idle"
  /\ trainings < MaxTrainings /\ Within(2)
  /\ trainings' = trainings + 1
  /\ trainer' = "fit" /\ plan' = hs /\ left' = hs /\ intact' = FALSE
  /\ UNCHANGED <<now, points, postgres, run, directory, complete>>

\* The model for the next horizon is fitted and saved: its file, the old one if there is
\* one, is opened, which empties it, and written.
SaveModel(h) ==
  /\ trainer = "fit"
  /\ h \in left /\ \A g \in left : h <= g
  /\ \/ /\ h \notin partial
        /\ partial' = partial \cup {h}
        /\ models' = models \cup {h}
        /\ UNCHANGED <<left, trainer, complete>>
     \/ /\ h \in partial
        /\ partial' = partial \ {h}
        /\ left' = left \ {h}
        /\ trainer' = IF left' = {} THEN "columns" ELSE "fit"
        /\ complete' = IF left' = {} THEN complete \cup {plan} ELSE complete
        /\ UNCHANGED models
  /\ UNCHANGED <<now, points, postgres, run, columns, config, torn, plan, trainings, intact>>

\* feature_columns.txt and then config.json are opened and written in the same way.
WriteColumns ==
  /\ trainer = "columns"
  /\ \/ "columns" \notin torn /\ torn' = torn \cup {"columns"} /\ UNCHANGED <<columns, trainer>>
     \/ "columns" \in torn /\ torn' = torn \ {"columns"} /\ columns' = TRUE /\ trainer' = "config"
  /\ UNCHANGED <<now, points, postgres, run, models, partial, config, plan, left, trainings,
                 complete, intact>>

WriteConfig ==
  /\ trainer = "config"
  /\ \/ /\ "config" \notin torn
        /\ torn' = torn \cup {"config"}
        /\ UNCHANGED <<config, trainer, plan, intact>>
     \/ /\ "config" \in torn
        /\ torn' = torn \ {"config"}
        /\ config' = plan /\ trainer' = "idle" /\ plan' = {} /\ intact' = TRUE
  /\ UNCHANGED <<now, points, postgres, run, models, partial, columns, left, trainings, complete>>

\* It fails, or is stopped, and leaves the directory as it is.
StopTraining ==
  /\ trainer # "idle"
  /\ trainer' = "idle" /\ plan' = {} /\ left' = {}
  /\ UNCHANGED <<now, points, postgres, run, directory, trainings, complete, intact>>

Trainer ==
  \/ \E hs \in Trainings : Train(hs)
  \/ \E h \in Horizons : SaveModel(h)
  \/ WriteColumns \/ WriteConfig \/ StopTraining

-----------------------------------------------------------------------------
Next ==
  \/ Tick
  \/ \E s \in Sensors, t \in Times : Report(s, t)
  \/ \E g \in Registries : ChangeRegistry(g)
  \/ Pipeline
  \/ Trainer

Spec == Init /\ [][Next]_vars

-----------------------------------------------------------------------------
(* Properties. *)

\* What a run may have read, the sensors before or after a change, the zones after.
Mapping ==
  [of : {g.of : g \in Registries \cup {Unread}}, above : {g.above : g \in Registries \cup {Unread}}]

TypeOK ==
  /\ now \in Times
  /\ points \subseteq Reading
  /\ registry \in Registries /\ changes \in 0..MaxChanges
  /\ file \subseteq Reading
  /\ asked \in Times /\ range \in Nat /\ found \in BOOLEAN
  /\ pc \in {"idle", "load", "info", "zones", "columns", "horizons", "predict"}
  /\ mapping \in Mapping
  /\ todo \subseteq Targets /\ target \in Targets \cup {NoZone}
  /\ want \subseteq Horizons /\ loaded \subseteq Horizons
  /\ last \in [Targets -> Times \cup {-1}] /\ by \in [Targets -> SUBSET Sensors]
  /\ models \subseteq Horizons /\ partial \subseteq Horizons
  /\ columns \in BOOLEAN
  /\ config \subseteq Horizons
  /\ torn \subseteq {"columns", "config"}
  /\ trainer \in {"idle", "fit", "columns", "config"}
  /\ plan \in Trainings \cup {{}} /\ (plan = {} <=> trainer = "idle")
  /\ left \subseteq Horizons
  /\ trainings \in 0..MaxTrainings
  /\ complete \subseteq Trainings /\ intact \in BOOLEAN

\* A run that has found readings predicts from them: the file of an earlier run, which
\* an extraction without records leaves behind, is used by no other run.
FoundIsUsed ==
  pc \in {"columns", "horizons", "predict"} /\ found =>
    LET base == Base(Table(target)) IN asked - range <= base /\ base < asked

\* The adjusted range is enough: a zone with a sensor that measured in every interval of
\* the range is not passed over.
Regular(z) ==
  \E s \in Sensors, p \in 0..(Sampling - 1) :
    /\ mapping.of[s] = z
    /\ \A k \in Times :
         LET t == p + k * Sampling
         IN  asked - range <= t /\ t < asked => [device |-> s, at |-> t] \in file

EnoughForOneRow ==
  pc = "zones" /\ found /\ asked >= range =>
    \A z \in todo \cap Zones : Regular(z) => Inferred(Table(z)) # {}

\* Predictions do not go back in time from one run to the next, however late readings
\* come and whatever administrators do: for a station never, and for a zone only when none
\* of the sensors that measured when the last prediction was made belongs to it any more.
NeverBack ==
  [][\A x \in Targets :
       last'[x] < last[x] => x \in Zones /\ \A s \in by[x] : mapping.of[s] # x]_vars

\* Where the range begins makes no difference: the rows that are kept have the features
\* they would have had with all readings there are.
WindowFree ==
  [][file' # file =>
       \A x \in DOMAIN registry.above \cup Stations :
         \A t \in Inferred(TableOf(x, file', registry)) :
           Feature(TableOf(x, file', registry), t) = Feature(TableOf(x, points, registry), t)]_vars

\* Features are of the past: a row has those it would have had if nothing had been
\* measured after it.
NoLookAhead ==
  [][file' # file =>
       \A x \in DOMAIN registry.above \cup Stations :
         \A t \in TableOf(x, file', registry).rows :
           Feature(TableOf(x, file', registry), t) =
             Feature(TableOf(x, {r \in file' : r.at <= t}, registry), t)]_vars

\* What a model is trained on is what it is asked about: of the readings there are when
\* a training begins, every row that it keeps is one that inference keeps. (For tables
\* that have the station with the longest lag; max_lag is that of LAG_CONFIG for all.)
TrainedAreInferred ==
  [][plan = {} /\ plan' # {} =>
       \A x \in DOMAIN registry.above \cup Stations :
         LET T == TableOf(x, points, registry)
         IN  (\E d \in T.has : MaxLag \in LagConfig[d]) => Trained(T, plan') \subseteq Inferred(T)]_vars

\* However training and predictions overlap, and wherever training is stopped, in the
\* middle of a model file too: a run finds a file for every horizon it predicts for, and
\* those are at least the horizons of a training that wrote all its models. A file that
\* is not whole may end a run; it does not make a prediction with fewer horizons.
HorizonsWhole ==
  want # {} => /\ want \subseteq models
               /\ \E hs \in complete : hs \subseteq want

\* A training that goes through repairs what those before it have left half written: until
\* the next one begins, every file that a run reads is there and whole.
Repaired ==
  intact => /\ columns /\ torn = {}
            /\ Available # {} /\ Available \subseteq models \ partial
=============================================================================
