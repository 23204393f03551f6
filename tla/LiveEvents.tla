----------------------------- MODULE LiveEvents -----------------------------
(***************************************************************************)
(* The Socket.IO live event server (app/ws/live.py): four asyncio loops    *)
(* fan Kafka topics out to the browsers, a fifth task - the watchdog -     *)
(* publishes sensor:offline, and the tasks that resolve a sensor's zone    *)
(* share one in-memory cache behind one asyncio.Lock.                      *)
(*                                                                         *)
(* An action is the code a task runs from one await to the next, so two    *)
(* tasks interleave exactly where the event loop may switch between them.  *)
(***************************************************************************)
EXTENDS Naturals, Sequences, FiniteSets

CONSTANTS
  Sensors,      \* sensor ids
  Zones,        \* zone ids
  NoSensor,     \* an event that names no sensor
  NoZone,       \* Python None in place of a zone id
  Upstream,     \* Upstream[l]: the records other services put on topic l
  Threshold,    \* OFFLINE_THRESHOLD_SECONDS, in clock ticks
  Down,         \* the tasks whose first connection to Kafka fails
  Faulty,       \* the tasks that may die of an exception later
  Movable,      \* the sensors an administrator moves between zones
  MaxLog,       \* bound: records upstream puts on one topic
  MaxRestarts   \* bound: restarts of the server process

Loops == {"telemetry", "analytics", "alerts", "diagnostics"}
Tasks == Loops \cup {"watchdog"}
NoTask == "none"

\* What the loops can tell apart in a record: its event name, a value that is
\* not a JSON object (skipped), or one whose handling raises.
Events == {"sensor:update", "zone:risk:update", "prediction:new", "alert:new",
           "alert:resolved", "sensor:offline", "anomaly:new", "other",
           "not_dict", "poison"}
Record == [event  : Events,
           sensor : Sensors \cup {NoSensor},
           zone   : Zones \cup {NoZone}]

\* The events a loop emits; everything else it skips.
Fanned == [l \in Loops |->
             CASE l = "telemetry"   -> Events \ {"not_dict", "poison"}
               [] l = "analytics"   -> {"zone:risk:update", "prediction:new"}
               [] l = "alerts"      -> {"alert:new", "alert:resolved", "sensor:offline"}
               [] l = "diagnostics" -> {"anomaly:new"}]

ASSUME LiveAssumption ==
  /\ NoSensor \notin Sensors
  /\ NoZone \notin Zones
  /\ Upstream \in [Loops -> SUBSET Record]
  /\ Threshold \in Nat
  /\ Down \subseteq Tasks
  /\ Faulty \subseteq Tasks
  /\ Movable \subseteq Sensors
  /\ MaxLog \in Nat
  /\ MaxRestarts \in Nat

VARIABLES
  log,        \* log[l]: the records of topic l, never removed
  committed,  \* committed[l]: the group's committed offset, a set of at most one
  pos,        \* pos[l]: how many records of topic l the consumer has been given
  first,      \* first[l]: pos[l] when the consumer subscribed
  emitted,    \* emitted[l]: offsets of topic l sent to the browsers since then
  sent,       \* history: offsets of topic l sent to the browsers, ever
  origin,     \* history: pos[l] when the consumer last subscribed uncommitted
  started,    \* _tasks_started
  task,       \* task[t]: where task t stands, and the sensor and zone it holds
  lock,       \* the task that holds _zone_cache_lock
  cache,      \* _zone_cache
  dbZone,     \* sensor_nodes.zone_id
  tracked,    \* keys of _sensor_last_seen
  silence,    \* ticks since a sensor's telemetry was last handled (saturating)
  stale,      \* what is left of the watchdog's list of silent sensors
  outcome,    \* history: what became of a sensor since it was last heard
  restarts    \* number of process restarts

hist   == <<sent, origin>>
kafka  == <<log, committed, pos, first, emitted, hist>>
zones  == <<lock, cache, dbZone>>
watch  == <<tracked, silence, stale, outcome>>
vars   == <<kafka, zones, watch, started, task, restarts>>

At(p) == [pc |-> p, sensor |-> NoSensor, zone |-> NoZone]

Init ==
  /\ log = [l \in Loops |-> << >>]
  /\ committed = [l \in Loops |-> {}]
  /\ pos = [l \in Loops |-> 0]
  /\ first = [l \in Loops |-> 0]
  /\ sent = [l \in Loops |-> {}]
  /\ origin = [l \in Loops |-> 0]
  /\ emitted = [l \in Loops |-> {}]
  /\ started = FALSE
  /\ task = [t \in Tasks |-> At("off")]
  /\ lock = NoTask
  /\ cache = [s \in Sensors |-> NoZone]
  /\ dbZone \in [Sensors -> Zones \cup {NoZone}]
  /\ tracked = {}
  /\ silence = [s \in Sensors |-> Threshold + 1]
  /\ stale = {}
  /\ outcome = [s \in Sensors |-> "unheard"]
  /\ restarts = 0

-----------------------------------------------------------------------------
(* The environment: upstream services, the administrator, time, the process. *)

\* Another service appends a record to a topic.
Produce(l) ==
  /\ Len(log[l]) < MaxLog
  /\ \E r \in Upstream[l] : log' = [log EXCEPT ![l] = Append(@, r)]
  /\ UNCHANGED <<committed, pos, first, emitted, hist, zones, watch, started, task, restarts>>

\* POST /sensors of a sensor that may be known already: it is in the zone named now.
CreateSensor(s) ==
  /\ s \in Movable
  /\ \E z \in Zones \ {dbZone[s]} : dbZone' = [dbZone EXCEPT ![s] = z]
  /\ UNCHANGED <<kafka, lock, cache, watch, started, task, restarts>>

\* DELETE /zones: the foreign key sets the zone of its sensors to null. (The zone may be
\* created again before a sensor is put there.)
DeleteZone(z) ==
  /\ {s \in Sensors : dbZone[s] = z} \cap Movable # {}
  /\ dbZone' = [s \in Sensors |-> IF dbZone[s] = z THEN NoZone ELSE dbZone[s]]
  /\ UNCHANGED <<kafka, lock, cache, watch, started, task, restarts>>

\* Time passes; only whether a silence exceeds the threshold matters.
Tick ==
  /\ \E s \in Sensors : silence[s] <= Threshold
  /\ silence' = [s \in Sensors |-> IF silence[s] <= Threshold THEN silence[s] + 1
                                                              ELSE silence[s]]
  /\ UNCHANGED <<kafka, zones, tracked, stale, outcome, started, task, restarts>>

\* The first browser connects: _ensure_tasks starts the five tasks, once per
\* process. A task whose client cannot connect has logged it and ended.
Connect ==
  /\ ~started
  /\ started' = TRUE
  /\ task' = [t \in Tasks |-> At(IF t \in Down THEN "crashed" ELSE "starting")]
  /\ UNCHANGED <<kafka, zones, watch, restarts>>

\* The process restarts: what is in memory is gone, Kafka and Postgres stay.
Restart ==
  /\ restarts < MaxRestarts
  /\ restarts' = restarts + 1
  /\ started' = FALSE
  /\ task' = [t \in Tasks |-> At("off")]
  /\ lock' = NoTask
  /\ cache' = [s \in Sensors |-> NoZone]
  /\ tracked' = {}
  /\ stale' = {}
  /\ outcome' = [s \in Sensors |-> "unheard"]
  /\ silence' = [s \in Sensors |-> Threshold + 1]
  /\ pos' = [l \in Loops |-> 0]
  /\ first' = [l \in Loops |-> 0]
  /\ emitted' = [l \in Loops |-> {}]
  /\ UNCHANGED <<log, committed, hist, dbZone>>

\* A task ends with an exception: a loop while its consumer starts, waits for a
\* record or emits one, the watchdog while its producer starts. Nobody starts
\* it again. Stopping the consumer may commit its position.
Crash(t) ==
  /\ t \in Faulty
  /\ task[t].pc \in IF t = "watchdog" THEN {"starting"} ELSE {"starting", "idle", "emit"}
  /\ task' = [task EXCEPT ![t] = At("crashed")]
  /\ \/ UNCHANGED committed
     \/ /\ task[t].pc # "starting"
        /\ committed' = [committed EXCEPT ![t] = {pos[t]}]
  /\ UNCHANGED <<log, pos, first, emitted, hist, zones, watch, started, restarts>>

-----------------------------------------------------------------------------
(* _lookup_zone, shared by the loops and the watchdog.                     *)

\* Where a task goes on once it knows the zone.
AfterLookup(t) == IF t = "watchdog" THEN "publish" ELSE "emit"

\* The cache is consulted without the lock; a miss queues for the lock.
LookupZone(t, s) ==
  IF cache[s] # NoZone
  THEN [pc |-> AfterLookup(t), sensor |-> s, zone |-> cache[s]]
  ELSE [pc |-> "lock", sensor |-> s, zone |-> NoZone]

\* Mutant: the cache is not consulted again under the lock.
AcquireLockNoRecheck(t) ==
  /\ task[t].pc = "lock"
  /\ lock = NoTask
  /\ task' = [task EXCEPT ![t].pc = "fetch"]
  /\ lock' = t
  /\ UNCHANGED <<kafka, cache, dbZone, watch, started, restarts>>

\* The lock is obtained and the cache consulted again: it may have been filled
\* while the task waited. Otherwise the query goes to a thread.
AcquireLock(t) ==
  LET s == task[t].sensor IN
  /\ task[t].pc = "lock"
  /\ lock = NoTask
  /\ \/ /\ cache[s] # NoZone
        /\ task' = [task EXCEPT ![t] = LookupZone(t, s)]
        /\ UNCHANGED lock
     \/ /\ cache[s] = NoZone
        /\ task' = [task EXCEPT ![t].pc = "fetch"]
        /\ lock' = t
  /\ UNCHANGED <<kafka, cache, dbZone, watch, started, restarts>>

\* The thread reads sensor_nodes, or fails and yields None.
FetchZone(t) ==
  /\ task[t].pc = "fetch"
  /\ \E z \in {dbZone[task[t].sensor], NoZone} :
       task' = [task EXCEPT ![t].pc = "fetched", ![t].zone = z]
  /\ UNCHANGED <<kafka, zones, watch, started, restarts>>

\* Mutant: the lock stays held when the query found no zone.
FinishLookupKeepsLock(t) ==
  /\ task[t].pc = "fetched"
  /\ cache' = IF task[t].zone = NoZone THEN cache
              ELSE [cache EXCEPT ![task[t].sensor] = task[t].zone]
  /\ lock' = IF task[t].zone = NoZone THEN lock ELSE NoTask
  /\ task' = [task EXCEPT ![t].pc = AfterLookup(t)]
  /\ UNCHANGED <<kafka, dbZone, watch, started, restarts>>

\* Mutant: an event whose zone is unknown is dropped.
FinishLookupDropsUnknown(t) ==
  /\ task[t].pc = "fetched"
  /\ cache' = IF task[t].zone = NoZone THEN cache
              ELSE [cache EXCEPT ![task[t].sensor] = task[t].zone]
  /\ lock' = NoTask
  /\ task' = [task EXCEPT ![t] =
                IF t # "watchdog" /\ @.zone = NoZone THEN At("idle")
                ELSE [@ EXCEPT !.pc = AfterLookup(t)]]
  /\ UNCHANGED <<kafka, dbZone, watch, started, restarts>>

\* The task resumes: a zone is cached for the life of the process, no zone is
\* not, and the lock is released either way.
FinishLookup(t) ==
  /\ task[t].pc = "fetched"
  /\ cache' = IF task[t].zone = NoZone THEN cache
              ELSE [cache EXCEPT ![task[t].sensor] = task[t].zone]
  /\ lock' = NoTask
  /\ task' = [task EXCEPT ![t].pc = AfterLookup(t)]
  /\ UNCHANGED <<kafka, dbZone, watch, started, restarts>>

-----------------------------------------------------------------------------
(* The four consumer loops.                                                *)

\* consumer.start(): from the committed offset, or else from the end of the
\* topic (auto_offset_reset="latest").
Subscribe(l) ==
  /\ task[l].pc = "starting"
  /\ \E o \in IF committed[l] = {} THEN {Len(log[l])} ELSE committed[l] :
       /\ pos' = [pos EXCEPT ![l] = o]
       /\ first' = [first EXCEPT ![l] = o]
       /\ origin' = IF committed[l] = {} THEN [origin EXCEPT ![l] = o] ELSE origin
  /\ task' = [task EXCEPT ![l] = At("idle")]
  /\ UNCHANGED <<log, committed, emitted, sent, zones, watch, started, restarts>>

\* A record of a sensor is what the watchdog waits for.
Hear(s) ==
  /\ tracked' = tracked \cup {s}
  /\ silence' = [silence EXCEPT ![s] = 0]
  /\ outcome' = [outcome EXCEPT ![s] = "heard"]

\* Mutant: telemetry that names no sensor is tracked too.
NoteHeardAlways(l, r) ==
  IF l = "telemetry" THEN Hear(r.sensor) ELSE UNCHANGED <<tracked, silence, outcome>>

NoteHeard(l, r) ==
  IF l = "telemetry" /\ r.sensor # NoSensor
  THEN Hear(r.sensor)
  ELSE UNCHANGED <<tracked, silence, outcome>>

\* An event: its sensor was heard, if it is telemetry; then the zone is injected
\* when the record lacks one.
Handle(l, r) ==
  /\ NoteHeard(l, r)
  /\ task' = [task EXCEPT ![l] =
                IF l = "analytics" \/ r.zone # NoZone \/ r.sensor = NoSensor
                THEN [pc |-> "emit", sensor |-> NoSensor, zone |-> r.zone]
                ELSE LookupZone(l, r.sensor)]
  /\ UNCHANGED stale

Receive(l) ==
  /\ task[l].pc = "idle"
  /\ pos[l] < Len(log[l])
  /\ LET r == log[l][pos[l] + 1] IN
     /\ r.event # "poison"
     /\ pos' = [pos EXCEPT ![l] = @ + 1]
     /\ IF r.event \in Fanned[l] THEN Handle(l, r) ELSE UNCHANGED <<watch, task>>
  /\ UNCHANGED <<log, committed, first, emitted, hist, zones, started, restarts>>

\* A record that cannot be decoded or has the wrong shape ends the loop; the
\* client library may or may not have moved past it, and stopping the consumer
\* may commit that position.
ReceivePoison(l) ==
  /\ task[l].pc = "idle"
  /\ pos[l] < Len(log[l])
  /\ log[l][pos[l] + 1].event = "poison"
  /\ task' = [task EXCEPT ![l] = At("crashed")]
  /\ \E p \in {pos[l], pos[l] + 1} :
       /\ pos' = [pos EXCEPT ![l] = p]
       /\ committed' \in {committed, [committed EXCEPT ![l] = {p}]}
  /\ UNCHANGED <<log, first, emitted, hist, zones, watch, started, restarts>>

\* sio.emit returns and the loop asks for the next record.
Emit(l) ==
  /\ task[l].pc = "emit"
  /\ emitted' = [emitted EXCEPT ![l] = @ \cup {pos[l]}]
  /\ sent' = [sent EXCEPT ![l] = @ \cup {pos[l]}]
  /\ task' = [task EXCEPT ![l] = At("idle")]
  /\ UNCHANGED <<log, committed, pos, first, origin, zones, watch, started, restarts>>

\* Mutant: the end of the topic is committed in place of the position.
AutoCommitEnd(l) ==
  /\ restarts < MaxRestarts
  /\ task[l].pc \notin {"off", "starting", "crashed"}
  /\ committed' = [committed EXCEPT ![l] = {Len(log[l])}]
  /\ UNCHANGED <<log, pos, first, emitted, hist, zones, watch, started, task, restarts>>

\* enable_auto_commit: the position is committed in the background, whether or
\* not the record it counts has been emitted. Commits are read after a restart
\* only, so they are left out once no restart is left.
AutoCommit(l) ==
  /\ restarts < MaxRestarts
  /\ task[l].pc \notin {"off", "starting", "crashed"}
  /\ committed[l] # {pos[l]}
  /\ committed' = [committed EXCEPT ![l] = {pos[l]}]
  /\ UNCHANGED <<log, pos, first, emitted, hist, zones, watch, started, task, restarts>>

-----------------------------------------------------------------------------
(* The watchdog.                                                           *)

wd == task["watchdog"]

StartProducer ==
  /\ wd.pc = "starting"
  /\ task' = [task EXCEPT !["watchdog"] = At("sleep")]
  /\ UNCHANGED <<kafka, zones, watch, started, restarts>>

\* The watchdog wakes and lists the sensors that have been silent too long.
Sweep ==
  /\ wd.pc = "sleep"
  /\ stale' = {s \in tracked : silence[s] > Threshold}
  /\ stale' # {}
  /\ task' = [task EXCEPT !["watchdog"] = At("sweep")]
  /\ UNCHANGED <<kafka, zones, tracked, silence, outcome, started, restarts>>

\* The next sensor of the list: its zone is looked up.
NextStale(s) ==
  /\ wd.pc = "sweep"
  /\ s \in stale
  /\ stale' = stale \ {s}
  /\ task' = [task EXCEPT !["watchdog"] = LookupZone("watchdog", s)]
  /\ UNCHANGED <<kafka, zones, tracked, silence, outcome, started, restarts>>

\* The broker takes the sensor:offline record.
PublishOffline ==
  /\ wd.pc = "publish"
  /\ log' = [log EXCEPT !["alerts"] =
               Append(@, [event |-> "sensor:offline", sensor |-> wd.sensor, zone |-> wd.zone])]
  /\ outcome' = [outcome EXCEPT ![wd.sensor] = "reported"]
  /\ task' = [task EXCEPT !["watchdog"].pc = "pop"]
  /\ UNCHANGED <<committed, pos, first, emitted, hist, zones, tracked, silence, stale, started, restarts>>

\* send_and_wait raises; the failure is only logged.
PublishFails ==
  /\ wd.pc = "publish"
  /\ outcome' = [outcome EXCEPT ![wd.sensor] = "lost"]
  /\ task' = [task EXCEPT !["watchdog"].pc = "pop"]
  /\ UNCHANGED <<kafka, zones, tracked, silence, stale, started, restarts>>

\* Mutant: the sensor stays tracked.
StopTrackingNot ==
  /\ wd.pc = "pop"
  /\ task' = [task EXCEPT !["watchdog"] = At(IF stale = {} THEN "sleep" ELSE "sweep")]
  /\ UNCHANGED <<kafka, zones, watch, started, restarts>>

\* Mutant: the watchdog does not go back to sleep at the end of its list.
StopTrackingNoSleep ==
  /\ wd.pc = "pop"
  /\ tracked' = tracked \ {wd.sensor}
  /\ task' = [task EXCEPT !["watchdog"] = At("sweep")]
  /\ UNCHANGED <<kafka, zones, silence, stale, outcome, started, restarts>>

\* The watchdog resumes after send_and_wait, whatever it gave, and stops tracking
\* the sensor.
StopTracking ==
  /\ wd.pc = "pop"
  /\ tracked' = tracked \ {wd.sensor}
  /\ task' = [task EXCEPT !["watchdog"] = At(IF stale = {} THEN "sleep" ELSE "sweep")]
  /\ UNCHANGED <<kafka, zones, silence, stale, outcome, started, restarts>>

-----------------------------------------------------------------------------
Administrator ==
  \/ \E s \in Sensors : CreateSensor(s)
  \/ \E z \in Zones : DeleteZone(z)

Environment ==
  \/ \E l \in Loops : Produce(l)
  \/ Administrator
  \/ Connect
  \/ Restart
  \/ \E t \in Tasks : Crash(t)
  \/ \E l \in Loops : AutoCommit(l)

Lookup(t) == AcquireLock(t) \/ FetchZone(t) \/ FinishLookup(t)

Loop(l) == Subscribe(l) \/ Receive(l) \/ ReceivePoison(l) \/ Emit(l)

Watchdog ==
  \/ StartProducer
  \/ Sweep
  \/ \E s \in Sensors : NextStale(s)
  \/ PublishOffline
  \/ PublishFails
  \/ StopTracking

Next ==
  \/ Environment
  \/ Tick
  \/ \E t \in Tasks : Lookup(t)
  \/ \E l \in Loops : Loop(l)
  \/ Watchdog

Spec == Init /\ [][Next]_vars

\* The event loop runs every task that is ready; asyncio.Lock wakes its waiters
\* first come, first served, so a task that keeps waiting gets the lock.
Fairness ==
  /\ WF_vars(Tick)
  /\ \A l \in Loops : WF_vars(Loop(l))
  /\ WF_vars(Watchdog)
  /\ \A t \in Tasks : /\ SF_vars(AcquireLock(t))
                      /\ WF_vars(FetchZone(t) \/ FinishLookup(t))

FairSpec == Spec /\ Fairness

-----------------------------------------------------------------------------
(* Properties.                                                             *)

PCs == {"off", "starting", "idle", "lock", "fetch", "fetched", "emit", "sleep",
        "sweep", "publish", "pop", "crashed"}

\* What a task can be doing, for which sensor, with which zone at hand.
TaskState == [pc : PCs, sensor : Sensors \cup {NoSensor}, zone : Zones \cup {NoZone}]

\* Every variable keeps its type; the lock is held by a task or by nobody.
TypeOK ==
  /\ log \in [Loops -> Seq(Record)]
  /\ committed \in [Loops -> SUBSET Nat]
  /\ pos \in [Loops -> Nat]
  /\ first \in [Loops -> Nat]
  /\ emitted \in [Loops -> SUBSET Nat]
  /\ sent \in [Loops -> SUBSET Nat]
  /\ origin \in [Loops -> Nat]
  /\ started \in BOOLEAN
  /\ task \in [Tasks -> TaskState]
  /\ lock \in Tasks \cup {NoTask}
  /\ cache \in [Sensors -> Zones \cup {NoZone}]
  /\ dbZone \in [Sensors -> Zones \cup {NoZone}]
  /\ tracked \in SUBSET Sensors
  /\ silence \in [Sensors -> 0..(Threshold + 1)]
  /\ stale \in SUBSET Sensors
  /\ outcome \in [Sensors -> {"unheard", "heard", "reported", "lost"}]
  /\ restarts \in 0..MaxRestarts

\* "Stop tracking so we don't spam": the watchdog handles a sensor only when that
\* sensor was heard since its last sensor:offline, so one silence yields at most
\* one event however often the watchdog sweeps.
OneVerdictPerSilence ==
  wd.pc \in {"lock", "fetch", "fetched", "publish"} => outcome[wd.sensor] = "heard"

\* A zone that was found for a sensor - from the cache, or by a query made while
\* other tasks were waiting for the lock - is the zone the cache holds when the
\* event leaves: two loops never label one sensor with two zones.
OneZonePerSensor ==
  \A t \in Tasks :
    (/\ task[t].pc \in {"emit", "publish", "pop"}
     /\ task[t].sensor # NoSensor
     /\ task[t].zone # NoZone) => cache[task[t].sensor] = task[t].zone

\* A cached zone stays what it is for the process lifetime, even when the sensor
\* is moved while a query for it is under way.
CacheStable ==
  [][\A s \in Sensors : started' /\ cache[s] # NoZone => cache'[s] = cache[s]]_vars

\* The records of topic l since the subscription that a loop has to emit.
Due(l) == {i \in (first[l] + 1)..pos[l] : log[l][i].event \in Fanned[l]}

\* Fan-out is exact: a loop has emitted every event of its topic that it was
\* given and nothing else; only the last one may be missing, while it is under
\* way or because the loop died on it.
FanoutExact ==
  \A l \in Loops :
    /\ emitted[l] \subseteq Due(l)
    /\ Due(l) \ emitted[l] \subseteq {pos[l]}
    /\ Due(l) # emitted[l] => task[l].pc \in {"lock", "fetch", "fetched", "emit", "crashed"}

\* The events of topic l up to record n that were due since the group's first position
\* and never reached a browser.
Missed(l, n) == {i \in (origin[l] + 1)..n : log[l][i].event \in Fanned[l]} \ sent[l]

\* Across restarts an event is lost only when the process or its loop stopped
\* between the commit of its offset and its emission - at most one for each stop -
\* or came before the group had committed anything.
OneLostPerStop ==
  \A l \in Loops : \A c \in committed[l] :
    Cardinality(Missed(l, c))
      <= restarts + (IF task[l].pc \in {"lock", "fetch", "fetched", "emit", "crashed"}
                     THEN 1 ELSE 0)

\* The strengthening that makes the invariants above inductive. Tasks and the
\* lock: nothing runs before the first connection, a lookup is about a sensor,
\* the lock is held during a query and only then, and a query is made only for a
\* sensor the cache does not hold.
LockInv ==
  /\ ~started => tracked = {} /\ \A t \in Tasks : task[t].pc = "off"
  /\ \A t \in Tasks :
       /\ task[t].pc \in {"lock", "fetch", "fetched", "publish", "pop"} => task[t].sensor \in Sensors
       /\ task[t].pc \in {"fetch", "fetched"} <=> lock = t
       /\ lock = t => cache[task[t].sensor] = NoZone

\* The watchdog's list holds tracked sensors only, the one it is handling is not
\* on it any more, and a tracked sensor was heard since its last verdict unless
\* the watchdog is about to drop it.
WatchInv ==
  /\ stale \subseteq tracked
  /\ wd.pc \in {"lock", "fetch", "fetched", "publish"} => wd.sensor \in tracked
  /\ wd.pc \in {"lock", "fetch", "fetched", "publish", "pop"} => wd.sensor \notin stale
  /\ \A s \in tracked : outcome[s] = "heard" \/ (wd.pc = "pop" /\ wd.sensor = s)

\* Offsets never pass the end of a topic; a loop that has not subscribed has
\* emitted nothing; the record a loop is busy with is one it has to emit.
OffsetInv ==
  \A l \in Loops :
    /\ first[l] <= pos[l] /\ pos[l] <= Len(log[l])
    /\ \A c \in committed[l] : c <= Len(log[l])
    /\ task[l].pc \in {"off", "starting"} => emitted[l] = {}
    /\ task[l].pc \in {"lock", "fetch", "fetched", "emit"} => pos[l] \in Due(l) \ emitted[l]
    /\ task[l].pc \notin {"sleep", "sweep", "publish", "pop"}

\* Why no more is lost: a loop that runs is never behind what the group has committed, and
\* but for the record under way it has lost no more than one record for each restart.
LossInv ==
  /\ OneLostPerStop
  /\ \A l \in Loops :
       /\ \A c, d \in committed[l] : c = d
       /\ task[l].pc \notin {"off", "starting", "crashed"} => \A c \in committed[l] : c <= pos[l]
       /\ task[l].pc = "idle" => Cardinality(Missed(l, pos[l])) <= restarts
       /\ task[l].pc \in {"lock", "fetch", "fetched", "emit"} =>
            Cardinality(Missed(l, pos[l] - 1)) <= restarts

IInv ==
  /\ TypeOK
  /\ LockInv
  /\ WatchInv
  /\ OneZonePerSensor
  /\ OffsetInv
  /\ FanoutExact
  /\ LossInv

\* A loop that runs works off its topic, unless it dies or the process restarts,
\* although it may queue behind the other tasks' database queries.
CatchesUp ==
  \A l \in Loops :
    task[l].pc = "starting" ~>
      \/ task[l].pc \in {"off", "crashed"}
      \/ task[l].pc = "idle" /\ pos[l] = Len(log[l])

\* The watchdog comes to every sensor it tracks: each is eventually heard to be
\* silent and dropped from tracking, unless the watchdog died.
TrackedGetsVerdict ==
  \A s \in Sensors : s \in tracked ~> s \notin tracked \/ wd.pc = "crashed"

\* live.py:238 says tracking stops and "re-arms on next telemetry arrival": a
\* sensor heard since its last sensor:offline is tracked.
RearmsOnTelemetry == \A s \in Sensors : outcome[s] = "heard" => s \in tracked
=============================================================================
