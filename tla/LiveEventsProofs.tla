-------------------------- MODULE LiveEventsProofs --------------------------
(* Proofs about LiveEvents, for every set of sensors and zones, every         *)
(* threshold, every upstream and every choice of the bounds.                  *)
EXTENDS LiveEvents, FiniteSetTheorems, TLAPS

\* A record appended to one of several logs.
LEMMA AppendType ==
  ASSUME NEW S, NEW L, NEW f \in [L -> Seq(S)], NEW l \in L, NEW r \in S,
         NEW g, g = [f EXCEPT ![l] = Append(@, r)]
  PROVE  g \in [L -> Seq(S)]
<1>1. Append(f[l], r) \in Seq(S)
  OBVIOUS
<1> QED
  BY <1>1

LEMMA LoopsAreTasks ==
  /\ Loops \subseteq Tasks
  /\ "watchdog" \in Tasks
  /\ "watchdog" \notin Loops
  /\ NoTask \notin Tasks
  BY DEF Loops, Tasks, NoTask

\* A task that only has a place to stand on is well typed.
LEMMA AtType == ASSUME NEW p \in PCs PROVE At(p) \in TaskState
  BY DEF At, TaskState

\* What a zone lookup can leave a task with.
LEMMA LookupZoneType ==
  ASSUME TypeOK, NEW t \in Tasks, NEW s \in Sensors
  PROVE  LookupZone(t, s) \in TaskState
  BY DEF TypeOK, LookupZone, AfterLookup, PCs, TaskState

\* Moving a task on, or giving it a zone, keeps it well typed.
LEMMA SetPcType ==
  ASSUME task \in [Tasks -> TaskState], NEW t \in Tasks, NEW p \in PCs
  PROVE  [task EXCEPT ![t].pc = p] \in [Tasks -> TaskState]
<1>1. [task[t] EXCEPT !.pc = p] \in TaskState
  <2>1. task[t] \in TaskState
    OBVIOUS
  <2> QED
    BY <2>1 DEF TaskState
<1> QED
  BY <1>1

LEMMA SetPcZoneType ==
  ASSUME task \in [Tasks -> TaskState], NEW t \in Tasks, NEW p \in PCs,
         NEW z \in Zones \cup {NoZone}
  PROVE  [task EXCEPT ![t].pc = p, ![t].zone = z] \in [Tasks -> TaskState]
<1>1. [[task[t] EXCEPT !.pc = p] EXCEPT !.zone = z] \in TaskState
  <2>1. task[t] \in TaskState
    OBVIOUS
  <2> QED
    BY <2>1 DEF TaskState
<1> QED
  BY <1>1

LEMMA InitTypeOK == Init => TypeOK
<1> SUFFICES ASSUME Init PROVE TypeOK
  OBVIOUS
<1> USE LiveAssumption DEF LiveAssumption
<1>1. task \in [Tasks -> TaskState]
  BY AtType DEF Init, PCs
<1>2. silence \in [Sensors -> 0..(Threshold + 1)]
  BY DEF Init
<1>3. log \in [Loops -> Seq(Record)]
  BY DEF Init
<1>4. /\ committed \in [Loops -> SUBSET Nat] /\ pos \in [Loops -> Nat]
      /\ first \in [Loops -> Nat] /\ emitted \in [Loops -> SUBSET Nat]
      /\ sent \in [Loops -> SUBSET Nat] /\ origin \in [Loops -> Nat]
  BY DEF Init
<1>5. /\ started \in BOOLEAN /\ lock \in Tasks \cup {NoTask}
      /\ cache \in [Sensors -> Zones \cup {NoZone}]
      /\ dbZone \in [Sensors -> Zones \cup {NoZone}]
      /\ tracked \in SUBSET Sensors /\ stale \in SUBSET Sensors
      /\ outcome \in [Sensors -> {"unheard", "heard", "reported", "lost"}]
  BY Zenon DEF Init
<1>6. restarts \in 0..MaxRestarts
  BY DEF Init
<1> QED
  BY <1>1, <1>2, <1>3, <1>4, <1>5, <1>6 DEF TypeOK

\* The steps keep the types, given that a lookup is about a sensor (LockInv).
LEMMA NextTypeOK == TypeOK /\ LockInv /\ [Next]_vars => TypeOK'
<1> SUFFICES ASSUME TypeOK, LockInv, [Next]_vars PROVE TypeOK'
  OBVIOUS
<1> USE LiveAssumption, LoopsAreTasks DEF LiveAssumption
<1>1. ASSUME NEW l \in Loops, Produce(l) PROVE TypeOK'
  <2>1. PICK r \in Upstream[l] : log' = [log EXCEPT ![l] = Append(@, r)]
    BY <1>1 DEF Produce
  <2>2. r \in Record
    OBVIOUS
  <2>3. log' \in [Loops -> Seq(Record)]
    BY <2>1, <2>2, AppendType DEF TypeOK
  <2> QED
    BY <1>1, <2>3 DEF Produce, TypeOK, hist, zones, watch
<1>2. ASSUME Administrator PROVE TypeOK'
  <2>1. ASSUME NEW s \in Sensors, CreateSensor(s) PROVE TypeOK'
    BY <2>1 DEF CreateSensor, TypeOK, kafka, hist, watch
  <2>2. ASSUME NEW z \in Zones, DeleteZone(z) PROVE TypeOK'
    BY <2>2 DEF DeleteZone, TypeOK, kafka, hist, watch
  <2> QED
    BY <1>2, <2>1, <2>2 DEF Administrator
<1>3. ASSUME Tick PROVE TypeOK'
  BY <1>3 DEF Tick, TypeOK, kafka, hist, zones
<1>4. ASSUME Connect PROVE TypeOK'
  BY <1>4, AtType DEF Connect, TypeOK, kafka, hist, zones, watch, PCs
<1>5. ASSUME Restart PROVE TypeOK'
  <2>1. task' \in [Tasks -> TaskState]
    BY <1>5, AtType DEF Restart, PCs
  <2>2. silence' \in [Sensors -> 0..(Threshold + 1)] /\ restarts' \in 0..MaxRestarts
    BY <1>5 DEF Restart, TypeOK
  <2>3. /\ pos' \in [Loops -> Nat] /\ first' \in [Loops -> Nat]
        /\ emitted' \in [Loops -> SUBSET Nat]
    BY <1>5 DEF Restart
  <2>4. /\ started' \in BOOLEAN /\ lock' \in Tasks \cup {NoTask}
        /\ cache' \in [Sensors -> Zones \cup {NoZone}]
        /\ tracked' \in SUBSET Sensors /\ stale' \in SUBSET Sensors
        /\ outcome' \in [Sensors -> {"unheard", "heard", "reported", "lost"}]
    BY <1>5 DEF Restart
  <2> QED
    BY <1>5, <2>1, <2>2, <2>3, <2>4 DEF Restart, TypeOK, hist
<1>6. ASSUME NEW t \in Tasks, Crash(t) PROVE TypeOK'
  <2>1. task' \in [Tasks -> TaskState]
    BY <1>6, AtType DEF Crash, TypeOK, PCs
  <2>2. committed' \in [Loops -> SUBSET Nat]
    <3>1. CASE UNCHANGED committed
      BY <3>1 DEF TypeOK
    <3>2. CASE committed' = [committed EXCEPT ![t] = {pos[t]}]
      <4>1. committed \in [Loops -> SUBSET Nat] /\ (t \in Loops => pos[t] \in Nat)
        BY DEF TypeOK
      <4> QED
        BY <3>2, <4>1
    <3> QED
      BY <1>6, <3>1, <3>2 DEF Crash
  <2> QED
    BY <1>6, <2>1, <2>2 DEF Crash, TypeOK, hist, zones, watch
<1>7. ASSUME NEW l \in Loops, AutoCommit(l) PROVE TypeOK'
  BY <1>7 DEF AutoCommit, TypeOK, hist, zones, watch
<1>8. ASSUME NEW t \in Tasks, AcquireLock(t) PROVE TypeOK'
  <2>1. task[t].sensor \in Sensors
    BY <1>8 DEF AcquireLock, LockInv
  <2>2. task' \in [Tasks -> TaskState]
    <3>1. CASE task' = [task EXCEPT ![t] = LookupZone(t, task[t].sensor)]
      <4>1. LookupZone(t, task[t].sensor) \in TaskState
        BY <2>1, LookupZoneType
      <4> QED
        BY <3>1, <4>1 DEF TypeOK
    <3>2. CASE task' = [task EXCEPT ![t].pc = "fetch"]
      BY <3>2, SetPcType DEF TypeOK, PCs
    <3> QED
      BY <1>8, <3>1, <3>2 DEF AcquireLock
  <2> QED
    BY <1>8, <2>2 DEF AcquireLock, TypeOK, kafka, hist, watch
<1>9. ASSUME NEW t \in Tasks, FetchZone(t) PROVE TypeOK'
  <2>1. task[t].sensor \in Sensors
    BY <1>9 DEF FetchZone, LockInv
  <2>2. task' \in [Tasks -> TaskState]
    <3>1. PICK z \in {dbZone[task[t].sensor], NoZone} :
            task' = [task EXCEPT ![t].pc = "fetched", ![t].zone = z]
      BY <1>9 DEF FetchZone
    <3>2. z \in Zones \cup {NoZone}
      BY <2>1 DEF TypeOK
    <3> QED
      BY <3>1, <3>2, SetPcZoneType DEF TypeOK, PCs
  <2> QED
    BY <1>9, <2>2 DEF FetchZone, TypeOK, kafka, hist, zones, watch
<1>10. ASSUME NEW t \in Tasks, FinishLookup(t) PROVE TypeOK'
  <2>1. task[t].sensor \in Sensors /\ task[t].zone \in Zones \cup {NoZone}
    BY <1>10 DEF FinishLookup, LockInv, TypeOK, TaskState
  <2>2. task' \in [Tasks -> TaskState]
    BY <1>10, SetPcType DEF FinishLookup, AfterLookup, TypeOK, PCs
  <2>3. cache' \in [Sensors -> Zones \cup {NoZone}]
    BY <1>10, <2>1 DEF FinishLookup, TypeOK
  <2> QED
    BY <1>10, <2>2, <2>3 DEF FinishLookup, TypeOK, kafka, hist, watch
<1>11. ASSUME NEW l \in Loops, Subscribe(l) PROVE TypeOK'
  <2>1. task' \in [Tasks -> TaskState]
    BY <1>11, AtType DEF Subscribe, TypeOK, PCs
  <2>2. PICK o \in IF committed[l] = {} THEN {Len(log[l])} ELSE committed[l] :
          /\ pos' = [pos EXCEPT ![l] = o]
          /\ first' = [first EXCEPT ![l] = o]
          /\ origin' = IF committed[l] = {} THEN [origin EXCEPT ![l] = o] ELSE origin
    BY <1>11 DEF Subscribe
  <2>3. o \in Nat
    BY <2>2 DEF TypeOK
  <2> QED
    BY <1>11, <2>1, <2>2, <2>3 DEF Subscribe, TypeOK, zones, watch
<1>12. ASSUME NEW l \in Loops, Receive(l) PROVE TypeOK'
  <2> DEFINE r == log[l][pos[l] + 1]
  <2>1. r \in Record
    BY <1>12 DEF Receive, TypeOK
  <2>2. pos' \in [Loops -> Nat]
    BY <1>12 DEF Receive, TypeOK
  <2>3. ASSUME Handle(l, r) 
        PROVE  /\ tracked' \in SUBSET Sensors
               /\ silence' \in [Sensors -> 0..(Threshold + 1)]
               /\ stale' \in SUBSET Sensors
               /\ outcome' \in [Sensors -> {"unheard", "heard", "reported", "lost"}]
               /\ task' \in [Tasks -> TaskState]
    <3> HIDE DEF r
    <3>1. r.sensor \in Sensors \cup {NoSensor} /\ r.zone \in Zones \cup {NoZone}
      BY <2>1 DEF Record
    <3>2. task' \in [Tasks -> TaskState]
      <4>1. [pc |-> "emit", sensor |-> NoSensor, zone |-> r.zone] \in TaskState
        BY <3>1 DEF TaskState, PCs
      <4>2. r.sensor # NoSensor => LookupZone(l, r.sensor) \in TaskState
        BY <3>1, LookupZoneType
      <4> QED
        BY <2>3, <4>1, <4>2 DEF Handle, NoteHeard, Hear, TypeOK
    <3>3. 0 \in 0..(Threshold + 1)
      OBVIOUS
    <3>4. /\ tracked' \in SUBSET Sensors
          /\ outcome' \in [Sensors -> {"unheard", "heard", "reported", "lost"}]
      <4>1. tracked' \in SUBSET Sensors
        BY <2>3, <3>1 DEF Handle, NoteHeard, Hear, TypeOK
      <4>2. outcome' \in [Sensors -> {"unheard", "heard", "reported", "lost"}]
        BY <2>3, <3>1 DEF Handle, NoteHeard, Hear, TypeOK
      <4> QED
        BY <4>1, <4>2
    <3>5. silence' \in [Sensors -> 0..(Threshold + 1)]
      <4>1. silence \in [Sensors -> 0..(Threshold + 1)]
        BY DEF TypeOK
      <4>2. CASE l = "telemetry" /\ r.sensor # NoSensor
        <5>1. silence' = [silence EXCEPT ![r.sensor] = 0]
          BY <2>3, <4>2 DEF Handle, NoteHeard, Hear
        <5> QED
          BY <3>3, <4>1, <5>1
      <4>3. CASE ~(l = "telemetry" /\ r.sensor # NoSensor)
        <5>1. silence' = silence
          BY <2>3, <4>3 DEF Handle, NoteHeard
        <5> QED
          BY <4>1, <5>1
      <4> QED
        BY <4>2, <4>3
    <3>6. stale' \in SUBSET Sensors
      BY <2>3 DEF Handle, NoteHeard, Hear, TypeOK
    <3> QED
      BY <3>2, <3>4, <3>5, <3>6
  <2>4. CASE r.event \in Fanned[l]
    BY <1>12, <2>2, <2>3, <2>4 DEF Receive, TypeOK, hist, zones
  <2>5. CASE r.event \notin Fanned[l]
    BY <1>12, <2>2, <2>5 DEF Receive, TypeOK, hist, zones, watch
  <2> QED
    BY <2>4, <2>5
<1>13. ASSUME NEW l \in Loops, ReceivePoison(l) PROVE TypeOK'
  <2>1. task' \in [Tasks -> TaskState]
    BY <1>13, AtType DEF ReceivePoison, TypeOK, PCs
  <2>2. pos' \in [Loops -> Nat] /\ committed' \in [Loops -> SUBSET Nat]
    <3>1. PICK p \in {pos[l], pos[l] + 1} :
            /\ pos' = [pos EXCEPT ![l] = p]
            /\ committed' \in {committed, [committed EXCEPT ![l] = {p}]}
      BY <1>13 DEF ReceivePoison
    <3>2. p \in Nat
      <4>1. pos[l] \in Nat
        BY DEF TypeOK
      <4> QED
        BY <4>1
    <3>3. [committed EXCEPT ![l] = {p}] \in [Loops -> SUBSET Nat]
      BY <3>2 DEF TypeOK
    <3>4. committed \in [Loops -> SUBSET Nat]
      BY DEF TypeOK
    <3>5. committed' \in [Loops -> SUBSET Nat]
      BY ONLY <3>1, <3>3, <3>4
    <3>6. pos' \in [Loops -> Nat]
      BY <3>1, <3>2 DEF TypeOK
    <3> QED
      BY <3>5, <3>6
  <2> QED
    BY <1>13, <2>1, <2>2 DEF ReceivePoison, TypeOK, hist, zones, watch
<1>14. ASSUME NEW l \in Loops, Emit(l) PROVE TypeOK'
  BY <1>14, AtType DEF Emit, TypeOK, PCs, zones, watch
<1>15. ASSUME StartProducer PROVE TypeOK'
  BY <1>15, AtType DEF StartProducer, TypeOK, PCs, kafka, hist, zones, watch
<1>16. ASSUME Sweep PROVE TypeOK'
  BY <1>16, AtType DEF Sweep, TypeOK, PCs, kafka, hist, zones
<1>17. ASSUME NEW s \in Sensors, NextStale(s) PROVE TypeOK'
  BY <1>17, LookupZoneType DEF NextStale, TypeOK, kafka, hist, zones
<1>18. ASSUME PublishOffline PROVE TypeOK'
  <2>1. wd.sensor \in Sensors /\ wd.zone \in Zones \cup {NoZone}
    BY <1>18 DEF PublishOffline, LockInv, TypeOK, TaskState, wd
  <2>2. [event |-> "sensor:offline", sensor |-> wd.sensor, zone |-> wd.zone] \in Record
    BY <2>1 DEF Record, Events
  <2>3. log' \in [Loops -> Seq(Record)]
    <3>1. log' = [log EXCEPT !["alerts"] = Append(@,
                    [event |-> "sensor:offline", sensor |-> wd.sensor, zone |-> wd.zone])]
      BY <1>18 DEF PublishOffline
    <3>2. log \in [Loops -> Seq(Record)] /\ "alerts" \in Loops
      BY DEF TypeOK, Loops
    <3> QED
      BY ONLY <2>2, <3>1, <3>2, AppendType
  <2>4. task' \in [Tasks -> TaskState]
    BY <1>18, SetPcType DEF PublishOffline, TypeOK, PCs
  <2> QED
    BY <1>18, <2>1, <2>3, <2>4 DEF PublishOffline, TypeOK, hist, zones
<1>19. ASSUME PublishFails PROVE TypeOK'
  <2>1. task' \in [Tasks -> TaskState]
    BY <1>19, SetPcType DEF PublishFails, TypeOK, PCs
  <2> QED
    BY <1>19, <2>1 DEF PublishFails, TypeOK, kafka, hist, zones, wd
<1>20. ASSUME StopTracking PROVE TypeOK'
  BY <1>20, AtType DEF StopTracking, TypeOK, PCs, kafka, hist, zones
<1>21. ASSUME UNCHANGED vars PROVE TypeOK'
  BY <1>21 DEF vars, kafka, hist, zones, watch, TypeOK
<1> QED
  BY <1>1, <1>2, <1>3, <1>4, <1>5, <1>6, <1>7, <1>8, <1>9, <1>10, <1>11, <1>12,
     <1>13, <1>14, <1>15, <1>16, <1>17, <1>18, <1>19, <1>20, <1>21
  DEF Next, Environment, Lookup, Loop, Watchdog

-----------------------------------------------------------------------------
(* The lock and the watchdog's list.                                          *)

\* A lookup ends with the task ready to go on or waiting for the lock; it holds
\* the lock in neither case.
LEMMA LookupZonePc ==
  ASSUME NEW t \in Tasks, NEW s \in Sensors
  PROVE  /\ LookupZone(t, s).pc \in {"lock", AfterLookup(t)}
         /\ LookupZone(t, s).sensor = s
         /\ LookupZone(t, s).zone # NoZone => LookupZone(t, s).zone = cache[s]
         /\ LookupZone(t, s).pc # "lock" => LookupZone(t, s).zone = cache[s]
  BY DEF LookupZone

\* A step that neither fetches nor touches lock, cache and started keeps LockInv,
\* when the tasks it moves are started and take up no query.
LEMMA OtherLockInv ==
  ASSUME LockInv, task \in [Tasks -> TaskState], NEW t \in Tasks, NEW r \in TaskState,
         started, task[t].pc \notin {"fetch", "fetched"},
         r.pc \notin {"fetch", "fetched"},
         r.pc \in {"lock", "publish", "pop"} => r.sensor \in Sensors,
         task' = [task EXCEPT ![t] = r],
         UNCHANGED <<lock, cache, started>>
  PROVE  LockInv'
  BY DEF LockInv

\* The task that takes the lock fetches the zone of a sensor that is not cached.
LEMMA LockHeldInv ==
  ASSUME LockInv, task \in [Tasks -> TaskState], NEW t \in Tasks, started,
         task[t].sensor \in Sensors, cache[task[t].sensor] = NoZone, lock = NoTask,
         task' = [task EXCEPT ![t].pc = "fetch"], lock' = t,
         UNCHANGED <<cache, started>>
  PROVE  LockInv'
<1>1. task'[t].pc = "fetch" /\ task'[t].sensor = task[t].sensor
  BY DEF TaskState
<1>2. ASSUME NEW u \in Tasks, u # t
      PROVE  /\ task'[u] = task[u] /\ lock # u /\ lock' # u
             /\ task[u].pc \in {"lock", "fetch", "fetched", "publish", "pop"} =>
                  task[u].sensor \in Sensors
             /\ task[u].pc \notin {"fetch", "fetched"}
  BY <1>2, LoopsAreTasks, LiveAssumption DEF LockInv, LiveAssumption
<1> QED
  BY <1>1, <1>2 DEF LockInv

LEMMA NextLockInv == TypeOK /\ LockInv /\ [Next]_vars => LockInv'
<1> SUFFICES ASSUME TypeOK, LockInv, [Next]_vars PROVE LockInv'
  OBVIOUS
<1> USE LiveAssumption, LoopsAreTasks DEF LiveAssumption
<1> DEFINE Calm(t) == task[t].pc # "off" => started
<1>a. \A t \in Tasks : Calm(t)
  BY DEF LockInv
<1>b. task \in [Tasks -> TaskState]
  BY DEF TypeOK
<1>1. ASSUME NEW l \in Loops, Produce(l) PROVE LockInv'
  BY <1>1 DEF Produce, LockInv, zones, watch
<1>2. ASSUME Administrator PROVE LockInv'
  BY <1>2 DEF Administrator, CreateSensor, DeleteZone, LockInv, watch
<1>3. ASSUME Tick PROVE LockInv'
  BY <1>3 DEF Tick, LockInv, zones
<1>4. ASSUME Connect PROVE LockInv'
  BY <1>4 DEF Connect, LockInv, zones, watch, At
<1>5. ASSUME Restart PROVE LockInv'
  BY <1>5 DEF Restart, LockInv, At
<1>6. ASSUME NEW t \in Tasks, Crash(t) PROVE LockInv'
  <2>1. At("crashed") \in TaskState
    BY AtType DEF PCs
  <2>2. task[t].pc \in {"starting", "idle", "emit"}
    BY <1>6 DEF Crash
  <2> QED
    BY <1>6, <1>a, <1>b, <2>1, <2>2, OtherLockInv DEF Crash, At, zones
<1>7. ASSUME NEW l \in Loops, AutoCommit(l) PROVE LockInv'
  BY <1>7 DEF AutoCommit, LockInv, zones, watch
<1>8. ASSUME NEW t \in Tasks, AcquireLock(t) PROVE LockInv'
  <2>1. task[t].sensor \in Sensors /\ started
    BY <1>8 DEF AcquireLock, LockInv
  <2>2. CASE cache[task[t].sensor] # NoZone
    <3>1. LookupZone(t, task[t].sensor) \in TaskState
      BY <2>1, LookupZoneType
    <3>2. LookupZone(t, task[t].sensor).pc \in {"lock", "publish", "emit"}
      BY <2>1, LookupZonePc DEF AfterLookup
    <3> QED
      BY <1>8, <1>b, <2>1, <2>2, <3>1, <3>2, LookupZonePc, OtherLockInv
      DEF AcquireLock
  <2>3. CASE cache[task[t].sensor] = NoZone
    <3>1. /\ task' = [task EXCEPT ![t].pc = "fetch"]
          /\ lock' = t /\ lock = NoTask /\ UNCHANGED <<cache, started, tracked>>
      BY <1>8, <2>3 DEF AcquireLock, watch
    <3> QED
      BY <1>b, <2>1, <2>3, <3>1, LockHeldInv
  <2> QED
    BY <2>2, <2>3
<1>9. ASSUME NEW t \in Tasks, FetchZone(t) PROVE LockInv'
  <2>1. PICK z \in {dbZone[task[t].sensor], NoZone} :
          task' = [task EXCEPT ![t].pc = "fetched", ![t].zone = z]
    BY <1>9 DEF FetchZone
  <2>2. /\ task'[t].pc = "fetched" /\ task'[t].sensor = task[t].sensor
        /\ \A u \in Tasks \ {t} : task'[u] = task[u]
    BY <1>b, <2>1 DEF TaskState
  <2>3. task[t].pc = "fetch" /\ UNCHANGED <<lock, cache, started, tracked>>
    BY <1>9 DEF FetchZone, zones, watch
  <2>4. ~started' => tracked' = {} /\ \A u \in Tasks : task'[u].pc = "off"
    BY <2>3 DEF LockInv
  <2>5. ASSUME NEW u \in Tasks
        PROVE  /\ task'[u].pc \in {"lock", "fetch", "fetched", "publish", "pop"} =>
                    task'[u].sensor \in Sensors
               /\ task'[u].pc \in {"fetch", "fetched"} <=> lock' = u
               /\ lock' = u => cache'[task'[u].sensor] = NoZone
    BY <2>2, <2>3 DEF LockInv
  <2> QED
    BY <2>4, <2>5 DEF LockInv
<1>10. ASSUME NEW t \in Tasks, FinishLookup(t) PROVE LockInv'
  <2>1. /\ task'[t].pc \in {"emit", "publish"} /\ task'[t].sensor = task[t].sensor
        /\ \A u \in Tasks \ {t} : task'[u] = task[u]
    BY <1>10, <1>b DEF FinishLookup, AfterLookup, TaskState
  <2>2. lock' = NoTask /\ lock = t
    BY <1>10 DEF FinishLookup, LockInv
  <2> QED
    BY <1>10, <2>1, <2>2 DEF FinishLookup, LockInv, watch
<1>11. ASSUME NEW l \in Loops, Subscribe(l) PROVE LockInv'
  <2>1. At("idle") \in TaskState
    BY AtType DEF PCs
  <2> QED
    BY <1>11, <1>a, <1>b, <2>1, OtherLockInv DEF Subscribe, At, zones
<1>12. ASSUME NEW l \in Loops, Receive(l) PROVE LockInv'
  <2> DEFINE r == log[l][pos[l] + 1]
  <2>1. r \in Record
    BY <1>12 DEF Receive, TypeOK
  <2>2. r.sensor \in Sensors \cup {NoSensor} /\ r.zone \in Zones \cup {NoZone}
    BY <2>1 DEF Record
  <2>3. UNCHANGED <<lock, cache, started>> /\ task[l].pc = "idle" /\ started
    BY <1>12, <1>a DEF Receive, zones
  <2>4. CASE Handle(l, r)
    <3> DEFINE n == IF l = "analytics" \/ r.zone # NoZone \/ r.sensor = NoSensor
                    THEN [pc |-> "emit", sensor |-> NoSensor, zone |-> r.zone]
                    ELSE LookupZone(l, r.sensor)
    <3>1. [pc |-> "emit", sensor |-> NoSensor, zone |-> r.zone] \in TaskState
      BY <2>2 DEF TaskState, PCs
    <3>2. r.sensor # NoSensor =>
            /\ LookupZone(l, r.sensor) \in TaskState
            /\ LookupZone(l, r.sensor).pc \in {"lock", "publish", "emit"}
            /\ LookupZone(l, r.sensor).sensor \in Sensors
      BY <2>2, LookupZoneType, LookupZonePc DEF AfterLookup
    <3>3. task' = [task EXCEPT ![l] = n]
      BY <2>4 DEF Handle, NoteHeard, Hear
    <3> HIDE DEF r
    <3>4. /\ n \in TaskState /\ n.pc \notin {"fetch", "fetched"}
          /\ n.pc \in {"lock", "publish", "pop"} => n.sensor \in Sensors
      BY <3>1, <3>2
    <3> HIDE DEF n
    <3> QED
      BY <1>b, <2>3, <3>3, <3>4, OtherLockInv
  <2>5. CASE UNCHANGED <<watch, task>>
    BY <2>3, <2>5 DEF LockInv, watch
  <2> QED
    BY <1>12, <2>4, <2>5 DEF Receive
<1>13. ASSUME NEW l \in Loops, ReceivePoison(l) PROVE LockInv'
  <2>1. At("crashed") \in TaskState
    BY AtType DEF PCs
  <2> QED
    BY <1>13, <1>a, <1>b, <2>1, OtherLockInv DEF ReceivePoison, At, zones
<1>14. ASSUME NEW l \in Loops, Emit(l) PROVE LockInv'
  <2>1. At("idle") \in TaskState
    BY AtType DEF PCs
  <2> QED
    BY <1>14, <1>a, <1>b, <2>1, OtherLockInv DEF Emit, At, zones
<1>15. ASSUME StartProducer \/ Sweep PROVE LockInv'
  <2>1. At("sleep") \in TaskState /\ At("sweep") \in TaskState
    BY AtType DEF PCs
  <2> QED
    BY <1>15, <1>a, <1>b, <2>1, OtherLockInv DEF StartProducer, Sweep, At, zones, wd
<1>16. ASSUME NEW s \in Sensors, NextStale(s) PROVE LockInv'
  <2>1. /\ LookupZone("watchdog", s) \in TaskState
        /\ LookupZone("watchdog", s).pc \in {"lock", "publish"}
        /\ LookupZone("watchdog", s).sensor \in Sensors
    BY LookupZoneType, LookupZonePc DEF AfterLookup
  <2> QED
    BY <1>16, <1>a, <1>b, <2>1, OtherLockInv DEF NextStale, zones, wd
<1>17. ASSUME PublishOffline \/ PublishFails PROVE LockInv'
  <2>1. /\ task'["watchdog"].pc = "pop"
        /\ task'["watchdog"].sensor = wd.sensor
        /\ \A u \in Tasks \ {"watchdog"} : task'[u] = task[u]
    BY <1>17, <1>b DEF PublishOffline, PublishFails, TaskState, wd
  <2>2. wd.pc = "publish" /\ UNCHANGED <<lock, cache, started, tracked>>
    BY <1>17 DEF PublishOffline, PublishFails, zones
  <2> QED
    BY <2>1, <2>2 DEF LockInv, wd
<1>18. ASSUME StopTracking PROVE LockInv'
  <2>1. At("sleep") \in TaskState /\ At("sweep") \in TaskState
    BY AtType DEF PCs
  <2> QED
    BY <1>18, <1>a, <1>b, <2>1, OtherLockInv DEF StopTracking, At, zones, wd
<1>19. ASSUME UNCHANGED vars PROVE LockInv'
  BY <1>19 DEF vars, zones, watch, LockInv
<1> QED
  BY <1>1, <1>2, <1>3, <1>4, <1>5, <1>6, <1>7, <1>8, <1>9, <1>10, <1>11, <1>12,
     <1>13, <1>14, <1>15, <1>16, <1>17, <1>18, <1>19
  DEF Next, Environment, Lookup, Loop, Watchdog
\* The watchdog's list is disturbed only by the watchdog, by telemetry and by a
\* restart.
LEMMA NextWatchInv == TypeOK /\ LockInv /\ WatchInv /\ [Next]_vars => WatchInv'
<1> SUFFICES ASSUME TypeOK, LockInv, WatchInv, [Next]_vars PROVE WatchInv'
  OBVIOUS
<1> USE LiveAssumption, LoopsAreTasks DEF LiveAssumption
<1>b. task \in [Tasks -> TaskState]
  BY DEF TypeOK
<1>c. ASSUME UNCHANGED <<tracked, stale, outcome>>, wd' = wd PROVE WatchInv'
  BY <1>c DEF WatchInv
<1>d. ASSUME NEW l \in Loops, NEW r, task' = [task EXCEPT ![l] = r] PROVE wd' = wd
  BY <1>b, <1>d DEF wd
<1>1. ASSUME NEW l \in Loops, Produce(l) PROVE WatchInv'
  BY <1>1, <1>c DEF Produce, watch, wd
<1>2. ASSUME Administrator PROVE WatchInv'
  BY <1>2, <1>c DEF Administrator, CreateSensor, DeleteZone, watch, wd
<1>3. ASSUME Tick PROVE WatchInv'
  BY <1>3, <1>c DEF Tick, wd
<1>4. ASSUME Connect PROVE WatchInv'
  BY <1>4 DEF Connect, watch, WatchInv, LockInv, At, wd
<1>5. ASSUME Restart PROVE WatchInv'
  BY <1>5 DEF Restart, WatchInv, At, wd
<1>6. ASSUME NEW t \in Tasks, Crash(t) PROVE WatchInv'
  <2>1. UNCHANGED <<tracked, stale, outcome>>
    BY <1>6 DEF Crash, watch
  <2>2. t = "watchdog" => wd.pc = "starting" /\ wd'.pc = "crashed"
    BY <1>6, <1>b DEF Crash, At, wd
  <2>3. t # "watchdog" => wd' = wd
    BY <1>6, <1>b DEF Crash, wd
  <2> QED
    BY <2>1, <2>2, <2>3, <1>c DEF WatchInv
<1>7. ASSUME NEW l \in Loops, AutoCommit(l) PROVE WatchInv'
  BY <1>7, <1>c DEF AutoCommit, watch, wd
<1>8. ASSUME NEW t \in Tasks, Lookup(t) PROVE WatchInv'
  <2>1. UNCHANGED <<tracked, stale, outcome>>
    BY <1>8 DEF Lookup, AcquireLock, FetchZone, FinishLookup, watch
  <2>2. t # "watchdog" => wd' = wd
    BY <1>8, <1>b DEF Lookup, AcquireLock, FetchZone, FinishLookup, wd
  <2>3. t = "watchdog" => /\ wd.pc \in {"lock", "fetch", "fetched"}
                          /\ wd'.pc \in {"lock", "fetch", "fetched", "publish"}
                          /\ wd'.sensor = wd.sensor
    <3>1. ASSUME t = "watchdog", AcquireLock(t)
          PROVE  /\ wd.pc = "lock" /\ wd'.pc \in {"lock", "fetch", "publish"}
                 /\ wd'.sensor = wd.sensor
      <4>1. task[t].sensor \in Sensors
        BY <3>1 DEF AcquireLock, LockInv
      <4> QED
        BY <3>1, <4>1, <1>b, LookupZonePc DEF AcquireLock, AfterLookup, TaskState, wd
    <3>2. ASSUME t = "watchdog", FetchZone(t)
          PROVE  wd.pc = "fetch" /\ wd'.pc = "fetched" /\ wd'.sensor = wd.sensor
      BY <3>2, <1>b DEF FetchZone, TaskState, wd
    <3>3. ASSUME t = "watchdog", FinishLookup(t)
          PROVE  wd.pc = "fetched" /\ wd'.pc = "publish" /\ wd'.sensor = wd.sensor
      BY <3>3, <1>b DEF FinishLookup, AfterLookup, TaskState, wd
    <3> QED
      BY <1>8, <3>1, <3>2, <3>3 DEF Lookup
  <2> QED
    BY <2>1, <2>2, <2>3, <1>c DEF WatchInv
<1>9. ASSUME NEW l \in Loops, Subscribe(l) \/ ReceivePoison(l) \/ Emit(l) PROVE WatchInv'
  BY <1>9, <1>c, <1>d DEF Subscribe, ReceivePoison, Emit, watch
<1>10. ASSUME NEW l \in Loops, Receive(l) PROVE WatchInv'
  <2> DEFINE r == log[l][pos[l] + 1]
  <2>1. r \in Record
    BY <1>10 DEF Receive, TypeOK
  <2> HIDE DEF r
  <2>2. CASE Handle(l, r)
    <3>1. wd' = wd /\ UNCHANGED stale
      BY <2>2, <1>d DEF Handle, NoteHeard, Hear
    <3>2. CASE l = "telemetry" /\ r.sensor # NoSensor
      <4>1. r.sensor \in Sensors
        BY <2>1, <3>2 DEF Record
      <4>2. /\ tracked' = tracked \cup {r.sensor}
            /\ outcome' = [outcome EXCEPT ![r.sensor] = "heard"]
        BY <2>2, <3>2 DEF Handle, NoteHeard, Hear
      <4> QED
        BY <3>1, <4>1, <4>2 DEF WatchInv, TypeOK
    <3>3. CASE ~(l = "telemetry" /\ r.sensor # NoSensor)
      BY <2>2, <3>1, <3>3, <1>c DEF Handle, NoteHeard, Hear
    <3> QED
      BY <3>2, <3>3
  <2>3. CASE UNCHANGED <<watch, task>>
    BY <2>3, <1>c DEF watch, wd
  <2> QED
    BY <1>10, <2>2, <2>3 DEF Receive, r
<1>11. ASSUME StartProducer PROVE WatchInv'
  <2>1. wd.pc = "starting" /\ wd'.pc = "sleep" /\ UNCHANGED <<tracked, stale, outcome>>
    BY <1>11, <1>b DEF StartProducer, At, watch, wd
  <2> QED
    BY <2>1 DEF WatchInv
<1>12. ASSUME Sweep PROVE WatchInv'
  <2>1. wd.pc = "sleep" /\ wd'.pc = "sweep" /\ UNCHANGED <<tracked, outcome>>
    BY <1>12, <1>b DEF Sweep, At, wd
  <2> QED
    BY <1>12, <2>1 DEF Sweep, WatchInv
<1>13. ASSUME NEW s \in Sensors, NextStale(s) PROVE WatchInv'
  <2>1. /\ wd.pc = "sweep" /\ wd'.pc \in {"lock", "publish"} /\ wd'.sensor = s
        /\ s \in stale /\ stale' = stale \ {s} /\ UNCHANGED <<tracked, outcome>>
    BY <1>13, <1>b, LookupZonePc DEF NextStale, AfterLookup, wd
  <2> QED
    BY <2>1 DEF WatchInv
<1>14. ASSUME PublishOffline \/ PublishFails PROVE WatchInv'
  <2>1. /\ wd.pc = "publish" /\ wd'.pc = "pop" /\ wd'.sensor = wd.sensor
        /\ UNCHANGED <<tracked, stale>>
        /\ \A s \in Sensors \ {wd.sensor} : outcome'[s] = outcome[s]
    BY <1>14, <1>b DEF PublishOffline, PublishFails, TaskState, wd, TypeOK
  <2> QED
    BY <2>1 DEF WatchInv, TypeOK
<1>15. ASSUME StopTracking PROVE WatchInv'
  <2>1. /\ wd.pc = "pop" /\ wd'.pc \in {"sleep", "sweep"}
        /\ tracked' = tracked \ {wd.sensor} /\ UNCHANGED <<stale, outcome>>
    BY <1>15, <1>b DEF StopTracking, At, wd
  <2> QED
    BY <2>1 DEF WatchInv
<1>16. ASSUME UNCHANGED vars PROVE WatchInv'
  BY <1>16, <1>c DEF vars, watch, wd
<1> QED
  BY <1>1, <1>2, <1>3, <1>4, <1>5, <1>6, <1>7, <1>8, <1>9, <1>10, <1>11, <1>12,
     <1>13, <1>14, <1>15, <1>16
  DEF Next, Environment, Loop, Watchdog

-----------------------------------------------------------------------------
(* Zones.                                                                     *)

\* Only the end of a lookup writes the cache, and it writes for a sensor the
\* cache did not hold.
LEMMA CacheStep ==
  TypeOK /\ LockInv /\ [Next]_vars =>
    \A s \in Sensors : started' /\ cache[s] # NoZone => cache'[s] = cache[s]
<1> SUFFICES ASSUME TypeOK, LockInv, [Next]_vars, started'
             PROVE  \A s \in Sensors : cache[s] # NoZone => cache'[s] = cache[s]
  OBVIOUS
<1>1. CASE UNCHANGED cache
  BY <1>1
<1>2. ASSUME NEW t \in Tasks, FinishLookup(t)
      PROVE  \A s \in Sensors : cache[s] # NoZone => cache'[s] = cache[s]
  <2>1. cache[task[t].sensor] = NoZone /\ task[t].sensor \in Sensors
    BY <1>2 DEF FinishLookup, LockInv
  <2> QED
    BY <1>2, <2>1 DEF FinishLookup, TypeOK
<1>3. CASE Restart
  BY <1>3 DEF Restart
<1> QED
  BY <1>1, <1>2, <1>3
  DEF Next, Environment, Lookup, Loop, Watchdog, Produce, Administrator, CreateSensor, DeleteZone, Connect, Crash,
      AutoCommit, Tick, AcquireLock, FetchZone, Subscribe, Receive, ReceivePoison,
      Emit, StartProducer, Sweep, NextStale, PublishOffline, PublishFails,
      StopTracking, vars, zones
\* One task moves to r; what r says about a sensor's zone is what the cache says.
LEMMA MoveZone ==
  ASSUME TypeOK, LockInv, OneZonePerSensor,
         \A s \in Sensors : cache[s] # NoZone => cache'[s] = cache[s],
         NEW t \in Tasks, NEW r, task' = [task EXCEPT ![t] = r],
         /\ r.pc \in {"emit", "publish", "pop"} /\ r.sensor # NoSensor /\ r.zone # NoZone
            => cache'[r.sensor] = r.zone
  PROVE  OneZonePerSensor'
<1> SUFFICES ASSUME NEW u \in Tasks,
                    task'[u].pc \in {"emit", "publish", "pop"},
                    task'[u].sensor # NoSensor, task'[u].zone # NoZone
             PROVE  cache'[task'[u].sensor] = task'[u].zone
  BY DEF OneZonePerSensor
<1>1. CASE u = t
  BY <1>1 DEF TypeOK
<1>2. CASE u # t
  <2>1. task'[u] = task[u] /\ task[u].sensor \in Sensors
    BY <1>2 DEF TypeOK, TaskState
  <2> QED
    BY <2>1 DEF OneZonePerSensor
<1> QED
  BY <1>1, <1>2

LEMMA MoveToLookup ==
  ASSUME TypeOK, LockInv, OneZonePerSensor, UNCHANGED cache,
         NEW t \in Tasks, NEW s \in Sensors,
         task' = [task EXCEPT ![t] = LookupZone(t, s)]
  PROVE  OneZonePerSensor'
<1> DEFINE n == LookupZone(t, s)
<1>1. n.sensor = s /\ (n.pc # "lock" => n.zone = cache[s])
  BY LookupZonePc
<1>2. task' = [task EXCEPT ![t] = n]
  OBVIOUS
<1> HIDE DEF n
<1> QED
  BY <1>1, <1>2, MoveZone

LEMMA NextOneZone ==
  TypeOK /\ LockInv /\ OneZonePerSensor /\ [Next]_vars => OneZonePerSensor'
<1> SUFFICES ASSUME TypeOK, LockInv, OneZonePerSensor, [Next]_vars
             PROVE  OneZonePerSensor'
  OBVIOUS
<1> USE LoopsAreTasks
<1>1. CASE UNCHANGED <<task, cache>>
  BY <1>1 DEF OneZonePerSensor
<1>2. CASE Restart \/ Connect
  BY <1>2 DEF Restart, Connect, At, OneZonePerSensor
<1>3. ASSUME NEW t \in Tasks, NEW p, task' = [task EXCEPT ![t] = At(p)], UNCHANGED cache
      PROVE  OneZonePerSensor'
  BY <1>3, MoveZone DEF At
<1>4. ASSUME NEW t \in Tasks, AcquireLock(t) PROVE OneZonePerSensor'
  <2>1. task[t].sensor \in Sensors /\ UNCHANGED cache
    BY <1>4 DEF AcquireLock, LockInv
  <2>2. CASE task' = [task EXCEPT ![t] = LookupZone(t, task[t].sensor)]
    BY <2>1, <2>2, MoveToLookup
  <2>3. CASE task' = [task EXCEPT ![t].pc = "fetch"]
    <3>1. task' = [task EXCEPT ![t] = [task[t] EXCEPT !.pc = "fetch"]]
      BY <2>3
    <3>2. task'[t].pc = "fetch" /\ \A u \in Tasks \ {t} : task'[u] = task[u]
      BY <3>1 DEF TypeOK, TaskState
    <3> QED
      BY <2>1, <3>2 DEF OneZonePerSensor
  <2> QED
    BY <1>4, <2>2, <2>3 DEF AcquireLock
<1>5. ASSUME NEW t \in Tasks, FetchZone(t) PROVE OneZonePerSensor'
  <2>1. PICK z : task' = [task EXCEPT ![t].pc = "fetched", ![t].zone = z]
    BY <1>5 DEF FetchZone
  <2>2. UNCHANGED cache
    BY <1>5 DEF FetchZone, zones
  <2>3. task'[t].pc = "fetched" /\ \A u \in Tasks \ {t} : task'[u] = task[u]
    BY <2>1 DEF TypeOK, TaskState
  <2> QED
    BY <2>2, <2>3 DEF OneZonePerSensor
<1>6. ASSUME NEW t \in Tasks, FinishLookup(t) PROVE OneZonePerSensor'
  <2>1. task[t].sensor \in Sensors /\ cache[task[t].sensor] = NoZone
    BY <1>6 DEF FinishLookup, LockInv
  <2>2. task[t].zone # NoZone => cache' = [cache EXCEPT ![task[t].sensor] = task[t].zone]
    BY <1>6 DEF FinishLookup
  <2>3. \A s \in Sensors : cache[s] # NoZone => cache'[s] = cache[s]
    BY <1>6, <2>1 DEF FinishLookup, TypeOK
  <2>4. task' = [task EXCEPT ![t] = [task[t] EXCEPT !.pc = AfterLookup(t)]]
    BY <1>6 DEF FinishLookup
  <2>5. /\ [task[t] EXCEPT !.pc = AfterLookup(t)].sensor = task[t].sensor
        /\ [task[t] EXCEPT !.pc = AfterLookup(t)].zone = task[t].zone
    BY DEF TypeOK, TaskState
  <2>6. task[t].zone # NoZone => cache'[task[t].sensor] = task[t].zone
    BY <2>1, <2>2 DEF TypeOK
  <2> QED
    BY <2>3, <2>4, <2>5, <2>6, MoveZone
<1>7. ASSUME NEW l \in Loops, Receive(l) PROVE OneZonePerSensor'
  <2> DEFINE r == log[l][pos[l] + 1]
  <2>1. r \in Record
    BY <1>7 DEF Receive, TypeOK
  <2>2. UNCHANGED cache
    BY <1>7 DEF Receive, zones
  <2> HIDE DEF r
  <2>3. CASE Handle(l, r)
    <3>1. CASE l = "analytics" \/ r.zone # NoZone \/ r.sensor = NoSensor
      <4> DEFINE n == [pc |-> "emit", sensor |-> NoSensor, zone |-> r.zone]
      <4>1. task' = [task EXCEPT ![l] = n] /\ n.sensor = NoSensor
        BY <2>3, <3>1 DEF Handle, NoteHeard, Hear
      <4> HIDE DEF n
      <4> QED
        BY <2>2, <4>1, MoveZone
    <3>2. CASE ~(l = "analytics" \/ r.zone # NoZone \/ r.sensor = NoSensor)
      <4>1. r.sensor \in Sensors /\ task' = [task EXCEPT ![l] = LookupZone(l, r.sensor)]
        BY <2>1, <2>3, <3>2 DEF Handle, NoteHeard, Hear, Record
      <4> QED
        BY <2>2, <4>1, MoveToLookup
    <3> QED
      BY <3>1, <3>2
  <2>4. CASE UNCHANGED <<watch, task>>
    BY <2>2, <2>4, <1>1
  <2> QED
    BY <1>7, <2>3, <2>4 DEF Receive, r
<1>8. ASSUME NEW s \in Sensors, NextStale(s) PROVE OneZonePerSensor'
  BY <1>8, MoveToLookup DEF NextStale, zones
<1>9. ASSUME PublishOffline \/ PublishFails PROVE OneZonePerSensor'
  <2>1. task' = [task EXCEPT !["watchdog"] = [wd EXCEPT !.pc = "pop"]] /\ UNCHANGED cache
    BY <1>9 DEF PublishOffline, PublishFails, wd, zones
  <2>2. [wd EXCEPT !.pc = "pop"].sensor = wd.sensor /\ [wd EXCEPT !.pc = "pop"].zone = wd.zone
    BY DEF TypeOK, TaskState, wd
  <2>3. wd.sensor \in Sensors /\ wd.pc = "publish"
    BY <1>9 DEF PublishOffline, PublishFails, LockInv, wd
  <2>4. wd.zone # NoZone => cache[wd.sensor] = wd.zone
    BY <2>3, LiveAssumption DEF OneZonePerSensor, wd, LiveAssumption
  <2> QED
    BY <2>1, <2>2, <2>4, MoveZone
<1>10. ASSUME NEW l \in Loops, Subscribe(l) \/ ReceivePoison(l) \/ Emit(l)
      PROVE  OneZonePerSensor'
  BY <1>3, <1>10 DEF Subscribe, ReceivePoison, Emit, zones
<1>11. ASSUME NEW t \in Tasks, Crash(t) PROVE OneZonePerSensor'
  BY <1>3, <1>11 DEF Crash, zones
<1>12. ASSUME StartProducer \/ Sweep \/ StopTracking PROVE OneZonePerSensor'
  BY <1>3, <1>12 DEF StartProducer, Sweep, StopTracking, zones
<1>13. ASSUME \/ \E l \in Loops : Produce(l) \/ AutoCommit(l)
              \/ Administrator
              \/ Tick \/ UNCHANGED vars
      PROVE  OneZonePerSensor'
  BY <1>1, <1>13 DEF Produce, AutoCommit, Administrator, CreateSensor, DeleteZone, Tick, vars, zones
<1> QED
  BY <1>2, <1>4, <1>5, <1>6, <1>7, <1>8, <1>9, <1>10, <1>11, <1>12, <1>13
  DEF Next, Environment, Lookup, Loop, Watchdog
-----------------------------------------------------------------------------
(* Offsets and fan-out, one topic at a time.                                  *)

InFlight == {"lock", "fetch", "fetched", "emit"}

\* OffsetInv and FanoutExact for one topic.
TopicInv(l) ==
  /\ first[l] <= pos[l] /\ pos[l] <= Len(log[l])
  /\ \A c \in committed[l] : c <= Len(log[l])
  /\ task[l].pc \in {"off", "starting"} => emitted[l] = {}
  /\ task[l].pc \in InFlight => pos[l] \in Due(l) \ emitted[l]
  /\ task[l].pc \notin {"sleep", "sweep", "publish", "pop"}
  /\ emitted[l] \subseteq Due(l)
  /\ Due(l) \ emitted[l] \subseteq {pos[l]}
  /\ Due(l) # emitted[l] => task[l].pc \in InFlight \cup {"crashed"}

LEMMA TopicsInv == OffsetInv /\ FanoutExact <=> \A l \in Loops : TopicInv(l)
  BY DEF OffsetInv, FanoutExact, TopicInv, InFlight

\* Appending to a topic changes nothing about the records that are due.
LEMMA DueSame ==
  ASSUME TypeOK, NEW l \in Loops, TopicInv(l), TypeOK',
         UNCHANGED <<first[l], pos[l]>>,
         \A i \in 1..Len(log[l]) : log'[l][i] = log[l][i]
  PROVE  Due(l)' = Due(l)
<1>1. first[l] \in Nat /\ pos[l] \in Nat /\ Len(log[l]) \in Nat /\ pos[l] <= Len(log[l])
  BY DEF TypeOK, TopicInv
<1>2. \A i \in (first[l] + 1)..pos[l] : i \in 1..Len(log[l])
  BY <1>1
<1> QED
  BY <1>2 DEF Due

\* A step that leaves the consumer of a topic where it is: the topic may grow, a
\* running loop's position may be committed, the loop may move on with the same record
\* or die, or be started.
Stays(l) ==
  /\ UNCHANGED <<first[l], pos[l], emitted[l], sent[l], origin[l], restarts>>
  /\ Len(log[l]) <= Len(log'[l])
  /\ \A i \in 1..Len(log[l]) : log'[l][i] = log[l][i]
  /\ \/ committed'[l] = committed[l]
     \/ committed'[l] = {pos[l]} /\ task[l].pc \notin {"off", "starting", "crashed"}
  /\ \/ task'[l].pc = task[l].pc
     \/ task[l].pc \in InFlight /\ task'[l].pc \in InFlight
     \/ task'[l].pc = "crashed"
     \/ task[l].pc = "off" /\ task'[l].pc = "starting"

LEMMA TopicStays ==
  ASSUME TypeOK, TypeOK', NEW l \in Loops, TopicInv(l), Stays(l)
  PROVE  TopicInv(l)'
<1>1. Due(l)' = Due(l)
  BY DueSame DEF Stays
<1>2. /\ first[l] <= pos[l] /\ pos[l] <= Len(log'[l])
      /\ \A c \in committed'[l] : c <= Len(log'[l])
  <2>1. /\ pos[l] \in Nat /\ Len(log[l]) \in Nat /\ Len(log'[l]) \in Nat
        /\ committed[l] \subseteq Nat
    BY DEF TypeOK
  <2> QED
    BY <2>1 DEF TopicInv, Stays
<1> QED
  BY <1>1, <1>2 DEF TopicInv, InFlight, Stays

\* Such a step is one that changes nothing of the topic.
LEMMA SameTopic ==
  ASSUME TypeOK, NEW l \in Loops,
         UNCHANGED <<log[l], committed[l], first[l], pos[l], emitted[l], sent[l], origin[l],
                     task[l], restarts>>
  PROVE  Stays(l)
<1>1. Len(log[l]) \in Nat
  BY DEF TypeOK
<1> QED
  BY <1>1 DEF Stays

\* The steps of the consumer loop itself.
\* A loop that is given an event it emits is busy with it.
LEMMA ReceiveMoves ==
  ASSUME TypeOK, NEW l \in Loops, Receive(l), log[l][pos[l] + 1].event \in Fanned[l]
  PROVE  task'[l].pc \in InFlight
<1> DEFINE r == log[l][pos[l] + 1]
<1>1. Handle(l, r) /\ pos[l] < Len(log[l])
  BY DEF Receive
<1> DEFINE n == IF l = "analytics" \/ r.zone # NoZone \/ r.sensor = NoSensor
                THEN [pc |-> "emit", sensor |-> NoSensor, zone |-> r.zone]
                ELSE LookupZone(l, r.sensor)
<1>2. task' = [task EXCEPT ![l] = n]
  BY <1>1 DEF Handle, NoteHeard, Hear
<1>3. r.sensor \in Sensors \cup {NoSensor}
  <2>1. r \in Record
    BY <1>1 DEF TypeOK
  <2> QED
    BY <2>1 DEF Record
<1>4. n.pc \in {"emit", "lock"}
  BY <1>3, LookupZonePc, LoopsAreTasks DEF AfterLookup
<1> HIDE DEF n
<1> QED
  BY <1>2, <1>4, LoopsAreTasks DEF TypeOK, InFlight

LEMMA ReceiveTopic ==
  ASSUME TypeOK, TypeOK', LockInv, NEW l \in Loops, TopicInv(l), Receive(l)
  PROVE  TopicInv(l)'
<1> DEFINE r == log[l][pos[l] + 1]
<1>1. /\ task[l].pc = "idle" /\ pos[l] < Len(log[l]) /\ pos'[l] = pos[l] + 1
      /\ UNCHANGED <<log, committed, first, emitted>>
  BY DEF Receive, TypeOK
<1>2. /\ first[l] \in Nat /\ pos[l] \in Nat /\ Len(log[l]) \in Nat /\ first[l] <= pos[l]
      /\ Due(l) = emitted[l] /\ emitted[l] \subseteq Nat
  BY <1>1 DEF TypeOK, TopicInv, InFlight
<1>3. (first[l] + 1)..(pos[l] + 1) = ((first[l] + 1)..pos[l]) \cup {pos[l] + 1}
  BY <1>2
<1>4. CASE r.event \in Fanned[l]
  <2>1. Due(l)' = Due(l) \cup {pos[l] + 1}
    BY <1>1, <1>3, <1>4 DEF Due
  <2>2. pos[l] + 1 \notin Due(l)
    BY <1>2 DEF Due
  <2>3. task'[l].pc \in InFlight
    BY <1>4, ReceiveMoves
  <2> QED
    BY <1>1, <1>2, <2>1, <2>2, <2>3 DEF TopicInv, InFlight
<1>5. CASE r.event \notin Fanned[l]
  <2>1. Due(l)' = Due(l)
    BY <1>1, <1>3, <1>5 DEF Due
  <2>2. task' = task
    BY <1>5 DEF Receive
  <2> QED
    BY <1>1, <1>2, <2>1, <2>2 DEF TopicInv, InFlight
<1> QED
  BY <1>4, <1>5

LEMMA PoisonTopic ==
  ASSUME TypeOK, TypeOK', NEW l \in Loops, TopicInv(l), ReceivePoison(l)
  PROVE  TopicInv(l)'
<1>1. PICK p \in {pos[l], pos[l] + 1} :
        /\ pos' = [pos EXCEPT ![l] = p]
        /\ committed' \in {committed, [committed EXCEPT ![l] = {p}]}
  BY DEF ReceivePoison
<1>2. /\ task[l].pc = "idle" /\ pos[l] < Len(log[l])
      /\ UNCHANGED <<log, first, emitted>> /\ task'[l].pc = "crashed"
      /\ log[l][pos[l] + 1].event = "poison"
  BY LoopsAreTasks DEF ReceivePoison, TypeOK, At
<1>3. /\ first[l] \in Nat /\ pos[l] \in Nat /\ Len(log[l]) \in Nat /\ first[l] <= pos[l]
      /\ Due(l) = emitted[l]
  BY <1>2 DEF TypeOK, TopicInv, InFlight
<1>4. (first[l] + 1)..(pos[l] + 1) = ((first[l] + 1)..pos[l]) \cup {pos[l] + 1}
  BY <1>3
<1>5. "poison" \notin Fanned[l]
  BY DEF Fanned, Loops
<1>6. pos'[l] = p
  BY <1>1 DEF TypeOK
<1>7. Due(l)' = Due(l)
  <2>1. CASE p = pos[l]
    BY <1>2, <1>6, <2>1 DEF Due
  <2>2. CASE p = pos[l] + 1
    BY <1>2, <1>4, <1>5, <1>6, <2>2 DEF Due
  <2> QED
    BY <2>1, <2>2
<1>8. \A c \in committed'[l] : c <= Len(log[l])
  <2>1. p <= Len(log[l])
    BY <1>2, <1>3
  <2>2. committed'[l] = committed[l] \/ committed'[l] = {p}
    BY <1>1 DEF TypeOK
  <2> QED
    BY <2>1, <2>2 DEF TopicInv
<1> QED
  BY <1>2, <1>3, <1>6, <1>7, <1>8 DEF TopicInv, InFlight

LEMMA EmitTopic ==
  ASSUME TypeOK, TypeOK', NEW l \in Loops, TopicInv(l), Emit(l)
  PROVE  TopicInv(l)'
<1>1. /\ task[l].pc = "emit" /\ emitted'[l] = emitted[l] \cup {pos[l]}
      /\ UNCHANGED <<log, committed, pos, first>> /\ task'[l].pc = "idle"
  BY LoopsAreTasks DEF Emit, TypeOK, At
<1>2. Due(l)' = Due(l)
  BY <1>1 DEF Due
<1> QED
  BY <1>1, <1>2 DEF TopicInv, InFlight

LEMMA SubscribeTopic ==
  ASSUME TypeOK, TypeOK', NEW l \in Loops, TopicInv(l), Subscribe(l)
  PROVE  TopicInv(l)'
<1>1. PICK o \in IF committed[l] = {} THEN {Len(log[l])} ELSE committed[l] :
        /\ pos' = [pos EXCEPT ![l] = o]
        /\ first' = [first EXCEPT ![l] = o]
  BY DEF Subscribe
<1>2. /\ task[l].pc = "starting" /\ task'[l].pc = "idle"
      /\ UNCHANGED <<log, committed, emitted>> /\ pos'[l] = o /\ first'[l] = o
  BY <1>1, LoopsAreTasks DEF Subscribe, TypeOK, At
<1>3. o \in Nat /\ Len(log[l]) \in Nat /\ o <= Len(log[l])
  <2>1. Len(log[l]) \in Nat /\ committed[l] \subseteq Nat
    BY DEF TypeOK
  <2> QED
    BY <1>1, <2>1 DEF TopicInv
<1>4. (o + 1)..o = {}
  BY <1>3
<1>5. Due(l)' = {}
  BY <1>2, <1>4 DEF Due
<1>6. emitted'[l] = {}
  BY <1>2 DEF TopicInv
<1> QED
  BY <1>2, <1>3, <1>5, <1>6 DEF TopicInv, InFlight
\* What a loop sees of a step: a step of its own, the end of the process, or one that
\* leaves its consumer where it is.
LEMMA StepOfLoop ==
  ASSUME TypeOK, TypeOK', LockInv, [Next]_vars, NEW l \in Loops, TopicInv(l)
  PROVE  Stays(l) \/ Restart \/ Subscribe(l) \/ Receive(l) \/ ReceivePoison(l) \/ Emit(l)
<1> USE LoopsAreTasks
<1>t. task \in [Tasks -> TaskState] /\ l \in Tasks /\ l # "watchdog"
  BY DEF TypeOK
<1>u. \A k \in Loops : Len(log[k]) \in Nat /\ Len(log'[k]) \in Nat
  BY DEF TypeOK
<1>1. ASSUME NEW k \in Loops, Produce(k) PROVE Stays(l)
  <2>1. PICK r \in Upstream[k] : log' = [log EXCEPT ![k] = Append(@, r)]
    BY <1>1 DEF Produce
  <2>2. /\ Len(log[l]) <= Len(log'[l])
        /\ \A i \in 1..Len(log[l]) : log'[l][i] = log[l][i]
    BY <2>1, LiveAssumption DEF TypeOK, LiveAssumption
  <2> QED
    BY <1>1, <2>2 DEF Produce, Stays, hist
<1>2. ASSUME UNCHANGED <<log, committed, first, pos, emitted, sent, origin, task, restarts>> PROVE Stays(l)
  BY <1>2, SameTopic
<1>3. ASSUME Connect PROVE Stays(l)
  <2>1. /\ task[l].pc = "off" /\ task'[l].pc \in {"starting", "crashed"}
        /\ UNCHANGED <<log, committed, first, pos, emitted, sent, origin, restarts>>
    BY <1>3 DEF Connect, LockInv, At, kafka, hist
  <2> QED
    BY <2>1, <1>u DEF Stays
<1>4. ASSUME NEW t \in Tasks, Crash(t) PROVE Stays(l)
  <2>1. UNCHANGED <<log, first, pos, emitted, sent, origin, restarts>>
    BY <1>4 DEF Crash, hist
  <2>2. task'[l].pc \in {task[l].pc, "crashed"}
    BY <1>4, <1>t DEF Crash, At
  <2>3. \/ committed'[l] = committed[l]
        \/ committed'[l] = {pos[l]} /\ task[l].pc \in {"idle", "emit"}
    BY <1>4 DEF Crash, TypeOK
  <2> QED
    BY <2>1, <2>2, <2>3, <1>u DEF Stays
<1>5. ASSUME NEW k \in Loops, AutoCommit(k) PROVE Stays(l)
  <2>1. \/ committed'[l] = committed[l]
        \/ committed'[l] = {pos[l]} /\ task[l].pc \notin {"off", "starting", "crashed"}
    BY <1>5 DEF AutoCommit, TypeOK
  <2> QED
    BY <1>5, <2>1, <1>u DEF AutoCommit, Stays, hist
<1>6. ASSUME NEW t \in Tasks, Lookup(t) PROVE Stays(l)
  <2>1. UNCHANGED <<log, committed, first, pos, emitted, sent, origin, restarts>>
    BY <1>6 DEF Lookup, AcquireLock, FetchZone, FinishLookup, kafka, hist
  <2>2. l # t => task'[l].pc = task[l].pc
    BY <1>6, <1>t DEF Lookup, AcquireLock, FetchZone, FinishLookup
  <2>3. l = t => task[l].pc \in InFlight /\ task'[l].pc \in InFlight
    <3>1. ASSUME l = t, AcquireLock(l) PROVE task[l].pc \in InFlight /\ task'[l].pc \in InFlight
      <4>1. task[l].sensor \in Sensors /\ task[l].pc = "lock"
        BY <3>1 DEF AcquireLock, LockInv
      <4>2. CASE task' = [task EXCEPT ![l] = LookupZone(l, task[l].sensor)]
        <5> DEFINE n == LookupZone(l, task[l].sensor)
        <5>1. n.pc \in {"lock", "emit"}
          BY <4>1, <1>t, LookupZonePc DEF AfterLookup
        <5>2. task' = [task EXCEPT ![l] = n]
          BY <4>2
        <5> HIDE DEF n
        <5> QED
          BY <4>1, <5>1, <5>2, <1>t DEF InFlight
      <4>3. CASE task' = [task EXCEPT ![l].pc = "fetch"]
        BY <4>1, <4>3, <1>t DEF TaskState, InFlight
      <4> QED
        BY <3>1, <4>2, <4>3 DEF AcquireLock
    <3>2. ASSUME l = t, FetchZone(l) \/ FinishLookup(l)
          PROVE  task[l].pc \in InFlight /\ task'[l].pc \in InFlight
      BY <3>2, <1>t DEF FetchZone, FinishLookup, AfterLookup, TaskState, InFlight
    <3> QED
      BY <1>6, <3>1, <3>2 DEF Lookup
  <2> QED
    BY <2>1, <2>2, <2>3, <1>u DEF Stays
<1>7. ASSUME NEW k \in Loops, k # l, Loop(k) PROVE Stays(l)
  <2>1. UNCHANGED <<log[l], first[l], pos[l], emitted[l], committed[l], sent[l], origin[l], restarts>>
    BY <1>7 DEF Loop, Subscribe, Receive, ReceivePoison, Emit, TypeOK, hist
  <2>2. task'[l] = task[l]
    BY <1>7, <1>t DEF Loop, Subscribe, Receive, Handle, NoteHeard, Hear, ReceivePoison, Emit
  <2> QED
    BY <2>1, <2>2, SameTopic
<1>8. ASSUME Watchdog PROVE Stays(l)
  <2>1. task'[l] = task[l]
    BY <1>8, <1>t
    DEF Watchdog, StartProducer, Sweep, NextStale, PublishOffline, PublishFails, StopTracking
  <2>2. UNCHANGED <<committed, first, pos, emitted, sent, origin, restarts>>
    BY <1>8 DEF Watchdog, StartProducer, Sweep, NextStale, PublishOffline, PublishFails,
                StopTracking, kafka, hist
  <2>3. UNCHANGED log \/ PublishOffline
    BY <1>8 DEF Watchdog, StartProducer, Sweep, NextStale, PublishFails, StopTracking, kafka
  <2>4. /\ Len(log[l]) <= Len(log'[l])
        /\ \A i \in 1..Len(log[l]) : log'[l][i] = log[l][i]
    <3>1. CASE UNCHANGED log
      BY <3>1, <1>u
    <3>2. CASE PublishOffline
      <4> DEFINE e == [event |-> "sensor:offline", sensor |-> wd.sensor, zone |-> wd.zone]
      <4>1. log' = [log EXCEPT !["alerts"] = Append(@, e)]
        BY <3>2 DEF PublishOffline
      <4>2. e \in Record
        BY <3>2 DEF PublishOffline, LockInv, TypeOK, TaskState, wd, Record, Events
      <4> HIDE DEF e
      <4> QED
        BY <4>1, <4>2 DEF TypeOK
    <3> QED
      BY <2>3, <3>1, <3>2
  <2> QED
    BY <2>1, <2>2, <2>4 DEF Stays
<1> QED
  BY <1>1, <1>2, <1>3, <1>4, <1>5, <1>6, <1>7, <1>8
  DEF Next, Environment, Loop, Administrator, CreateSensor, DeleteZone, Tick, vars, kafka, hist

LEMMA NextTopicInv ==
  TypeOK /\ TypeOK' /\ LockInv /\ (\A l \in Loops : TopicInv(l)) /\ [Next]_vars =>
    \A l \in Loops : TopicInv(l)'
<1> SUFFICES ASSUME TypeOK, TypeOK', LockInv, \A l \in Loops : TopicInv(l), [Next]_vars,
                    NEW l \in Loops
             PROVE  TopicInv(l)'
  OBVIOUS
<1>1. ASSUME Restart PROVE TopicInv(l)'
  <2>1. /\ first'[l] = 0 /\ pos'[l] = 0 /\ emitted'[l] = {} /\ task'[l].pc = "off"
        /\ UNCHANGED <<log, committed>>
    BY <1>1, LoopsAreTasks DEF Restart, At
  <2>2. Due(l)' = {}
    BY <2>1 DEF Due
  <2>3. Len(log[l]) \in Nat
    BY DEF TypeOK
  <2> QED
    BY <2>1, <2>2, <2>3 DEF TopicInv, InFlight
<1> QED
  BY <1>1, StepOfLoop, TopicStays, SubscribeTopic, ReceiveTopic, PoisonTopic, EmitTopic

-----------------------------------------------------------------------------
(* Losses across restarts.                                                    *)

\* LossInv for one topic.
LossOf(l) ==
  /\ \A c \in committed[l] :
       Cardinality(Missed(l, c))
         <= restarts + (IF task[l].pc \in InFlight \cup {"crashed"} THEN 1 ELSE 0)
  /\ \A c, d \in committed[l] : c = d
  /\ task[l].pc \notin {"off", "starting", "crashed"} => \A c \in committed[l] : c <= pos[l]
  /\ task[l].pc = "idle" => Cardinality(Missed(l, pos[l])) <= restarts
  /\ task[l].pc \in InFlight => Cardinality(Missed(l, pos[l] - 1)) <= restarts

LEMMA LossOfAll == LossInv <=> \A l \in Loops : LossOf(l)
  BY DEF LossInv, OneLostPerStop, LossOf, InFlight

\* The counts that are compared are numbers.
LEMMA MissedCount ==
  ASSUME TypeOK, NEW l \in Loops, NEW n \in Int
  PROVE  IsFiniteSet(Missed(l, n)) /\ Cardinality(Missed(l, n)) \in Nat
<1>1. origin[l] + 1 \in Int
  BY DEF TypeOK
<1>2. IsFiniteSet((origin[l] + 1)..n)
  BY <1>1, FS_Interval
<1>3. Missed(l, n) \in SUBSET ((origin[l] + 1)..n)
  BY DEF Missed
<1>4. IsFiniteSet(Missed(l, n))
  BY <1>2, <1>3, FS_Subset
<1> QED
  BY <1>4, FS_CardinalityType

\* One more record is at most one more missed.
LEMMA MissedOneMore ==
  ASSUME TypeOK, NEW l \in Loops, NEW n \in Int
  PROVE  Cardinality(Missed(l, n)) <= Cardinality(Missed(l, n - 1)) + 1
<1>1. Missed(l, n) \in SUBSET (Missed(l, n - 1) \cup {n})
  BY DEF Missed, TypeOK
<1>2. /\ IsFiniteSet(Missed(l, n - 1)) /\ Cardinality(Missed(l, n - 1)) \in Nat
      /\ Cardinality(Missed(l, n)) \in Nat
  BY MissedCount
<1>3. /\ IsFiniteSet(Missed(l, n - 1) \cup {n})
      /\ Cardinality(Missed(l, n - 1) \cup {n}) <= Cardinality(Missed(l, n - 1)) + 1
      /\ Cardinality(Missed(l, n - 1) \cup {n}) \in Nat
  BY <1>2, FS_AddElement
<1>4. Cardinality(Missed(l, n)) <= Cardinality(Missed(l, n - 1) \cup {n})
  BY <1>1, <1>3, FS_Subset
<1> QED
  BY <1>2, <1>3, <1>4

\* What is missed of n records after a step.
MissedThen(l, n) == {i \in (origin'[l] + 1)..n : log'[l][i].event \in Fanned[l]} \ sent'[l]

\* Nothing more of the records that were there, while the group's origin stays and what
\* was sent stays sent.
LEMMA MissedStays ==
  ASSUME TypeOK, NEW l \in Loops, NEW n \in Int, n <= Len(log[l]),
         origin'[l] = origin[l], sent[l] \subseteq sent'[l],
         \A i \in 1..Len(log[l]) : log'[l][i] = log[l][i]
  PROVE  /\ MissedThen(l, n) \subseteq Missed(l, n)
         /\ Cardinality(MissedThen(l, n)) \in Nat
         /\ Cardinality(MissedThen(l, n)) <= Cardinality(Missed(l, n))
<1>1. \A i \in (origin[l] + 1)..n : i \in 1..Len(log[l])
  BY DEF TypeOK
<1>2. MissedThen(l, n) \in SUBSET Missed(l, n)
  BY <1>1 DEF Missed, MissedThen
<1> QED
  BY <1>2, MissedCount, FS_Subset, FS_CardinalityType

\* What is left to show of a step.
LEMMA LossThen ==
  ASSUME NEW l \in Loops,
         \A c \in committed'[l] :
           Cardinality(MissedThen(l, c))
             <= restarts' + (IF task'[l].pc \in InFlight \cup {"crashed"} THEN 1 ELSE 0),
         \A c, d \in committed'[l] : c = d,
         task'[l].pc \notin {"off", "starting", "crashed"} =>
           \A c \in committed'[l] : c <= pos'[l],
         task'[l].pc = "idle" => Cardinality(MissedThen(l, pos'[l])) <= restarts',
         task'[l].pc \in InFlight => Cardinality(MissedThen(l, pos'[l] - 1)) <= restarts'
  PROVE  LossOf(l)'
  BY DEF LossOf, Missed, MissedThen, InFlight

LEMMA LossStays ==
  ASSUME TypeOK, NEW l \in Loops, TopicInv(l), LossOf(l), Stays(l)
  PROVE  LossOf(l)'
<1>1. /\ pos[l] \in Nat /\ restarts \in Nat /\ Len(log[l]) \in Nat /\ pos[l] <= Len(log[l])
      /\ \A c \in committed[l] : c \in Nat /\ c <= Len(log[l])
  BY LiveAssumption DEF TypeOK, TopicInv, LiveAssumption
<1>2. /\ origin'[l] = origin[l] /\ sent[l] \subseteq sent'[l] /\ pos'[l] = pos[l]
      /\ restarts' = restarts
  BY DEF Stays
<1>3. ASSUME NEW n \in Int, n <= Len(log[l])
      PROVE  /\ Cardinality(MissedThen(l, n)) \in Nat /\ Cardinality(Missed(l, n)) \in Nat
             /\ Cardinality(MissedThen(l, n)) <= Cardinality(Missed(l, n))
  BY <1>2, <1>3, MissedStays, MissedCount DEF Stays
<1>4. task[l].pc \in {"idle"} \cup InFlight \cup {"off", "starting", "crashed"}
  <2>1. task[l] \in TaskState
    BY LoopsAreTasks DEF TypeOK
  <2> QED
    BY <2>1 DEF TopicInv, TaskState, PCs, InFlight
<1>5. /\ task[l].pc = "idle" => Cardinality(Missed(l, pos[l])) <= restarts
      /\ task[l].pc \in InFlight => Cardinality(Missed(l, pos[l])) <= restarts + 1
  <2>1. /\ Cardinality(Missed(l, pos[l])) \in Nat
        /\ Cardinality(Missed(l, pos[l] - 1)) \in Nat
        /\ Cardinality(Missed(l, pos[l])) <= Cardinality(Missed(l, pos[l] - 1)) + 1
    <3>1. pos[l] \in Int /\ pos[l] - 1 \in Int
      BY <1>1
    <3> QED
      BY <3>1, MissedCount, MissedOneMore
  <2> QED
    BY <1>1, <2>1 DEF LossOf
<1>6. ASSUME NEW c \in committed'[l]
      PROVE  Cardinality(MissedThen(l, c))
               <= restarts + (IF task'[l].pc \in InFlight \cup {"crashed"} THEN 1 ELSE 0)
  <2>1. c \in Nat /\ c <= Len(log[l])
    BY <1>1, <1>6 DEF Stays
  <2>2. Cardinality(Missed(l, c))
          <= restarts + (IF task'[l].pc \in InFlight \cup {"crashed"} THEN 1 ELSE 0)
    <3>1. CASE c \in committed[l]
      <4>1. /\ Cardinality(Missed(l, c)) \in Nat
            /\ Cardinality(Missed(l, c))
                 <= restarts + (IF task[l].pc \in InFlight \cup {"crashed"} THEN 1 ELSE 0)
        BY <2>1, <3>1, MissedCount DEF LossOf
      <4>2. task[l].pc \in InFlight \cup {"crashed"} => task'[l].pc \in InFlight \cup {"crashed"}
        BY DEF Stays, InFlight
      <4> QED
        BY <1>1, <4>1, <4>2
    <3>2. CASE c = pos[l] /\ task[l].pc \in {"idle"} \cup InFlight
      <4>1. Cardinality(Missed(l, c)) \in Nat
        BY <2>1, MissedCount
      <4>2. CASE task[l].pc = "idle"
        BY <1>1, <1>5, <3>2, <4>1, <4>2
      <4>3. CASE task[l].pc \in InFlight
        <5>1. task'[l].pc \in InFlight \cup {"crashed"}
          BY <4>3 DEF Stays, InFlight
        <5> QED
          BY <1>5, <3>2, <4>3, <5>1
      <4> QED
        BY <3>2, <4>2, <4>3
    <3> QED
      BY <1>4, <1>6, <3>1, <3>2 DEF Stays
  <2> QED
    BY <1>1, <1>3, <2>1, <2>2
<1>7. \A c, d \in committed'[l] : c = d
  BY DEF LossOf, Stays
<1>8. task'[l].pc \notin {"off", "starting", "crashed"} => \A c \in committed'[l] : c <= pos[l]
  <2>1. task'[l].pc \notin {"off", "starting", "crashed"} =>
          task[l].pc \notin {"off", "starting", "crashed"}
    BY DEF Stays, InFlight
  <2>2. committed'[l] = committed[l] \/ committed'[l] = {pos[l]}
    BY DEF Stays
  <2>3. task[l].pc \notin {"off", "starting", "crashed"} => \A c \in committed[l] : c <= pos[l]
    BY DEF LossOf
  <2> QED
    BY <1>1, <2>1, <2>2, <2>3
<1>9. task'[l].pc = "idle" => Cardinality(MissedThen(l, pos[l])) <= restarts
  BY <1>1, <1>3, <1>5 DEF Stays, InFlight
<1>10. task'[l].pc \in InFlight => Cardinality(MissedThen(l, pos[l] - 1)) <= restarts
  <2>1. pos[l] - 1 \in Int /\ pos[l] - 1 <= Len(log[l])
    BY <1>1
  <2> QED
    BY <1>1, <1>3, <2>1 DEF LossOf, Stays, InFlight
<1> QED
  BY <1>2, <1>6, <1>7, <1>8, <1>9, <1>10, LossThen

\* What the four steps of the loop and the end of the process do to the losses.
LEMMA LossReceive ==
  ASSUME TypeOK, NEW l \in Loops, TopicInv(l), LossOf(l), Receive(l)
  PROVE  LossOf(l)'
<1>1. /\ task[l].pc = "idle" /\ pos'[l] = pos[l] + 1
      /\ UNCHANGED <<log, committed, sent, origin, restarts>>
  BY DEF Receive, TypeOK, hist
<1>2. /\ pos[l] \in Nat /\ restarts \in Nat /\ \A c \in committed[l] : c \in Nat
  BY LiveAssumption DEF TypeOK, LiveAssumption
<1>3. \A n : MissedThen(l, n) = Missed(l, n)
  BY <1>1 DEF Missed, MissedThen
<1>4. Cardinality(Missed(l, pos[l])) <= restarts /\ Cardinality(Missed(l, pos[l])) \in Nat
  BY <1>1, <1>2, MissedCount DEF LossOf
<1>5. ASSUME NEW c \in committed[l]
      PROVE  Cardinality(Missed(l, c)) \in Nat /\ Cardinality(Missed(l, c)) <= restarts /\ c <= pos[l]
  BY <1>1, <1>2, <1>5, MissedCount DEF LossOf, InFlight
<1>6. CASE log[l][pos[l] + 1].event \in Fanned[l]
  <2>1. task'[l].pc \in InFlight
    BY <1>6, ReceiveMoves
  <2>2. (pos[l] + 1) - 1 = pos[l]
    BY <1>2
  <2> QED
    <3>1. /\ Cardinality(MissedThen(l, pos'[l] - 1)) <= restarts'
          /\ task'[l].pc # "idle"
      BY <1>1, <1>3, <1>4, <2>1, <2>2 DEF InFlight
    <3>2. \A c \in committed'[l] : /\ Cardinality(MissedThen(l, c)) <= restarts' + 1
                                   /\ c <= pos'[l]
      BY <1>1, <1>2, <1>3, <1>5
    <3>3. \A c, d \in committed'[l] : c = d
      BY <1>1 DEF LossOf
    <3> QED
      BY <2>1, <3>1, <3>2, <3>3, LossThen
<1>7. CASE log[l][pos[l] + 1].event \notin Fanned[l]
  <2>1. task'[l].pc = "idle"
    BY <1>1, <1>7 DEF Receive
  <2>2. Missed(l, pos[l] + 1) = Missed(l, pos[l])
    BY <1>2, <1>7 DEF Missed, TypeOK
  <2> QED
    <3>1. Cardinality(MissedThen(l, pos'[l])) <= restarts' /\ task'[l].pc \notin InFlight
      BY <1>1, <1>3, <1>4, <2>1, <2>2 DEF InFlight
    <3>2. \A c \in committed'[l] : Cardinality(MissedThen(l, c)) <= restarts' /\ c <= pos'[l]
      BY <1>1, <1>2, <1>3, <1>5
    <3>3. \A c, d \in committed'[l] : c = d
      BY <1>1 DEF LossOf
    <3>4. task'[l].pc # "crashed" /\ restarts' + 0 = restarts'
      BY <1>1, <1>2, <2>1
    <3> QED
      BY <2>1, <3>1, <3>2, <3>3, <3>4, LossThen
<1> QED
  BY <1>6, <1>7

LEMMA LossPoison ==
  ASSUME TypeOK, NEW l \in Loops, TopicInv(l), LossOf(l), ReceivePoison(l)
  PROVE  LossOf(l)'
<1>1. PICK p \in {pos[l], pos[l] + 1} :
        committed'[l] = committed[l] \/ committed'[l] = {p}
  BY DEF ReceivePoison, TypeOK
<1>2. /\ task[l].pc = "idle" /\ task'[l].pc = "crashed"
      /\ log[l][pos[l] + 1].event = "poison"
      /\ UNCHANGED <<log, sent, origin, restarts>>
  BY LoopsAreTasks DEF ReceivePoison, TypeOK, At, hist
<1>3. /\ pos[l] \in Nat /\ restarts \in Nat /\ \A c \in committed[l] : c \in Nat
  BY LiveAssumption DEF TypeOK, LiveAssumption
<1>4. Cardinality(Missed(l, pos[l])) <= restarts /\ Cardinality(Missed(l, pos[l])) \in Nat
  BY <1>2, <1>3, MissedCount DEF LossOf
<1>5. Missed(l, pos[l] + 1) = Missed(l, pos[l])
  <2>1. log[l][pos[l] + 1].event \notin Fanned[l]
    BY <1>2 DEF Fanned, Loops
  <2> QED
    BY <1>3, <2>1 DEF Missed, TypeOK
<1>6. ASSUME NEW c \in committed'[l]
      PROVE  Cardinality(Missed(l, c)) <= restarts + 1
  <2>1. CASE c \in committed[l]
    BY <1>2, <1>3, <2>1, MissedCount DEF LossOf, InFlight
  <2>2. CASE c = p
    BY <1>1, <1>3, <1>4, <1>5, <2>2
  <2> QED
    BY <1>1, <1>6, <2>1, <2>2
<1>7. \A c, d \in committed'[l] : c = d
  BY <1>1 DEF LossOf
<1> QED
  BY <1>2, <1>6, <1>7 DEF LossOf, Missed, InFlight

LEMMA LossEmit ==
  ASSUME TypeOK, NEW l \in Loops, TopicInv(l), LossOf(l), Emit(l)
  PROVE  LossOf(l)'
<1>1. /\ task[l].pc = "emit" /\ task'[l].pc = "idle"
      /\ sent'[l] = sent[l] \cup {pos[l]}
      /\ UNCHANGED <<log, committed, pos, origin, restarts>>
  BY LoopsAreTasks DEF Emit, TypeOK, At
<1>2. /\ pos[l] \in Nat /\ restarts \in Nat /\ origin[l] \in Nat
      /\ \A c \in committed[l] : c \in Nat /\ c <= pos[l]
  BY <1>1, LiveAssumption DEF TypeOK, LiveAssumption, LossOf
<1>3. Cardinality(Missed(l, pos[l] - 1)) <= restarts
  BY <1>1 DEF LossOf, InFlight
<1>4. ASSUME NEW n \in Int, n <= pos[l]
      PROVE  Cardinality(MissedThen(l, n)) <= restarts
  <2>1. MissedThen(l, n) \in SUBSET Missed(l, pos[l] - 1)
    BY <1>1, <1>2, <1>4 DEF MissedThen, Missed
  <2>2. /\ IsFiniteSet(Missed(l, pos[l] - 1)) /\ Cardinality(Missed(l, pos[l] - 1)) \in Nat
    BY <1>2, MissedCount
  <2>3. /\ Cardinality(MissedThen(l, n)) <= Cardinality(Missed(l, pos[l] - 1))
        /\ Cardinality(MissedThen(l, n)) \in Nat
    BY <2>1, <2>2, FS_Subset, FS_CardinalityType
  <2> QED
    BY <1>2, <1>3, <2>2, <2>3
<1>5. /\ Cardinality(MissedThen(l, pos[l])) <= restarts
      /\ \A c \in committed[l] : Cardinality(MissedThen(l, c)) <= restarts
  BY <1>2, <1>4
<1>6. \A c, d \in committed'[l] : c = d
  BY <1>1 DEF LossOf
<1>7. task'[l].pc \notin InFlight \cup {"crashed"} /\ restarts' + 0 = restarts'
  BY <1>1, <1>2 DEF InFlight
<1> QED
  BY <1>1, <1>2, <1>5, <1>6, <1>7, LossThen

LEMMA LossSubscribe ==
  ASSUME TypeOK, NEW l \in Loops, TopicInv(l), LossOf(l), Subscribe(l)
  PROVE  LossOf(l)'
<1>1. PICK o \in IF committed[l] = {} THEN {Len(log[l])} ELSE committed[l] :
        /\ pos' = [pos EXCEPT ![l] = o]
        /\ origin' = IF committed[l] = {} THEN [origin EXCEPT ![l] = o] ELSE origin
  BY DEF Subscribe
<1>2. /\ task[l].pc = "starting" /\ task'[l].pc = "idle"
      /\ UNCHANGED <<log, committed, sent, restarts>> /\ pos'[l] = o
  BY <1>1, LoopsAreTasks DEF Subscribe, TypeOK, At
<1>3. /\ restarts \in Nat /\ o \in Nat /\ \A c \in committed[l] : c \in Nat
  BY <1>1, LiveAssumption DEF TypeOK, LiveAssumption
<1>4. \A c, d \in committed[l] : c = d
  BY DEF LossOf
<1>5. CASE committed[l] = {}
  <2>1. MissedThen(l, o) = {}
    BY <1>1, <1>3, <1>5 DEF MissedThen, TypeOK
  <2>2. Cardinality(MissedThen(l, pos'[l])) <= restarts' /\ committed'[l] = {}
    BY <1>2, <1>3, <1>5, <2>1, FS_EmptySet
  <2>3. task'[l].pc = "idle" /\ task'[l].pc \notin InFlight
    BY <1>2 DEF InFlight
  <2> QED
    BY <2>2, <2>3, LossThen
<1>6. CASE committed[l] # {}
  <2>1. o \in committed[l] /\ origin' = origin /\ \A c \in committed[l] : c <= o
    BY <1>1, <1>3, <1>4, <1>6
  <2>2. \A c \in committed[l] : Cardinality(Missed(l, c)) <= restarts
    BY <1>2, <1>3, MissedCount DEF LossOf, InFlight
  <2> QED
    BY <1>2, <1>4, <2>1, <2>2, <1>3 DEF LossOf, Missed, InFlight
<1> QED
  BY <1>5, <1>6

LEMMA LossRestart ==
  ASSUME TypeOK, NEW l \in Loops, LossOf(l), Restart
  PROVE  LossOf(l)'
<1>1. /\ task'[l].pc = "off" /\ restarts' = restarts + 1
      /\ UNCHANGED <<log, committed, sent, origin>>
  BY LoopsAreTasks DEF Restart, At, hist
<1>2. /\ restarts \in Nat /\ \A c \in committed[l] : c \in Nat
  BY LiveAssumption DEF TypeOK, LiveAssumption
<1>3. \A c \in committed[l] : Cardinality(Missed(l, c)) <= restarts + 1
  BY <1>2, MissedCount DEF LossOf
<1>4. \A c, d \in committed[l] : c = d
  BY DEF LossOf
<1>5. \A n : MissedThen(l, n) = Missed(l, n)
  BY <1>1 DEF Missed, MissedThen
<1>6. \A c \in committed'[l] : Cardinality(MissedThen(l, c)) <= restarts' + 0
  BY <1>1, <1>2, <1>3, <1>5
<1>7. \A c, d \in committed'[l] : c = d
  BY <1>1, <1>4
<1> QED
  BY <1>1, <1>6, <1>7, LossThen DEF InFlight

LEMMA NextLossInv ==
  TypeOK /\ TypeOK' /\ LockInv /\ (\A l \in Loops : TopicInv(l)) /\ LossInv /\ [Next]_vars =>
    LossInv'
<1> SUFFICES ASSUME TypeOK, TypeOK', LockInv, \A l \in Loops : TopicInv(l), LossInv,
                    [Next]_vars, NEW l \in Loops
             PROVE  LossOf(l)'
  BY DEF LossInv, OneLostPerStop, LossOf, InFlight
<1>1. LossOf(l) /\ TopicInv(l)
  BY LossOfAll
<1> QED
  BY <1>1, StepOfLoop, LossStays, LossSubscribe, LossReceive, LossPoison, LossEmit, LossRestart

-----------------------------------------------------------------------------
(* The theorems.                                                              *)

LEMMA InitIInv == Init => IInv
<1> SUFFICES ASSUME Init PROVE IInv
  OBVIOUS
<1>1. TypeOK
  BY InitTypeOK
<1>2. LockInv /\ WatchInv /\ OneZonePerSensor
  BY LoopsAreTasks DEF Init, LockInv, WatchInv, OneZonePerSensor, At, wd
<1>3. ASSUME NEW l \in Loops PROVE TopicInv(l)
  <2>1. /\ Len(log[l]) = 0 /\ pos[l] = 0 /\ first[l] = 0 /\ emitted[l] = {}
        /\ committed[l] = {} /\ task[l].pc = "off"
    BY LoopsAreTasks DEF Init, At
  <2>2. Due(l) = {}
    BY <2>1 DEF Due
  <2> QED
    BY <2>1, <2>2 DEF TopicInv, InFlight
<1>4. LossInv
  BY LoopsAreTasks DEF Init, LossInv, OneLostPerStop, At
<1> QED
  BY <1>1, <1>2, <1>3, <1>4, TopicsInv DEF IInv

LEMMA NextIInv == IInv /\ [Next]_vars => IInv'
<1> SUFFICES ASSUME IInv, [Next]_vars PROVE IInv'
  OBVIOUS
<1>1. TypeOK' /\ LockInv' /\ WatchInv' /\ OneZonePerSensor'
  BY NextTypeOK, NextLockInv, NextWatchInv, NextOneZone DEF IInv
<1>2. \A l \in Loops : TopicInv(l)'
  BY <1>1, NextTopicInv, TopicsInv DEF IInv
<1>3. OffsetInv' /\ FanoutExact'
  BY <1>2 DEF OffsetInv, FanoutExact, TopicInv, InFlight
<1>4. LossInv'
  BY <1>1, NextLossInv, TopicsInv DEF IInv
<1> QED
  BY <1>1, <1>3, <1>4 DEF IInv

\* The inductive invariant holds in every behaviour of the server.
THEOREM InvariantHolds == Spec => []IInv
  BY InitIInv, NextIInv, PTL DEF Spec

\* Every variable keeps its type.
THEOREM TypeCorrect == Spec => []TypeOK
<1>1. IInv => TypeOK
  BY DEF IInv
<1> QED
  BY <1>1, InvariantHolds, PTL

\* The watchdog never takes up a sensor that was not heard since its last
\* sensor:offline (live.py:238, "so we don't spam").
THEOREM NoSpam == Spec => []OneVerdictPerSilence
<1>1. IInv => OneVerdictPerSilence
  BY DEF IInv, WatchInv, OneVerdictPerSilence
<1> QED
  BY <1>1, InvariantHolds, PTL

\* Events of one sensor never leave with two zones (live.py:63-88).
THEOREM ZonesAgree == Spec => []OneZonePerSensor
<1>1. IInv => OneZonePerSensor
  BY DEF IInv
<1> QED
  BY <1>1, InvariantHolds, PTL

\* A cached zone is never overwritten before the process ends (live.py:64).
THEOREM CacheIsStable == Spec => CacheStable
<1>1. IInv /\ [Next]_vars =>
        [\A s \in Sensors : started' /\ cache[s] # NoZone => cache'[s] = cache[s]]_vars
  BY CacheStep DEF IInv
<1> QED
  BY <1>1, InvariantHolds, PTL DEF Spec, CacheStable

\* Every loop emits exactly the events of its topic, the last one excepted while
\* it is under way or when the loop died on it (live.py:115-202).
THEOREM FanoutIsExact == Spec => []FanoutExact
<1>1. IInv => FanoutExact
  BY DEF IInv
<1> QED
  BY <1>1, InvariantHolds, PTL

\* However often the process dies between a commit and an emission, each death costs at
\* most one event of a topic, once the group has a committed offset (live.py:95-108 and
\* the four consumer loops).
THEOREM LossesAreBounded == Spec => []OneLostPerStop
<1>1. IInv => OneLostPerStop
  BY DEF IInv, LossInv
<1> QED
  BY <1>1, InvariantHolds, PTL
=============================================================================
