------------------------- MODULE SensorBridgeProofs -------------------------
(* Proofs about SensorBridge, for every topic, every number of crashes and of retries. *)
EXTENDS SensorBridge, SequenceTheorems, TLAPS

USE BridgeAssumption DEF BridgeAssumption

\* What the detector remembers of a record that is judged is still a history.
LEMMA HistoryStep ==
  ASSUME Detector!TypeOK, NEW s \in Sensors, NEW x \in Readings \cup {NaN},
         Detector!Judge(s, x)
  PROVE  Detector!TypeOK'
<1> DEFINE h == history[s]
           g == Append(h, x)
<1>1. h \in Seq(Detector!Value) /\ Len(h) <= HistorySize /\ Len(h) \in Nat
  BY LenProperties DEF Detector!TypeOK
<1>2. g \in Seq(Detector!Value) /\ Len(g) = Len(h) + 1
  BY <1>1, AppendProperties DEF Detector!Value
<1>3. Detector!Keep(h, x) \in Seq(Detector!Value) /\ Len(Detector!Keep(h, x)) <= HistorySize
  <2>1. CASE Len(g) > HistorySize
    <3>1. g # << >>
      BY <1>2, <2>1, EmptySeq
    <3>2. Tail(g) \in Seq(Detector!Value) /\ Len(Tail(g)) = Len(g) - 1
      BY <1>2, <3>1, HeadTailProperties
    <3> QED BY <1>1, <1>2, <2>1, <3>2 DEF Detector!Keep
  <2>2. CASE ~(Len(g) > HistorySize)
    BY <1>1, <1>2, <2>2 DEF Detector!Keep
  <2> QED BY <2>1, <2>2
<1>4. /\ Detector!After(h, x) \in Seq(Detector!Value)
      /\ Len(Detector!After(h, x)) <= HistorySize
  BY <1>1, <1>3 DEF Detector!After
<1> QED BY <1>4 DEF Detector!Judge, Detector!TypeOK

\* The record in hand is a record of the log.
LEMMA InHand ==
  ASSUME TypeOK, PlaceInv, pc \in Running \ {"poll"}
  PROVE  next \in Offsets /\ log[next] \in Record
<1>1. cur \in Nat /\ cur < pos /\ pos <= Len(log) /\ Len(log) <= MaxLog /\ Len(log) \in Nat
      /\ pos \in Nat
  BY LenProperties DEF TypeOK, PlaceInv
<1>2. next \in 1..Len(log) /\ next \in 1..MaxLog
  BY <1>1 DEF next
<1> QED BY <1>2, ElementOfSeq DEF TypeOK, Offsets

\* A record that is produced is appended, and the topic stays within its bound.
LEMMA Grows ==
  ASSUME log \in Seq(Record), Produce
  PROVE  /\ log' \in Seq(Record) /\ Len(log') = Len(log) + 1 /\ Len(log) \in Nat
         /\ Len(log') <= MaxLog
<1>1. PICK f \in Feeds : Len(log) < Len(f) /\ log' = Append(log, f[Len(log) + 1])
  BY DEF Produce
<1> DEFINE r == f[Len(log) + 1]
<1>2. Len(log) \in Nat /\ Len(f) \in Nat /\ Len(f) <= MaxLog /\ f \in Seq(Record)
  BY <1>1, LenProperties
<1>3. r \in Record
  BY <1>1, <1>2, ElementOfSeq
<1>4. log' \in Seq(Record) /\ Len(log') = Len(log) + 1
  BY <1>1, <1>3, AppendProperties
<1> QED BY <1>1, <1>2, <1>4

\* A process that has ended keeps nothing, and one that failed has exited or connects.
LEMMA Dead ==
  ASSUME NEW how, Die(how)
  PROVE  pc' = how /\ retries' = 0 /\ outbox' = {} /\ Detector!TypeOK'
<1>1. << >> \in Seq(Detector!Value) /\ Len(<< >>) = 0
  BY EmptySeq
<1> QED BY <1>1 DEF Die, Detector!Forget, Detector!TypeOK

LEMMA Failed ==
  ASSUME TypeOK, Fail, committed' \in {committed, pos}
  PROVE  /\ pc' \in {"exited", "connect"} /\ retries' \in 0..MaxRetries
         /\ outbox' \subseteq outbox /\ Detector!TypeOK'
         /\ pos' = committed' /\ cur' = committed' /\ committed' \in 0..MaxLog
<1>1. CASE Die("exited")
  BY <1>1, Dead DEF Fail, Abandon, TypeOK
<1>2. CASE ~Die("exited")
  BY <1>2 DEF Fail, Abandon, TypeOK, Detector!TypeOK
<1> QED BY <1>1, <1>2

LEMMA TypeStep == IInv /\ [Next]_vars => TypeOK'
<1> SUFFICES ASSUME IInv, [Next]_vars PROVE TypeOK'
  OBVIOUS
<1> USE DEF IInv
<1>1. ASSUME Produce PROVE TypeOK'
  <2>1. log' \in Seq(Record) /\ Len(log') <= MaxLog
    BY <1>1, Grows DEF TypeOK
  <2> QED BY <1>1, <2>1 DEF Produce, TypeOK, stores, events, ghosts, Detector!TypeOK
<1>2. ASSUME NEW e \in outbox, Deliver(e) \/ Drop(e) PROVE TypeOK'
  BY <1>2 DEF Deliver, Drop, TypeOK, stores, events, ghosts, Detector!TypeOK
<1>3. ASSUME Crash PROVE TypeOK'
  BY <1>3, Dead DEF Crash, Abandon, TypeOK, Alive, stores, ghosts
<1>4. ASSUME Reboot \/ Boot PROVE TypeOK'
  BY <1>4 DEF Reboot, Boot, TypeOK, Alive, stores, events, ghosts, Detector!TypeOK
<1>5. ASSUME BootFails PROVE TypeOK'
  BY <1>5, Dead DEF BootFails, TypeOK, Alive, stores, ghosts
<1>6. ASSUME Connect \/ ConnectFails PROVE TypeOK'
  <2>1. CASE Connect
    BY <2>1 DEF Connect, TypeOK, Alive, Running, stores, events, ghosts, Detector!TypeOK
  <2>2. CASE ConnectFails
    BY <2>2, Failed DEF ConnectFails, TypeOK, Alive, stores, ghosts
  <2> QED BY <1>6, <2>1, <2>2
<1>7. ASSUME Poll PROVE TypeOK'
  <2>1. pos' \in 0..MaxLog
    BY <1>7, LenProperties DEF Poll, TypeOK
  <2> QED BY <1>7, <2>1 DEF Poll, TypeOK, Alive, Running, stores, events, ghosts, Detector!TypeOK
<1>8. ASSUME PollFails PROVE TypeOK'
  BY <1>8, Failed DEF PollFails, TypeOK, Alive, stores, ghosts
<1>9. ASSUME Process PROVE TypeOK'
  <2>1. next \in Offsets /\ log[next] \in Record
    BY <1>9, InHand DEF Process, Judge, Alert, Save, Write, WriteFails, Publish, Running
  <2>2. ASSUME Finish
        PROVE  cur' \in 0..MaxLog /\ pc' \in Running /\ ended' \subseteq Offsets
    BY <2>1, <2>2 DEF Finish, Offsets, Running, TypeOK
  <2>3. \A n \in 0..2 : More(n) \in 0..2
    BY DEF More
  <2>4. ASSUME Judge PROVE TypeOK'
    <3>1. tries' \in [Offsets -> 0..2]
      BY <2>1, <2>3, <2>4 DEF Judge, TypeOK
    <3>2. Detector!TypeOK'
      <4>1. CASE Detector!Judge(log[next].sensor, log[next].level)
        BY <2>1, <4>1, HistoryStep DEF Record, TypeOK
      <4>2. CASE UNCHANGED history
        BY <4>2 DEF TypeOK, Detector!TypeOK
      <4> QED BY <2>4, <4>1, <4>2 DEF Judge
    <3>3. pc' \in Running /\ cur' \in 0..MaxLog /\ ended' \subseteq Offsets
      BY <2>2, <2>4 DEF Judge, Running, TypeOK
    <3> QED BY <2>4, <3>1, <3>2, <3>3 DEF Judge, TypeOK, Alive, stores, events
  <2>5. ASSUME Alert PROVE TypeOK'
    BY <2>1, <2>5 DEF Alert, TypeOK, Alive, Running, Events, stores, ghosts, Detector!TypeOK
  <2>6. ASSUME Save PROVE TypeOK'
    <3>1. rows' \in [Offsets -> 0..2]
      BY <2>1, <2>3, <2>6 DEF Save, TypeOK
    <3> QED BY <2>2, <2>6, <3>1 DEF Save, TypeOK, Alive, events, Detector!TypeOK
  <2>7. ASSUME Write PROVE TypeOK'
    BY <2>1, <2>7 DEF Write, TypeOK, Alive, Running, events, ghosts, Detector!TypeOK
  <2>8. ASSUME WriteFails PROVE TypeOK'
    BY <2>1, <2>2, <2>8 DEF WriteFails, TypeOK, Alive, events, Detector!TypeOK
  <2>9. ASSUME Publish PROVE TypeOK'
    BY <2>1, <2>2, <2>9 DEF Publish, TypeOK, Alive, Events, stores, Detector!TypeOK
  <2> QED BY <1>9, <2>4, <2>5, <2>6, <2>7, <2>8, <2>9 DEF Process
<1>10. CASE UNCHANGED vars
  BY <1>10 DEF vars, TypeOK, stores, events, ghosts, Detector!TypeOK
<1> QED BY <1>1, <1>2, <1>3, <1>4, <1>5, <1>6, <1>7, <1>8, <1>9, <1>10 DEF Next

\* A step of process_message is about the record after cur, and Finish hands that
\* record over as handled.
LEMMA PlaceFinish ==
  ASSUME TypeOK, PlaceInv, pc \in Running \ {"poll"}, Finish,
         UNCHANGED <<log, committed, pos, retries>>
  PROVE  PlaceInv'
<1>1. /\ cur \in Nat /\ pos \in Nat /\ committed \in Nat
      /\ committed <= cur /\ cur < pos /\ 1..cur \subseteq ended
  BY DEF TypeOK, PlaceInv, Running
<1>2. 1..cur' \subseteq ended'
  BY <1>1 DEF Finish, next
<1>3. 1..committed' \subseteq ended'
  BY <1>1, <1>2 DEF Finish, next
<1> QED BY <1>1, <1>2, <1>3 DEF Finish, next, PlaceInv, NothingSkipped, Running

LEMMA PlaceStep == IInv /\ [Next]_vars => PlaceInv'
<1> SUFFICES ASSUME IInv, [Next]_vars PROVE PlaceInv'
  OBVIOUS
<1> USE DEF IInv
<1>1. ASSUME Produce PROVE PlaceInv'
  <2>1. Len(log) \in Nat /\ Len(log') = Len(log) + 1
    BY <1>1, Grows DEF TypeOK
  <2> QED BY <1>1, <2>1 DEF Produce, TypeOK, PlaceInv, NothingSkipped, ghosts
<1>2. ASSUME NEW e \in outbox, Deliver(e) \/ Drop(e) PROVE PlaceInv'
  BY <1>2 DEF Deliver, Drop, PlaceInv, NothingSkipped, ghosts
<1>3. ASSUME Crash \/ Reboot \/ Boot \/ BootFails PROVE PlaceInv'
  BY <1>3, LenProperties DEF Crash, Abandon, Die, Reboot, Boot, BootFails, TypeOK, PlaceInv,
                             NothingSkipped, Running, ghosts
<1>4. ASSUME Connect PROVE PlaceInv'
  BY <1>4, LenProperties DEF Connect, TypeOK, PlaceInv, NothingSkipped, Running, ghosts
<1>5. ASSUME ConnectFails PROVE PlaceInv'
  BY <1>5, Failed, LenProperties DEF ConnectFails, TypeOK, PlaceInv, NothingSkipped,
                                     Running, ghosts
<1>6. ASSUME Poll PROVE PlaceInv'
  <2>1. pos' \in Nat /\ pos <= pos' /\ pos' <= Len(log) /\ pos \in Nat /\ committed \in Nat
    BY <1>6, LenProperties DEF Poll, TypeOK
  <2> QED BY <1>6, <2>1 DEF Poll, TypeOK, PlaceInv, NothingSkipped, Running, ghosts
<1>7. ASSUME PollFails PROVE PlaceInv'
  <2>1. 1..committed' \subseteq ended /\ committed' <= Len(log)
    BY <1>7, LenProperties DEF PollFails, TypeOK, PlaceInv, NothingSkipped, Running
  <2> QED BY <1>7, <2>1, Failed, LenProperties DEF PollFails, TypeOK, PlaceInv, NothingSkipped,
                                                  Running, ghosts
<1>8. ASSUME Process PROVE PlaceInv'
  <2>1. CASE Finish
    <3>1. UNCHANGED <<log, committed, pos, retries>> /\ pc \in Running \ {"poll"}
      BY <1>8 DEF Process, Judge, Alert, Save, Write, WriteFails, Publish, Running
    <3> QED BY <2>1, <3>1, PlaceFinish
  <2>2. CASE ~Finish
    <3>1. /\ UNCHANGED <<log, committed, pos, cur, retries, ended>>
          /\ pc \in Running \ {"poll"} /\ pc' \in Running \ {"poll"}
      BY <1>8, <2>2 DEF Process, Judge, Alert, Save, Write, WriteFails, Publish, Running,
                        ghosts
    <3> QED BY <3>1 DEF PlaceInv, NothingSkipped, Running
  <2> QED BY <2>1, <2>2
<1>9. CASE UNCHANGED vars
  BY <1>9 DEF vars, PlaceInv, NothingSkipped, ghosts
<1> QED BY <1>1, <1>2, <1>3, <1>4, <1>5, <1>6, <1>7, <1>8, <1>9 DEF Next

\* What the stores and the broker hold, and how far the record in hand has got.
Fates == HandInv /\ LiveIsStored /\ OneFate

LEMMA FatesStep == IInv /\ [Next]_vars => Fates'
<1> SUFFICES ASSUME IInv, [Next]_vars PROVE Fates'
  OBVIOUS
<1> USE DEF IInv
<1> DEFINE Same == UNCHANGED <<tries, rows, influx>>
<1>1. ASSUME Same, UNCHANGED <<outbox, delivered>>,
             \/ UNCHANGED <<pc, cur>>
             \/ pc' \notin {"alert", "save", "write", "publish"}
      PROVE  Fates'
  BY <1>1 DEF Fates, HandInv, LiveIsStored, OneFate, Reported, next
<1>2. ASSUME NEW e \in outbox, Deliver(e) \/ Drop(e) PROVE Fates'
  <2>1. Same /\ UNCHANGED <<pc, cur>>
    BY <1>2 DEF Deliver, Drop, stores, ghosts
  <2>2. outbox' \cup delivered' \subseteq outbox \cup delivered
    BY <1>2 DEF Deliver, Drop
  <2>3. \A o \in Offsets : Reported(o)' => Reported(o)
    BY <2>1, <2>2 DEF Reported
  <2>4. next' = next /\ (pc \in Running \ {"poll"} => next \in Offsets)
    BY <2>1, InHand DEF next
  <2> QED BY <2>1, <2>2, <2>3, <2>4 DEF Fates, HandInv, LiveIsStored, OneFate, Running
<1>3. ASSUME Crash \/ BootFails \/ ConnectFails \/ PollFails PROVE Fates'
  <2>1. /\ Same /\ UNCHANGED delivered /\ outbox' \subseteq outbox
        /\ pc' \notin {"alert", "save", "write", "publish"}
    BY <1>3, Dead, Failed DEF Crash, BootFails, ConnectFails, PollFails, stores, ghosts
  <2>2. \A o \in Offsets : Reported(o)' => Reported(o)
    BY <2>1 DEF Reported
  <2> QED BY <2>1, <2>2 DEF Fates, HandInv, LiveIsStored, OneFate
<1>4. ASSUME \/ Produce \/ Boot \/ Reboot \/ Connect \/ Poll \/ UNCHANGED vars
      PROVE  Fates'
  <2>1. Same /\ UNCHANGED <<outbox, delivered>>
    BY <1>4 DEF Produce, Boot, Reboot, Connect, Poll, vars, stores, events, ghosts
  <2>2. UNCHANGED <<pc, cur>> \/ pc' \notin {"alert", "save", "write", "publish"}
    BY <1>4 DEF Produce, Boot, Reboot, Connect, Poll, vars
  <2> QED BY <1>1, <2>1, <2>2
<1>5. ASSUME Process PROVE Fates'
  <2>1. next \in Offsets /\ log[next] \in Record
    BY <1>5, InHand DEF Process, Judge, Alert, Save, Write, WriteFails, Publish, Running
  <2>2. tries \in [Offsets -> 0..2] /\ rows \in [Offsets -> 0..2]
    BY DEF TypeOK
  <2>3. Finish => pc' \notin {"alert", "save", "write", "publish"}
    BY DEF Finish
  <2>4. CASE Judge
    <3>1. /\ tries' = [tries EXCEPT ![next] = More(@)]
          /\ UNCHANGED <<rows, influx, outbox, delivered>>
          /\ \/ pc' \notin {"alert", "save", "write", "publish"}
             \/ pc' \in {"alert", "write"} /\ UNCHANGED cur
      BY <2>3, <2>4 DEF Judge, stores, events
    <3>2. \A o \in Offsets : tries[o] <= tries'[o]
      BY <2>2, <3>1 DEF More
    <3>3. tries'[next] > 0 /\ (tries'[next] < 2 => tries[next] = 0)
      BY <2>1, <2>2, <3>1 DEF More
    <3>4. tries' \in [Offsets -> 0..2]
      BY <2>1, <2>2, <3>1 DEF More
    <3>5. UNCHANGED cur => next' = next
      BY DEF next
    <3>6. tries[next] = 0 => ~Reported(next) /\ next \notin influx /\ rows[next] = 0
      BY <2>1, <2>2 DEF HandInv, Reported
    <3>7. HandInv'
      BY <2>1, <2>2, <3>1, <3>2, <3>3, <3>4, <3>5, <3>6 DEF HandInv, Reported
    <3>8. LiveIsStored' /\ OneFate'
      BY <2>2, <3>1, <3>2, <3>4 DEF LiveIsStored, OneFate, Reported
    <3> QED BY <3>7, <3>8 DEF Fates
  <2>5. CASE Alert
    <3>1. /\ UNCHANGED <<tries, rows, influx, delivered, cur>> /\ pc = "alert" /\ pc' = "save"
          /\ outbox' \in {outbox, outbox \cup {<<"system.diagnostics", next>>}}
      BY <2>5 DEF Alert, stores, ghosts
    <3>2. \A o \in Offsets : o # next => (Reported(o)' <=> Reported(o))
      BY <3>1 DEF Reported
    <3>3. next' = next
      BY <3>1 DEF next
    <3>4. tries[next] > 0 /\ (tries[next] < 2 => next \notin influx /\ rows[next] = 0)
      BY <3>1 DEF HandInv
    <3>5. HandInv'
      BY <2>1, <2>2, <3>1, <3>2, <3>3, <3>4 DEF HandInv
    <3>6. LiveIsStored'
      BY <3>1 DEF LiveIsStored
    <3>7. OneFate'
      BY <2>1, <2>2, <3>1, <3>2, <3>4 DEF OneFate
    <3> QED BY <3>5, <3>6, <3>7 DEF Fates
  <2>6. CASE Save
    <3>1. /\ UNCHANGED <<tries, influx, outbox, delivered>> /\ pc = "save"
          /\ pc' \notin {"alert", "save", "write", "publish"}
          /\ rows' \in {rows, [rows EXCEPT ![next] = More(@)]}
      BY <2>3, <2>6 DEF Save, events
    <3>2. \A o \in Offsets : o # next => (Reported(o)' <=> Reported(o)) /\ rows'[o] = rows[o]
      BY <2>2, <3>1 DEF Reported
    <3>3. tries[next] > 0 /\ (tries[next] < 2 => next \notin influx /\ rows'[next] <= 1)
      BY <2>1, <2>2, <3>1 DEF HandInv, More
    <3>4. HandInv'
      BY <2>1, <2>2, <3>1, <3>2, <3>3 DEF HandInv
    <3>5. LiveIsStored' /\ OneFate'
      BY <2>1, <3>1, <3>2, <3>3 DEF LiveIsStored, OneFate
    <3> QED BY <3>4, <3>5 DEF Fates
  <2>7. CASE Write \/ WriteFails
    <3>1. /\ UNCHANGED <<tries, rows, outbox, delivered>> /\ pc = "write"
          /\ influx' \in {influx, influx \cup {next}}
          /\ \/ pc' \notin {"alert", "save", "write", "publish"}
             \/ pc' = "publish" /\ UNCHANGED cur /\ next \in influx'
      BY <2>3, <2>7 DEF Write, WriteFails, events, ghosts
    <3>2. \A o \in Offsets : Reported(o)' <=> Reported(o)
      BY <3>1 DEF Reported
    <3>3. tries[next] > 0 /\ (tries[next] < 2 => ~Reported(next))
      BY <3>1 DEF HandInv
    <3>4. UNCHANGED cur => next' = next
      BY DEF next
    <3>5. HandInv'
      BY <2>1, <2>2, <3>1, <3>2, <3>3, <3>4 DEF HandInv
    <3>6. LiveIsStored' /\ OneFate'
      BY <2>1, <2>2, <3>1, <3>2, <3>3 DEF LiveIsStored, OneFate
    <3> QED BY <3>5, <3>6 DEF Fates
  <2>8. CASE Publish
    <3>1. /\ UNCHANGED <<tries, rows, influx, delivered>> /\ pc = "publish"
          /\ outbox' \in {outbox, outbox \cup {<<"telemetry.live", next>>}}
          /\ pc' \notin {"alert", "save", "write", "publish"}
      BY <2>3, <2>8 DEF Publish, stores
    <3>2. \A o \in Offsets : Reported(o)' <=> Reported(o)
      BY <3>1 DEF Reported
    <3>3. next \in influx
      BY <3>1 DEF HandInv
    <3> QED BY <3>1, <3>2, <3>3 DEF Fates, HandInv, LiveIsStored, OneFate
  <2> QED BY <1>5, <2>4, <2>5, <2>6, <2>7, <2>8 DEF Process
<1> QED BY <1>2, <1>3, <1>4, <1>5 DEF Next

\* The invariant holds in every reachable state, for every sequence of crashes,
\* failed polls and redeliveries.
THEOREM BridgeInvariant == Spec => []IInv
<1>1. Init => IInv
  <2> SUFFICES ASSUME Init PROVE IInv
    OBVIOUS
  <2>1. << >> \in Seq(Record) /\ << >> \in Seq(Detector!Value) /\ Len(<< >>) = 0
    BY EmptySeq
  <2>2. Detector!TypeOK
    BY <2>1 DEF Init, Detector!Init, Detector!TypeOK
  <2>3. TypeOK
    <3>1. log \in Seq(Record) /\ Len(log) <= MaxLog
      BY <2>1 DEF Init
    <3>2. rows \in [Offsets -> 0..2] /\ tries \in [Offsets -> 0..2]
      BY DEF Init
    <3>3. 0 \in 0..MaxLog /\ 0 \in 0..MaxRetries
      OBVIOUS
    <3> QED BY <2>2, <3>1, <3>2, <3>3 DEF Init, TypeOK, Alive
  <2>4. PlaceInv
    BY <2>1 DEF Init, PlaceInv, NothingSkipped, Running
  <2>5. Fates
    BY DEF Init, Fates, HandInv, LiveIsStored, OneFate, Reported
  <2> QED BY <2>3, <2>4, <2>5 DEF IInv, Fates
<1>2. IInv /\ [Next]_vars => IInv'
  BY TypeStep, PlaceStep, FatesStep DEF IInv, Fates
<1> QED BY <1>1, <1>2, PTL DEF Spec

\* At-least-once delivery: offsets are committed only for handled records
\* (consumer.poll and the loop around process_message).
THEOREM NoRecordIsSkipped == Spec => []NothingSkipped
<1>1. IInv => NothingSkipped
  BY DEF IInv, PlaceInv
<1> QED BY <1>1, BridgeInvariant, PTL

\* sensor:update is sent only after the InfluxDB write of its reading.
THEOREM LiveReadingsAreStored == Spec => []LiveIsStored
<1>1. IInv => LiveIsStored
  BY DEF IInv
<1> QED BY <1>1, BridgeInvariant, PTL

\* process_message stores a reading or reports it, never both, in one delivery.
THEOREM FatesExclude == Spec => []OneFate
<1>1. IInv => OneFate
  BY DEF IInv
<1> QED BY <1>1, BridgeInvariant, PTL

\* Whatever the service does to a record in hand is open to the ledger, and everything else
\* moves the offset over settled records or loses events that were still buffered.
LEMMA LedgerStep == IInv /\ [Next]_vars => [Ledger!Next]_(Ledger!vars)
<1> SUFFICES ASSUME IInv, [Next]_vars PROVE Ledger!Next \/ UNCHANGED Ledger!vars
  OBVIOUS
<1> USE DEF IInv
<1>1. Len(log) \in Nat /\ committed \in Nat /\ pos \in Nat /\ committed <= pos
      /\ pos <= Len(log) /\ 1..committed \subseteq ended
  BY LenProperties DEF TypeOK, PlaceInv, NothingSkipped
<1>2. UNCHANGED rows => Recorded' = Recorded
  BY DEF Recorded
<1>3. ASSUME Produce PROVE Ledger!Next
  <2>1. Len(log') = Len(log) + 1
    BY <1>3, Grows DEF TypeOK
  <2> QED BY <1>2, <1>3, <2>1 DEF Produce, stores, events, ghosts, Ledger!Next, Ledger!Send
<1>4. ASSUME NEW e \in outbox, Deliver(e) PROVE Ledger!Next
  BY <1>2, <1>4 DEF Deliver, stores, ghosts, Ledger!Next, Ledger!Publish
<1>5. ASSUME \/ \E e \in outbox : Drop(e)
             \/ Crash \/ BootFails \/ ConnectFails \/ Poll \/ PollFails
      PROVE  Ledger!Next
  <2>1. /\ UNCHANGED <<log, influx, rows, delivered, ended>> /\ outbox' \subseteq outbox
    BY <1>5, Dead, Failed DEF Drop, Crash, BootFails, ConnectFails, Poll, PollFails, stores,
                              events, ghosts
  <2>2. committed' \in {committed, pos} /\ (committed' # committed => pc = "poll")
    BY <1>5 DEF Drop, Crash, BootFails, ConnectFails, Poll, PollFails
  <2>3. pc = "poll" => 1..pos \subseteq ended
    BY DEF PlaceInv, Running
  <2>4. committed' \in committed..Len(log) /\ 1..committed' \subseteq ended'
    BY <1>1, <2>1, <2>2, <2>3
  <2> QED BY <1>2, <2>1, <2>4 DEF Ledger!Next, Ledger!CommitOrLose
<1>6. ASSUME Process, ~UNCHANGED Ledger!vars PROVE Ledger!Next
  <2>1. next \in 1..Len(log) /\ Ledger!Open(next)
    <3>1. pc \in Running \ {"poll"}
      BY <1>6 DEF Process, Judge, Alert, Save, Write, WriteFails, Publish, Running
    <3>2. cur \in Nat /\ committed <= cur /\ cur < pos /\ 1..cur \subseteq ended
      BY <3>1 DEF TypeOK, PlaceInv, Running
    <3> QED BY <1>1, <3>2 DEF next, Ledger!Open
  <2>2. /\ UNCHANGED <<log, committed, delivered>>
        /\ ended' \in {ended, ended \cup {next}}
    BY <1>6 DEF Process, Judge, Alert, Save, Write, WriteFails, Publish, Finish, events,
                ghosts
  <2>3. SUFFICES \/ Ledger!Settle(next) \/ Ledger!Store(next) \/ Ledger!Record(next)
                 \/ \E topic \in {"telemetry.live", "system.diagnostics"} :
                      Ledger!Announce(next, topic)
    BY <2>1, <2>2 DEF Ledger!Next, Ledger!Work
  <2>4. CASE Judge
    <3>1. UNCHANGED <<influx, rows, outbox>>
      BY <2>4 DEF Judge, stores, events
    <3>2. ended' # ended
      BY <1>2, <1>6, <2>2, <3>1 DEF Ledger!vars
    <3> QED BY <1>2, <2>2, <3>1, <3>2 DEF Ledger!Settle
  <2>5. CASE Alert
    <3>1. UNCHANGED <<influx, rows, ended>>
      BY <2>5 DEF Alert, stores, ghosts
    <3>2. outbox' = outbox \cup {<<"system.diagnostics", next>>}
      BY <1>2, <1>6, <2>2, <2>5, <3>1 DEF Alert, Ledger!vars
    <3>3. Ledger!Announce(next, "system.diagnostics")
      BY <1>2, <3>1, <3>2 DEF Ledger!Announce, Ledger!MaySettle
    <3> QED BY <3>3
  <2>6. CASE Save
    <3>1. UNCHANGED <<influx, outbox>> /\ ended' = ended \cup {next}
      BY <2>6 DEF Save, Finish, events
    <3>2. Recorded' \in {Recorded, Recorded \cup {next}}
      <4>1. next \in Offsets /\ rows \in [Offsets -> 0..2]
        BY <1>1, <2>1, InHand, <2>6 DEF Save, Running, TypeOK
      <4>2. CASE rows' = [rows EXCEPT ![next] = More(@)]
        <5>1. \A o \in Offsets : rows'[o] = IF o = next THEN More(rows[o]) ELSE rows[o]
          BY <4>1, <4>2
        <5>2. More(rows[next]) > 0
          BY <4>1 DEF More
        <5> QED BY <4>1, <5>1, <5>2 DEF Recorded
      <4> QED BY <1>2, <2>6, <4>2 DEF Save
    <3> QED BY <3>1, <3>2 DEF Ledger!Settle, Ledger!Record, Ledger!MaySettle
  <2>7. CASE Write
    BY <1>2, <2>7 DEF Write, events, ghosts, Ledger!Store, Ledger!MaySettle
  <2>8. CASE WriteFails
    BY <1>2, <2>8 DEF WriteFails, Finish, events, Ledger!Store, Ledger!Settle,
                      Ledger!MaySettle
  <2>9. CASE Publish
    <3>1. UNCHANGED <<influx, rows>> /\ ended' = ended \cup {next} /\ next \in influx
          /\ outbox' \in {outbox, outbox \cup {<<"telemetry.live", next>>}}
      BY <2>9 DEF Publish, Finish, stores, HandInv
    <3>2. CASE UNCHANGED outbox
      BY <1>2, <3>1, <3>2 DEF Ledger!Settle
    <3>3. CASE outbox' = outbox \cup {<<"telemetry.live", next>>}
      <4>1. Ledger!Announce(next, "telemetry.live")
        BY <1>2, <3>1, <3>3 DEF Ledger!Announce, Ledger!MaySettle
      <4> QED BY <4>1
    <3> QED BY <3>1, <3>2, <3>3
  <2> QED BY <1>6, <2>4, <2>5, <2>6, <2>7, <2>8, <2>9 DEF Process
<1>7. CASE Boot \/ Reboot \/ Connect \/ UNCHANGED vars
  BY <1>2, <1>7 DEF Boot, Reboot, Connect, vars, stores, events, ghosts, Ledger!vars
<1> QED BY <1>3, <1>4, <1>5, <1>6, <1>7 DEF Next

\* The service implements the ledger.
THEOREM LedgerImplemented == Spec => LedgerKept
<1>1. Init => Ledger!Init
  <2>1. Len(<< >>) = 0
    OBVIOUS
  <2> QED BY <2>1 DEF Init, Ledger!Init, Recorded
<1>2. IInv /\ [Next]_vars => [Ledger!Next]_(Ledger!vars)
  BY LedgerStep
<1> QED BY <1>1, <1>2, BridgeInvariant, PTL DEF Spec, LedgerKept, Ledger!Spec

-----------------------------------------------------------------------------
(* What the ledger alone promises. *)

LedgerInv ==
  /\ committed \in Nat
  /\ NothingSkipped
  /\ \A o : <<"telemetry.live", o>> \in outbox \cup delivered => o \in influx

\* The ledger is abstract enough to be read at a glance and still says what matters: no
\* behaviour of it skips a record or shows one that is not stored. What the service does
\* besides cannot take that back, because it implements the ledger.
THEOREM LedgerSuffices == Ledger!Spec => [](NothingSkipped /\ LiveIsStored)
<1>1. Ledger!Init => LedgerInv
  BY DEF Ledger!Init, LedgerInv, NothingSkipped
<1>2. LedgerInv /\ [Ledger!Next]_(Ledger!vars) => LedgerInv'
  <2> SUFFICES ASSUME LedgerInv, Ledger!Next \/ UNCHANGED Ledger!vars PROVE LedgerInv'
    OBVIOUS
  <2> USE DEF LedgerInv, NothingSkipped
  <2>1. CASE Ledger!Send
    BY <2>1 DEF Ledger!Send
  <2>2. ASSUME NEW o \in 1..Len(log), Ledger!Work(o) PROVE LedgerInv'
    <3>1. committed' = committed /\ delivered' = delivered /\ ended \subseteq ended'
          /\ influx \subseteq influx'
      BY <2>2 DEF Ledger!Work, Ledger!Settle, Ledger!Store, Ledger!Record, Ledger!Announce,
                  Ledger!MaySettle
    <3>2. ASSUME NEW p, <<"telemetry.live", p>> \in outbox' \ outbox PROVE p \in influx
      BY <2>2, <3>2 DEF Ledger!Work, Ledger!Settle, Ledger!Store, Ledger!Record,
                        Ledger!Announce
    <3> QED BY <3>1, <3>2
  <2>3. ASSUME NEW e \in outbox, Ledger!Publish(e) PROVE LedgerInv'
    BY <2>3 DEF Ledger!Publish
  <2>4. CASE Ledger!CommitOrLose
    BY <2>4 DEF Ledger!CommitOrLose
  <2>5. CASE UNCHANGED Ledger!vars
    BY <2>5 DEF Ledger!vars
  <2> QED BY <2>1, <2>2, <2>3, <2>4, <2>5 DEF Ledger!Next
<1>3. LedgerInv => NothingSkipped /\ LiveIsStored
  BY DEF LedgerInv, LiveIsStored
<1> QED BY <1>1, <1>2, <1>3, PTL DEF Ledger!Spec

\* Nothing is taken back: what InfluxDB has, what has a row, what the broker has and which
\* records are done with only grows, and the offset only moves forward.
Growing ==
  /\ influx \subseteq influx' /\ Recorded \subseteq Recorded'
  /\ delivered \subseteq delivered' /\ ended \subseteq ended'
  /\ committed <= committed'

\* Crashes, retries and redeliveries take nothing back (process_message, main).
THEOREM NothingIsTakenBack == Spec => [][Growing]_vars
<1>1. IInv /\ [Next]_vars => [Ledger!Next]_(Ledger!vars)
  BY LedgerStep
<1>2. committed \in Nat /\ [Ledger!Next]_(Ledger!vars) => Growing
  <2> SUFFICES ASSUME committed \in Nat, Ledger!Next \/ UNCHANGED Ledger!vars PROVE Growing
    OBVIOUS
  <2> USE DEF Growing
  <2>1. CASE Ledger!Send
    BY <2>1 DEF Ledger!Send
  <2>2. ASSUME NEW o \in 1..Len(log), Ledger!Work(o) PROVE Growing
    BY <2>2 DEF Ledger!Work, Ledger!Settle, Ledger!Store, Ledger!Record, Ledger!Announce,
                Ledger!MaySettle
  <2>3. ASSUME NEW e \in outbox, Ledger!Publish(e) PROVE Growing
    BY <2>3 DEF Ledger!Publish
  <2>4. CASE Ledger!CommitOrLose
    BY <2>4 DEF Ledger!CommitOrLose
  <2>5. CASE UNCHANGED Ledger!vars
    BY <2>5 DEF Ledger!vars
  <2> QED BY <2>1, <2>2, <2>3, <2>4, <2>5 DEF Ledger!Next
<1>3. IInv => committed \in Nat
  BY DEF IInv, TypeOK
<1>4. IInv /\ [Next]_vars => [Growing]_vars
  BY <1>1, <1>2, <1>3
<1> QED BY <1>4, BridgeInvariant, PTL DEF Spec
=============================================================================
