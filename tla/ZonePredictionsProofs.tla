----------------------- MODULE ZonePredictionsProofs -----------------------
(***************************************************************************)
(* For any set of zones, any levels and thresholds, and any number of      *)
(* runs: what is announced is stored, a run predicts a zone once, and a    *)
(* run that succeeds has stored what it predicted. The database's rows,    *)
(* the events and the loop of the run are related by one invariant.        *)
(***************************************************************************)
EXTENDS ZonePredictions, FiniteSetTheorems, TLAPS

Sent == buffer \cup topics \cup refused
Body == {"write", "announce", "record", "status"}

\* The types the argument needs.
RunTypes ==
  /\ run \in Nat
  /\ errors \in Nat
  /\ \A r \in rows : r.run \in Nat /\ r.run <= run
  /\ \A e \in Sent : e.run \in Nat /\ e.run <= run

\* Where the loop is: a zone is served once, the body is about a served zone, and its
\* steps are those the options allow.
LoopInv ==
  /\ todo \cap served = {}
  /\ pc \in Body => cur \in served /\ WithKafka
  /\ pc \in {"write", "record", "status"} => WithDb
  /\ pc \in {"extract", "load"} => served = {}

\* The rows of this run are of zones served, and the zone about to be written has none.
RowsInv ==
  /\ \A r \in rows : r.run = run => r.zone \in served /\ ~(pc = "write" /\ r.zone = cur)
  /\ OnePerRun

\* The run has failed.
Failed == pc = "asleep" /\ outcome = "failed"

\* A zone served has its row, except while it is written, when it was deleted and when
\* the run failed; the zone of the body has the one of its prediction.
StoredInv ==
  WithDb /\ WithKafka =>
    /\ ~Failed => \A z \in served \ gone :
         (pc = "write" /\ z = cur) \/ \E r \in rows : r.zone = z /\ r.run = run
    /\ pc \in {"announce", "record", "status"} /\ cur \notin gone => Row(cur, peak) \in rows

\* A zone served is announced, except before its turn in the body and when the run
\* failed; a run that succeeded leaves nothing in the buffer.
SentInv ==
  WithKafka =>
    /\ ~Failed => \A z \in served :
         (pc \in {"write", "announce"} /\ z = cur)
         \/ \E e \in Sent : e.kind = "prediction:new" /\ e.zone = z /\ e.run = run
    /\ pc = "asleep" /\ outcome = "ok" => buffer = {}

\* An alert is severe, and recorded unless the body is about to do so, the run failed, an
\* error was swallowed or the zone was deleted.
AlertInv ==
  /\ \A e \in Sent : e.kind = "alert:new" => e.severity \in Severe
  /\ WithDb /\ errors = 0 /\ ~Failed =>
       \A e \in Sent :
         e.kind = "alert:new" /\ e.run = run /\ e.zone \notin gone =>
           \/ pc = "record" /\ e.zone = cur
           \/ \E a \in alerts : a.zone = e.zone /\ a.run = e.run

\* The severe predictions of a zone that are in the database.
SevereOf(z) == {r \in {q \in rows : q.zone = z} : r.severity \in Severe}

\* The row of a severe prediction of the zone is written, and the zone does not count it yet.
Counting(z) ==
  /\ pc \in {"announce", "record", "status"} /\ WithDb
  /\ cur = z /\ SeverityFromPeak(peak) \in Severe

\* A zone shows a level that one of its rows has, and counts fewer alerts than it has
\* severe rows while one of them is still to be counted.
BoardInv ==
  /\ IsFiniteSet(rows)
  /\ \A z \in Zones \ gone :
       /\ status[z] # None => \E r \in rows : r.zone = z /\ r.severity = status[z]
       /\ active[z] + (IF Counting(z) THEN 1 ELSE 0) <= Cardinality(SevereOf(z))

\* A zone counts at most one alert per run: none of this run before its turn is over. A
\* zone deleted and created again during its turn does so without a row.
TurnInv ==
  \A z \in Zones :
    active[z] + (IF pc # "asleep" /\ (z \in served => z = cur /\ pc \in Body) THEN 1 ELSE 0)
      <= run

PInv ==
  /\ RunTypes
  /\ LoopInv
  /\ RowsInv
  /\ StoredInv
  /\ SentInv
  /\ AlertInv
  /\ AnnouncedIsStored

-----------------------------------------------------------------------------
\* The invariant holds at first.
LEMMA InitHolds == Init => PInv
BY DEF Init, PInv, RunTypes, LoopInv, RowsInv, OnePerRun, StoredInv, SentInv, AlertInv,
           AnnouncedIsStored, Sent, Body, Failed

\* Every step preserves it.
LEMMA StepHolds == PInv /\ [Next]_vars => PInv'
<1> SUFFICES ASSUME PInv, [Next]_vars PROVE PInv'
  OBVIOUS
<1> USE DEF PInv, RunTypes, LoopInv, RowsInv, OnePerRun, StoredInv, SentInv, AlertInv,
           AnnouncedIsStored, Sent, Body, Failed
<1>1. CASE Start
  BY <1>1 DEF Start, worker, kafka, db, board, Row
<1>2. CASE Extract
  BY <1>2 DEF Extract, worker, kafka, db, board, Row
<1>3. CASE Load
  BY <1>3 DEF Load, worker, kafka, db, board, Row
<1>4. CASE Skip
  BY <1>4 DEF Skip, worker, kafka, db, board, Row
<1>5. CASE Predict
  BY <1>5 DEF Predict, worker, kafka, db, board, Row
<1>6. CASE WritePrediction
  BY <1>6 DEF WritePrediction, worker, kafka, db, board, Row
<1>7. CASE Announce
  <2> USE <1>7 DEF Announce, worker, kafka, db, board, Row, Event
  <2>1. RunTypes' /\ LoopInv' /\ RowsInv'
    OBVIOUS
  <2>2. StoredInv' /\ AnnouncedIsStored'
    OBVIOUS
  <2>3. SentInv'
    <3>1. \E e \in Sent' : e.kind = "prediction:new" /\ e.zone = cur /\ e.run = run'
      <4> DEFINE new == Event("prediction:new", cur, peak)
      <4>1. new \in Sent'
        OBVIOUS
      <4>2. new.kind = "prediction:new" /\ new.zone = cur /\ new.run = run'
        OBVIOUS
      <4> QED
        BY <4>1, <4>2
    <3>2. \A e \in Sent : e \in Sent'
      OBVIOUS
    <3>3. cur' = cur /\ run' = run /\ served' = served /\ ~Failed' /\ ~Failed
      OBVIOUS
    <3> HIDE <1>7 DEF Announce, Sent, Event
    <3>4. ~(pc' = "asleep" /\ outcome' = "ok")
      BY <1>7 DEF Announce
    <3> QED
      BY <3>1, <3>2, <3>3, <3>4
  <2>4. AlertInv'
    OBVIOUS
  <2> QED
    BY <2>1, <2>2, <2>3, <2>4
<1>8. CASE RecordAlert
  <2> USE <1>8 DEF RecordAlert, Swallow, worker, kafka, db, board, Row
  <2>1. RunTypes' /\ LoopInv' /\ RowsInv'
    OBVIOUS
  <2>2. StoredInv' /\ AnnouncedIsStored'
    OBVIOUS
  <2>3. SentInv'
    OBVIOUS
  <2>4. AlertInv'
    <3>1. Sent' = Sent /\ run' = run /\ gone' = gone /\ ~Failed
      OBVIOUS
    <3>2. SUFFICES ASSUME WithDb, errors' = 0,
                          NEW e \in Sent, e.kind = "alert:new", e.run = run, e.zone \notin gone
                   PROVE  \E a \in alerts' : a.zone = e.zone /\ a.run = e.run
      BY <3>1
    <3>3. errors = 0
      BY <3>2
    <3>4. CASE e.zone = cur
      <4>1. Row(cur, peak) \in rows
        BY <3>2, <3>4
      <4>2. [zone |-> e.zone, run |-> e.run, severity |-> e.severity] \in rows
        BY <3>2
      <4>3. SeverityFromPeak(peak) = e.severity
        <5>1. Row(cur, peak) = [zone |-> e.zone, run |-> e.run, severity |-> e.severity]
          BY <3>2, <3>4, <4>1, <4>2
        <5> QED
          BY <5>1
      <4>4. alerts' = alerts \cup {Row(cur, peak)}
        BY <3>2, <3>3, <4>1, <4>3
      <4> QED
        BY <3>2, <3>4, <4>4
    <3>5. CASE e.zone # cur
      BY <3>1, <3>2, <3>3, <3>5
    <3> QED
      BY <3>4, <3>5
  <2> QED
    BY <2>1, <2>2, <2>3, <2>4
<1>9. CASE UpdateStatus
  BY <1>9 DEF UpdateStatus, Swallow, worker, kafka, db, board, Row
<1>10. CASE EndLoop
  BY <1>10 DEF EndLoop, worker, kafka, db, board, Row
<1>11. CASE Finish
  BY <1>11 DEF Finish, worker, kafka, db, board, Row
<1>12. CASE Fail
  BY <1>12 DEF Fail, worker, kafka, db, board, Row
<1>13. CASE Deliver
  BY <1>13 DEF Deliver, worker, kafka, db, board, Row
<1>14. CASE Refuse
  BY <1>14 DEF Refuse, Swallow, worker, kafka, db, board, Row
<1>15. CASE CreateZone
  BY <1>15 DEF CreateZone, worker, kafka, db, board, Row
<1>16. CASE DeleteZone
  BY <1>16 DEF DeleteZone, Without, worker, kafka, db, board, Row
<1>17. CASE ResolveAlert
  BY <1>17 DEF ResolveAlert, worker, kafka, db, board, Row
<1>18. CASE UNCHANGED vars
  BY <1>18 DEF vars, worker, kafka, db, board, Row
<1> QED
  BY <1>1, <1>2, <1>3, <1>4, <1>5, <1>6, <1>7, <1>8, <1>9, <1>10, <1>11, <1>12, <1>13, <1>14, <1>15, <1>16, <1>17, <1>18 DEF Next

-----------------------------------------------------------------------------
(* Types, and what the zone table shows.                                      *)

LEMMA RunSeverity == ASSUME NEW p PROVE SeverityFromPeak(p) \in Severities
BY DEF SeverityFromPeak, Severity, Severities

\* The events of predict_xgb.py have their type.
LEMMA ScriptEventsType ==
  ASSUME NEW p, run \in 1..MaxRuns
  PROVE  ScriptEvents(p) \subseteq [kind : {"zone:risk:update", "prediction:new", "alert:new"},
                                    run : 1..MaxRuns, severity : Severities]
<1>1. Severity(p, ScriptWarning, ScriptCritical) \in Severities
  BY DEF Severity, Severities
<1> QED
  BY <1>1 DEF ScriptEvents

LEMMA InitTypes == Init => TypeOK /\ TurnInv /\ BoardInv
<1> SUFFICES ASSUME Init PROVE TypeOK /\ TurnInv /\ BoardInv
  OBVIOUS
<1>1. TypeOK
  <2>1. run \in 0..MaxRuns /\ errors \in 0..MaxErrors /\ active \in [Zones -> 0..MaxRuns]
    BY PredictionsAssumption DEF Init
  <2> QED
    BY <2>1 DEF Init, TypeOK
<1>2. TurnInv
  BY DEF Init, TurnInv
<1>3. BoardInv
  <2>1. \A z \in Zones : SevereOf(z) = {} /\ ~Counting(z)
    BY DEF Init, SevereOf, Counting
  <2> QED
    BY <2>1, FS_EmptySet DEF Init, BoardInv
<1> QED
  BY <1>1, <1>2, <1>3

\* The counts stay in their type because a zone counts once per run.
LEMMA StepTypes == TypeOK /\ TurnInv /\ LoopInv /\ [Next]_vars => TypeOK' /\ TurnInv'
<1> SUFFICES ASSUME TypeOK, TurnInv, LoopInv, [Next]_vars PROVE TypeOK' /\ TurnInv'
  OBVIOUS
<1> USE PredictionsAssumption DEF TypeOK, TurnInv, LoopInv, Body
<1>1. CASE Start
  <2> USE <1>1 DEF Start, worker, kafka, db, board
  <2>1. TypeOK'
    <3>1. run' \in 0..MaxRuns
      OBVIOUS
    <3> QED
      BY <3>1
  <2>2. ASSUME NEW z \in Zones
        PROVE  active'[z] <= run /\ active'[z] \in Int /\ run' = run + 1 /\ run \in Int
    OBVIOUS
  <2> QED
    BY <2>1, <2>2
<1>2. CASE Extract
  BY <1>2 DEF Extract, worker, kafka, db, board
<1>3. CASE Load
  BY <1>3 DEF Load, worker, kafka, db, board
<1>4. CASE Skip
  BY <1>4 DEF Skip, worker, kafka, db, board
<1>5. CASE Predict
  BY <1>5, ScriptEventsType DEF Predict, worker, kafka, db, board
<1>6. CASE WritePrediction
  BY <1>6, RunSeverity DEF WritePrediction, worker, kafka, db, board, Row, Rows
<1>7. CASE Announce
  BY <1>7, RunSeverity DEF Announce, worker, kafka, db, board, Event, Events
<1>8. CASE RecordAlert
  BY <1>8 DEF RecordAlert, Swallow, worker, kafka, db, board
<1>9. CASE UpdateStatus
  BY <1>9, RunSeverity DEF UpdateStatus, Swallow, worker, kafka, db, board
<1>10. CASE EndLoop
  BY <1>10 DEF EndLoop, worker, kafka, db, board
<1>11. CASE Finish
  BY <1>11 DEF Finish, worker, kafka, db, board
<1>12. CASE Fail
  BY <1>12 DEF Fail, worker, kafka, db, board
<1>13. CASE Deliver
  BY <1>13 DEF Deliver, worker, kafka, db, board
<1>14. CASE Refuse
  BY <1>14 DEF Refuse, Swallow, worker, kafka, db, board
<1>15. CASE CreateZone
  BY <1>15 DEF CreateZone, worker, kafka, db, board
<1>16. CASE DeleteZone
  BY <1>16 DEF DeleteZone, Without, worker, kafka, db, board
<1>17. CASE ResolveAlert
  BY <1>17 DEF ResolveAlert, LookupAlertZone, Tables, worker, kafka, db, board
<1>18. CASE UNCHANGED vars
  BY <1>18 DEF vars, worker, kafka, db, board
<1> QED
  BY <1>1, <1>2, <1>3, <1>4, <1>5, <1>6, <1>7, <1>8, <1>9, <1>10, <1>11, <1>12, <1>13, <1>14, <1>15, <1>16, <1>17, <1>18 DEF Next

\* What the zone table shows of one zone.
ShowsZone(z) ==
  /\ status[z] # None => \E r \in rows : r.zone = z /\ r.severity = status[z]
  /\ active[z] + (IF Counting(z) THEN 1 ELSE 0) <= Cardinality(SevereOf(z))

\* A step that keeps the zone's rows, shows the level it showed or that of a row, and
\* counts at most what was to be counted.
LEMMA ShowsStill ==
  ASSUME NEW z, ShowsZone(z), SevereOf(z)' = SevereOf(z),
         \A r \in rows : r.zone = z => r \in rows',
         \/ status'[z] \in {None, status[z]}
         \/ \E r \in rows' : r.zone = z /\ r.severity = status'[z],
         active'[z] + (IF Counting(z)' THEN 1 ELSE 0)
           <= active[z] + (IF Counting(z) THEN 1 ELSE 0),
         active[z] \in Nat, active'[z] \in Nat, Cardinality(SevereOf(z)) \in Nat
  PROVE  ShowsZone(z)'
BY DEF ShowsZone

\* The severe rows are finitely many.
LEMMA SevereCount ==
  ASSUME BoardInv, NEW z
  PROVE  IsFiniteSet(SevereOf(z)) /\ Cardinality(SevereOf(z)) \in Nat
<1>1. SevereOf(z) \subseteq rows
  BY DEF SevereOf
<1> QED
  BY <1>1, FS_Subset, FS_CardinalityType DEF BoardInv

LEMMA BoardWrite ==
  ASSUME TypeOK, LoopInv, RowsInv, BoardInv, WritePrediction, NEW z \in Zones \ gone
  PROVE  ShowsZone(z)'
<1>1. /\ pc = "write" /\ pc' = "announce" /\ rows' = rows \cup {Row(cur, peak)}
      /\ UNCHANGED <<status, active, cur, peak>>
  BY DEF WritePrediction, board
<1>2. Row(cur, peak) \notin rows
  BY <1>1 DEF RowsInv, Row
<1>3. ShowsZone(z) /\ ~Counting(z)
  BY <1>1 DEF BoardInv, ShowsZone, Counting
<1>4. active[z] \in Nat /\ active'[z] = active[z] /\ status'[z] = status[z]
  BY <1>1 DEF TypeOK
<1>5. status'[z] # None => \E r \in rows' : r.zone = z /\ r.severity = status'[z]
  BY <1>1, <1>3, <1>4 DEF ShowsZone
<1>6. CASE cur = z /\ SeverityFromPeak(peak) \in Severe
  <2>1. SevereOf(z)' = SevereOf(z) \cup {Row(cur, peak)} /\ Row(cur, peak) \notin SevereOf(z)
    BY <1>1, <1>2, <1>6 DEF SevereOf, Row
  <2>2. Cardinality(SevereOf(z)') = Cardinality(SevereOf(z)) + 1
    BY <2>1, SevereCount, FS_AddElement
  <2> QED
    BY <1>3, <1>4, <1>5, <2>2, SevereCount DEF ShowsZone
<1>7. CASE ~(cur = z /\ SeverityFromPeak(peak) \in Severe)
  <2>1. SevereOf(z)' = SevereOf(z)
    BY <1>1, <1>7 DEF SevereOf, Row
  <2>2. ~Counting(z)'
    BY <1>1, <1>7 DEF Counting, SeverityFromPeak, Severity, Severe
  <2> QED
    BY <1>3, <1>4, <1>5, <2>1, <2>2 DEF ShowsZone
<1> QED
  BY <1>6, <1>7

LEMMA BoardUpdate ==
  ASSUME TypeOK, LoopInv, StoredInv, BoardInv, UpdateStatus, NEW z \in Zones \ gone
  PROVE  ShowsZone(z)'
<1>1. /\ pc = "status" /\ pc' = "loop" /\ UNCHANGED <<rows, cur, peak, gone>>
      /\ cur \in served /\ WithKafka /\ WithDb
  BY DEF UpdateStatus, LoopInv, Body
<1>2. ShowsZone(z)
  BY DEF BoardInv, ShowsZone
<1>3. /\ SevereOf(z)' = SevereOf(z) /\ \A r \in rows : r \in rows'
      /\ ~Counting(z)'
  BY <1>1 DEF SevereOf, Counting
<1>4. active[z] \in Nat /\ Cardinality(SevereOf(z)) \in Nat
  BY SevereCount DEF TypeOK
<1>5. CASE cur # z
  <2>1. status'[z] = status[z] /\ active'[z] = active[z]
    BY <1>5 DEF UpdateStatus, TypeOK
  <2> QED
    BY <1>2, <1>3, <1>4, <2>1, ShowsStill
<1>6. CASE cur = z
  <2>1. Row(cur, peak) \in rows
    BY <1>1, <1>6 DEF StoredInv
  <2>2. Counting(z) <=> SeverityFromPeak(peak) \in Severe
    BY <1>1, <1>6 DEF Counting
  <2>3. /\ status'[z] \in {status[z], SeverityFromPeak(peak)}
        /\ active'[z] \in Nat
        /\ active'[z] <= active[z] + (IF Counting(z) THEN 1 ELSE 0)
    BY <1>4, <1>6, <2>2 DEF UpdateStatus, TypeOK
  <2>4. status'[z] = status[z] \/ \E r \in rows' : r.zone = z /\ r.severity = status'[z]
    BY <1>1, <1>6, <2>1, <2>3 DEF Row
  <2> QED
    BY <1>2, <1>3, <1>4, <2>3, <2>4, ShowsStill
<1> QED
  BY <1>5, <1>6

LEMMA BoardDelete ==
  ASSUME TypeOK, BoardInv, DeleteZone, NEW z \in Zones \ gone'
  PROVE  ShowsZone(z)'
<1>1. PICK d \in exists :
        /\ status' = [status EXCEPT ![d] = None]
        /\ active' = [active EXCEPT ![d] = 0]
        /\ rows' = Without(d, rows)
        /\ gone' = gone \cup {d}
        /\ UNCHANGED worker
  BY DEF DeleteZone
<1>2. z # d /\ z \in Zones \ gone
  BY <1>1
<1>3. status'[z] = status[z] /\ active'[z] = active[z] /\ active[z] \in Nat
  BY <1>1, <1>2 DEF TypeOK
<1>4. SevereOf(z)' = SevereOf(z) /\ \A r \in rows : r.zone = z => r \in rows'
  BY <1>1, <1>2 DEF SevereOf, Without
<1>5. Counting(z)' <=> Counting(z)
  BY <1>1 DEF worker, Counting, SeverityFromPeak
<1>6. ShowsZone(z) /\ Cardinality(SevereOf(z)) \in Nat
  BY <1>2, SevereCount DEF BoardInv, ShowsZone
<1> QED
  BY <1>3, <1>4, <1>5, <1>6, ShowsStill

\* The other steps leave the rows and what the zones show, and prepare no count.
LEMMA BoardRest ==
  ASSUME TypeOK, BoardInv, UNCHANGED <<rows, status, active, gone>>,
         \A y \in Zones : Counting(y)' => Counting(y)
  PROVE  BoardInv'
<1>1. ASSUME NEW z \in Zones \ gone PROVE ShowsZone(z)'
  <2>1. active[z] \in Nat /\ active'[z] = active[z] /\ status'[z] = status[z]
    BY DEF TypeOK
  <2>2. ShowsZone(z) /\ Cardinality(SevereOf(z)) \in Nat /\ SevereOf(z)' = SevereOf(z)
    BY SevereCount DEF BoardInv, ShowsZone, SevereOf
  <2> QED
    BY <2>1, <2>2 DEF ShowsZone
<1> QED
  BY <1>1 DEF BoardInv, ShowsZone

LEMMA StepBoard ==
  TypeOK /\ LoopInv /\ RowsInv /\ StoredInv /\ BoardInv /\ [Next]_vars => BoardInv'
<1> SUFFICES ASSUME TypeOK, LoopInv, RowsInv, StoredInv, BoardInv, [Next]_vars
             PROVE  BoardInv'
  OBVIOUS
<1>1. CASE WritePrediction
  <2>1. IsFiniteSet(rows') /\ gone' = gone
    BY <1>1, FS_AddElement DEF WritePrediction, BoardInv
  <2> QED
    BY <1>1, <2>1, BoardWrite DEF BoardInv, ShowsZone
<1>2. CASE UpdateStatus
  <2>1. rows' = rows /\ gone' = gone
    BY <1>2 DEF UpdateStatus
  <2> QED
    BY <1>2, <2>1, BoardUpdate DEF BoardInv, ShowsZone
<1>3. CASE DeleteZone
  <2>1. rows' \subseteq rows
    BY <1>3 DEF DeleteZone, Without
  <2>2. IsFiniteSet(rows')
    BY <2>1, FS_Subset DEF BoardInv
  <2> QED
    BY <1>3, <2>2, BoardDelete DEF BoardInv, ShowsZone
<1>4. ASSUME UNCHANGED <<rows, status, active, gone, cur, peak>>,
             pc' \in {"announce", "record", "status"} =>
               pc \in {"announce", "record", "status"}
      PROVE  BoardInv'
  <2>1. \A y \in Zones : Counting(y)' => Counting(y)
    BY <1>4 DEF Counting, SeverityFromPeak
  <2> QED
    BY <1>4, <2>1, BoardRest
<1>5. CASE Predict
  <2>1. UNCHANGED <<rows, status, active, gone>>
    BY <1>5 DEF Predict, db, board
  <2>2. \A y \in Zones : ~Counting(y)'
    BY <1>5 DEF Predict, Counting
  <2> QED
    BY <2>1, <2>2, BoardRest
<1>6. CASE Announce
  BY <1>4, <1>6 DEF Announce, db, board
<1>7. CASE RecordAlert
  BY <1>4, <1>7 DEF RecordAlert, board
<1>8. CASE Start \/ Extract \/ Load \/ Skip \/ EndLoop \/ Finish \/ Fail
  BY <1>4, <1>8 DEF Start, Extract, Load, Skip, EndLoop, Finish, Fail, db, board
<1>9. CASE Deliver \/ Refuse \/ CreateZone \/ UNCHANGED vars
  BY <1>4, <1>9 DEF Deliver, Refuse, CreateZone, vars, worker, db, board
<1>10. CASE ResolveAlert
  <2>1. \A a : LookupAlertZone(a) \notin exists
    BY PredictionsAssumption DEF LookupAlertZone, Tables, TypeOK
  <2>2. active' = active
    BY <1>10, <2>1 DEF ResolveAlert
  <2> QED
    BY <1>4, <1>10, <2>2 DEF ResolveAlert, worker
<1> QED
  BY <1>1, <1>2, <1>3, <1>5, <1>6, <1>7, <1>8, <1>9, <1>10 DEF Next

-----------------------------------------------------------------------------
\* The loop, the rows, the alerts and the events of a run agree at every moment.
THEOREM PredictionsInvariant == Spec => []PInv
<1>1. Init => PInv
  BY InitHolds
<1>2. PInv /\ [Next]_vars => PInv'
  BY StepHolds
<1> QED
  BY <1>1, <1>2, PTL DEF Spec

\* What the topics say of a zone's prediction is in the database, whoever deletes or
\* creates zones meanwhile and wherever runs fail.
THEOREM AnnouncementsAreStored == Spec => []AnnouncedIsStored
<1>1. PInv => AnnouncedIsStored
  BY DEF PInv
<1> QED
  BY <1>1, PredictionsInvariant, PTL

\* No run predicts a zone twice.
THEOREM ZonesOncePerRun == Spec => []OnePerRun
<1>1. PInv => OnePerRun
  BY DEF PInv, RowsInv
<1> QED
  BY <1>1, PredictionsInvariant, PTL

\* A run that succeeds, with a producer, has sent the predictions it made and stored them,
\* but for zones that were deleted.
THEOREM SuccessMeansComplete == Spec => []SuccessIsComplete
<1>1. PInv => SuccessIsComplete
  BY DEF PInv, SentInv, StoredInv, SuccessIsComplete, Failed, Sent
<1> QED
  BY <1>1, PredictionsInvariant, PTL

\* Unless an error is swallowed, a run that succeeds has recorded the alerts it sent.
THEOREM AlertsWereRecorded == Spec => []AlertsRecorded
<1>1. PInv => AlertsRecorded
  BY DEF PInv, AlertInv, AlertsRecorded, Failed, Sent
<1> QED
  BY <1>1, PredictionsInvariant, PTL

\* The run, the events and the rows keep the relations above, and the zone table follows
\* the rows.
LEMMA ZonesInvariant == Spec => [](PInv /\ TypeOK /\ TurnInv /\ BoardInv)
<1>1. Init => PInv /\ TypeOK /\ TurnInv /\ BoardInv
  BY InitHolds, InitTypes
<1>2. PInv /\ TypeOK /\ TurnInv /\ BoardInv /\ [Next]_vars =>
        PInv' /\ TypeOK' /\ TurnInv' /\ BoardInv'
  BY StepHolds, StepTypes, StepBoard DEF PInv
<1> QED
  BY <1>1, <1>2, PTL DEF Spec

\* Every variable keeps its type: a zone never counts more alerts than there were runs.
THEOREM TypeCorrect == Spec => []TypeOK
BY ZonesInvariant, PTL

\* The zone table shows no level that was not predicted for the zone, and counts no alert
\* twice, wherever runs fail, writes are dropped and zones are created and deleted
\* between the three transactions of a prediction.
THEOREM BoardIsPredicted == Spec => []BoardWasPredicted
<1>1. TypeOK /\ BoardInv => BoardWasPredicted
  <2> SUFFICES ASSUME TypeOK, BoardInv, NEW z \in Zones \ gone
               PROVE  /\ status[z] # None =>
                           \E r \in {q \in rows : q.zone = z} : r.severity = status[z]
                      /\ active[z] <= Cardinality(SevereOf(z))
    BY DEF BoardWasPredicted, SevereOf
  <2>1. active[z] \in Nat /\ Cardinality(SevereOf(z)) \in Nat
    BY SevereCount DEF TypeOK
  <2> QED
    BY <2>1 DEF BoardInv
<1> QED
  BY <1>1, ZonesInvariant, PTL
=============================================================================
