---------------------------- MODULE SensorBridge ----------------------------
(***************************************************************************)
(* kafka-influx-service: one process takes raw readings from a Kafka topic,*)
(* passes them through the anomaly detector, stores the clean ones in      *)
(* InfluxDB and announces them on telemetry.live, and reports the others   *)
(* on system.diagnostics and in the anomalies table.                       *)
(*                                                                         *)
(* An action is one call that leaves the process or one decision, so that  *)
(* a crash can fall between any two of them. Offsets are committed by the  *)
(* consumer library inside poll(), and only there.                         *)
(***************************************************************************)
EXTENDS Integers, Sequences, SequencesExt

CONSTANTS
  Sensors,      \* sensor ids
  Readings,     \* the water levels sensors report
  NaN,          \* the float that compares false with everything
  HistorySize,  \* history_size of the detector
  ZThreshold,   \* its z_threshold
  Warmup,       \* readings it accepts unseen
  Known,        \* sensors that have a row in sensor_nodes
  Feeds,        \* the sequences of records devices may send
  MaxRetries,   \* max_retries
  MaxLog        \* bound: records on the topic, the length of the longest feed

\* A record as mqtt-kafka-service sends it: every field is there and is a number,
\* but a timestamp that was a string is passed through and may not parse. Whoever else
\* writes to the topic may send what json.loads does not decode.
Record == [sensor : Sensors, level : Readings \cup {NaN}, dated : BOOLEAN, decodes : BOOLEAN]

ASSUME BridgeAssumption ==
  /\ Readings \subseteq Int
  /\ NaN \notin Int
  /\ HistorySize \in 1..10
  /\ Warmup \in 1..HistorySize
  /\ Known \subseteq Sensors
  /\ Feeds \subseteq Seq(Record)
  /\ MaxRetries \in Nat
  /\ MaxLog \in Nat
  /\ \A f \in Feeds : Len(f) <= MaxLog

VARIABLES
  log,        \* the raw topic
  committed,  \* the group's committed offset
  pos,        \* the consumer's position: records up to it have been fetched
  cur,        \* the last record of the batch that is done with
  pc,         \* what the process is about to do
  retries,    \* retry_count
  history,    \* the detector's recent readings
  influx,     \* offsets stored in InfluxDB: a point is keyed by sensor and time
  rows,       \* rows[o]: anomalies rows of record o, counted up to two
  outbox,     \* <<topic, offset>>: events in the buffers of the Kafka producers
  delivered,  \* events the broker has
  ended,      \* history: records process_message has returned from
  tries       \* history: tries[o]: how often record o was begun, up to two

stores == <<influx, rows>>
events == <<outbox, delivered>>
ghosts == <<ended, tries>>
vars == <<log, committed, pos, cur, pc, retries, history, stores, events, ghosts>>

Detector == INSTANCE AnomalyDetector

Offsets == 1..MaxLog
Events == {"telemetry.live", "system.diagnostics"} \X Offsets
Running == {"poll", "judge", "alert", "save", "write", "publish"}
Alive == Running \cup {"boot", "connect"}

Init ==
  /\ log = << >>
  /\ committed = 0
  /\ pos = 0
  /\ cur = 0
  /\ pc = "boot"
  /\ retries = 0
  /\ Detector!Init
  /\ influx = {}
  /\ rows = [o \in Offsets |-> 0]
  /\ outbox = {}
  /\ delivered = {}
  /\ ended = {}
  /\ tries = [o \in Offsets |-> 0]

More(n) == IF n < 2 THEN n + 1 ELSE n

-----------------------------------------------------------------------------
(* Devices, the brokers and the process.                                   *)

Produce ==
  /\ \E f \in Feeds :
       /\ Len(log) < Len(f) /\ IsPrefix(log, f)
       /\ log' = Append(log, f[Len(log) + 1])
  /\ UNCHANGED <<committed, pos, cur, pc, retries, history, stores, events, ghosts>>

\* The sender thread of a producer delivers an event.
Deliver(e) ==
  /\ pc \in Alive
  /\ e \in outbox
  /\ outbox' = outbox \ {e}
  /\ delivered' = delivered \cup {e}
  /\ UNCHANGED <<log, committed, pos, cur, pc, retries, history, stores, ghosts>>

\* The broker does not take it; nobody looks at the future send() returned.
Drop(e) ==
  /\ pc \in Alive
  /\ e \in outbox
  /\ outbox' = outbox \ {e}
  /\ UNCHANGED <<log, committed, pos, cur, pc, retries, history, stores, delivered,
                 ghosts>>

\* The consumer and its batch are gone; the next one starts from what is committed.
Abandon ==
  /\ pos' = committed'
  /\ cur' = committed'

\* The process is killed, or exits by itself. What was in memory is gone: the detector's
\* histories, the retry counter and the events not yet sent.
Die(how) ==
  /\ pc' = how
  /\ retries' = 0
  /\ outbox' = {}
  /\ Detector!Forget

Crash ==
  /\ pc \in Alive
  /\ UNCHANGED committed
  /\ Abandon
  /\ Die("killed")
  /\ UNCHANGED <<log, stores, delivered, ghosts>>

\* The container starts again.
Reboot ==
  /\ pc \in {"killed", "exited"}
  /\ pc' = "boot"
  /\ UNCHANGED <<log, committed, pos, cur, retries, history, stores, events, ghosts>>

\* Kafka and InfluxDB answer and the clients are created.
Boot ==
  /\ pc = "boot"
  /\ pc' = "connect"
  /\ UNCHANGED <<log, committed, pos, cur, retries, history, stores, events, ghosts>>

\* One of them does not for thirty attempts, or a client is refused: exit code 1.
BootFails ==
  /\ pc = "boot"
  /\ Die("exited")
  /\ UNCHANGED <<log, committed, pos, cur, stores, delivered, ghosts>>

-----------------------------------------------------------------------------
(* The consumer.                                                           *)

\* An exception reaches the outer loop: wait and connect again, or exit.
Fail ==
  /\ Abandon
  /\ \/ /\ retries < MaxRetries
        /\ retries' = retries + 1
        /\ pc' = "connect"
        /\ UNCHANGED <<history, outbox>>
     \/ /\ retries >= MaxRetries
        /\ Die("exited")

\* Mutant: the consumer has no group and starts from the earliest record.
ConnectFromEarliest ==
  /\ pc = "connect"
  /\ pos' = committed
  /\ cur' = 0
  /\ retries' = 0
  /\ pc' = IF committed = 0 THEN "poll" ELSE "judge"
  /\ UNCHANGED <<log, committed, history, stores, events, ghosts>>

\* A new consumer starts from the committed offset, or from the earliest record.
Connect ==
  /\ pc = "connect"
  /\ pos' = committed
  /\ cur' = committed
  /\ retries' = 0
  /\ pc' = "poll"
  /\ UNCHANGED <<log, committed, history, stores, events, ghosts>>

ConnectFails ==
  /\ pc = "connect"
  /\ UNCHANGED committed
  /\ Fail
  /\ UNCHANGED <<log, stores, delivered, ghosts>>

\* Mutant: the position is committed after the fetch.
PollCommitsAhead ==
  /\ pc = "poll"
  /\ pos' \in pos..Len(log)
  /\ committed' \in {committed, pos'}
  /\ pc' = IF pos' = pos THEN "poll" ELSE "judge"
  /\ UNCHANGED <<log, cur, retries, history, stores, events, ghosts>>

\* poll(): the position reached so far is committed when the commit interval has
\* passed and the commit succeeds; then a batch is fetched and decoded, or none arrives.
Poll ==
  /\ pc = "poll"
  /\ committed' \in {committed, pos}
  /\ pos' \in pos..Len(log)
  /\ \A o \in (pos + 1)..pos' : log[o].decodes
  /\ pc' = IF pos' = pos THEN "poll" ELSE "judge"
  /\ UNCHANGED <<log, cur, retries, history, stores, events, ghosts>>

\* poll() raises, before or after it has committed: the connection is lost, or a record
\* that was fetched does not decode. The consumer is given up.
PollFails ==
  /\ pc = "poll"
  /\ committed' \in {committed, pos}
  /\ Fail
  /\ UNCHANGED <<log, stores, delivered, ghosts>>

-----------------------------------------------------------------------------
(* process_message, for the record after cur.                              *)

next == cur + 1

\* process_message returns, or the loop logs what it raised: on to the next record.
Finish ==
  /\ ended' = ended \cup {next}
  /\ cur' = next
  /\ pc' = IF next = pos THEN "poll" ELSE "judge"

\* numeric(5,4) holds scores below ten; those of a flat history are far above. The
\* reading was not remembered, so h is still what it was judged by.
ScoreFits(h, x) ==
  LET n == Len(h)
      S == Detector!SumOf(h)
      Square(i) == i * i
  IN  n * Square(n * x - S) < 100 * Detector!SumOf([i \in 1..n |-> Square(n * h[i] - S)])

\* Mutant: the error of an unreadable timestamp is not caught with the message.
JudgeRaises ==
  LET r == log[next] h == history[r.sensor] IN
  /\ pc = "judge"
  /\ tries' = [tries EXCEPT ![next] = More(@)]
  /\ IF ~r.dated
     THEN UNCHANGED <<committed, ended>> /\ Fail
     ELSE /\ Detector!Judge(r.sensor, r.level)
          /\ pc' = IF Detector!Flagged(h, r.level) THEN "alert" ELSE "write"
          /\ UNCHANGED <<committed, pos, cur, ended, retries, outbox>>
  /\ UNCHANGED <<log, stores, delivered>>

\* The timestamp is read (or the record ends here), and the detector asked.
Judge ==
  LET r == log[next] h == history[r.sensor] IN
  /\ pc = "judge"
  /\ tries' = [tries EXCEPT ![next] = More(@)]
  /\ \/ /\ ~r.dated
        /\ Finish
        /\ UNCHANGED history
     \/ /\ r.dated
        /\ Detector!Judge(r.sensor, r.level)
        /\ \/ Detector!Flagged(h, r.level) /\ pc' = "alert"
           \/ ~Detector!Flagged(h, r.level) /\ pc' = "write"
        /\ UNCHANGED <<cur, ended>>
  /\ UNCHANGED <<log, committed, pos, retries, stores, events>>

\* anomaly:new goes to the producer; if send() raises, that is only logged.
Alert ==
  /\ pc = "alert"
  /\ outbox' \in {outbox, outbox \cup {<<"system.diagnostics", next>>}}
  /\ pc' = "save"
  /\ UNCHANGED <<log, committed, pos, cur, retries, history, stores, delivered, ghosts>>

\* Mutant: the anomaly is saved and then handled like a clean reading.
SaveFallsThrough ==
  /\ pc = "save"
  /\ pc' = "write"
  /\ rows' = [rows EXCEPT ![next] = More(@)]
  /\ UNCHANGED <<log, committed, pos, cur, retries, history, influx, events, ghosts>>

\* save_anomaly_to_db: a row with an id of its own, unless the sensor is unknown,
\* the score overflows its column, or the database fails; none of it is reported.
Save ==
  /\ pc = "save"
  /\ \/ /\ log[next].sensor \in Known
        /\ ScoreFits(history[log[next].sensor], log[next].level)
        /\ rows' = [rows EXCEPT ![next] = More(@)]
     \/ UNCHANGED rows
  /\ Finish
  /\ UNCHANGED <<log, committed, pos, retries, history, influx, events, tries>>

\* The two points are written.
Write ==
  /\ pc = "write"
  /\ influx' = influx \cup {next}
  /\ pc' = "publish"
  /\ UNCHANGED <<log, committed, pos, cur, retries, history, rows, events, ghosts>>

\* Mutant: the error is counted and the message handled further.
WriteFailsSilently ==
  /\ pc = "write"
  /\ pc' = "publish"
  /\ UNCHANGED <<log, committed, pos, cur, retries, history, stores, events, ghosts>>

\* The write raises (InfluxDB may have stored the points all the same), and the
\* message is given up: it is logged and not tried again.
WriteFails ==
  /\ pc = "write"
  /\ influx' \in {influx, influx \cup {next}}
  /\ Finish
  /\ UNCHANGED <<log, committed, pos, retries, history, rows, events, tries>>

\* sensor:update goes to the producer; if send() raises, that is only logged.
Publish ==
  /\ pc = "publish"
  /\ outbox' \in {outbox, outbox \cup {<<"telemetry.live", next>>}}
  /\ Finish
  /\ UNCHANGED <<log, committed, pos, retries, history, stores, delivered, tries>>

-----------------------------------------------------------------------------
Process == Judge \/ Alert \/ Save \/ Write \/ WriteFails \/ Publish

Next ==
  \/ Produce
  \/ \E e \in outbox : Deliver(e) \/ Drop(e)
  \/ Crash \/ Reboot \/ Boot \/ BootFails
  \/ Connect \/ ConnectFails
  \/ Poll \/ PollFails
  \/ Process

Spec == Init /\ [][Next]_vars

\* The process runs and is restarted by its container (restart: unless-stopped);
\* Kafka and InfluxDB may fail again and again, and the process exit each time, but not
\* forever: if starts, connections and polls are tried without end, some succeed, some
\* polls fetch and some commit. A fetch with a record that does not decode never does.
Decodable == \A o \in DOMAIN log : log[o].decodes

FairSpec ==
  /\ Spec
  /\ WF_vars(Process)
  /\ WF_vars(Reboot)
  /\ SF_vars(Boot)
  /\ SF_vars(Connect)
  /\ SF_vars(Poll /\ pos' > pos /\ Decodable)
  /\ SF_vars(Poll /\ committed' > committed)

-----------------------------------------------------------------------------
(* Properties. *)

\* Every variable keeps its type: the retry counter stops at its limit, and the detector's
\* window is never longer than its size.
TypeOK ==
  /\ log \in Seq(Record) /\ Len(log) <= MaxLog
  /\ committed \in 0..MaxLog /\ pos \in 0..MaxLog /\ cur \in 0..MaxLog
  /\ pc \in Alive \cup {"killed", "exited"}
  /\ retries \in 0..MaxRetries
  /\ Detector!TypeOK
  /\ influx \subseteq Offsets
  /\ rows \in [Offsets -> 0..2]
  /\ outbox \subseteq Events
  /\ delivered \subseteq Events
  /\ ended \subseteq Offsets
  /\ tries \in [Offsets -> 0..2]

\* No record is skipped, whatever crashes and reconnections happen: the group never
\* commits past a record that process_message has not returned from.
NothingSkipped == 1..committed \subseteq ended

\* What browsers are shown as telemetry is also in the history they can ask for: a
\* sensor:update event exists only for a reading that InfluxDB has.
LiveIsStored ==
  \A o \in Offsets : <<"telemetry.live", o>> \in outbox \cup delivered => o \in influx

Reported(o) == rows[o] > 0 \/ <<"system.diagnostics", o>> \in outbox \cup delivered

\* A record that was handled once had one fate: stored, or reported as an anomaly
\* with at most one row. Both together, or two rows, take a second delivery.
OneFate ==
  \A o \in Offsets :
    tries[o] < 2 => rows[o] <= 1 /\ ~(Reported(o) /\ o \in influx)

\* Unless it is killed from outside for ever, every record is dealt with in the end, however
\* often the process gives up and exits by itself: a bad record, a failing database, a lost
\* connection or an exit holds up the ones behind it only for a while. (The topic is
\* finite, so it is caught up with again and again.) A record that does not decode does
\* hold them up for ever: every fetch raises, and no offset passes it.
EveryRecordEnds ==
  <>[][~Crash]_vars => []<>(Decodable => 1..Len(log) \subseteq ended)

Recorded == {o \in Offsets : rows[o] > 0}

Ledger == INSTANCE ReadingLedger WITH
  sent <- Len(log), settled <- ended, stored <- influx, recorded <- Recorded,
  queued <- outbox, public <- delivered

\* The service implements the ledger: records are worked on in order and never again
\* once they are committed, what is stored, recorded or public stays so, and a crash
\* loses nothing but events that were still in the buffers of the producers.
LedgerKept == Ledger!Spec

\* The process is between the committed offset and its position, and everything up
\* to where it stands has been handled.
PlaceInv ==
  /\ committed <= pos /\ pos <= Len(log)
  /\ NothingSkipped
  /\ pc \in Running => committed <= cur /\ cur <= pos /\ 1..cur \subseteq ended
  /\ pc = "poll" => cur = pos
  /\ pc \in Running \ {"poll"} => cur < pos

\* What the stores hold of the record in hand agrees with how far it has got.
HandInv ==
  /\ pc \in {"alert", "save", "write", "publish"} => tries[next] > 0
  /\ pc = "publish" => next \in influx
  /\ pc \in {"write", "publish"} /\ tries[next] < 2 => ~Reported(next)
  /\ pc \in {"alert", "save"} /\ tries[next] < 2 => next \notin influx /\ rows[next] = 0
  /\ \A o \in Offsets : tries[o] = 0 => ~Reported(o) /\ o \notin influx

\* The inductive invariant. PlaceInv is why nothing is skipped; HandInv carries from
\* one store to the next what OneFate and LiveIsStored say of both.
IInv == TypeOK /\ PlaceInv /\ HandInv /\ LiveIsStored /\ OneFate
=============================================================================
