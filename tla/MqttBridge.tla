----------------------------- MODULE MqttBridge -----------------------------
(***************************************************************************)
(* mqtt-kafka-service: the MQTT callback normalises what a device sends    *)
(* and hands it to a Kafka producer, whose sender thread delivers it in    *)
(* the background with up to `retries` repetitions. A message stands for   *)
(* a producer batch: batches are reordered and repeated as a whole.        *)
(*                                                                         *)
(* A timestamp is known by the number of decimal digits of its integer     *)
(* part: a wall clock of our time has 10 digits in seconds, 13 in ms, 16   *)
(* in microseconds and 19 in nanoseconds, an uptime has at most 12.        *)
(***************************************************************************)
EXTENDS Integers, Sequences, FiniteSets, SequencesExt

CONSTANTS
  Raws,         \* what devices publish
  Retries,      \* retries of the producer
  MaxInFlight,  \* max_in_flight_requests_per_connection
  MaxMsgs,      \* bound: messages published
  MaxDrops,     \* bound: losses of the MQTT connection
  MaxFaults     \* bound: deliveries that go wrong

None == <<"none">>
Text == <<"text">>
Num(d) == <<"num", d>>
Stamps == {None, Text} \cup {Num(d) : d \in 1..20}

\* A payload: undecodable, not an object with a device_id, with a field float()
\* refuses, without one of the measured fields, or complete.
Raw == [kind : {"not_json", "no_id", "bad_field", "partial", "complete"},
        timestamp : Stamps, timestamp_ms : Stamps]

ASSUME MqttAssumption ==
  /\ Raws \subseteq Raw
  /\ Retries \in Nat
  /\ MaxInFlight \in Nat \ {0}
  /\ MaxMsgs \in Nat
  /\ MaxDrops \in Nat
  /\ MaxFaults \in Nat

VARIABLES
  pc,          \* main: "boot", "running", "stopping", "done", "down"
  connected,   \* self.connected
  subscribed,  \* the broker knows of the subscription of this session
  published,   \* history: what devices have published, in order
  accepted,    \* history: messages handed to the producer
  queue,       \* the producer's batches to send: [id, attempts]
  inflight,    \* its requests on the connection, oldest first
  topic,       \* the Kafka topic: [id, attempts, stamp]
  givenUp,     \* history: messages whose retries are exhausted
  killed,      \* history: messages a killed process had not sent
  drops,       \* losses of the MQTT connection
  faults       \* deliveries that went wrong

mqtt == <<connected, subscribed, drops>>
kafka == <<queue, inflight, topic, givenUp, killed, faults>>
vars == <<pc, mqtt, published, accepted, kafka>>

Init ==
  /\ pc = "boot"
  /\ connected = FALSE
  /\ subscribed = FALSE
  /\ published = << >>
  /\ accepted = {}
  /\ queue = << >>
  /\ inflight = << >>
  /\ topic = << >>
  /\ givenUp = {}
  /\ killed = {}
  /\ drops = 0
  /\ faults = 0

-----------------------------------------------------------------------------
(* The data: normalize_payload and, in the consumer, parse_timestamp.      *)

NumWith(t, D) == \E d \in D : t = Num(d)

\* The server's clock, int(time.time() * 1e9).
Now == Num(19)

NeedsClock(r) == r.timestamp = None \/ NumWith(r.timestamp, 1..12)

\* Comparing a timestamp_ms that is text with a number raises.
Raises(r) == r.kind = "bad_field" \/ (NeedsClock(r) /\ r.timestamp_ms = Text)

\* The timestamp a message leaves with.
Normalized(r) ==
  IF ~NeedsClock(r) THEN r.timestamp
  ELSE IF NumWith(r.timestamp_ms, 13..20) THEN r.timestamp_ms
  ELSE Now

Forwarded(r) == r.kind \in {"partial", "complete"} /\ ~Raises(r)

\* Mutant: milliseconds end at 10^12.
ParseOffByOne(d) ==
  CASE d <= 10 -> d + 9 [] d \in 11..12 -> d + 6 [] d \in 13..16 -> d + 3 [] OTHER -> d

\* parse_timestamp of a number, in digits: the unit is told by the magnitude and
\* the result is in nanoseconds.
Parse(d) ==
  CASE d <= 10 -> d + 9 [] d \in 11..13 -> d + 6 [] d \in 14..16 -> d + 3 [] OTHER -> d

-----------------------------------------------------------------------------
(* The process and the MQTT connection.                                    *)

\* Kafka is ready, the producer exists and the MQTT broker accepts the TCP
\* connection; the client's own thread goes on from there.
Boot ==
  /\ pc = "boot"
  /\ pc' = "running"
  /\ UNCHANGED <<mqtt, published, accepted, kafka>>

\* One of them fails: exit code 1.
BootFails ==
  /\ pc = "boot"
  /\ pc' = "down"
  /\ UNCHANGED <<mqtt, published, accepted, kafka>>

\* Mutant: the subscription is made once, not by on_connect.
OnConnectOnce ==
  /\ pc = "running"
  /\ ~connected
  /\ connected' = TRUE
  /\ subscribed' = (drops = 0)
  /\ UNCHANGED <<pc, drops, published, accepted, kafka>>

\* on_connect with rc = 0, first or again: the session is new and subscribes.
OnConnect ==
  /\ pc = "running"
  /\ ~connected
  /\ connected' = TRUE
  /\ subscribed' = TRUE
  /\ UNCHANGED <<pc, drops, published, accepted, kafka>>

\* The connection is lost; the client's thread tries again.
OnDisconnect ==
  /\ pc = "running"
  /\ connected
  /\ drops < MaxDrops
  /\ drops' = drops + 1
  /\ connected' = FALSE
  /\ subscribed' = FALSE
  /\ UNCHANGED <<pc, published, accepted, kafka>>

\* A device publishes while nobody listens: the message is gone.
PublishUnheard ==
  /\ ~subscribed
  /\ Len(published) < MaxMsgs
  /\ \E r \in Raws : published' = Append(published, r)
  /\ UNCHANGED <<pc, mqtt, accepted, kafka>>

\* A device publishes and on_message handles it: it goes to the producer, or it is
\* dropped because of what it is or because send() raises.
OnMessage ==
  /\ subscribed
  /\ Len(published) < MaxMsgs
  /\ \E r \in Raws :
       /\ published' = Append(published, r)
       /\ \/ /\ Forwarded(r)
             /\ accepted' = accepted \cup {Len(published')}
             /\ queue' = Append(queue, [id |-> Len(published'), attempts |-> 0])
          \/ UNCHANGED <<accepted, queue>>
  /\ UNCHANGED <<pc, mqtt, inflight, topic, givenUp, killed, faults>>

-----------------------------------------------------------------------------
(* The producer's sender thread and the broker.                            *)

Alive == pc \in {"running", "stopping"}

\* Mutant: the newest batch goes first.
SendNewest ==
  /\ Alive
  /\ queue # << >>
  /\ Len(inflight) < MaxInFlight
  /\ inflight' = Append(inflight, Last(queue))
  /\ queue' = Front(queue)
  /\ UNCHANGED <<pc, mqtt, published, accepted, topic, givenUp, killed, faults>>

\* The batch is due (linger_ms) and goes on the connection.
SendBatch ==
  /\ Alive
  /\ queue # << >>
  /\ Len(inflight) < MaxInFlight
  /\ inflight' = Append(inflight, Head(queue))
  /\ queue' = Tail(queue)
  /\ UNCHANGED <<pc, mqtt, published, accepted, topic, givenUp, killed, faults>>

WithStored(b) == Append(topic, [id |-> b.id, attempts |-> b.attempts,
                            stamp |-> Normalized(published[b.id])])

\* All replicas have the oldest request and the answer arrives.
Acked ==
  /\ Alive
  /\ inflight # << >>
  /\ topic' = WithStored(Head(inflight))
  /\ inflight' = Tail(inflight)
  /\ UNCHANGED <<pc, mqtt, published, accepted, queue, givenUp, killed, faults>>

\* Mutant: the batch is forgotten.
AgainNever(b) == UNCHANGED <<queue, givenUp>>

\* A failed batch goes back to the front of the queue until its retries are used up.
Again(b) ==
  IF b.attempts < Retries
  THEN queue' = <<[b EXCEPT !.attempts = @ + 1]>> \o queue /\ UNCHANGED givenUp
  ELSE givenUp' = givenUp \cup {b.id} /\ UNCHANGED queue

\* The request fails, before the broker stored it or after.
Nacked ==
  /\ Alive
  /\ inflight # << >>
  /\ faults < MaxFaults
  /\ faults' = faults + 1
  /\ topic' \in {topic, WithStored(Head(inflight))}
  /\ inflight' = Tail(inflight)
  /\ Again(Head(inflight))
  /\ UNCHANGED <<pc, mqtt, published, accepted, killed>>

-----------------------------------------------------------------------------
(* The end of the process.                                                 *)

\* KeyboardInterrupt: the MQTT client is stopped first.
Interrupt ==
  /\ pc = "running"
  /\ pc' = "stopping"
  /\ connected' = FALSE
  /\ subscribed' = FALSE
  /\ UNCHANGED <<drops, published, accepted, kafka>>

\* Mutant: requests on the connection are not waited for.
FlushQueueOnly ==
  /\ pc = "stopping"
  /\ queue = << >>
  /\ pc' = "done"
  /\ UNCHANGED <<mqtt, published, accepted, kafka>>

\* flush() returns once every batch is answered or given up; close() ends it.
Flush ==
  /\ pc = "stopping"
  /\ queue = << >>
  /\ inflight = << >>
  /\ pc' = "done"
  /\ UNCHANGED <<mqtt, published, accepted, kafka>>

\* The messages the producer holds.
Held == {b.id : b \in ToSet(queue) \cup ToSet(inflight)}

\* The process is killed (SIGTERM has no handler): what the producer holds is lost.
Kill ==
  /\ pc \notin {"down", "done"}
  /\ pc' = "down"
  /\ connected' = FALSE
  /\ subscribed' = FALSE
  /\ queue' = << >>
  /\ inflight' = << >>
  /\ killed' = killed \cup Held
  /\ UNCHANGED <<drops, published, accepted, topic, givenUp, faults>>

\* The container starts the process again.
Restart ==
  /\ pc = "down"
  /\ pc' = "boot"
  /\ UNCHANGED <<mqtt, published, accepted, kafka>>

-----------------------------------------------------------------------------
Next ==
  \/ Boot \/ BootFails \/ Kill \/ Restart \/ Interrupt \/ Flush
  \/ OnConnect \/ OnDisconnect
  \/ PublishUnheard \/ OnMessage
  \/ SendBatch \/ Acked \/ Nacked

Spec == Init /\ [][Next]_vars

\* The client's thread reconnects and the producer's thread sends as long as they
\* live; the MQTT broker and Kafka answer in the end.
FairSpec ==
  /\ Spec
  /\ WF_vars(OnConnect)
  /\ WF_vars(SendBatch)
  /\ WF_vars(Acked)
  /\ WF_vars(Flush)

-----------------------------------------------------------------------------
(* Properties. *)

Batch == [id : 1..MaxMsgs, attempts : 0..Retries]

\* Every variable keeps its type; a batch is attempted once and repeated at most Retries
\* times.
TypeOK ==
  /\ pc \in {"boot", "running", "stopping", "done", "down"}
  /\ connected \in BOOLEAN
  /\ subscribed \in BOOLEAN
  /\ published \in Seq(Raw) /\ Len(published) <= MaxMsgs
  /\ accepted \subseteq 1..Len(published)
  /\ queue \in Seq(Batch)
  /\ inflight \in Seq(Batch)
  /\ topic \in Seq([id : 1..MaxMsgs, attempts : 0..Retries, stamp : Stamps])
  /\ givenUp \subseteq accepted
  /\ killed \subseteq accepted
  /\ drops \in 0..MaxDrops
  /\ faults \in 0..MaxFaults

\* The topic is in the order in which messages were received, except for a message that
\* was sent again: only a retry lets a later message overtake; and no message is on it
\* more often than it was tried, however many requests fail after they were stored.
OnlyRetriesReorder ==
  /\ \A p, q \in DOMAIN topic :
       p < q /\ topic[p].id >= topic[q].id => topic[q].attempts > 0
  /\ \A i \in accepted : Cardinality({p \in DOMAIN topic : topic[p].id = i}) <= Retries + 1

Stored(i) == \E p \in DOMAIN topic : topic[p].id = i

\* Nothing vanishes: a message the callback handed over is held by the producer, on the
\* topic, given up after its last retry, or was in memory when the process was killed;
\* and after a keyboard interrupt, when main returns, the producer holds none.
NothingVanishes ==
  /\ \A i \in accepted : i \in Held \/ Stored(i) \/ i \in givenUp \/ i \in killed
  /\ pc = "done" => Held = {}

\* The timestamp of a message on the topic is read by the consumer as a wall clock of
\* our time, whatever unit a device counts in, and an uptime never is taken for one.
StampIsWallClock ==
  \A p \in DOMAIN topic : topic[p].stamp # Text => Parse(topic[p].stamp[2]) = 19

\* The bridge listens again after any loss of the connection.
ListensAgain == (pc = "running") ~> (subscribed \/ pc # "running")

\* A message handed to the producer is stored or given up, unless the process is
\* killed first.
Forwards ==
  \A i \in 1..MaxMsgs :
    (i \in accepted) ~> (Stored(i) \/ i \in givenUp \cup killed)
=============================================================================
