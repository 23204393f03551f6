---------------------------- MODULE ReadingLedger ----------------------------
(***************************************************************************)
(* What kafka-influx-service promises of the raw topic, seen from outside: *)
(* the broker, InfluxDB, the anomalies table and the topics browsers are   *)
(* fed from. How it gets there (polls, batches, the detector, retries,     *)
(* crashes) is SensorBridge, which implements this.                        *)
(***************************************************************************)
EXTENDS Integers

VARIABLES
  sent,       \* records on the topic
  settled,    \* records the service is done with
  committed,  \* the committed offset of its group
  stored,     \* records InfluxDB has
  recorded,   \* records that have a row in the anomalies table
  queued,     \* <<topic, record>>: events the service has not sent yet
  public      \* events the broker has

vars == <<sent, settled, committed, stored, recorded, queued, public>>

Init ==
  /\ sent = 0
  /\ committed = 0
  /\ <<settled, stored, recorded, queued, public>> = <<{}, {}, {}, {}, {}>>

\* A device has sent a record.
Send ==
  /\ sent' = sent + 1
  /\ UNCHANGED <<settled, committed, stored, recorded, queued, public>>

-----------------------------------------------------------------------------
(* Records are worked on in the order of the topic: o only when every record*)
(* before it is settled, and never again once it is committed.              *)

Open(o) == o \in (committed + 1)..sent /\ 1..(o - 1) \subseteq settled

MaySettle(o) == settled' \in {settled, settled \cup {o}}

Settle(o) ==
  /\ settled' = settled \cup {o}
  /\ UNCHANGED <<stored, recorded, queued>>

Store(o) ==
  /\ stored' = stored \cup {o}
  /\ MaySettle(o)
  /\ UNCHANGED <<recorded, queued>>

Record(o) ==
  /\ recorded' = recorded \cup {o}
  /\ MaySettle(o)
  /\ UNCHANGED <<stored, queued>>

\* Only what InfluxDB has is announced as telemetry.
Announce(o, topic) ==
  /\ topic = "telemetry.live" => o \in stored
  /\ queued' = queued \cup {<<topic, o>>}
  /\ MaySettle(o)
  /\ UNCHANGED <<stored, recorded>>

Work(o) ==
  /\ Open(o)
  /\ \/ Settle(o) \/ Store(o) \/ Record(o)
     \/ \E topic \in {"telemetry.live", "system.diagnostics"} : Announce(o, topic)
  /\ UNCHANGED <<sent, committed, public>>

-----------------------------------------------------------------------------
\* The broker takes an event; it keeps what it has.
Publish(e) ==
  /\ e \in queued
  /\ queued' = queued \ {e}
  /\ public' = public \cup {e}
  /\ UNCHANGED <<sent, settled, committed, stored, recorded>>

\* The offset moves forward, over settled records only, and events that wait may be
\* lost, with the process or at the broker. Nothing else is ever lost.
CommitOrLose ==
  /\ committed' \in committed..sent
  /\ 1..committed' \subseteq settled
  /\ queued' \subseteq queued
  /\ UNCHANGED <<sent, settled, stored, recorded, public>>

Next ==
  \/ Send
  \/ \E o \in 1..sent : Work(o)
  \/ \E e \in queued : Publish(e)
  \/ CommitOrLose

Spec == Init /\ [][Next]_vars
=============================================================================
