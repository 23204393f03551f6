---------------------------- MODULE MCLiveEvents ----------------------------
(* Small instances of LiveEvents: what upstream puts on the topics. *)
EXTENDS LiveEvents

CONSTANTS s1, s2, z1, z2

\* A telemetry record as kafka-influx-service sends it: it never names a zone.
Reading(s) == [event |-> "sensor:update", sensor |-> s, zone |-> NoZone]
Poison == [event |-> "poison", sensor |-> NoSensor, zone |-> NoZone]
NotADict == [event |-> "not_dict", sensor |-> NoSensor, zone |-> NoZone]

Silent == [l \in Loops |-> {}]

\* Sensors report, and once in a while a record names none; nothing else happens
\* on the topics.
TelemetryOnly ==
  [Silent EXCEPT !["telemetry"] = {Reading(s) : s \in Sensors \cup {NoSensor}}]

\* One sensor, with records the loop skips and records it dies of.
Mixed ==
  [Silent EXCEPT !["telemetry"] = {Reading(s1), NotADict, Poison}]

\* Two loops and the watchdog look up the same sensor; telemetry may name no sensor,
\* and the loop may die of a record.
TwoLoops ==
  [Silent EXCEPT !["telemetry"] = {Reading(s1), Reading(NoSensor), Poison},
                 !["diagnostics"] = {[event |-> "anomaly:new", sensor |-> s1, zone |-> NoZone]}]
=============================================================================
