---------------------------- MODULE MCMqttBridge ----------------------------
(* Small instances of MqttBridge: what devices publish. *)
EXTENDS MqttBridge

Payload(k, t, m) == [kind |-> k, timestamp |-> t, timestamp_ms |-> m]

\* Wall clocks in seconds, ms and ns, an uptime beside a clock, text; and two payloads
\* that are refused.
Clocks == {Payload("complete", Num(10), None), Payload("complete", Num(13), None),
           Payload("complete", Num(19), Num(13)), Payload("complete", Num(6), Num(13)),
           Payload("complete", Text, None), Payload("partial", Num(6), Text),
           Payload("partial", Num(16), None), Payload("not_json", None, None)}
=============================================================================
