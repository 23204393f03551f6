--------------------------- MODULE MCZoneRegistry ---------------------------
(* A small registry: a chain of zones along a river, with sensors in two of them. *)
EXTENDS ZoneRegistry

CONSTANTS r1, r2, z1, z2, z3, s1, s2

Low == <<2000, 3000>>
High == <<3500, 6000>>
TwoLimits == {Low, High}

Pipeline == <<3000, 4000>>
Listing == <<3000, 5000>>

\* Peaks on either side of the thresholds above.
SomePeaks == {2500, 3200, 4500}

\* z1 is the highest zone, z2 below it.
TwoZones == {z1, z2}
Chain == [z \in {z1, z2, z3} |-> IF z = z2 THEN z1 ELSE None]

Sensor(s, z, l) == [sensor |-> s, zone |-> z, limits |-> l]
TwoSensors == {Sensor(s1, z1, Low), Sensor(s2, z2, High)}
Moves == {Sensor(s2, z1, High), Sensor(s1, z3, Low)}

\* A third zone, a loop, a zone that moves to the other river, links cleared.
Zone(z, r, p, n) == [zone |-> z, river |-> r, prev |-> p, next |-> n]
Links == {Zone(z3, r1, z2, None), Zone(z1, r1, z3, z2), Zone(z2, r2, z1, None),
          Zone(z2, r1, None, z3)}
=============================================================================
