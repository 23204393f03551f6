----------------------------- MODULE MCForecast -----------------------------
(* A small instance of Forecast: a zone and the zone above it, with two sensors. *)
EXTENDS Forecast

CONSTANTS low, high, gaugeLow, gaugeHigh

ConstDistances == {0, 1}
ConstLags == [d \in ConstDistances |-> {d}]
ConstZones == {low, high}

Alone(z) == [d \in ConstDistances |-> IF d = 0 THEN {z} ELSE {}]
Below(z, y) == [d \in ConstDistances |-> IF d = 0 THEN {z} ELSE {y}]

\* A sensor in each zone; or the upper zone is gone, and its sensor in the lower one.
OneEach == [of |-> [s \in Sensors |-> IF s = gaugeLow THEN low ELSE high],
            above |-> [z \in ConstZones |-> IF z = low THEN Below(low, high) ELSE Alone(high)]]
Merged == [of |-> [s \in Sensors |-> low], above |-> [z \in {low} |-> Alone(low)]]
ConstRegistries == {OneEach, Merged}

ConstNumber == [s \in Sensors |-> IF s = gaugeLow THEN 2 ELSE 1]
ConstTrainings == {{1, 2}, {1}}
=============================================================================
