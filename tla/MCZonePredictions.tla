-------------------------- MODULE MCZonePredictions --------------------------
(* Small instances of ZonePredictions: what is predicted, with the default  *)
(* thresholds of 3 m and 4 m.                                               *)
EXTENDS ZonePredictions

CONSTANT z1

\* Low, and on the critical level.
Extremes == {1000, 4000}

\* One level of each severity.
AllLevels == {2249, 2250, 3000, 4000}
=============================================================================
