------------------------- MODULE MCAnomalyDetector -------------------------
(* Small instances of AnomalyDetector: the production parameters, two levels. *)
EXTENDS AnomalyDetector

CONSTANT s1

\* A level and a jump.
TwoLevels == {0, 9}
=============================================================================
