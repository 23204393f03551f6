-------------------------- MODULE AnomalyDetector --------------------------
(***************************************************************************)
(* The Z-score filter in front of InfluxDB (kafka-influx-service/          *)
(* anomaly.py): per sensor, the last accepted readings; a new reading more *)
(* than ZThreshold standard deviations away from their mean is rejected.   *)
(*                                                                         *)
(* numpy's mean and std are compared without division: with n readings h   *)
(* of sum S, |x - mean| / std > Z  iff  n (n x - S)^2 > Z^2 SUM (n h_i - S)^2.*)
(* The 1e-5 that the code adds to std only keeps it from dividing by zero  *)
(* as long as the readings are integers no more than 16 apart and no more  *)
(* than 10 are kept: it is smaller than the gap between two such ratios.   *)
(***************************************************************************)
EXTENDS Integers, Sequences, SequencesExt

CONSTANTS
  Sensors,      \* sensor ids
  Readings,     \* the water levels sensors report
  NaN,          \* the float that compares false with everything
  HistorySize,  \* history_size
  ZThreshold,   \* z_threshold
  Warmup        \* readings accepted unseen: the literal 5 in is_anomaly

ASSUME DetectorAssumption ==
  /\ Readings \subseteq Int
  /\ \A x, y \in Readings : x - y <= 16
  /\ NaN \notin Int
  /\ HistorySize \in 1..10
  /\ ZThreshold \in Nat
  /\ Warmup \in 1..HistorySize

VARIABLE history    \* history[s]: recent_readings[s], oldest first

Value == Readings \cup {NaN}

SumOf(h) ==
  LET sum[i \in 0..Len(h)] == IF i = 0 THEN 0 ELSE sum[i - 1] + h[i]
  IN  sum[Len(h)]
Square(i) == i * i

\* The Z-score of x against h is above the threshold. A NaN makes mean, deviation
\* and score NaN, and NaN > ZThreshold is false.
Outlier(h, x) ==
  LET n == Len(h)
      S == SumOf(h)
  IN  /\ NaN \notin ToSet(h) \cup {x}
      /\ n * Square(n * x - S)
           > Square(ZThreshold) * SumOf([i \in 1..n |-> Square(n * h[i] - S)])

Flagged(h, x) == Len(h) >= Warmup /\ Outlier(h, x)

\* Mutant: one reading too many is kept.
KeepOneMore(h, x) ==
  LET g == Append(h, x) IN IF Len(g) > HistorySize + 1 THEN Tail(g) ELSE g

\* What is kept once x is accepted.
Keep(h, x) ==
  LET g == Append(h, x) IN IF Len(g) > HistorySize THEN Tail(g) ELSE g

\* Mutant: the reading is remembered before it is judged.
AfterRemembersAll(h, x) == Keep(h, x)

\* recent_readings[s] after is_anomaly(s, x): a flagged reading leaves no trace.
After(h, x) == IF Flagged(h, x) THEN h ELSE Keep(h, x)

Init == history = [s \in Sensors |-> << >>]

\* is_anomaly(s, x).
Judge(s, x) == history' = [history EXCEPT ![s] = After(@, x)]

\* The service restarts: the detector is created anew.
Forget == history' = [s \in Sensors |-> << >>]

Next == (\E s \in Sensors, x \in Value : Judge(s, x)) \/ Forget

Spec == Init /\ [][Next]_history

-----------------------------------------------------------------------------
(* Properties. *)

\* A history is a sequence of at most HistorySize reported values.
TypeOK ==
  /\ history \in [Sensors -> Seq(Value)]
  /\ \A s \in Sensors : Len(history[s]) <= HistorySize

\* A reading that was accepted and is still remembered is accepted again when the
\* sensor repeats it (or Kafka redelivers it): is_anomaly never contradicts its own
\* history. With ten readings and a threshold of three deviations this is tight:
\* no member of n numbers is more than sqrt(n - 1) deviations from their mean, so
\* one more remembered reading, or a smaller threshold, would break it.
RememberedIsAccepted ==
  \A s \in Sensors : \A x \in ToSet(history[s]) : ~Flagged(history[s], x)

\* A history in which every reading is the number v.
Flat(h, v) == Len(h) >= Warmup /\ ToSet(h) = {v} /\ v # NaN

\* A sensor that has reported one level throughout its warm-up is locked to it: its
\* history stays flat at that level, every other number is discarded as an
\* anomaly however often it repeats, and only a restart (or a NaN) ends it. A
\* real flood after a still period is such a shift.
FlatStaysFlat ==
  [][\A s \in Sensors, v \in Readings :
        Flat(history[s], v)
          => \/ Flat(history'[s], v)
             \/ NaN \in ToSet(history'[s])
             \/ Forget]_history

\* The detector's memory of a sensor never shrinks, except by a restart: once
\* past the warm-up a reading is always judged, never waved through again.
WarmupIsOnce ==
  [][\A s \in Sensors : Len(history'[s]) >= Len(history[s]) \/ Forget]_history

=============================================================================
