------------------------------ MODULE Features -------------------------------
(***************************************************************************)
(* What the models of ml/ are trained on and asked about: the features of  *)
(* a row of a station table. transform.py makes them for training,         *)
(* transform_infer.py for predictions.                                     *)
(*                                                                         *)
(* A table has one row per time and, per row, the readings of the stations *)
(* at each distance upstream of the target; the target is at distance 0.   *)
(* It has columns for the distances T.has, whether or not anything was     *)
(* measured there.                                                         *)
(* A value is the set of readings it is the mean of, so that two values    *)
(* are the same only if they were measured by the same sensors at the same *)
(* time, and a missing value is the empty set.                             *)
(***************************************************************************)
EXTENDS Integers, FiniteSets

CONSTANTS
  Distances,  \* the distances of LAG_CONFIG
  LagConfig,  \* LAG_CONFIG: the lags used of the station at each distance
  MaxLag      \* max_lag

ASSUME FeatureAssumption ==
  /\ 0 \in Distances
  /\ LagConfig \in [Distances -> SUBSET Nat]
  /\ MaxLag \in Nat
  /\ \A d \in Distances : \A l \in LagConfig[d] : l <= MaxLag
  /\ \E d \in Distances : MaxLag \in LagConfig[d]

\* The feature columns station<d>_<sensor>_lag<l> of one sensor.
Columns(T) == UNION {{d} \X LagConfig[d] : d \in T.has}

-----------------------------------------------------------------------------
\* The number of a row after sort_values("TimeStamp").reset_index.
Index(S, t) == Cardinality({u \in S : u < t})

\* Mutant: the series is shifted the other way.
ShiftedBack(T, d, t, l) ==
  UNION {T.cell[d][u] : u \in {u \in T.rows : Index(T.rows, u) = Index(T.rows, t) + l}}

\* series.shift(l): what the row l places further up holds; nothing if there is none.
\* Places are rows, whatever time lies between them.
Shifted(T, d, t, l) ==
  UNION {T.cell[d][u] : u \in {u \in T.rows : Index(T.rows, u) = Index(T.rows, t) - l}}

Feature(T, t) == [c \in Columns(T) |-> Shifted(T, c[1], t, c[2])]

\* target_water_level_t_plus_<h>: shift(-h).
Label(T, t, h) == Shifted(T, 0, t, -h)

\* Mutant: one row of warm-up too few is dropped.
InferredOneMore(T) == {t \in T.rows : Index(T.rows, t) + 1 >= MaxLag}

\* Mutant: one row too many.
InferredOneLess(T) == {t \in T.rows : Index(T.rows, t) > MaxLag}

\* transform_features keeps the rows from max_lag on, whatever is missing in them.
Inferred(T) == {t \in T.rows : Index(T.rows, t) >= MaxLag}

\* transform keeps the rows in which nothing is missing, no label either.
Trained(T, horizons) ==
  {t \in T.rows : /\ \A c \in Columns(T) : Feature(T, t)[c] # {}
                  /\ \A h \in horizons : Label(T, t, h) # {}}

-----------------------------------------------------------------------------
\* int(n * ratio) for a ratio of k tenths: the product is a float, and may come out
\* just below a whole number (int(90 * 0.7) is 62).
Share(n, k) ==
  {(n * k) \div 10} \cup (IF (n * k) % 10 = 0 THEN {(n * k) \div 10 - 1} ELSE {})

\* split_by_time: the sizes of the training, validation and test parts of n rows, or
\* none where it raises.
Splits(n) ==
  {p \in Share(n, 7) \X Share(n, 2) : n >= 10 /\ p[1] > 0 /\ p[2] > 0 /\ n - p[1] - p[2] > 0}
=============================================================================
