--------------------------- MODULE ForecastProofs ---------------------------
(***************************************************************************)
(* For any lag configuration, any sensors and zones, any readings and any  *)
(* trainings: the features of a row do not depend on where the range of an *)
(* extraction begins or on what comes later, training and inference agree  *)
(* on the rows, the adjusted range is enough for one row, predictions go   *)
(* back only where all their sensors have left, no prediction lacks a      *)
(* horizon of a model directory half written, and a training mends it.     *)
(***************************************************************************)
EXTENDS Forecast, FiniteSetTheorems, WellFoundedInduction, TLAPS

-----------------------------------------------------------------------------
(* Sets of times. *)

LEMMA TimesFinite ==
  ASSUME NEW S, S \subseteq Times
  PROVE  IsFiniteSet(S) /\ \A t \in S : t \in Int /\ t \in Nat /\ t <= MaxTime
<1>1. 0 \in Int /\ MaxTime \in Int
  BY ForecastAssumption
<1>2. IsFiniteSet(Times)
  BY <1>1, FS_Interval DEF Times
<1>3. IsFiniteSet(S)
  BY <1>2, FS_Subset
<1>4. \A t \in Times : t \in Int /\ t \in Nat /\ t <= MaxTime
  BY <1>1 DEF Times
<1>5. QED
  BY <1>3, <1>4

\* A set of natural numbers that is not empty has a smallest one.
LEMMA Smallest ==
  ASSUME NEW S, S \subseteq Nat, S # {}
  PROVE  \E m \in S : \A n \in S : m <= n
<1>1. PICK R : /\ IsWellFoundedOn(R, Nat)
               /\ \A x, y \in Nat : x < y => <<x, y>> \in R
  <2>1. \A x, y \in Nat : x < y => <<x, y>> \in OpToRel(<, Nat)
    BY DEF OpToRel
  <2>2. QED
    BY <2>1, NatLessThanWellFounded
<1>2. PICK m \in S : \A n \in S : ~(<<n, m>> \in R)
  <2>1. IsWellFoundedOn(R, Nat)
    BY <1>1
  <2>2. QED
    BY <2>1, WFMin, Zenon
<1>3. \A n \in S : m <= n
  <2>1. SUFFICES ASSUME NEW n \in S PROVE m <= n
    OBVIOUS
  <2>2. m \in Nat /\ n \in Nat
    OBVIOUS
  <2>3. ~(n < m)
    BY <1>1, <1>2, <2>2
  <2>4. QED
    BY <2>2, <2>3
<1>4. QED
  BY <1>3

\* A set of times that is not empty has a last one.
LEMMA LastTime ==
  ASSUME NEW S, S \subseteq Times, S # {}
  PROVE  \E t \in S : \A u \in S : u <= t
<1> DEFINE L == {MaxTime - t : t \in S}
<1>1. MaxTime \in Int /\ \A t \in S : t \in Int
  <2>1. \A t \in S : t \in Int
    BY TimesFinite
  <2>2. QED
    BY <2>1, ForecastAssumption
<1>2. L \subseteq Nat /\ L # {}
  <2>1. \A t \in S : 0 <= MaxTime - t
    BY <1>1, TimesFinite
  <2>2. QED
    BY <1>1, <2>1
<1>3. PICK m \in L : \A n \in L : m <= n
  <2> HIDE DEF L
  <2> QED
    BY <1>2, Smallest
<1>4. PICK t \in S : m = MaxTime - t
  OBVIOUS
<1>5. \A u \in S : MaxTime - t <= MaxTime - u
  BY <1>3, <1>4
<1>6. QED
  BY <1>1, <1>5

\* Rows are numbered from 0, in the order of their times.
LEMMA IndexType ==
  ASSUME NEW S, S \subseteq Times, NEW t
  PROVE  Index(S, t) \in Nat
<1>1. IsFiniteSet({u \in S : u < t})
  BY TimesFinite, FS_Subset
<1>2. QED
  BY <1>1, FS_CardinalityType DEF Index

LEMMA IndexGrows ==
  ASSUME NEW S, S \subseteq Times, NEW u \in S, NEW t \in Int, u < t
  PROVE  Index(S, u) + 1 <= Index(S, t)
<1> DEFINE A == {v \in S : v < u}
           B == {v \in S : v < t}
<1>1. IsFiniteSet(A) /\ IsFiniteSet(B)
  BY TimesFinite, FS_Subset
<1>2. u \notin A /\ A \cup {u} \subseteq B
  <2>1. \A v \in S : v \in Int
    BY TimesFinite
  <2>2. QED
    BY <2>1
<1>3. Cardinality(A \cup {u}) = Cardinality(A) + 1
  <2> HIDE DEF A, B
  <2> QED
    BY <1>1, <1>2, FS_AddElement
<1>4. Cardinality(A \cup {u}) <= Cardinality(B)
  <2> HIDE DEF A, B
  <2> QED
    BY <1>1, <1>2, FS_Subset
<1>5. QED
  BY <1>3, <1>4 DEF Index

LEMMA IndexOrder ==
  ASSUME NEW S, S \subseteq Times, NEW u \in S, NEW t \in S
  PROVE  /\ Index(S, u) <= Index(S, t) => u <= t
         /\ u <= t => Index(S, u) <= Index(S, t)
<1>1. u \in Int /\ t \in Int
  BY TimesFinite
<1>2. Index(S, u) \in Nat /\ Index(S, t) \in Nat
  BY IndexType
<1>3. t < u => Index(S, t) + 1 <= Index(S, u)
  BY <1>1, IndexGrows
<1>4. u < t => Index(S, u) + 1 <= Index(S, t)
  BY <1>1, IndexGrows
<1>5. QED
  BY <1>1, <1>2, <1>3, <1>4

-----------------------------------------------------------------------------
(* Tables made of the readings of some time. *)

Between(R, lo, hi) == {r \in R : lo <= r.at /\ r.at <= hi}

LEMMA TableRows ==
  ASSUME NEW x \in Targets, NEW R, R \subseteq Reading, NEW g
  PROVE  /\ TableOf(x, R, g).rows = {r.at : r \in {r \in R : Counts(r.device, x, g)}}
         /\ TableOf(x, R, g).rows \subseteq Times
         /\ TableOf(x, R, g).has \subseteq Distances
<1>1. \A r \in R : r.at \in Times
  BY DEF Reading
<1>2. TableOf(x, R, g).rows = {r.at : r \in {r \in R : Counts(r.device, x, g)}}
  <2>1. CASE x \in Zones
    BY <2>1 DEF TableOf, ZoneTable, Counts
  <2>2. CASE x \notin Zones
    BY <2>2 DEF TableOf, StationTable, Counts
  <2>3. QED
    BY <2>1, <2>2
<1>3. TableOf(x, R, g).has \subseteq Distances
  BY DEF TableOf, ZoneTable, StationTable
<1>4. QED
  BY <1>1, <1>2, <1>3

\* The columns do not depend on the readings.
LEMMA SameHas ==
  ASSUME NEW x, NEW R, NEW Q, NEW g
  PROVE  TableOf(x, R, g).has = TableOf(x, Q, g).has
BY DEF TableOf, ZoneTable, StationTable

\* The rows of that time ...
LEMMA TableBetween ==
  ASSUME NEW x \in Targets, NEW R, R \subseteq Reading, NEW g, NEW lo \in Int, NEW hi \in Int
  PROVE  TableOf(x, Between(R, lo, hi), g).rows = {t \in TableOf(x, R, g).rows : lo <= t /\ t <= hi}
<1> DEFINE B == Between(R, lo, hi)
           Rows(Q) == {r.at : r \in {r \in Q : Counts(r.device, x, g)}}
<1>1. B \subseteq R /\ \A r \in R : r \in B <=> lo <= r.at /\ r.at <= hi
  BY DEF Between
<1>2. TableOf(x, R, g).rows = Rows(R) /\ TableOf(x, B, g).rows = Rows(B)
  BY <1>1, TableRows
<1>3. Rows(B) = {t \in Rows(R) : lo <= t /\ t <= hi}
  <2> HIDE DEF B
  <2> QED
    BY <1>1
<1> HIDE DEF Rows
<1>4. QED
  BY <1>2, <1>3

\* ... with the readings they have in the table of all.
LEMMA CellsBetween ==
  ASSUME NEW x \in Targets, NEW R, R \subseteq Reading, NEW g, NEW lo \in Int, NEW hi \in Int,
         NEW d \in Distances, NEW t \in TableOf(x, Between(R, lo, hi), g).rows
  PROVE  TableOf(x, Between(R, lo, hi), g).cell[d][t] = TableOf(x, R, g).cell[d][t]
<1> DEFINE B == Between(R, lo, hi)
<1>1. B \subseteq R /\ \A r \in R : r \in B <=> lo <= r.at /\ r.at <= hi
  BY DEF Between
<1>2. t \in TableOf(x, B, g).rows /\ t \in TableOf(x, R, g).rows /\ lo <= t /\ t <= hi
  BY TableBetween
<1> HIDE DEF B
<1>3. CASE x \in Zones
  <2> DEFINE Of(Q, zs) == {r \in Q : g.of[r.device] \in zs /\ r.at = t}
  <2>1. ASSUME NEW Q, t \in TableOf(x, Q, g).rows
        PROVE  TableOf(x, Q, g).cell[d][t] = Of(Q, g.above[x][d])
    BY <1>3, <2>1 DEF TableOf, ZoneTable
  <2>2. \A zs : Of(B, zs) = Of(R, zs)
    BY <1>1, <1>2
  <2> HIDE DEF Of
  <2>3. QED
    BY <1>2, <2>1, <2>2 DEF B
<1>4. CASE x \notin Zones
  <2> DEFINE Of(Q) == {r \in Q : Number[r.device] = x - d /\ r.at = t}
             Kept(Q) == {r \in Of(Q) : \A q \in Of(Q) : Rank[q.device] <= Rank[r.device]}
  <2>1. ASSUME NEW Q, t \in TableOf(x, Q, g).rows
        PROVE  TableOf(x, Q, g).cell[d][t] = Kept(Q)
    BY <1>4, <2>1 DEF TableOf, StationTable
  <2>2. Of(B) = Of(R)
    BY <1>1, <1>2
  <2> HIDE DEF Of
  <2>3. Kept(B) = Kept(R)
    BY <2>2
  <2> HIDE DEF Kept
  <2>4. QED
    BY <1>2, <2>1, <2>3 DEF B
<1>5. QED
  BY <1>3, <1>4

\* The rows of some time are numbered from the first of them.
LEMMA IndexBetween ==
  ASSUME NEW S, S \subseteq Times, NEW lo \in Int, NEW hi \in Int,
         NEW W, W = {t \in S : lo <= t /\ t <= hi}, NEW t \in W
  PROVE  Index(S, t) = Index(W, t) + Index(S, lo)
<1> DEFINE A == {u \in W : u < t}
           B == {u \in S : u < lo}
           C == {u \in S : u < t}
<1>1. \A u \in S : u \in Int
  BY TimesFinite
<1>2. A \cup B = C /\ A \cap B = {}
  BY <1>1
<1>3. IsFiniteSet(A) /\ IsFiniteSet(B)
  BY TimesFinite, FS_Subset
<1>4. Cardinality(A) \in Nat /\ Cardinality(B) \in Nat
  BY <1>3, FS_CardinalityType
<1>5. Cardinality(C) = Cardinality(A) + Cardinality(B)
  <2> HIDE DEF A, B, C
  <2>1. Cardinality(A \cup B) = Cardinality(A) + Cardinality(B) - Cardinality(A \cap B)
    BY <1>3, FS_Union
  <2>2. Cardinality(A \cap B) = 0
    BY <1>2, FS_EmptySet
  <2>3. Cardinality(A \cup B) = Cardinality(C)
    BY <1>2
  <2>4. QED
    BY <1>4, <2>1, <2>2, <2>3
<1>6. QED
  BY <1>5 DEF Index

\* The times from lo to hi.
Part(S, lo, hi) == {u \in S : lo <= u /\ u <= hi}

\* A row that is not further up than the first of them is the same row in both.
LEMMA SameRows ==
  ASSUME NEW S, S \subseteq Times, NEW lo \in Int, NEW hi \in Int,
         NEW t \in Part(S, lo, hi), NEW l \in Nat,
         lo <= 0 \/ l <= Index(Part(S, lo, hi), t)
  PROVE  \A u : u \in S /\ Index(S, u) = Index(S, t) - l <=>
               u \in Part(S, lo, hi) /\ Index(Part(S, lo, hi), u) = Index(Part(S, lo, hi), t) - l
<1> DEFINE W == Part(S, lo, hi)
<1>1. W \subseteq S /\ W \subseteq Times /\ W = {u \in S : lo <= u /\ u <= hi}
      /\ t \in W /\ (lo <= 0 \/ l <= Index(W, t))
  BY DEF Part
<1> HIDE DEF W
<1>2. \A u \in S : u \in Int /\ 0 <= u /\ Index(S, u) \in Nat
  BY TimesFinite, IndexType
<1>3. \A u \in W : Index(W, u) \in Nat
  BY <1>1, IndexType
<1>4. Index(S, lo) \in Nat
  BY IndexType
<1>5. \A u \in W : Index(S, u) = Index(W, u) + Index(S, lo)
  BY <1>1, IndexBetween
<1>6. ASSUME NEW u \in S, Index(S, u) = Index(S, t) - l
      PROVE  u \in W
  <2>1. u <= t
    <3>1. Index(S, u) <= Index(S, t)
      BY <1>1, <1>2, <1>6
    <3>2. QED
      BY <1>1, <3>1, IndexOrder
  <2>2. lo <= u
    <3>1. CASE lo <= 0
      BY <1>2, <3>1
    <3>2. CASE l <= Index(W, t)
      <4>1. Index(S, lo) <= Index(S, u)
        BY <1>1, <1>3, <1>4, <1>5, <1>6, <3>2
      <4>2. u < lo => Index(S, u) + 1 <= Index(S, lo)
        BY IndexGrows
      <4>3. QED
        BY <1>2, <1>4, <4>1, <4>2
    <3>3. QED
      BY <1>1, <3>1, <3>2
  <2>3. t <= hi /\ t \in Int
    BY <1>1, <1>2
  <2>4. QED
    BY <1>1, <1>2, <2>1, <2>2, <2>3
<1>7. ASSUME NEW u \in W
      PROVE  Index(S, u) = Index(S, t) - l <=> Index(W, u) = Index(W, t) - l
  BY <1>1, <1>3, <1>4, <1>5
<1>8. QED
  BY <1>1, <1>6, <1>7 DEF W

LEMMA ShiftedBetween ==
  ASSUME NEW x \in Targets, NEW R, R \subseteq Reading, NEW g, NEW lo \in Int, NEW hi \in Int,
         NEW t \in TableOf(x, Between(R, lo, hi), g).rows, NEW d \in Distances, NEW l \in Nat,
         lo <= 0 \/ l <= Index(TableOf(x, Between(R, lo, hi), g).rows, t)
  PROVE  Shifted(TableOf(x, Between(R, lo, hi), g), d, t, l) = Shifted(TableOf(x, R, g), d, t, l)
<1> DEFINE T == TableOf(x, R, g)
           B == TableOf(x, Between(R, lo, hi), g)
           Ts == {u \in T.rows : Index(T.rows, u) = Index(T.rows, t) - l}
           Bs == {u \in B.rows : Index(B.rows, u) = Index(B.rows, t) - l}
<1>1. T.rows \subseteq Times
  BY TableRows
<1>2. B.rows = {u \in T.rows : lo <= u /\ u <= hi}
  BY TableBetween
<1>3. Ts = Bs
  <2> HIDE DEF T, B
  <2>1. t \in B.rows /\ (lo <= 0 \/ l <= Index(B.rows, t))
    BY DEF B
  <2>2. B.rows = Part(T.rows, lo, hi)
    BY <1>2 DEF Part
  <2>3. \A u : u \in T.rows /\ Index(T.rows, u) = Index(T.rows, t) - l <=>
              u \in B.rows /\ Index(B.rows, u) = Index(B.rows, t) - l
    BY <1>1, <2>1, <2>2, SameRows
  <2>4. QED
    BY <2>3
<1>4. \A u \in Bs : B.cell[d][u] = T.cell[d][u]
  BY CellsBetween
<1>5. {B.cell[d][u] : u \in Bs} = {T.cell[d][u] : u \in Ts}
  <2> HIDE DEF T, B, Ts, Bs
  <2> QED
    BY <1>3, <1>4
<1>6. QED
  BY <1>5 DEF Shifted

-----------------------------------------------------------------------------
(* The rows of training, of inference and of a prediction. *)

\* A row training keeps has a value as far back as the longest lag.
LEMMA TrainedRows ==
  ASSUME NEW x \in Targets, NEW R, R \subseteq Reading, NEW g, NEW hs,
         \E d \in TableOf(x, R, g).has : MaxLag \in LagConfig[d]
  PROVE  Trained(TableOf(x, R, g), hs) \subseteq Inferred(TableOf(x, R, g))
<1> DEFINE T == TableOf(x, R, g)
<1>1. SUFFICES ASSUME NEW t \in Trained(T, hs)
               PROVE  t \in Inferred(T)
  OBVIOUS
<1>2. T.rows \subseteq Times
  BY TableRows
<1>3. t \in T.rows
  BY DEF Trained
<1>4. PICK d \in T.has : MaxLag \in LagConfig[d]
  OBVIOUS
<1>5. <<d, MaxLag>> \in Columns(T)
  BY <1>4 DEF Columns
<1>6. Shifted(T, d, t, MaxLag) # {}
  <2>1. Feature(T, t)[<<d, MaxLag>>] # {}
    BY <1>5 DEF Trained
  <2>2. QED
    BY <1>5, <2>1 DEF Feature
<1>7. PICK u \in T.rows : Index(T.rows, u) = Index(T.rows, t) - MaxLag
  BY <1>6 DEF Shifted
<1>8. Index(T.rows, u) \in Nat /\ Index(T.rows, t) \in Nat /\ MaxLag \in Nat
  BY <1>2, IndexType, FeatureAssumption
<1>9. Index(T.rows, t) >= MaxLag
  BY <1>7, <1>8
<1>10. QED
  BY <1>3, <1>9 DEF Inferred

\* The row of a prediction is the last row of the table.
LEMMA BaseIsLast ==
  ASSUME NEW x \in Targets, NEW R, R \subseteq Reading, NEW g, Inferred(TableOf(x, R, g)) # {}
  PROVE  /\ Base(TableOf(x, R, g)) \in TableOf(x, R, g).rows
         /\ Base(TableOf(x, R, g)) \in Times
         /\ \A u \in TableOf(x, R, g).rows : u <= Base(TableOf(x, R, g))
<1> DEFINE T == TableOf(x, R, g)
<1>1. T.rows \subseteq Times
  BY TableRows
<1>2. Inferred(T) \subseteq T.rows
  BY DEF Inferred
<1>3. \E t \in Inferred(T) : \A u \in Inferred(T) : u <= t
  <2> HIDE DEF T
  <2>1. Inferred(T) \subseteq Times
    BY <1>1, <1>2
  <2>2. Inferred(T) # {}
    BY DEF T
  <2>3. QED
    BY <2>1, <2>2, LastTime
<1>4. Base(T) \in Inferred(T) /\ \A u \in Inferred(T) : u <= Base(T)
  <2> HIDE DEF T
  <2> QED
    BY <1>3 DEF Base
<1> HIDE DEF T
<1>5. ASSUME NEW u \in T.rows
      PROVE  u <= Base(T)
  <2>1. u \in Int /\ Base(T) \in Int
    BY <1>1, <1>2, <1>4, TimesFinite
  <2>2. Index(T.rows, u) \in Nat /\ Index(T.rows, Base(T)) \in Nat /\ MaxLag \in Nat
    BY <1>1, IndexType, FeatureAssumption
  <2>3. Index(T.rows, Base(T)) >= MaxLag
    BY <1>4 DEF Inferred
  <2>4. Base(T) <= u => u \in Inferred(T)
    <3>1. Base(T) <= u => Index(T.rows, Base(T)) <= Index(T.rows, u)
      BY <1>1, <1>2, <1>4, IndexOrder
    <3>2. QED
      BY <2>2, <2>3, <3>1 DEF Inferred
  <2>5. QED
    BY <1>4, <2>1, <2>4
<1>6. QED
  BY <1>1, <1>2, <1>4, <1>5 DEF T

-----------------------------------------------------------------------------
(* The run: what is in the file, and what was predicted from it. *)

Busy == {"columns", "horizons", "predict"}

\* The target of a prediction has a row to predict from.
TargetInv == pc \in Busy => target \in Targets /\ Inferred(Table(target)) # {}

\* What is in the file is stored and past; what this run found is of its range, which is
\* long enough.
FileInv ==
  /\ asked <= now
  /\ \A r \in file : r \in points /\ r.at < now
  /\ pc # "idle" => range >= (MaxLag + 1) * Sampling
  /\ found => \A r \in file : asked - range <= r.at /\ r.at < asked

Measured(x) == {[device |-> s, at |-> last[x]] : s \in by[x]}

\* What was predicted rests on readings that are stored and past, and these are in the file
\* or before all that is in it.
LastInv ==
  \A x \in Targets :
    last[x] # -1 => /\ last[x] < now
                    /\ by[x] # {}
                    /\ Measured(x) \subseteq points
                    /\ Measured(x) \subseteq file \/ \A r \in file : last[x] < r.at

RunInv == TypeOK /\ TargetInv /\ FileInv /\ LastInv

LEMMA RunInit == Init => RunInv
<1>1. SUFFICES ASSUME Init PROVE RunInv
  OBVIOUS
<1>2. TypeOK
  <2>1. 0 \in Times
    BY ForecastAssumption DEF Times
  <2>2. /\ last \in [Targets -> Times \cup {-1}]
        /\ by \in [Targets -> SUBSET Sensors]
    BY <1>1 DEF Init
  <2>3. mapping \in Mapping
    BY <1>1 DEF Init, Mapping, Unread
  <2>4. 0 \in 0..MaxChanges /\ 0 \in 0..MaxTrainings
    BY ForecastAssumption
  <2>5. QED
    BY <1>1, <2>1, <2>2, <2>3, <2>4 DEF Init, TypeOK
<1>3. TargetInv /\ FileInv
  BY <1>1, ForecastAssumption DEF Init, TargetInv, FileInv, Busy
<1>4. LastInv
  BY <1>1 DEF Init, LastInv
<1>5. QED
  BY <1>2, <1>3, <1>4 DEF RunInv

\* What a run reads of the registry.
LEMMA ReadMapping ==
  ASSUME TypeOK
  PROVE  /\ Unread \in Mapping
         /\ [mapping EXCEPT !.of = registry.of] \in Mapping
         /\ [mapping EXCEPT !.above = registry.above] \in Mapping
         /\ DOMAIN registry.above \subseteq Zones
BY ForecastAssumption DEF TypeOK, Mapping, Unread

\* A prediction rests on the readings of its row, of which there is one.
LEMMA RowMeasured ==
  ASSUME RunInv, pc \in Busy
  PROVE  LET base == Base(Table(target))
             who == MeasuredBy(target, base, file, mapping)
         IN  /\ target \in Targets
             /\ base \in Times
             /\ who # {} /\ who \subseteq Sensors
             /\ \A s \in who : [device |-> s, at |-> base] \in file
             /\ \A r \in file : Counts(r.device, target, mapping) => r.at <= base
<1> DEFINE base == Base(Table(target))
<1>1. target \in Targets /\ Inferred(Table(target)) # {} /\ file \subseteq Reading
  BY DEF RunInv, TypeOK, TargetInv
<1>2. /\ base \in Table(target).rows /\ base \in Times
      /\ \A u \in Table(target).rows : u <= base
  BY <1>1, BaseIsLast DEF Table
<1>3. Table(target).rows = {r.at : r \in {r \in file : Counts(r.device, target, mapping)}}
  BY <1>1, TableRows DEF Table
<1> HIDE DEF base
<1>4. PICK r \in file : r.at = base /\ Counts(r.device, target, mapping)
  BY <1>2, <1>3
<1>5. r.device \in MeasuredBy(target, base, file, mapping)
  BY <1>4 DEF MeasuredBy
<1>6. \A s \in MeasuredBy(target, base, file, mapping) :
        s \in Sensors /\ [device |-> s, at |-> base] \in file
  BY <1>1 DEF MeasuredBy, Reading
<1>7. QED
  BY <1>1, <1>2, <1>3, <1>5, <1>6 DEF base

LEMMA TypeStep == RunInv /\ [Next]_vars => TypeOK'
<1>1. SUFFICES ASSUME RunInv, [Next]_vars PROVE TypeOK'
  OBVIOUS
<1>2. TypeOK
  BY <1>1 DEF RunInv
<1>3. 0 \in Times /\ Times \subseteq Int /\ Times \subseteq Nat
  BY ForecastAssumption DEF Times
<1>4. changes \in Nat /\ trainings \in Nat /\ MaxChanges \in Nat /\ MaxTrainings \in Nat
  BY <1>2, ForecastAssumption DEF TypeOK
<1>5. EndRun => /\ pc' = "idle" /\ asked' \in Times /\ range' \in Nat /\ found' \in BOOLEAN
                /\ mapping' \in Mapping /\ todo' \subseteq Targets /\ target' = NoZone
                /\ want' = {} /\ loaded' = {}
  BY <1>2, <1>3, ReadMapping DEF EndRun
<1> USE DEF postgres, run, directory, training, extraction, prediction, others
<1>6. CASE UNCHANGED vars
  BY <1>2, <1>6 DEF vars, TypeOK
<1>7. CASE Tick
  <2>1. now' \in Times
    BY <1>2, <1>7, ForecastAssumption DEF Tick, TypeOK, Times
  <2>2. QED
    BY <1>2, <1>7, <2>1 DEF Tick, TypeOK
<1>8. ASSUME NEW s \in Sensors, NEW t \in Times, Report(s, t)
      PROVE  TypeOK'
  BY <1>2, <1>8 DEF Report, TypeOK, Reading
<1>9. ASSUME NEW g \in Registries, ChangeRegistry(g)
      PROVE  TypeOK'
  <2>1. changes' \in 0..MaxChanges
    BY <1>4, <1>9 DEF ChangeRegistry
  <2>2. QED
    BY <1>2, <1>9, <2>1 DEF ChangeRegistry, TypeOK
<1>10. CASE Extract
  <2>1. \A q \in Requests : Widened(q) \in Nat
    BY ForecastAssumption, FeatureAssumption DEF Widened
  <2>2. \A n : Window(n) \subseteq points
    BY DEF Window
  <2>3. range' \in Nat
    BY <1>10, <2>1 DEF Extract
  <2>4. file' \subseteq Reading /\ found' \in BOOLEAN
    BY <1>2, <1>10, <2>2 DEF Extract, TypeOK
  <2>5. QED
    BY <1>2, <1>10, <2>3, <2>4 DEF Extract, TypeOK
<1>11. CASE Load
  <2>1. CASE EndRun
    BY <1>2, <1>5, <1>11, <2>1 DEF Load, TypeOK
  <2>2. CASE ~EndRun
    <3>1. mapping' \in Mapping
      BY <1>2, <1>11, <2>2, ReadMapping DEF Load, TypeOK
    <3>2. todo' \subseteq Targets /\ pc' \in {"info", "zones"}
      BY <1>2, <1>11, <2>2 DEF Load, TypeOK, Targets
    <3>3. UNCHANGED <<others, last, by, extraction, target, want, loaded>>
      BY <1>11, <2>2 DEF Load
    <3>4. QED
      BY <1>2, <3>1, <3>2, <3>3 DEF TypeOK
  <2>3. QED
    BY <2>1, <2>2
<1>12. CASE LoadZones
  <2>1. CASE EndRun
    BY <1>2, <1>5, <1>12, <2>1 DEF LoadZones, TypeOK
  <2>2. CASE ~EndRun
    <3>1. mapping' \in Mapping /\ todo' \subseteq Targets /\ pc' = "zones"
      BY <1>2, <1>12, <2>2, ReadMapping DEF LoadZones, Targets
    <3>2. UNCHANGED <<others, last, by, extraction, target, want, loaded>>
      BY <1>12, <2>2 DEF LoadZones
    <3>3. QED
      BY <1>2, <3>1, <3>2 DEF TypeOK
  <2>3. QED
    BY <2>1, <2>2
<1>13. ASSUME NEW x \in Targets, Zone(x)
      PROVE  TypeOK'
  BY <1>2, <1>13 DEF Zone, TypeOK
<1>14. CASE ReadColumns
  BY <1>2, <1>5, <1>14 DEF ReadColumns, TypeOK
<1>15. CASE ReadHorizons
  BY <1>2, <1>5, <1>15 DEF ReadHorizons, Available, TypeOK
<1>16. ASSUME NEW h \in Horizons, LoadModel(h)
      PROVE  TypeOK'
  BY <1>2, <1>5, <1>16 DEF LoadModel, TypeOK
<1>17. CASE Predict
  <2>1. /\ Base(Table(target)) \in Times
        /\ MeasuredBy(target, Base(Table(target)), file, mapping) \subseteq Sensors
    BY <1>1, <1>17, RowMeasured DEF Busy, Predict
  <2>2. QED
    BY <1>2, <1>17, <2>1 DEF Predict, TypeOK
<1>18. CASE Done
  BY <1>2, <1>5, <1>18 DEF Done, TypeOK
<1>19. ASSUME NEW hs \in Trainings, Train(hs)
       PROVE  TypeOK'
  <2>1. trainings' \in 0..MaxTrainings
    BY <1>4, <1>19 DEF Train
  <2>2. QED
    BY <1>2, <1>19, <2>1, ForecastAssumption DEF Train, TypeOK
<1>20. ASSUME NEW h \in Horizons, SaveModel(h)
       PROVE  TypeOK'
  BY <1>2, <1>20 DEF SaveModel, TypeOK
<1>21. CASE WriteColumns
  BY <1>2, <1>21 DEF WriteColumns, TypeOK
<1>22. CASE WriteConfig
  BY <1>2, <1>22, ForecastAssumption DEF WriteConfig, TypeOK
<1>23. CASE StopTraining
  BY <1>2, <1>23 DEF StopTraining, TypeOK
<1>24. QED
  BY <1>1, <1>6, <1>7, <1>8, <1>9, <1>10, <1>11, <1>12, <1>13, <1>14, <1>15, <1>16, <1>17, <1>18,
     <1>19, <1>20, <1>21, <1>22, <1>23 DEF Next, Pipeline, Trainer

\* A step that leaves the file, the readings and the predictions alone, lets time pass
\* at most, and goes on with the run or ends it.
LEMMA Carried ==
  ASSUME RunInv, TypeOK', now <= now', points \subseteq points', UNCHANGED <<file, last, by>>,
         \/ UNCHANGED extraction /\ (pc' = "idle" <=> pc = "idle")
         \/ EndRun
  PROVE  FileInv' /\ LastInv'
<1>1. now \in Int /\ now' \in Int /\ 0 <= now'
  BY TimesFinite DEF RunInv, TypeOK
<1>2. \A r \in file : r.at \in Int
  BY TimesFinite DEF RunInv, TypeOK, Reading
<1>3. FileInv'
  <2>1. asked' <= now' /\ asked \in Int
    BY <1>1, TimesFinite DEF RunInv, FileInv, TypeOK, EndRun, extraction
  <2>2. \A r \in file' : r \in points' /\ r.at < now'
    BY <1>1, <1>2 DEF RunInv, FileInv
  <2>3. QED
    BY <2>1, <2>2 DEF RunInv, FileInv, EndRun, extraction
<1>4. LastInv'
  <2>1. SUFFICES ASSUME NEW x \in Targets, last[x] # -1
                 PROVE  /\ last[x] < now' /\ by[x] # {}
                        /\ Measured(x) \subseteq points'
                        /\ Measured(x) \subseteq file \/ \A r \in file : last[x] < r.at
    BY DEF LastInv, Measured
  <2>2. last[x] \in Int
    BY TimesFinite DEF RunInv, TypeOK
  <2>3. QED
    BY <1>1, <2>1, <2>2 DEF RunInv, LastInv
<1>5. QED
  BY <1>3, <1>4

\* What an extraction finds is not before what was predicted.
LEMMA Extracted ==
  ASSUME RunInv, TypeOK', Extract
  PROVE  TargetInv' /\ FileInv' /\ LastInv'
<1>1. now \in Int /\ range' \in Int /\ UNCHANGED <<now, points, last, by>>
  BY TimesFinite DEF RunInv, TypeOK, Extract
<1>2. \A r \in points : r.at \in Int
  BY TimesFinite DEF RunInv, TypeOK, Reading
<1>3. file' = file \/ file' = Window(range')
  BY DEF Extract
<1>4. TargetInv'
  BY DEF Extract, TargetInv, Busy
<1>5. FileInv'
  <2>1. asked' <= now'
    BY <1>1 DEF Extract
  <2>2. \A r \in file' : r \in points' /\ r.at < now'
    BY <1>1, <1>3 DEF RunInv, FileInv, Window
  <2>3. range' >= (MaxLag + 1) * Sampling
    <3>1. (MaxLag + 1) * Sampling \in Int
      BY FeatureAssumption, ForecastAssumption
    <3>2. \A q \in Requests : Widened(q) >= (MaxLag + 1) * Sampling
      BY <3>1, ForecastAssumption DEF Widened
    <3>3. QED
      BY <3>2 DEF Extract
  <2>4. found' => \A r \in file' : asked' - range' <= r.at /\ r.at < asked'
    BY DEF Extract, Window
  <2>5. QED
    BY <2>1, <2>2, <2>3, <2>4 DEF FileInv
<1>6. LastInv'
  <2>1. SUFFICES ASSUME NEW x \in Targets, last[x] # -1
                 PROVE  Measured(x) \subseteq file' \/ \A r \in file' : last[x] < r.at
    BY <1>1 DEF RunInv, LastInv, Measured
  <2>2. /\ last[x] < now /\ Measured(x) \subseteq points
        /\ Measured(x) \subseteq file \/ \A r \in file : last[x] < r.at
    BY <2>1 DEF RunInv, LastInv
  <2>3. CASE file' = file
    BY <2>2, <2>3
  <2>4. CASE file' = Window(range')
    <3>1. last[x] \in Int
      BY TimesFinite DEF RunInv, TypeOK
    <3>2. CASE now - range' <= last[x]
      <4>1. \A r \in Measured(x) : r.at = last[x]
        BY DEF Measured
      <4>2. QED
        BY <2>2, <2>4, <3>2, <4>1 DEF Window
    <3>3. CASE ~(now - range' <= last[x])
      <4>1. \A r \in file' : now - range' <= r.at /\ r.at \in Int
        BY <1>2, <2>4 DEF Window
      <4>2. QED
        BY <1>1, <3>1, <3>3, <4>1
    <3>4. QED
      BY <3>2, <3>3
  <2>5. QED
    BY <1>3, <2>3, <2>4
<1>7. QED
  BY <1>4, <1>5, <1>6

\* What is predicted rests on the last row of the file, which is not before the one of the
\* last prediction while a sensor that measured that one belongs to the zone.
LEMMA Predicted ==
  ASSUME RunInv, TypeOK', Predict
  PROVE  /\ FileInv' /\ LastInv'
         /\ \A x \in Targets :
              last'[x] < last[x] => x \in Zones /\ \A s \in by[x] : mapping.of[s] # x
<1> DEFINE base == Base(Table(target))
           who == MeasuredBy(target, base, file, mapping)
<1>1. /\ target \in Targets /\ base \in Times
      /\ who # {} /\ \A s \in who : [device |-> s, at |-> base] \in file
      /\ \A r \in file : Counts(r.device, target, mapping) => r.at <= base
  BY RowMeasured DEF Predict, Busy
<1>2. /\ UNCHANGED <<now, points, file, extraction>>
      /\ pc # "idle" /\ pc' # "idle"
      /\ last' = [last EXCEPT ![target] = base]
      /\ by' = [by EXCEPT ![target] = who]
  BY DEF Predict, others
<1> HIDE DEF base, who
<1>3. base \in Int /\ 0 <= base /\ base # -1
  BY <1>1, TimesFinite
<1>4. \A r \in file : r \in points /\ r.at \in Int /\ r.at < now
  BY TimesFinite DEF RunInv, FileInv, TypeOK, Reading
<1>5. last \in [Targets -> Times \cup {-1}] /\ by \in [Targets -> SUBSET Sensors]
  BY DEF RunInv, TypeOK
<1>6. ASSUME NEW x \in Targets
      PROVE  /\ last'[x] = IF x = target THEN base ELSE last[x]
             /\ by'[x] = IF x = target THEN who ELSE by[x]
  BY <1>1, <1>2, <1>5
<1>7. FileInv'
  BY <1>2 DEF RunInv, FileInv, extraction
<1>8. LastInv'
  <2>1. SUFFICES ASSUME NEW x \in Targets, last'[x] # -1
                 PROVE  /\ last'[x] < now /\ by'[x] # {}
                        /\ Measured(x)' \subseteq points
                        /\ Measured(x)' \subseteq file \/ \A r \in file : last'[x] < r.at
    BY <1>2 DEF LastInv
  <2>2. CASE x = target
    <3>1. Measured(x)' = {[device |-> s, at |-> base] : s \in who}
      BY <1>6, <2>2 DEF Measured
    <3>2. PICK s \in who : TRUE
      BY <1>1
    <3>3. [device |-> s, at |-> base] \in file
      BY <1>1, <3>2
    <3>4. base < now
      BY <1>4, <3>3
    <3>5. QED
      BY <1>1, <1>4, <1>6, <2>2, <3>1, <3>4
  <2>3. CASE x # target
    <3>1. last'[x] = last[x] /\ by'[x] = by[x] /\ Measured(x)' = Measured(x)
      BY <1>6, <2>3 DEF Measured
    <3>2. QED
      BY <2>1, <3>1 DEF RunInv, LastInv
  <2>4. QED
    BY <2>2, <2>3
<1>9. ASSUME NEW x \in Targets, last'[x] < last[x]
      PROVE  x \in Zones /\ \A s \in by[x] : mapping.of[s] # x
  <2>1. last[x] \in Times \cup {-1} /\ last[x] \in Int
    BY <1>5, TimesFinite
  <2>2. x = target /\ last'[x] = base
    BY <1>6, <1>9, <2>1
  <2>3. last[x] # -1 /\ base < last[x]
    BY <1>3, <1>9, <2>1, <2>2
  <2>4. by[x] # {} /\ (Measured(x) \subseteq file \/ \A r \in file : last[x] < r.at)
    BY <2>3 DEF RunInv, LastInv
  <2>5. Measured(x) \subseteq file
    <3>1. PICK s \in who : TRUE
      BY <1>1
    <3>2. [device |-> s, at |-> base] \in file
      BY <1>1, <3>1
    <3>3. ~(\A r \in file : last[x] < r.at)
      BY <1>3, <2>1, <2>3, <3>2
    <3>4. QED
      BY <2>4, <3>3
  <2>6. ASSUME NEW s \in by[x]
        PROVE  ~Counts(s, x, mapping)
    <3>1. [device |-> s, at |-> last[x]] \in file
      BY <2>5 DEF Measured
    <3>2. Counts(s, x, mapping) => last[x] <= base
      BY <1>1, <2>2, <3>1
    <3>3. QED
      BY <1>3, <2>1, <2>3, <3>2
  <2>7. QED
    BY <2>4, <2>6 DEF Counts
<1>10. QED
  BY <1>7, <1>8, <1>9

\* Every other step is one of those Carried is about.
LEMMA RunStep == RunInv /\ [Next]_vars => RunInv'
<1>1. SUFFICES ASSUME RunInv, [Next]_vars PROVE RunInv'
  OBVIOUS
<1>2. TypeOK'
  BY <1>1, TypeStep
<1> DEFINE Still == /\ points \subseteq points' /\ UNCHANGED <<file, last, by>>
                    /\ \/ UNCHANGED extraction /\ (pc' = "idle" <=> pc = "idle")
                       \/ EndRun
<1>3. now \in Int
  BY <1>1, TimesFinite DEF RunInv, TypeOK
<1> USE DEF postgres, run, directory, training, others
<1>4. CASE UNCHANGED vars
  BY <1>1, <1>2, <1>4 DEF vars, RunInv, TargetInv, FileInv, LastInv, Table, Measured
<1>5. CASE \/ Tick \/ (\E s \in Sensors, t \in Times : Report(s, t))
           \/ (\E g \in Registries : ChangeRegistry(g)) \/ Trainer
  <2>1. now <= now' /\ points \subseteq points' /\ UNCHANGED run
    <3>1. CASE Tick
      BY <1>3, <3>1 DEF Tick
    <3>2. CASE \E s \in Sensors, t \in Times : Report(s, t)
      BY <1>3, <3>2 DEF Report
    <3>3. CASE \E g \in Registries : ChangeRegistry(g)
      BY <1>3, <3>3 DEF ChangeRegistry
    <3>4. CASE Trainer
      <4>1. UNCHANGED <<now, points, run>>
        BY <3>4 DEF Trainer, Train, SaveModel, WriteColumns, WriteConfig, StopTraining
      <4>2. QED
        BY <1>3, <4>1
    <3>5. QED
      BY <1>5, <3>1, <3>2, <3>3, <3>4
  <2>2. Still
    BY <2>1 DEF extraction
  <2>3. TargetInv'
    BY <1>1, <2>1 DEF RunInv, TargetInv, Table
  <2>4. FileInv' /\ LastInv'
    BY <1>1, <1>2, <2>1, <2>2, Carried
  <2>5. QED
    BY <1>2, <2>3, <2>4 DEF RunInv
<1>6. CASE Extract
  BY <1>1, <1>2, <1>6, Extracted DEF RunInv
<1>7. CASE Predict
  <2>1. TargetInv'
    BY <1>7 DEF Predict, TargetInv, Busy
  <2>2. QED
    BY <1>1, <1>2, <1>7, <2>1, Predicted DEF RunInv
<1>8. CASE \/ Load \/ LoadZones \/ (\E x \in Targets : Zone(x)) \/ ReadColumns \/ ReadHorizons
           \/ (\E h \in Horizons : LoadModel(h)) \/ Done
  <2>1. now <= now' /\ Still
    BY <1>3, <1>8 DEF Load, LoadZones, Zone, ReadColumns, ReadHorizons, LoadModel, Done, EndRun
  <2>2. TargetInv'
    BY <1>1, <1>8 DEF RunInv, TargetInv, Table, Busy, Load, LoadZones, Zone, ReadColumns,
      ReadHorizons, LoadModel, Done, EndRun, prediction
  <2>3. FileInv' /\ LastInv'
    BY <1>1, <1>2, <2>1, Carried
  <2>4. QED
    BY <1>2, <2>2, <2>3 DEF RunInv
<1>9. QED
  BY <1>1, <1>4, <1>5, <1>6, <1>7, <1>8 DEF Next, Pipeline

\* The types of the state, and the invariant of the run, always hold.
THEOREM RunInvariant == Spec => []RunInv
<1>1. QED
  BY RunInit, RunStep, PTL DEF Spec

-----------------------------------------------------------------------------
(* Predictions. *)

\* A run that has found readings predicts from the range it asked for.
THEOREM FoundReadingsAreUsed == Spec => []FoundIsUsed
<1>1. RunInv => FoundIsUsed
  <2>1. SUFFICES ASSUME RunInv, pc \in Busy, found
                 PROVE  asked - range <= Base(Table(target)) /\ Base(Table(target)) < asked
    BY DEF FoundIsUsed, Busy
  <2> DEFINE base == Base(Table(target))
             who == MeasuredBy(target, base, file, mapping)
  <2>2. PICK s \in who : [device |-> s, at |-> base] \in file
    BY <2>1, RowMeasured
  <2> HIDE DEF base, who
  <2>3. asked - range <= base /\ base < asked
    BY <2>1, <2>2 DEF RunInv, FileInv
  <2>4. QED
    BY <2>3 DEF base
<1>2. QED
  BY <1>1, RunInvariant, PTL

\* Predictions do not go back in time, however late a reading is stored and whenever the
\* registry changes, unless the sensors they rest on have left the zone.
THEOREM PredictionsNeverGoBack == Spec => NeverBack
<1> DEFINE A == \A x \in Targets :
                  last'[x] < last[x] => x \in Zones /\ \A s \in by[x] : mapping.of[s] # x
<1>1. ASSUME RunInv, [Next]_vars
      PROVE  [A]_vars
  <2>1. TypeOK'
    BY <1>1, TypeStep
  <2>2. CASE Predict
    BY <1>1, <2>1, <2>2, Predicted
  <2>3. CASE last' = last
    <3>1. \A x \in Targets : last[x] \in Int
      BY <1>1, TimesFinite DEF RunInv, TypeOK
    <3>2. \A x \in Targets : ~(last'[x] < last[x])
      BY <2>3, <3>1
    <3>3. QED
      BY <3>2
  <2>4. CASE ~Predict /\ Next
    <3>1. last' = last
      BY <2>4 DEF Next, Pipeline, Trainer, Tick, Report, ChangeRegistry, Extract, Load, LoadZones,
        Zone, ReadColumns, ReadHorizons, LoadModel, Done, Train, SaveModel, WriteColumns,
        WriteConfig, StopTraining, run
    <3>2. QED
      BY <2>3, <3>1
  <2>5. QED
    BY <1>1, <2>2, <2>4
<1>2. QED
  BY <1>1, RunInvariant, PTL DEF Spec, NeverBack

-----------------------------------------------------------------------------
(* Features. *)

\* Only an extraction changes the file.
LEMMA OnlyExtract ==
  ASSUME RunInv, [Next]_vars, file' # file
  PROVE  Extract /\ file' = Window(range') /\ points' = points /\ registry' = registry
<1>1. Extract
  BY DEF Next, Pipeline, Trainer, Tick, Report, ChangeRegistry, Load, LoadZones, Zone, ReadColumns,
    ReadHorizons, LoadModel, Predict, Done, Train, SaveModel, WriteColumns, WriteConfig,
    StopTraining, others, run, vars
<1>2. QED
  BY <1>1 DEF Extract, postgres

\* Tables are made for the zones there are and the stations that may be asked for.
LEMMA TablesOf ==
  ASSUME TypeOK
  PROVE  DOMAIN registry.above \cup Stations \subseteq Targets
BY ForecastAssumption DEF TypeOK, Targets

\* The features of a row that inference keeps are the same wherever the range begins.
THEOREM FeaturesAreWindowFree == Spec => WindowFree
<1>1. ASSUME RunInv, [Next]_vars, file' # file, NEW x \in Targets,
             NEW t \in Inferred(TableOf(x, file', registry))
      PROVE  Feature(TableOf(x, file', registry), t) = Feature(TableOf(x, points, registry), t)
  <2> DEFINE lo == now - range'
             hi == now - 1
             T == TableOf(x, file', registry)
             P == TableOf(x, points, registry)
  <2>1. lo \in Int /\ hi \in Int /\ points \subseteq Reading
    <3>1. TypeOK /\ TypeOK'
      BY <1>1, TypeStep DEF RunInv
    <3>2. QED
      BY <3>1, TimesFinite DEF TypeOK
  <2>2. file' = Between(points, lo, hi)
    <3>1. now \in Int /\ \A r \in points : r.at \in Int
      BY <1>1, TimesFinite DEF RunInv, TypeOK, Reading
    <3>2. Window(range') = Between(points, lo, hi)
      BY <3>1 DEF Window, Between
    <3>3. QED
      BY <1>1, <3>2, OnlyExtract
  <2> HIDE DEF lo, hi
  <2>3. t \in T.rows /\ MaxLag <= Index(T.rows, t)
    BY <1>1 DEF Inferred
  <2>4. Index(T.rows, t) \in Int /\ MaxLag \in Int
    <3>1. file' \subseteq Reading
      BY <2>1, <2>2 DEF Between
    <3>2. T.rows \subseteq Times
      BY <3>1, TableRows, Zenon
    <3> HIDE DEF T
    <3>3. QED
      BY <3>2, IndexType, FeatureAssumption
  <2>5. T.has = P.has /\ P.has \subseteq Distances
    <3>1. P.has \subseteq Distances
      BY <2>1, TableRows, Zenon
    <3>2. QED
      BY <3>1, SameHas
  <2>6. ASSUME NEW c \in Columns(T)
        PROVE  Shifted(T, c[1], t, c[2]) = Shifted(P, c[1], t, c[2])
    <3>1. c[1] \in Distances /\ c[2] \in Nat /\ c[2] <= MaxLag
      BY <2>5, FeatureAssumption DEF Columns
    <3>2. c[2] <= Index(T.rows, t)
      BY <2>3, <2>4, <3>1
    <3>3. QED
      BY <2>1, <2>2, <2>3, <3>1, <3>2, ShiftedBetween
  <2>7. Columns(T) = Columns(P)
    BY <2>5 DEF Columns
  <2> HIDE DEF T, P
  <2>8. Feature(T, t) = Feature(P, t)
    BY <2>6, <2>7 DEF Feature
  <2>9. QED
    BY <2>8 DEF T, P
<1>2. RunInv /\ [Next]_vars =>
        [file' # file =>
           \A x \in DOMAIN registry.above \cup Stations :
             \A t \in Inferred(TableOf(x, file', registry)) :
               Feature(TableOf(x, file', registry), t) =
                 Feature(TableOf(x, points, registry), t)]_vars
  BY <1>1, TablesOf DEF RunInv
<1>3. QED
  BY <1>2, RunInvariant, PTL DEF Spec, WindowFree

\* The features of a row are the same whatever is measured after it.
THEOREM FeaturesAreOfThePast == Spec => NoLookAhead
<1>1. ASSUME RunInv, [Next]_vars, NEW x \in Targets,
             NEW t \in TableOf(x, file', registry).rows
      PROVE  Feature(TableOf(x, file', registry), t) =
               Feature(TableOf(x, {r \in file' : r.at <= t}, registry), t)
  <2> DEFINE T == TableOf(x, file', registry)
             P == TableOf(x, Between(file', 0, t), registry)
  <2>1. file' \subseteq Reading
    BY <1>1, TypeStep DEF TypeOK
  <2>2. t \in Int /\ 0 <= t
    BY <2>1, TableRows, TimesFinite
  <2>3. {r \in file' : r.at <= t} = Between(file', 0, t)
    BY <2>1, TimesFinite DEF Between, Reading
  <2>4. t \in P.rows /\ P.has = T.has /\ T.has \subseteq Distances
    <3>1. P.rows = {u \in T.rows : 0 <= u /\ u <= t}
      BY <2>1, <2>2, TableBetween
    <3>2. P.has = T.has
      BY SameHas
    <3>3. T.has \subseteq Distances
      BY <2>1, TableRows, Zenon
    <3> HIDE DEF T, P
    <3>4. t \in T.rows
      BY <1>1 DEF T
    <3>5. QED
      BY <2>2, <3>1, <3>2, <3>3, <3>4
  <2>5. ASSUME NEW c \in Columns(T)
        PROVE  Shifted(P, c[1], t, c[2]) = Shifted(T, c[1], t, c[2])
    <3>1. c[1] \in Distances /\ c[2] \in Nat
      BY <2>4, FeatureAssumption DEF Columns
    <3>2. QED
      BY <2>1, <2>2, <2>4, <3>1, ShiftedBetween
  <2>6. Columns(T) = Columns(P)
    BY <2>4 DEF Columns
  <2> HIDE DEF T, P
  <2>7. Feature(T, t) = Feature(P, t)
    BY <2>5, <2>6 DEF Feature
  <2>8. QED
    BY <2>3, <2>7 DEF T, P
<1>2. RunInv /\ [Next]_vars =>
        [file' # file =>
           \A x \in DOMAIN registry.above \cup Stations :
             \A t \in TableOf(x, file', registry).rows :
               Feature(TableOf(x, file', registry), t) =
                 Feature(TableOf(x, {r \in file' : r.at <= t}, registry), t)]_vars
  BY <1>1, TablesOf DEF RunInv
<1>3. QED
  BY <1>2, RunInvariant, PTL DEF Spec, NoLookAhead

\* Of a table with the station of the longest lag, training keeps no row that inference
\* drops.
THEOREM TrainedRowsAreInferred == Spec => TrainedAreInferred
<1> DEFINE Fits(hs) ==
             \A x \in DOMAIN registry.above \cup Stations :
               LET T == TableOf(x, points, registry)
               IN  (\E d \in T.has : MaxLag \in LagConfig[d]) =>
                     Trained(T, hs) \subseteq Inferred(T)
<1>1. ASSUME RunInv, NEW hs
      PROVE  Fits(hs)
  BY <1>1, TrainedRows, TablesOf DEF RunInv, TypeOK
<1>2. RunInv => [plan = {} /\ plan' # {} => Fits(plan')]_vars
  <2> HIDE DEF Fits
  <2> QED
    BY <1>1
<1>3. QED
  BY <1>2, RunInvariant, PTL DEF Spec, TrainedAreInferred

-----------------------------------------------------------------------------
(* The range. *)

\* Times a sampling interval apart, over MaxLag + 1 intervals, are MaxLag + 1 rows.
LEMMA RowsInRange ==
  ASSUME NEW a \in Nat, NEW n \in Nat, (MaxLag + 1) * Sampling <= n, n <= a,
         NEW p \in 0..(Sampling - 1), NEW S, S \subseteq Times,
         \A k \in Nat : a - n <= p + k * Sampling /\ p + k * Sampling < a => p + k * Sampling \in S
  PROVE  \E t \in S : MaxLag <= Index(S, t)
<1> DEFINE at(k) == p + k * Sampling
           b == a - (MaxLag + 1) * Sampling
           Late == {k \in Nat : b <= at(k)}
<1>1. Sampling \in Nat /\ 1 <= Sampling /\ MaxLag \in Nat /\ p \in Int /\ 0 <= p /\ p < Sampling
  BY ForecastAssumption, FeatureAssumption
<1>2. \A k \in Int : k * Sampling \in Int
  BY <1>1
<1>3. (MaxLag + 1) * Sampling = MaxLag * Sampling + Sampling
  BY <1>1
<1>4. b \in Nat /\ a - n <= b
  <2>1. (MaxLag + 1) * Sampling \in Int
    BY <1>1
  <2>2. QED
    BY <2>1
<1>5. \A i, j \in Nat : i <= j => i * Sampling <= j * Sampling
  <2>1. SUFFICES ASSUME NEW i \in Nat, NEW j \in Nat, i <= j
                 PROVE  i * Sampling <= j * Sampling
    OBVIOUS
  <2>2. (j - i) \in Nat /\ 0 <= (j - i) * Sampling
    BY <1>1, <2>1
  <2>3. (j - i) * Sampling = j * Sampling - i * Sampling
    BY <1>1
  <2>4. QED
    BY <1>2, <2>2, <2>3
<1>6. \A i, j \in Nat : i < j => i * Sampling < j * Sampling
  <2>1. SUFFICES ASSUME NEW i \in Nat, NEW j \in Nat, i < j
                 PROVE  i * Sampling < j * Sampling
    OBVIOUS
  <2>2. (i + 1) * Sampling = i * Sampling + Sampling
    BY <1>1
  <2>3. (i + 1) * Sampling <= j * Sampling
    BY <1>5, <2>1
  <2>4. QED
    BY <1>1, <1>2, <2>2, <2>3
<1>7. PICK k \in Nat : b <= at(k) /\ at(k) < b + Sampling
  <2>1. b \in Late
    <3>1. b <= b * Sampling
      <4>1. 0 <= b * (Sampling - 1)
        BY <1>1, <1>4
      <4>2. b * (Sampling - 1) = b * Sampling - b
        BY <1>1, <1>4
      <4>3. QED
        BY <1>2, <1>4, <4>1, <4>2
    <3>2. QED
      BY <1>1, <1>2, <1>4, <3>1
  <2>2. PICK k \in Late : \A i \in Late : k <= i
    <3>1. Late \subseteq Nat
      OBVIOUS
    <3> HIDE DEF Late
    <3>2. QED
      BY <2>1, <3>1, Smallest
  <2>3. at(k) < b + Sampling
    <3>1. CASE k = 0
      <4>1. 0 * Sampling = 0
        BY <1>1
      <4>2. QED
        BY <1>1, <1>4, <3>1, <4>1
    <3>2. CASE k # 0
      <4>1. k - 1 \in Nat /\ k - 1 \notin Late
        BY <2>2, <3>2
      <4>2. (k - 1) * Sampling = k * Sampling - Sampling
        BY <1>1
      <4>3. at(k - 1) < b
        BY <1>1, <1>2, <1>4, <4>1
      <4>4. QED
        BY <1>1, <1>2, <1>4, <4>2, <4>3
    <3>3. QED
      BY <3>1, <3>2
  <2>4. QED
    BY <2>2, <2>3
<1>8. \A j \in 0..MaxLag : at(k + j) \in S
  <2>1. SUFFICES ASSUME NEW j \in 0..MaxLag PROVE at(k + j) \in S
    OBVIOUS
  <2>2. (k + j) * Sampling = k * Sampling + j * Sampling
    BY <1>1
  <2>3. 0 * Sampling <= j * Sampling /\ j * Sampling <= MaxLag * Sampling
    BY <1>1, <1>5
  <2>4. 0 * Sampling = 0
    BY <1>1
  <2>5. b <= at(k + j)
    BY <1>1, <1>2, <1>4, <1>7, <2>2, <2>3, <2>4
  <2>6. at(k + j) < a
    <3>1. k * Sampling \in Int /\ j * Sampling \in Int /\ MaxLag * Sampling \in Int
      BY <1>1, <1>2
    <3>2. QED
      BY <1>1, <1>3, <1>4, <1>7, <2>2, <2>3, <3>1
  <2>7. k + j \in Nat /\ at(k + j) \in Int
    BY <1>1, <1>2
  <2>8. QED
    BY <1>4, <2>5, <2>6, <2>7
<1>9. \A i, j \in 0..MaxLag : i < j => at(k + i) < at(k + j)
  BY <1>1, <1>2, <1>6
<1> HIDE DEF at
<1> DEFINE U == {u \in S : u < at(k + MaxLag)}
           f == [j \in 0..(MaxLag - 1) |-> at(k + j)]
<1>10. \A i, j \in 0..(MaxLag - 1) : at(k + i) = at(k + j) => i = j
  <2>1. \A j \in 0..(MaxLag - 1) : j \in 0..MaxLag /\ at(k + j) \in Int
    BY <1>1, <1>8, TimesFinite
  <2>2. QED
    BY <1>1, <1>9, <2>1
<1>11. f \in Injection(0..(MaxLag - 1), U)
  <2>1. \A j \in 0..(MaxLag - 1) : at(k + j) \in U
    BY <1>1, <1>8, <1>9
  <2> HIDE DEF U
  <2>2. QED
    BY <1>10, <2>1 DEF Injection, IsInjective
<1>12. IsFiniteSet(U)
  BY TimesFinite, FS_Subset
<1>13. MaxLag <= Cardinality(U)
  <2> HIDE DEF U, f
  <2>1. Cardinality(0..(MaxLag - 1)) <= Cardinality(U)
    BY <1>11, <1>12, FS_Injection
  <2>2. Cardinality(0..(MaxLag - 1)) = MaxLag
    BY <1>1, FS_Interval
  <2>3. QED
    BY <2>1, <2>2
<1>14. MaxLag <= Index(S, at(k + MaxLag)) /\ at(k + MaxLag) \in S
  BY <1>1, <1>8, <1>13 DEF Index
<1>15. QED
  BY <1>14

\* The adjusted range is enough for a row of every zone with a regular sensor.
THEOREM RangeIsEnough == Spec => []EnoughForOneRow
<1>1. RunInv => EnoughForOneRow
  <2>1. SUFFICES ASSUME RunInv, pc = "zones", asked >= range, NEW z \in Zones, Regular(z)
                 PROVE  Inferred(Table(z)) # {}
    BY DEF EnoughForOneRow
  <2> DEFINE S == Table(z).rows
  <2>2. PICK s \in Sensors, p \in 0..(Sampling - 1) :
          /\ mapping.of[s] = z
          /\ \A k \in Times : LET t == p + k * Sampling
                              IN  asked - range <= t /\ t < asked => [device |-> s, at |-> t] \in file
    BY <2>1 DEF Regular
  <2>3. S = {r.at : r \in {r \in file : mapping.of[r.device] = z}}
    BY DEF Table, TableOf, ZoneTable
  <2>4. S \subseteq Times
    BY <2>1, <2>3 DEF RunInv, TypeOK, Reading
  <2>5. asked \in Nat /\ asked <= MaxTime /\ range \in Nat /\ (MaxLag + 1) * Sampling <= range
    <3>1. asked \in Nat /\ asked <= MaxTime /\ range \in Nat
      BY <2>1, TimesFinite DEF RunInv, TypeOK
    <3>2. QED
      BY <2>1, <3>1, FeatureAssumption, ForecastAssumption DEF RunInv, FileInv
  <2>6. ASSUME NEW k \in Nat, asked - range <= p + k * Sampling, p + k * Sampling < asked
        PROVE  p + k * Sampling \in S
    <3>1. k <= k * Sampling /\ k * Sampling \in Int
      <4>1. Sampling - 1 \in Nat
        BY ForecastAssumption
      <4>2. 0 <= k * (Sampling - 1) /\ k * (Sampling - 1) = k * Sampling - k
        BY <4>1, ForecastAssumption
      <4>3. QED
        BY <4>2, ForecastAssumption
    <3>2. k \in Times
      <4>1. p \in Int /\ 0 <= p /\ MaxTime \in Int
        BY ForecastAssumption
      <4>2. k <= MaxTime
        BY <2>5, <2>6, <3>1, <4>1
      <4>3. QED
        BY <4>1, <4>2 DEF Times
    <3>3. [device |-> s, at |-> p + k * Sampling] \in file
      BY <2>2, <2>6, <3>2
    <3>4. QED
      BY <2>2, <2>3, <3>3
  <2>7. \E t \in S : MaxLag <= Index(S, t)
    <3> HIDE DEF S
    <3> QED
      BY <2>1, <2>4, <2>5, <2>6, RowsInRange
  <2>8. QED
    BY <2>7, FeatureAssumption DEF Inferred
<1>2. QED
  BY <1>1, RunInvariant, PTL

-----------------------------------------------------------------------------
(* The model directory. *)

\* What is written last comes after a training that wrote all its models; of those files
\* the training has come to the end of, none is half written.
DirectoryInv ==
  /\ \A hs \in complete : hs \subseteq models
  /\ partial \subseteq models
  /\ trainer = "fit" => plan \ left \subseteq models \ partial
  /\ trainer \in {"columns", "config"} => plan \in complete /\ plan \cap partial = {}
  /\ trainer = "config" => columns /\ "columns" \notin torn
  /\ columns => complete # {}
  /\ config # {} => config \in complete
  /\ pc = "horizons" => complete # {}
  /\ intact => trainer = "idle" /\ config # {}
  /\ HorizonsWhole /\ Repaired

\* A step of the pipeline reads the directory.
LEMMA DirectoryRead ==
  ASSUME TypeOK, DirectoryInv, UNCHANGED <<directory, training>>,
         pc' = "horizons" => complete # {}, HorizonsWhole'
  PROVE  DirectoryInv'
BY DEF DirectoryInv, Repaired, Available, directory, training

LEMMA DirectoryStep ==
  ASSUME TypeOK, DirectoryInv, [Next]_vars
  PROVE  DirectoryInv'
<1> USE DEF run, directory, training, others
<1>1. CASE UNCHANGED vars
  BY <1>1, DirectoryRead DEF vars, DirectoryInv, HorizonsWhole
<1>2. CASE \/ Tick \/ (\E s \in Sensors, t \in Times : Report(s, t))
           \/ (\E g \in Registries : ChangeRegistry(g)) \/ Extract \/ Load \/ LoadZones
           \/ (\E x \in Targets : Zone(x)) \/ (\E h \in Horizons : LoadModel(h)) \/ Predict \/ Done
  <2> USE DEF Tick, Report, ChangeRegistry, Extract, Load, LoadZones, Zone, LoadModel, Predict,
        Done, EndRun, prediction
  <2>1. UNCHANGED <<directory, training>>
    BY <1>2
  <2>2. want' = want \/ want' = {}
    BY <1>2
  <2>3. pc' = "horizons" => pc = "horizons"
    BY <1>2
  <2>4. HorizonsWhole' /\ (pc' = "horizons" => complete # {})
    BY <2>1, <2>2, <2>3 DEF DirectoryInv, HorizonsWhole
  <2>5. QED
    BY <2>1, <2>4, DirectoryRead
<1>3. CASE ReadColumns
  BY <1>3, DirectoryRead DEF ReadColumns, EndRun, prediction, DirectoryInv, HorizonsWhole
<1>4. CASE ReadHorizons
  <2>1. complete # {} /\ UNCHANGED <<directory, training>> /\ pc' # "horizons"
    BY <1>4 DEF ReadHorizons, EndRun, DirectoryInv
  <2>2. want' = Available \/ want' = {}
    BY <1>4 DEF ReadHorizons, EndRun
  <2>3. Available \subseteq models /\ \E hs \in complete : hs \subseteq Available
    BY <2>1 DEF Available, DirectoryInv
  <2>4. HorizonsWhole'
    BY <2>1, <2>2, <2>3 DEF HorizonsWhole
  <2>5. QED
    BY <2>1, <2>4, DirectoryRead
<1>5. ASSUME NEW hs \in Trainings, Train(hs)
      PROVE  DirectoryInv'
  BY <1>5 DEF Train, DirectoryInv, HorizonsWhole, Repaired
<1>6. ASSUME NEW h \in Horizons, SaveModel(h)
      PROVE  DirectoryInv'
  <2>1. /\ UNCHANGED <<pc, want, columns, config, torn, plan, intact>>
        /\ trainer = "fit" /\ trainer' \in {"fit", "columns"} /\ ~intact
        /\ models \subseteq models' /\ complete \subseteq complete'
    BY <1>6 DEF SaveModel, DirectoryInv
  <2>2. plan \ left' \subseteq models' \ partial' /\ partial' \subseteq models'
    BY <1>6 DEF SaveModel, DirectoryInv
  <2>3. trainer' = "columns" => left' = {} /\ plan \in complete'
    BY <1>6 DEF SaveModel
  <2>4. \A hs \in complete' : hs \subseteq models'
    BY <1>6, <2>1, <2>2 DEF SaveModel, DirectoryInv
  <2>5. HorizonsWhole'
    BY <2>1 DEF DirectoryInv, HorizonsWhole
  <2>6. columns' => complete' # {}
    BY <2>1 DEF DirectoryInv
  <2>7. (config' # {} => config' \in complete') /\ (pc' = "horizons" => complete' # {})
    BY <2>1 DEF DirectoryInv
  <2>8. QED
    BY <2>1, <2>2, <2>3, <2>4, <2>5, <2>6, <2>7 DEF DirectoryInv, Repaired
<1>7. CASE WriteColumns
  <2>1. /\ UNCHANGED <<models, partial, complete, config, plan, want, pc, intact>>
        /\ trainer = "columns" /\ ~intact
    BY <1>7 DEF WriteColumns, DirectoryInv
  <2>2. /\ trainer' \in {"columns", "config"} /\ columns' \in {columns, TRUE}
        /\ trainer' = "config" => columns' /\ "columns" \notin torn'
    BY <1>7 DEF WriteColumns
  <2>3. plan \in complete /\ plan \cap partial = {}
    BY <2>1 DEF DirectoryInv
  <2>4. HorizonsWhole' /\ Repaired'
    BY <2>1 DEF DirectoryInv, HorizonsWhole, Repaired
  <2>5. QED
    BY <2>1, <2>2, <2>3, <2>4 DEF DirectoryInv
<1>8. CASE WriteConfig
  <2>1. /\ UNCHANGED <<models, partial, complete, columns, want, pc>>
        /\ plan \in complete /\ plan \cap partial = {}
        /\ columns /\ "columns" \notin torn /\ trainer = "config" /\ ~intact
    BY <1>8 DEF WriteConfig, DirectoryInv
  <2>2. plan # {} /\ plan \subseteq models /\ torn \subseteq {"columns", "config"}
    BY <2>1, ForecastAssumption DEF TypeOK, DirectoryInv
  <2>3. \/ config' = config /\ intact' = intact /\ trainer' = "config" /\ plan' = plan
           /\ "columns" \notin torn'
        \/ config' = plan /\ intact' /\ trainer' = "idle" /\ torn' = {}
    <3>1. CASE "config" \notin torn
      BY <1>8, <2>1, <3>1 DEF WriteConfig
    <3>2. CASE "config" \in torn
      <4>1. torn = {"config"}
        BY <2>1, <2>2, <3>2
      <4>2. QED
        BY <1>8, <3>2, <4>1 DEF WriteConfig
    <3>3. QED
      BY <3>1, <3>2
  <2>4. Repaired'
    BY <2>1, <2>2, <2>3 DEF Repaired, Available
  <2>5. HorizonsWhole'
    BY <2>1 DEF DirectoryInv, HorizonsWhole
  <2>6. QED
    BY <2>1, <2>2, <2>3, <2>4, <2>5 DEF DirectoryInv
<1>9. CASE StopTraining
  BY <1>9 DEF StopTraining, DirectoryInv, HorizonsWhole, Repaired, Available
<1>10. QED
  BY <1>1, <1>2, <1>3, <1>4, <1>5, <1>6, <1>7, <1>8, <1>9 DEF Next, Pipeline, Trainer

THEOREM DirectoryInvariant == Spec => []DirectoryInv
<1>1. Init => DirectoryInv
  BY DEF Init, DirectoryInv, HorizonsWhole, Repaired
<1>2. RunInv /\ DirectoryInv /\ [Next]_vars => DirectoryInv'
  BY DirectoryStep DEF RunInv
<1>3. QED
  BY <1>1, <1>2, RunInvariant, PTL DEF Spec

\* A run has a file for all it predicts, and predicts no less than a whole training did.
THEOREM HorizonsAreWhole == Spec => []HorizonsWhole
<1>1. DirectoryInv => HorizonsWhole
  BY DEF DirectoryInv
<1>2. QED
  BY <1>1, DirectoryInvariant, PTL

\* A training that has gone through leaves a directory from which every run can read,
\* whatever those before it have left.
THEOREM TrainingRepairs == Spec => []Repaired
<1>1. DirectoryInv => Repaired
  BY DEF DirectoryInv
<1>2. QED
  BY <1>1, DirectoryInvariant, PTL

-----------------------------------------------------------------------------
(* The split of the training data. *)

\* Ten rows or more are always enough for the shares of 70, 20 and 10 per cent, also when
\* a product of floats comes out too small: "Split sizes too small" is never raised.
THEOREM SplitNeverTooSmall ==
  ASSUME NEW n \in Nat, n >= 10
  PROVE  Splits(n) = Share(n, 7) \X Share(n, 2)
<1>1. SUFFICES ASSUME NEW a \in Share(n, 7), NEW b \in Share(n, 2)
               PROVE  a > 0 /\ b > 0 /\ n - a - b > 0
  BY DEF Splits
<1>2. a \in Int /\ 10 * a <= 7 * n /\ 7 * n < 10 * a + 20
  BY DEF Share
<1>3. b \in Int /\ 10 * b <= 2 * n /\ 2 * n < 10 * b + 20
  BY DEF Share
<1>4. QED
  BY <1>2, <1>3
=============================================================================
