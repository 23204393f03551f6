----------------------- MODULE AnomalyDetectorProofs -----------------------
(* Proofs about AnomalyDetector, for every set of readings and parameters. *)
EXTENDS AnomalyDetector, SequenceTheorems, WellFoundedInduction, TLAPS

\* Accepting a value keeps the history a bounded sequence, and never makes it
\* shorter.
LEMMA KeepFact ==
  ASSUME NEW h \in Seq(Value), Len(h) <= HistorySize, NEW x \in Value
  PROVE  /\ Keep(h, x) \in Seq(Value)
         /\ Len(Keep(h, x)) <= HistorySize
         /\ Len(Keep(h, x)) >= Len(h)
<1> DEFINE g == Append(h, x)
<1>1. HistorySize \in Nat /\ HistorySize >= 1
  BY DetectorAssumption
<1>2. g \in Seq(Value) /\ Len(g) = Len(h) + 1
  BY AppendProperties
<1>3. CASE Len(g) > HistorySize
  <2>1. g # << >>
    BY <1>1, <1>2, <1>3, EmptySeq
  <2>2. Tail(g) \in Seq(Value) /\ Len(Tail(g)) = Len(g) - 1
    BY <1>2, <2>1, HeadTailProperties
  <2> QED BY <1>1, <1>2, <1>3, <2>2 DEF Keep
<1>4. CASE ~(Len(g) > HistorySize)
  BY <1>1, <1>2, <1>4 DEF Keep
<1> QED BY <1>3, <1>4

\* The same of a reading that is judged.
LEMMA AfterFact ==
  ASSUME NEW h \in Seq(Value), Len(h) <= HistorySize, NEW x \in Value
  PROVE  /\ After(h, x) \in Seq(Value)
         /\ Len(After(h, x)) <= HistorySize
         /\ Len(After(h, x)) >= Len(h)
  BY KeepFact, LenProperties DEF After

LEMMA TypeStep == TypeOK /\ [Next]_history => TypeOK'
<1> SUFFICES ASSUME TypeOK, [Next]_history PROVE TypeOK'
  OBVIOUS
<1>1. CASE \E s \in Sensors, x \in Value : Judge(s, x)
  <2>1. PICK s \in Sensors, x \in Value : Judge(s, x)
    BY <1>1
  <2>2. history[s] \in Seq(Value) /\ Len(history[s]) <= HistorySize
    BY DEF TypeOK
  <2>3. After(history[s], x) \in Seq(Value) /\ Len(After(history[s], x)) <= HistorySize
    BY <2>2, AfterFact
  <2> QED BY <2>1, <2>3 DEF TypeOK, Judge
<1>2. CASE Forget
  <2>1. << >> \in Seq(Value) /\ Len(<< >>) = 0 /\ 0 <= HistorySize
    BY DetectorAssumption, EmptySeq
  <2> QED BY <1>2, <2>1 DEF TypeOK, Forget
<1>3. CASE UNCHANGED history
  BY <1>3 DEF TypeOK
<1> QED BY <1>1, <1>2, <1>3 DEF Next

\* The detector remembers at most HistorySize reported values of each sensor
\* (recent_readings in anomaly.py).
THEOREM DetectorTypeCorrect == Spec => []TypeOK
<1>1. Init => TypeOK
  <2>1. << >> \in Seq(Value) /\ Len(<< >>) = 0 /\ 0 <= HistorySize
    BY DetectorAssumption, EmptySeq
  <2> QED BY <2>1 DEF Init, TypeOK
<1> QED BY <1>1, TypeStep, PTL DEF Spec

\* However long the service runs, no reading makes the detector forget: the
\* warm-up of a sensor happens once per life of the process (is_anomaly).
THEOREM WarmupHappensOnce == Spec => WarmupIsOnce
<1>1. TypeOK /\ [Next]_history =>
        [\A s \in Sensors : Len(history'[s]) >= Len(history[s]) \/ Forget]_history
  <2> SUFFICES ASSUME TypeOK, Next, NEW t \in Sensors, ~Forget
               PROVE  Len(history'[t]) >= Len(history[t])
    OBVIOUS
  <2>1. PICK s \in Sensors, x \in Value : Judge(s, x)
    BY DEF Next
  <2>2. \A u \in Sensors : history[u] \in Seq(Value) /\ Len(history[u]) <= HistorySize
    BY DEF TypeOK
  <2>3. Len(After(history[s], x)) >= Len(history[s])
    BY <2>2, AfterFact
  <2>4. CASE s = t
    BY <2>1, <2>3, <2>4 DEF Judge, TypeOK
  <2>5. CASE s # t
    <3>1. history'[t] = history[t]
      BY <2>1, <2>5 DEF Judge, TypeOK
    <3> QED BY <2>2, <3>1, LenProperties
  <2> QED BY <2>4, <2>5
<1> QED BY <1>1, DetectorTypeCorrect, PTL DEF Spec, WarmupIsOnce
-----------------------------------------------------------------------------
(* Sums. The induction theorems of the library take a predicate; a least       *)
(* counterexample, which is a member of a set, needs none.                     *)

\* What holds of 0 and of the successor of each number of which it holds is true of
\* every number.
LEMMA NatInduct ==
  ASSUME NEW T, 0 \in T, \A n \in Nat : n \in T => n + 1 \in T
  PROVE  Nat \subseteq T
<1> SUFFICES ASSUME Nat \ T # {} PROVE FALSE
  OBVIOUS
<1>1. PICK R : IsWellFoundedOn(R, Nat) /\ \A x, y \in Nat : x < y => <<x, y>> \in R
  <2>1. \A x, y \in Nat : x < y => <<x, y>> \in OpToRel(<, Nat)
    BY DEF OpToRel
  <2> QED
    BY <2>1, NatLessThanWellFounded
<1>2. PICK n \in Nat \ T : \A m \in Nat \ T : <<m, n>> \notin R
  <2>1. Nat \ T \subseteq Nat /\ IsWellFoundedOn(R, Nat)
    BY <1>1
  <2> QED
    BY <2>1, WFMin, Zenon
<1>3. n # 0 /\ n - 1 \in Nat /\ n - 1 < n
  BY <1>2
<1>4. n - 1 \in T
  BY <1>1, <1>2, <1>3
<1> QED
  BY <1>2, <1>3, <1>4

\* The sums of the beginnings of a sequence of integers: one more term at each.
Sums(h, g) ==
  /\ g \in [0..Len(h) -> Int]
  /\ g[0] = 0
  /\ \A i \in 1..Len(h) : g[i] = g[i - 1] + h[i]

LEMMA SumsExist == ASSUME NEW h \in Seq(Int) PROVE \E g : Sums(h, g)
<1> DEFINE N == Len(h)
           Good(n, g) == g[0] = 0 /\ \A i \in 1..n : g[i] = g[i - 1] + h[i]
           T == {n \in Nat : n <= N => \E g \in [0..n -> Int] : Good(n, g)}
<1>1. N \in Nat /\ \A i \in 1..N : h[i] \in Int
  OBVIOUS
<1>2. 0 \in T
  <2>1. [i \in 0..0 |-> 0] \in [0..0 -> Int] /\ Good(0, [i \in 0..0 |-> 0])
    OBVIOUS
  <2> QED
    BY <2>1
<1>3. ASSUME NEW n \in Nat, n \in T PROVE n + 1 \in T
  <2> SUFFICES ASSUME n + 1 <= N PROVE \E g \in [0..n + 1 -> Int] : Good(n + 1, g)
    OBVIOUS
  <2>1. PICK g \in [0..n -> Int] : Good(n, g)
    <3>1. n <= N
      BY <1>1
    <3> HIDE DEF Good, N
    <3> QED
      BY <1>3, <3>1
  <2> DEFINE k == [i \in 0..n + 1 |-> IF i = n + 1 THEN g[n] + h[n + 1] ELSE g[i]]
  <2>2. k \in [0..n + 1 -> Int]
    BY <1>1
  <2>3. Good(n + 1, k)
    BY <2>1
  <2> QED
    BY <2>2, <2>3
<1>4. N \in T
  <2> HIDE DEF T, N
  <2> QED
    BY <1>1, <1>2, <1>3, NatInduct
<1> QED
  BY <1>1, <1>4 DEF Sums

\* SumOf is the last of them.
LEMMA SumOfIs ==
  ASSUME NEW h \in Seq(Int)
  PROVE  \E g : Sums(h, g) /\ SumOf(h) = g[Len(h)]
<1> DEFINE N == Len(h)
           Step(f) == [i \in 0..N |-> IF i = 0 THEN 0 ELSE f[i - 1] + h[i]]
           sum == CHOOSE f : f = Step(f)
<1>1. N \in Nat /\ \A i \in 1..N : h[i] \in Int
  OBVIOUS
<1>2. PICK g : Sums(h, g)
  BY SumsExist
<1>3. g = Step(g)
  BY <1>1, <1>2 DEF Sums
<1>4. sum = Step(sum)
  BY <1>3, Zenon
<1>5. sum = g
  <2>1. sum = [i \in 0..N |-> IF i = 0 THEN 0 ELSE sum[i - 1] + h[i]]
    BY <1>4
  <2> DEFINE T == {n \in Nat : n <= N => sum[n] = g[n]}
  <2> HIDE DEF sum
  <2>2. 0 \in T
    BY <1>1, <1>2, <2>1 DEF Sums
  <2>3. ASSUME NEW n \in Nat, n \in T PROVE n + 1 \in T
    BY <1>1, <1>2, <2>1, <2>3 DEF Sums
  <2>4. Nat \subseteq T
    <3> HIDE DEF T
    <3> QED
      BY <2>2, <2>3, NatInduct
  <2>5. \A i \in 0..N : sum[i] = g[i]
    BY <1>1, <2>4
  <2>6. g = [i \in 0..N |-> g[i]] /\ sum = [i \in 0..N |-> sum[i]]
    BY <1>2, <2>1 DEF Sums
  <2> QED
    BY <2>5, <2>6
<1>6. SumOf(h) = sum[N]
  BY DEF SumOf
<1> QED
  BY <1>2, <1>5, <1>6

\* A sum depends on the terms only: of equal ones it is their number of times the term.
LEMMA SumOfConstant ==
  ASSUME NEW h \in Seq(Int), NEW v \in Int, \A i \in 1..Len(h) : h[i] = v
  PROVE  SumOf(h) = Len(h) * v
<1>1. PICK g : Sums(h, g) /\ SumOf(h) = g[Len(h)]
  BY SumOfIs
<1> DEFINE T == {n \in Nat : n <= Len(h) => g[n] = n * v}
<1>2. Len(h) \in Nat
  OBVIOUS
<1>3. 0 \in T
  BY <1>1 DEF Sums
<1>4. ASSUME NEW n \in Nat, n \in T PROVE n + 1 \in T
  <2> SUFFICES ASSUME n + 1 <= Len(h) PROVE g[n + 1] = (n + 1) * v
    OBVIOUS
  <2>1. g[n] = n * v
    BY <1>2, <1>4
  <2>2. n + 1 \in 1..Len(h) /\ (n + 1) - 1 = n
    BY <1>2
  <2>3. g[n + 1] = g[n] + v
    BY <1>1, <2>2 DEF Sums
  <2> QED
    BY <2>1, <2>3
<1>5. Len(h) \in T
  <2> HIDE DEF T
  <2> QED
    BY <1>2, <1>3, <1>4, NatInduct
<1> QED
  BY <1>1, <1>2, <1>5

-----------------------------------------------------------------------------
(* The remembered readings are accepted again.                                 *)

\* A square is not negative, and the one of another number than zero is positive.
LEMMA Squares ==
  ASSUME NEW a \in Int
  PROVE  Square(a) \in Nat /\ (a # 0 => Square(a) > 0)
<1>1. a >= 0 => a * a >= 0
  OBVIOUS
<1>2. a <= 0 => a * a >= 0
  OBVIOUS
<1>3. a # 0 => a * a # 0
  OBVIOUS
<1> QED
  BY <1>1, <1>2, <1>3 DEF Square

\* Products and differences of integers are integers.
LEMMA IntegerType ==
  ASSUME NEW a \in Int, NEW b \in Int, NEW c \in Int
  PROVE  a * b \in Int /\ a - c \in Int /\ a + c \in Int
OBVIOUS

\* (n - 1) D + D is n D.
LEMMA OwnSquare ==
  ASSUME NEW n \in Int, NEW D \in Int
  PROVE  Square((n - 1) * D + D) = Square(n) * Square(D)
<1>1. (n - 1) * D + D = n * D
  OBVIOUS
<1>2. (n * D) * (n * D) = (n * n) * (D * D)
  OBVIOUS
<1> QED
  BY <1>1, <1>2 DEF Square

\* What is left after a division by n - 1.
LEMMA DividedOnce ==
  ASSUME NEW n \in Int, n > 1, NEW D \in Int, NEW B \in Int,
         Square(n - 1) * B + n * D >= Square(n) * D
  PROVE  n * D <= (n - 1) * B
<1> DEFINE x == (n - 1) * B - n * D
<1>1. x \in Int
  OBVIOUS
<1>2. (n - 1) * x = Square(n - 1) * B + n * D - Square(n) * D
  BY DEF Square
<1>3. (n - 1) * x >= 0
  BY <1>2 DEF Square
<1>4. x >= 0
  <2> HIDE DEF x
  <2>1. SUFFICES ASSUME x <= -1 PROVE (n - 1) * x < 0
    BY <1>1, <1>3
  <2>2. (n - 1) * x <= (n - 1) * (-1)
    BY <1>1, <2>1
  <2> QED
    BY <1>1, <2>2
<1> QED
  BY <1>4

\* Samuelson's inequality: no member of n numbers is further from their mean than
\* sqrt(n - 1) of their deviations. With d_i = n h_i - S, of sum 0, the squares of
\* (n - 1) d_i + d_k sum up to (n - 1)^2 SUM d_i^2 + n d_k^2, and the one of i = k alone
\* is n^2 d_k^2.
LEMMA Samuelson ==
  ASSUME NEW h \in Seq(Int), NEW k \in 1..Len(h)
  PROVE  Len(h) * Square(Len(h) * h[k] - SumOf(h))
           <= (Len(h) - 1) * SumOf([i \in 1..Len(h) |-> Square(Len(h) * h[i] - SumOf(h))])
<1> DEFINE n == Len(h)
           S == SumOf(h)
           d(i) == n * h[i] - S
           q == [i \in 1..n |-> Square(d(i))]
           D == d(k)
<1>1. n \in Nat /\ n >= 1 /\ k \in 1..n /\ \A i \in 1..n : h[i] \in Int
  OBVIOUS
<1>2. PICK g : Sums(h, g) /\ S = g[n]
  BY SumOfIs
<1>3. /\ g \in [0..n -> Int] /\ g[0] = 0 /\ \A i \in 1..n : g[i] = g[i - 1] + h[i]
      /\ S \in Int
  BY <1>1, <1>2 DEF Sums
<1>4. \A i \in 1..n : d(i) \in Int /\ d(i) = n * h[i] - S
  <2> SUFFICES ASSUME NEW i \in 1..n PROVE d(i) \in Int
    OBVIOUS
  <2>1. n \in Int /\ S \in Int /\ h[i] \in Int
    BY <1>1, <1>3
  <2> HIDE DEF n, S
  <2>2. n * h[i] \in Int
    BY <2>1
  <2> QED
    BY <2>1, <2>2, IntegerType, Zenon
<1>5. \A i \in 1..n : Square(d(i)) \in Nat
  <2> HIDE DEF n, d
  <2> QED
    BY <1>4, Squares
<1>6. q \in Seq(Int) /\ Len(q) = n /\ \A i \in 1..n : q[i] = Square(d(i))
  <2> HIDE DEF n, d
  <2> QED
    BY <1>1, <1>5
<1>7. PICK b : Sums(q, b) /\ SumOf(q) = b[n]
  <2> HIDE DEF q
  <2> QED
    BY <1>6, SumOfIs
<1>8. /\ b \in [0..n -> Int] /\ b[0] = 0
      /\ \A i \in 1..n : b[i] = b[i - 1] + Square(d(i))
  <2> HIDE DEF q, d, n
  <2> QED
    BY <1>6, <1>7 DEF Sums
<1> DEFINE W(m) == Square(n - 1) * b[m] + 2 * (n - 1) * D * (n * g[m] - m * S)
                     + m * Square(D)
<1>9. D \in Int /\ Square(D) \in Nat
  BY <1>1, <1>4, <1>5
<1>10. /\ \A i \in 0..n : W(i) \in Int
       /\ W(0) = 0
  <2>1. ASSUME NEW i \in 0..n PROVE W(i) \in Int
    <3>1. b[i] \in Int /\ g[i] \in Int /\ i \in Int /\ n \in Int
      BY <1>1, <1>3, <1>8
    <3> HIDE DEF n, S, D
    <3>2. Square(n - 1) \in Int /\ n * g[i] - i * S \in Int /\ 2 * (n - 1) * D \in Int
      BY <1>3, <1>9, <3>1 DEF Square
    <3>3. /\ Square(n - 1) * b[i] \in Int
          /\ 2 * (n - 1) * D * (n * g[i] - i * S) \in Int
          /\ i * Square(D) \in Int
      <4>1. Square(D) \in Int /\ i \in Int /\ b[i] \in Int
        BY <1>9, <3>1
      <4> QED
        BY <3>2, <4>1, IntegerType, Zenon
    <3> QED
      BY <3>3
  <2>2. W(0) = 0
    <3> HIDE DEF n, S, D
    <3>1. n * g[0] - 0 * S = 0 /\ 0 * Square(D) = 0
      BY <1>1, <1>3, <1>9
    <3>2. Square(n - 1) * b[0] = 0 /\ 2 * (n - 1) * D * 0 = 0
      BY <1>1, <1>8, <1>9 DEF Square
    <3> QED
      BY <3>1, <3>2
  <2> QED
    BY <2>1, <2>2
<1>11. ASSUME NEW m \in Nat, m + 1 <= n
       PROVE  /\ W(m + 1) = W(m) + Square((n - 1) * d(m + 1) + D)
              /\ Square((n - 1) * d(m + 1) + D) \in Nat
              /\ m + 1 = k => Square((n - 1) * d(m + 1) + D) = Square(n) * Square(D)
  <2> DEFINE e == d(m + 1)
  <2>1. m + 1 \in 1..n /\ (m + 1) - 1 = m /\ m \in 0..n
    BY <1>1, <1>11
  <2>2. /\ g[m] \in Int /\ b[m] \in Int /\ h[m + 1] \in Int /\ e \in Int
        /\ g[m + 1] = g[m] + h[m + 1] /\ b[m + 1] = b[m] + Square(e)
        /\ e = n * h[m + 1] - S
    <3> HIDE DEF n, d
    <3> QED
      BY <1>1, <1>3, <1>4, <1>8, <2>1
  <2>3. m + 1 = k => e = D
    OBVIOUS
  <2> HIDE DEF n, S, d, D, e
  <2>4. n * g[m + 1] - (m + 1) * S = (n * g[m] - m * S) + e
    <3>1. n \in Int /\ m \in Int /\ S \in Int /\ g[m] \in Int /\ h[m + 1] \in Int
      BY <1>1, <1>3, <2>2
    <3>2. n * (g[m] + h[m + 1]) - (m + 1) * S = (n * g[m] - m * S) + (n * h[m + 1] - S)
      BY <3>1
    <3>3. e = n * h[m + 1] - S /\ g[m + 1] = g[m] + h[m + 1]
      BY <2>2
    <3> QED
      BY <3>2, <3>3, Zenon
  <2>5. n * g[m] - m * S \in Int /\ n - 1 \in Int
    <3>1. n \in Int /\ m \in Int /\ 1 \in Int
      BY <1>1
    <3> QED
      BY <1>3, <2>2, <3>1, IntegerType, Zenon
  <2>6. W(m + 1) = W(m) + Square((n - 1) * e + D)
    <3> DEFINE A == n * g[m] - m * S
    <3>1. W(m + 1) = Square(n - 1) * (b[m] + Square(e)) + 2 * (n - 1) * D * (A + e)
                       + (m + 1) * Square(D)
      BY <2>2, <2>4
    <3>2. A \in Int
      BY <2>5
    <3> HIDE DEF A
    <3>3. Square(n - 1) * (b[m] + Square(e)) + 2 * (n - 1) * D * (A + e) + (m + 1) * Square(D)
            = (Square(n - 1) * b[m] + 2 * (n - 1) * D * A + m * Square(D))
                + Square((n - 1) * e + D)
      <4> DEFINE p == n - 1
                 B == b[m]
      <4>1. p \in Int /\ D \in Int /\ B \in Int /\ A \in Int /\ e \in Int /\ m \in Int
        BY <1>9, <2>2, <2>5, <3>2
      <4> HIDE DEF p, B
      <4>2. Square(p) * (B + Square(e)) + 2 * p * D * (A + e) + (m + 1) * Square(D)
              = (Square(p) * B + 2 * p * D * A + m * Square(D)) + Square(p * e + D)
        BY <4>1 DEF Square
      <4> QED
        BY <4>2 DEF p, B
    <3> QED
      BY <3>1, <3>3 DEF A
  <2>7. Square((n - 1) * e + D) \in Nat
    <3>1. (n - 1) * e + D \in Int
      BY <1>1, <1>9, <2>2
    <3> QED
      BY <3>1, Squares
  <2>8. m + 1 = k => Square((n - 1) * e + D) = Square(n) * Square(D)
    BY <1>1, <1>9, <2>3, OwnSquare
  <2> QED
    BY <2>6, <2>7, <2>8 DEF e
<1> DEFINE T == {m \in Nat : m <= n => /\ W(m) >= 0
                                       /\ m >= k => W(m) >= Square(n) * Square(D)}
<1>12. Square(n) * Square(D) \in Int
  <2> HIDE DEF n, D
  <2> QED
    BY <1>1, <1>9 DEF Square
<1>13. n \in T
  <2> DEFINE c == Square(n) * Square(D)
  <2> HIDE DEF W, c, n, D, d
  <2>1. 0 \in T
    BY <1>1, <1>10
  <2>2. ASSUME NEW m \in Nat, m \in T PROVE m + 1 \in T
    <3> DEFINE x == Square((n - 1) * d(m + 1) + D)
    <3> SUFFICES ASSUME m + 1 <= n
                 PROVE  W(m + 1) >= 0 /\ (m + 1 >= k => W(m + 1) >= c)
      BY DEF c
    <3>1. W(m + 1) = W(m) + x /\ x \in Nat /\ (m + 1 = k => x = c)
      BY <1>11 DEF c
    <3>2. W(m) >= 0 /\ (m >= k => W(m) >= c)
      BY <1>1, <2>2 DEF c
    <3>3. W(m) \in Int /\ c \in Int
      BY <1>1, <1>10, <1>12 DEF c
    <3> HIDE DEF x
    <3> QED
      BY <1>1, <3>1, <3>2, <3>3
  <2>3. Nat \subseteq T
    <3> HIDE DEF T
    <3> QED
      BY <2>1, <2>2, NatInduct
  <2> QED
    BY <1>1, <2>3
<1>14. Square(n - 1) * b[n] + n * Square(D) >= Square(n) * Square(D)
  <2>1. W(n) >= Square(n) * Square(D)
    <3> HIDE DEF W, n, D
    <3> QED
      BY <1>1, <1>13
  <2>2. n * g[n] - n * S = 0
    <3> HIDE DEF n, S
    <3> QED
      BY <1>1, <1>2, <1>3
  <2>3. 2 * (n - 1) * D * 0 = 0 /\ Square(n - 1) * b[n] \in Int /\ n * Square(D) \in Int
    <3> HIDE DEF n, D
    <3> QED
      BY <1>1, <1>8, <1>9 DEF Square
  <2> HIDE DEF n, D, S
  <2>4. W(n) = Square(n - 1) * b[n] + 0 + n * Square(D)
    BY <2>2, <2>3
  <2> QED
    BY <2>1, <2>3, <2>4
<1>15. n * Square(D) <= (n - 1) * b[n]
  <2>1. b[n] \in Int
    BY <1>1, <1>8
  <2>2. CASE n = 1
    <3>1. D = 0
      <4>1. k = 1 /\ g[1] = g[0] + h[1] /\ h[1] \in Int /\ g[0] = 0
        BY <1>1, <1>3, <2>2
      <4>2. D = 1 * h[1] - h[1]
        BY <1>1, <1>2, <1>4, <2>2, <4>1
      <4> QED
        BY <4>1, <4>2
    <3>2. (n - 1) * b[n] = 0 /\ n * Square(D) = 0
      <4> HIDE DEF n, D
      <4> QED
        BY <2>1, <2>2, <3>1 DEF Square
    <3> QED
      BY <3>2
  <2>3. CASE n > 1
    <3>1. n \in Int /\ Square(D) \in Int
      BY <1>1, <1>9
    <3> HIDE DEF n, D
    <3> QED
      BY <1>14, <2>1, <2>3, <3>1, DividedOnce, Zenon
  <2>4. n = 1 \/ n > 1
    <3> HIDE DEF n
    <3> QED
      BY <1>1
  <2> QED
    BY <2>2, <2>3, <2>4
<1> QED
  BY <1>7, <1>15

\* The deviations of a sequence of integers, and the sum of their squares.
LEMMA DeviationsType ==
  ASSUME NEW h \in Seq(Int)
  PROVE  /\ SumOf(h) \in Int
         /\ SumOf([i \in 1..Len(h) |-> Square(Len(h) * h[i] - SumOf(h))]) \in Nat
<1> DEFINE n == Len(h)
           q == [i \in 1..n |-> Square(n * h[i] - SumOf(h))]
<1>1. n \in Nat /\ \A i \in 1..n : h[i] \in Int
  OBVIOUS
<1>2. SumOf(h) \in Int
  <2>1. PICK g : Sums(h, g) /\ SumOf(h) = g[n]
    BY SumOfIs
  <2> QED
    BY <1>1, <2>1 DEF Sums
<1>3. q \in Seq(Nat) /\ Len(q) = n
  <2>1. ASSUME NEW i \in 1..n PROVE Square(n * h[i] - SumOf(h)) \in Nat
    <3>1. h[i] \in Int /\ n \in Int
      BY <1>1
    <3> HIDE DEF n
    <3>2. n * h[i] - SumOf(h) \in Int
      BY <1>2, <3>1, IntegerType
    <3> QED
      BY <3>2, Squares
  <2> QED
    BY <1>1, <2>1
<1>4. SumOf(q) \in Nat
  <2> HIDE DEF q
  <2>1. PICK g : Sums(q, g) /\ SumOf(q) = g[Len(q)]
    BY <1>3, SumOfIs
  <2> DEFINE T == {m \in Nat : m <= n => g[m] \in Nat}
  <2> HIDE DEF n
  <2>2. 0 \in T
    BY <2>1 DEF Sums
  <2>3. ASSUME NEW m \in Nat, m \in T PROVE m + 1 \in T
    <3> SUFFICES ASSUME m + 1 <= n PROVE g[m + 1] \in Nat
      OBVIOUS
    <3>1. m + 1 \in 1..n /\ (m + 1) - 1 = m /\ g[m] \in Nat
      BY <1>1, <2>3
    <3>2. q[m + 1] \in Nat
      BY <1>3, <3>1
    <3> QED
      BY <1>3, <2>1, <3>1, <3>2 DEF Sums
  <2>4. n \in T
    <3> HIDE DEF T
    <3> QED
      BY <1>1, <2>2, <2>3, NatInduct
  <2> QED
    BY <1>1, <1>3, <2>1, <2>4
<1> QED
  BY <1>2, <1>4

\* The set of a history's values.
LEMMA ValuesOf ==
  ASSUME NEW h \in Seq(Value)
  PROVE  /\ \A i \in 1..Len(h) : h[i] \in ToSet(h)
         /\ \A x \in ToSet(h) : \E i \in 1..Len(h) : h[i] = x
<1>1. DOMAIN h = 1..Len(h)
  BY LenProperties
<1> QED
  BY <1>1 DEF ToSet

\* The values of a history without NaN are integers.
LEMMA HistoryOfIntegers ==
  ASSUME NEW h \in Seq(Value), NaN \notin ToSet(h)
  PROVE  h \in Seq(Int)
<1>1. Len(h) \in Nat /\ h \in [1..Len(h) -> Value]
  BY LenProperties
<1>2. ASSUME NEW i \in 1..Len(h) PROVE h[i] \in Int
  <2>1. h[i] \in Value /\ h[i] # NaN
    BY <1>1, ValuesOf
  <2> QED
    BY <2>1, DetectorAssumption DEF Value
<1>3. h \in [1..Len(h) -> Int]
  BY <1>1, <1>2
<1> QED
  BY <1>1, <1>3

\* A remembered reading is accepted again if the threshold squared is at least one less
\* than the readings remembered, as it is in anomaly.py: 3.0 * 3.0 and 10 - 1.
LEMMA MembersAreNoOutliers ==
  ASSUME Square(ZThreshold) >= HistorySize - 1,
         NEW h \in Seq(Value), Len(h) <= HistorySize, NEW x \in ToSet(h)
  PROVE  ~Outlier(h, x)
<1>1. CASE NaN \in ToSet(h)
  BY <1>1 DEF Outlier
<1>2. CASE NaN \notin ToSet(h)
  <2>1. h \in Seq(Int)
    BY <1>2, HistoryOfIntegers
  <2>2. PICK k \in 1..Len(h) : h[k] = x
    BY ValuesOf
  <2> DEFINE n == Len(h)
             a == n * Square(n * x - SumOf(h))
             Q == SumOf([i \in 1..n |-> Square(n * h[i] - SumOf(h))])
             zz == Square(ZThreshold)
  <2>3. a <= (n - 1) * Q
    BY <2>1, <2>2, Samuelson
  <2>4. Q \in Nat
    BY <2>1, DeviationsType
  <2>5. zz \in Int /\ n \in Nat /\ n >= 1 /\ zz >= n - 1 /\ a \in Int
    <3>1. n \in Nat /\ n >= 1 /\ n <= HistorySize /\ HistorySize \in Nat /\ x \in Int
      BY <2>1, <2>2, DetectorAssumption
    <3>2. zz \in Nat
      BY DetectorAssumption, Squares
    <3>3. zz >= n - 1
      <4> HIDE DEF n
      <4> QED
        BY <3>1, <3>2
    <3>4. SumOf(h) \in Int
      BY <2>1, DeviationsType
    <3>5. a \in Int
      <4> HIDE DEF n
      <4>1. n * x - SumOf(h) \in Int
        BY <3>1, <3>4
      <4>2. Square(n * x - SumOf(h)) \in Nat
        BY <4>1, Squares
      <4> QED
        BY <3>1, <4>2
    <3> QED
      BY <3>1, <3>2, <3>3, <3>5
  <2>6. ~(a > zz * Q)
    <3> HIDE DEF a, Q, zz, n
    <3>1. (n - 1) * Q <= zz * Q
      <4>1. (zz - (n - 1)) * Q >= 0
        BY <2>4, <2>5
      <4> QED
        BY <2>4, <2>5, <4>1
    <3> QED
      BY <2>3, <2>4, <2>5, <3>1
  <2> QED
    BY <2>6 DEF Outlier
<1> QED
  BY <1>1, <1>2

-----------------------------------------------------------------------------
(* Flat histories.                                                             *)

\* Against a flat history every other number is an outlier.
LEMMA OthersAreOutliers ==
  ASSUME NEW h \in Seq(Value), NEW v \in Readings, Flat(h, v), NEW x \in Readings, x # v
  PROVE  Flagged(h, x)
<1> DEFINE n == Len(h)
           q == [i \in 1..n |-> Square(n * h[i] - SumOf(h))]
<1>1. v \in Int /\ x \in Int /\ NaN \notin ToSet(h) \cup {x} /\ n >= Warmup /\ Warmup >= 1
      /\ Warmup \in Int
  BY DetectorAssumption DEF Flat
<1>2. h \in Seq(Int) /\ n \in Nat
  BY <1>1, HistoryOfIntegers
<1>3. \A i \in 1..n : h[i] = v
  BY ValuesOf DEF Flat
<1>4. SumOf(h) = n * v
  BY <1>1, <1>2, <1>3, SumOfConstant
<1>5. SumOf(q) = 0
  <2>1. \A i \in 1..n : q[i] = 0
    <3>1. n * v - n * v = 0 /\ Square(0) = 0
      BY <1>1, <1>2 DEF Square
    <3>2. \A i \in 1..n : Square(n * h[i] - SumOf(h)) = 0
      BY <1>3, <1>4, <3>1
    <3> QED
      BY <3>2
  <2>2. q \in Seq(Int) /\ Len(q) = n
    <3>1. q = [i \in 1..n |-> 0]
      BY <2>1
    <3> QED
      BY <1>2, <3>1
  <2> HIDE DEF q, n
  <2>3. SumOf(q) = n * 0
    BY <2>1, <2>2, SumOfConstant
  <2> QED
    BY <1>2, <2>3
<1>6. n * Square(n * x - SumOf(h)) > 0
  <2> HIDE DEF n
  <2>1. n * x - n * v \in Int /\ n * x - n * v # 0
    <3>1. n * x - n * v = n * (x - v)
      BY <1>1, <1>2
    <3>2. n # 0 /\ x - v # 0
      BY <1>1, <1>2
    <3> QED
      BY <1>1, <1>2, <3>1, <3>2
  <2>2. Square(n * x - n * v) \in Nat /\ Square(n * x - n * v) > 0
    BY <2>1, Squares
  <2> QED
    BY <1>1, <1>2, <1>4, <2>2
<1>7. Square(ZThreshold) * SumOf(q) = 0
  BY <1>5, DetectorAssumption DEF Square
<1> QED
  BY <1>1, <1>6, <1>7 DEF Flagged, Outlier

\* What a history holds after a value is kept: values it held, and that one.
LEMMA KeptValues ==
  ASSUME NEW h \in Seq(Value), Len(h) <= HistorySize, NEW x \in Value
  PROVE  x \in ToSet(Keep(h, x)) /\ ToSet(Keep(h, x)) \subseteq ToSet(h) \cup {x}
<1> DEFINE g == Append(h, x)
<1>1. /\ g \in Seq(Value) /\ Len(g) = Len(h) + 1 /\ Len(h) \in Nat
      /\ g[Len(h) + 1] = x /\ \A i \in 1..Len(h) : g[i] = h[i]
  BY AppendProperties, LenProperties
<1>2. x \in ToSet(g) /\ ToSet(g) \subseteq ToSet(h) \cup {x}
  BY <1>1, LenProperties DEF ToSet
<1>3. CASE Len(g) > HistorySize
  <2>1. HistorySize \in Nat /\ HistorySize >= 1 /\ g # << >>
    BY <1>1, <1>3, DetectorAssumption, EmptySeq
  <2>2. /\ Tail(g) \in Seq(Value) /\ Len(Tail(g)) = Len(h)
        /\ \A i \in 1..Len(Tail(g)) : Tail(g)[i] = g[i + 1]
    BY <1>1, <2>1, HeadTailProperties
  <2>3. Len(h) >= 1
    BY <1>1, <1>3, <2>1
  <2>4. Tail(g)[Len(h)] = x
    BY <1>1, <2>2, <2>3
  <2>5. x \in ToSet(Tail(g)) /\ ToSet(Tail(g)) \subseteq ToSet(g)
    <3>1. x \in ToSet(Tail(g))
      <4>1. Len(h) \in 1..Len(Tail(g))
        BY <1>1, <2>2, <2>3
      <4> QED
        BY <2>2, <2>4, <4>1, ValuesOf
    <3>2. ASSUME NEW y \in ToSet(Tail(g)) PROVE y \in ToSet(g)
      <4>1. PICK i \in 1..Len(Tail(g)) : Tail(g)[i] = y
        BY <2>2, ValuesOf
      <4>2. i + 1 \in 1..Len(g) /\ g[i + 1] = y
        BY <1>1, <2>2, <4>1
      <4> QED
        BY <1>1, <4>2, ValuesOf
    <3> QED
      BY <3>1, <3>2
  <2> QED
    BY <1>2, <1>3, <2>5 DEF Keep
<1>4. CASE ~(Len(g) > HistorySize)
  BY <1>2, <1>4 DEF Keep
<1> QED
  BY <1>3, <1>4

\* A reading leaves a flat history flat; only NaN does not.
LEMMA FlatAfter ==
  ASSUME NEW h \in Seq(Value), Len(h) <= HistorySize, NEW v \in Readings, Flat(h, v),
         NEW x \in Value
  PROVE  Flat(After(h, x), v) \/ NaN \in ToSet(After(h, x))
<1>1. CASE Flagged(h, x)
  BY <1>1 DEF After
<1>2. CASE ~Flagged(h, x)
  <2>1. After(h, x) = Keep(h, x)
    BY <1>2 DEF After
  <2>2. x = NaN \/ x = v
    BY <1>2, OthersAreOutliers DEF Value
  <2>3. x \in ToSet(Keep(h, x)) /\ ToSet(Keep(h, x)) \subseteq ToSet(h) \cup {x}
    BY KeptValues
  <2>4. Len(Keep(h, x)) >= Len(h) /\ Keep(h, x) \in Seq(Value)
    BY KeepFact
  <2>5. Len(Keep(h, x)) \in Int /\ Len(h) \in Int /\ Warmup \in Int
    BY <2>4, LenProperties, DetectorAssumption
  <2>6. Len(h) >= Warmup => Len(Keep(h, x)) >= Warmup
    BY <2>4, <2>5
  <2> QED
    BY <2>1, <2>2, <2>3, <2>6 DEF Flat
<1> QED
  BY <1>1, <1>2

-----------------------------------------------------------------------------
\* A reading that was accepted is accepted when it is repeated or redelivered, as long as
\* it is remembered: with the default parameters of AnomalyDetector, and with all others
\* that satisfy this bound, for which it is tight.
THEOREM RememberedReadingsPass ==
  ASSUME Square(ZThreshold) >= HistorySize - 1
  PROVE  Spec => []RememberedIsAccepted
<1>1. TypeOK => RememberedIsAccepted
  BY MembersAreNoOutliers DEF TypeOK, RememberedIsAccepted, Flagged
<1> QED
  BY <1>1, DetectorTypeCorrect, PTL

\* A sensor that has reported one level throughout its warm-up is locked to it, whatever
\* the parameters and however the level changes (is_anomaly appends accepted values only).
THEOREM FlatIsKept == Spec => FlatStaysFlat
<1>1. TypeOK /\ [Next]_history =>
        [\A s \in Sensors, v \in Readings :
           Flat(history[s], v)
             => \/ Flat(history'[s], v)
                \/ NaN \in ToSet(history'[s])
                \/ Forget]_history
  <2> SUFFICES ASSUME TypeOK, Next, NEW t \in Sensors, NEW v \in Readings,
                      Flat(history[t], v), ~Forget
               PROVE  Flat(history'[t], v) \/ NaN \in ToSet(history'[t])
    OBVIOUS
  <2>1. PICK s \in Sensors, x \in Value : Judge(s, x)
    BY DEF Next
  <2>2. history[t] \in Seq(Value) /\ Len(history[t]) <= HistorySize
    BY DEF TypeOK
  <2>3. CASE s = t
    <3>1. history'[t] = After(history[t], x)
      BY <2>1, <2>3 DEF Judge, TypeOK
    <3> QED
      BY <2>2, <3>1, FlatAfter
  <2>4. CASE s # t
    BY <2>1, <2>4 DEF Judge, TypeOK
  <2> QED
    BY <2>3, <2>4
<1> QED
  BY <1>1, DetectorTypeCorrect, PTL DEF Spec, FlatStaysFlat
=============================================================================
