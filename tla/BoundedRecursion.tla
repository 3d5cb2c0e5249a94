--------------------------- MODULE BoundedRecursion ---------------------------
(***************************************************************************)
(* Induction and recursion up to a bound, stated with a set and with       *)
(* functions in place of an operator, so that they can be cited for the    *)
(* recursive functions of the models.                                      *)
(***************************************************************************)
EXTENDS Naturals, FiniteSets, FiniteSetTheorems, FunctionTheorems, TLAPS

\* A set of numbers that has 0 and with each number below n its successor has n:
\* otherwise the successor maps it into itself without 0, which is smaller.
LEMMA ReachesBound ==
  ASSUME NEW n \in Nat, NEW S \in SUBSET (0..n), 0 \in S,
         \A i \in S : i < n => i + 1 \in S
  PROVE  n \in S
<1> SUFFICES ASSUME n \notin S PROVE FALSE
  OBVIOUS
<1> DEFINE succ == [i \in S |-> i + 1]
<1>1. IsFiniteSet(S)
  <2>1. IsFiniteSet(0..n)
    BY FS_Interval
  <2> QED BY <2>1, FS_Subset
<1>2. succ \in Injection(S, S \ {0})
  <2>1. succ \in [S -> S \ {0}]
    OBVIOUS
  <2> QED BY <2>1 DEF Injection, IsInjective
<1>3. Cardinality(S \ {0}) = Cardinality(S) - 1 /\ IsFiniteSet(S \ {0})
  BY <1>1, FS_RemoveElement
<1>4. Cardinality(S) <= Cardinality(S \ {0})
  BY <1>2, <1>3, FS_Injection
<1> QED BY <1>1, <1>3, <1>4, FS_CardinalityType

\* Induction up to a bound.
LEMMA BoundedInduction ==
  ASSUME NEW n \in Nat, NEW S, 0 \in S, \A i \in 0..(n - 1) : i \in S => i + 1 \in S
  PROVE  0..n \subseteq S
<1> SUFFICES ASSUME NEW m \in 0..n PROVE m \in S
  OBVIOUS
<1> DEFINE R == S \cap (0..m)
<1>1. m \in Nat /\ R \in SUBSET (0..m) /\ 0 \in R
  OBVIOUS
<1>2. ASSUME NEW i \in R, i < m PROVE i + 1 \in R
  BY <1>2
<1>3. m \in R
  <2> HIDE DEF R
  <2> QED BY <1>1, <1>2, ReachesBound
<1> QED BY <1>3

\* A recursion up to a bound defines a function.
Ascending(n, T, base, step) ==
    {f \in [0..n -> T] : f[0] = base /\ \A i \in 1..n : f[i] = step[i][f[i - 1]]}

LEMMA UpwardRecursion ==
  ASSUME NEW n \in Nat, NEW T, NEW base \in T, NEW step \in [1..n -> [T -> T]]
  PROVE  Ascending(n, T, base, step) # {}
<1> DEFINE Upto(m, f) == f[0] = base /\ \A i \in 1..m : f[i] = step[i][f[i - 1]]
           S == {m \in 0..n : \E f \in [0..m -> T] : Upto(m, f)}
<1>1. 0 \in S
  <2>1. [i \in 0..0 |-> base] \in [0..0 -> T] /\ Upto(0, [i \in 0..0 |-> base])
    OBVIOUS
  <2> HIDE DEF Upto
  <2> QED BY <2>1
<1>2. ASSUME NEW m \in 0..(n - 1), m \in S PROVE m + 1 \in S
  <2>1. PICK f \in [0..m -> T] : Upto(m, f)
    BY <1>2
  <2> DEFINE g == [i \in 0..(m + 1) |-> IF i = m + 1 THEN step[m + 1][f[m]] ELSE f[i]]
  <2>2. f[m] \in T /\ m + 1 \in 1..n
    BY <2>1
  <2>3. g \in [0..(m + 1) -> T]
    BY <2>1, <2>2
  <2>4. g[0] = base
    BY <2>1
  <2>5. ASSUME NEW i \in 1..(m + 1) PROVE g[i] = step[i][g[i - 1]]
    <3>1. CASE i = m + 1
      BY <3>1
    <3>2. CASE i # m + 1
      BY <2>1, <3>2
    <3> QED BY <3>1, <3>2
  <2>6. Upto(m + 1, g)
    BY <2>4, <2>5
  <2> HIDE DEF Upto, g
  <2>7. m + 1 \in 0..n
    OBVIOUS
  <2> QED BY <2>3, <2>6, <2>7
<1>3. n \in S
  <2> HIDE DEF S
  <2>1. n \in 0..n
    OBVIOUS
  <2>2. 0..n \subseteq S
    BY <1>1, <1>2, BoundedInduction
  <2> QED BY <2>1, <2>2
<1> QED BY <1>3 DEF Ascending

\* The same from the bound down to 1.
LEMMA DownwardInduction ==
  ASSUME NEW n \in Nat, NEW S, n + 1 \in S, \A k \in 1..n : k + 1 \in S => k \in S
  PROVE  1..(n + 1) \subseteq S
<1> DEFINE R == {i \in 0..n : n + 1 - i \in S}
<1>1. 0 \in R
  OBVIOUS
<1>2. ASSUME NEW i \in 0..(n - 1), i \in R PROVE i + 1 \in R
  <2>1. n - i \in 1..n /\ n - i + 1 = n + 1 - i /\ n + 1 - (i + 1) = n - i /\ i + 1 \in 0..n
    OBVIOUS
  <2>2. n - i + 1 \in S
    BY <1>2, <2>1
  <2>3. n - i \in S
    BY <2>1, <2>2
  <2> QED BY <2>1, <2>3
<1>3. 0..n \subseteq R
  <2> HIDE DEF R
  <2> QED BY <1>1, <1>2, BoundedInduction
<1> SUFFICES ASSUME NEW k \in 1..(n + 1) PROVE k \in S
  OBVIOUS
<1>4. n + 1 - k \in 0..n /\ n + 1 - (n + 1 - k) = k
  OBVIOUS
<1> QED BY <1>3, <1>4

Descending(n, T, base, step) ==
    {g \in [1..(n + 1) -> T] : g[n + 1] = base /\ \A k \in 1..n : g[k] = step[k][g[k + 1]]}

LEMMA DownwardRecursion ==
  ASSUME NEW n \in Nat, NEW T, NEW base \in T, NEW step \in [1..n -> [T -> T]]
  PROVE  Descending(n, T, base, step) # {}
<1> DEFINE back == [i \in 1..n |-> step[n + 1 - i]]
<1>1. back \in [1..n -> [T -> T]]
  OBVIOUS
<1>2. PICK f \in [0..n -> T] : f[0] = base /\ \A i \in 1..n : f[i] = back[i][f[i - 1]]
  <2> HIDE DEF back
  <2>1. Ascending(n, T, base, back) # {}
    BY <1>1, UpwardRecursion
  <2> QED BY <2>1 DEF Ascending
<1> DEFINE g == [k \in 1..(n + 1) |-> f[n + 1 - k]]
<1>3. g \in [1..(n + 1) -> T]
  OBVIOUS
<1>4. g[n + 1] = base
  <2>1. n + 1 \in 1..(n + 1) /\ n + 1 - (n + 1) = 0
    OBVIOUS
  <2> QED BY <1>2, <2>1
<1>5. ASSUME NEW k \in 1..n PROVE g[k] = step[k][g[k + 1]]
  <2>1. n + 1 - k \in 1..n /\ n + 1 - (n + 1 - k) = k /\ n + 1 - (k + 1) = n + 1 - k - 1
        /\ k \in 1..(n + 1) /\ k + 1 \in 1..(n + 1)
    OBVIOUS
  <2>2. f[n + 1 - k] = step[k][f[n + 1 - k - 1]]
    BY <1>2, <2>1
  <2> QED BY <2>1, <2>2
<1> HIDE DEF g
<1> QED BY <1>3, <1>4, <1>5 DEF Descending

\* A set of numbers that is not empty has a least one.
LEMMA LeastExists ==
  ASSUME NEW n \in Nat, NEW B \in SUBSET (0..n), B # {}
  PROVE  \E x \in B : \A y \in B : x <= y
<1> SUFFICES ASSUME \A x \in B : \E y \in B : ~(x <= y) PROVE FALSE
  OBVIOUS
<1> DEFINE S == {i \in 0..n : \A j \in 0..i : j \notin B}
<1>1. 0 \in S
  OBVIOUS
<1>2. ASSUME NEW i \in 0..(n - 1), i \in S PROVE i + 1 \in S
  <2>1. i + 1 \notin B
    BY <1>2
  <2> QED BY <1>2, <2>1
<1>3. 0..n \subseteq S
  <2> HIDE DEF S
  <2> QED BY <1>1, <1>2, BoundedInduction
<1>4. n \in S
  BY <1>3
<1> QED BY <1>4
=============================================================================
