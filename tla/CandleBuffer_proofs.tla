------------------------ MODULE CandleBuffer_proofs ------------------------
(***************************************************************************)
(* For any number of candles, any lengths of list and window and any       *)
(* interleaving of the three writers of the Redis list.                    *)
(***************************************************************************)
EXTENDS CandleBuffer, FiniteSetTheorems, SequenceTheorems, TLAPS

-----------------------------------------------------------------------------
(* Sorting a set of candles.                                               *)

LEMMA SortedIs ==
  ASSUME NEW S
  PROVE  W!Sorted(S) =
           [i \in 1..Cardinality(S) |-> CHOOSE c \in S : Cardinality({d \in S : d <= c}) = i]
BY DEF W!Sorted, W!Cardinality, Cardinality

\* The rank of a candle, the number of candles up to it, is a bijection.
LEMMA SortedProperties ==
  ASSUME NEW S \in SUBSET Nat, IsFiniteSet(S)
  PROVE  /\ W!Sorted(S) \in Seq(S)
         /\ Len(W!Sorted(S)) = Cardinality(S)
         /\ Ascending(W!Sorted(S))
         /\ ToSet(W!Sorted(S)) = S
<1> DEFINE n == Cardinality(S)
           upto(c) == {d \in S : d <= c}
           rank == [c \in S |-> Cardinality(upto(c))]
           t == W!Sorted(S)
<1>1. n \in Nat
  BY FS_CardinalityType
<1>2. ASSUME NEW c \in S PROVE IsFiniteSet(upto(c)) /\ Cardinality(upto(c)) \in 1..n
  <2>1. upto(c) \in SUBSET S /\ c \in upto(c)
    OBVIOUS
  <2> HIDE DEF upto
  <2>2. IsFiniteSet(upto(c)) /\ Cardinality(upto(c)) <= n
    BY <2>1, FS_Subset
  <2>3. Cardinality(upto(c)) # 0
    BY <2>1, <2>2, FS_EmptySet
  <2>4. Cardinality(upto(c)) \in Nat
    BY <2>2, FS_CardinalityType
  <2> QED BY <1>1, <2>2, <2>3, <2>4
<1>3. ASSUME NEW c \in S, NEW d \in S, c < d PROVE Cardinality(upto(c)) < Cardinality(upto(d))
  <2>1. upto(c) \in SUBSET upto(d) /\ d \in upto(d) /\ d \notin upto(c)
    <3>1. c \in Nat /\ d \in Nat /\ \A x \in S : x \in Nat
      OBVIOUS
    <3>2. d <= d /\ ~(d <= c) /\ \A x \in S : x <= c => x <= d
      BY <1>3, <3>1
    <3> QED BY <3>2
  <2>2. IsFiniteSet(upto(d)) /\ Cardinality(upto(c)) \in Nat /\ Cardinality(upto(d)) \in Nat
    BY <1>1, <1>2
  <2> HIDE DEF upto
  <2>3. Cardinality(upto(c)) <= Cardinality(upto(d)) /\ Cardinality(upto(d)) # Cardinality(upto(c))
    BY <2>1, <2>2, FS_Subset
  <2> QED BY <2>2, <2>3
<1>4. ASSUME NEW c \in S, NEW d \in S, Cardinality(upto(c)) = Cardinality(upto(d)) PROVE c = d
  <2>1. Cardinality(upto(c)) \in Nat /\ Cardinality(upto(d)) \in Nat /\ c \in Nat /\ d \in Nat
    BY <1>1, <1>2
  <2>2. ~(c < d) /\ ~(d < c)
    <3> HIDE DEF upto
    <3> QED BY <1>3, <1>4, <2>1
  <2> QED BY <2>1, <2>2
<1>5. rank \in Surjection(S, 1..n)
  <2>1. rank \in Injection(S, 1..n)
    <3> HIDE DEF upto
    <3> QED BY <1>2, <1>4 DEF Injection, IsInjective
  <2>2. IsFiniteSet(1..n) /\ Cardinality(1..n) = n
    BY <1>1, FS_Interval
  <2> HIDE DEF rank
  <2> QED BY <2>1, <2>2, FS_Injection
<1>6. ASSUME NEW i \in 1..n PROVE t[i] \in S /\ Cardinality(upto(t[i])) = i
  <2>1. PICK c \in S : rank[c] = i
    <3> HIDE DEF rank
    <3> QED BY <1>5 DEF Surjection
  <2>2. t[i] = CHOOSE x \in S : Cardinality(upto(x)) = i
    BY SortedIs
  <2> HIDE DEF upto, t
  <2> QED BY <2>1, <2>2
<1>7. t \in Seq(S) /\ Len(t) = n /\ DOMAIN t = 1..n
  <2> DEFINE ranked(i) == CHOOSE c \in S : Cardinality(upto(c)) = i
  <2>1. t = [i \in 1..n |-> ranked(i)]
    BY SortedIs
  <2> HIDE DEF t, ranked
  <2>2. t \in [1..n -> S]
    BY <1>6, <2>1
  <2>3. t \in Seq(S)
    BY <1>1, <2>2, SeqDef
  <2> QED BY <1>1, <2>2, <2>3, LenProperties
<1> HIDE DEF n, t
<1>8. Ascending(t)
  <2> SUFFICES ASSUME NEW i \in 1..n, NEW j \in 1..n, i < j PROVE t[i] < t[j]
    BY <1>7 DEF Ascending
  <2>1. t[i] \in S /\ t[j] \in S /\ Cardinality(upto(t[i])) = i /\ Cardinality(upto(t[j])) = j
    BY <1>6
  <2> HIDE DEF upto
  <2>2. t[i] # t[j]
    BY <2>1
  <2>3. t[j] < t[i] => j < i
    BY <1>3, <2>1
  <2>4. t[i] \in Nat /\ t[j] \in Nat
    BY <2>1
  <2>5. ~(j < i)
    BY <1>1
  <2> QED BY <2>2, <2>3, <2>4, <2>5
<1>9. ToSet(t) = S
  <2>1. ToSet(t) \subseteq S
    BY <1>6, <1>7 DEF ToSet
  <2>2. ASSUME NEW c \in S PROVE c \in ToSet(t)
    <3>1. PICK i \in 1..n : i = Cardinality(upto(c))
      BY <1>2
    <3>2. t[i] = c
      BY <1>4, <1>6, <3>1
    <3> QED BY <1>7, <3>2 DEF ToSet
  <2> QED BY <2>1, <2>2
<1> QED BY <1>7, <1>8, <1>9 DEF n, t

\* An ascending sequence is what sorting its candles gives.
LEMMA SortedIsOrdered ==
  ASSUME NEW s \in Seq(Nat), Ascending(s)
  PROVE  /\ ToSet(s) \in SUBSET Nat /\ IsFiniteSet(ToSet(s))
         /\ Cardinality(ToSet(s)) = Len(s)
         /\ W!Sorted(ToSet(s)) = s
<1> DEFINE n == Len(s)
           S == ToSet(s)
           upto(c) == {d \in S : d <= c}
<1>1. n \in Nat /\ DOMAIN s = 1..n /\ s \in [1..n -> Nat]
  BY LenProperties
<1>2. S = {s[i] : i \in 1..n} /\ S \in SUBSET Nat
  BY <1>1 DEF ToSet
<1>3. \A i, j \in 1..n : i < j => s[i] < s[j]
  BY <1>1 DEF Ascending
<1> HIDE DEF S, n
<1>4. ASSUME NEW i \in 0..n, NEW T, T = {s[j] : j \in 1..i} PROVE Cardinality(T) = i /\ IsFiniteSet(T)
  <2> DEFINE f == [j \in 1..i |-> s[j]]
  <2>1. i \in Nat /\ \A j \in 1..i : j \in 1..n /\ s[j] \in Nat
    BY <1>1
  <2>2. \A j, k \in 1..i : s[j] = s[k] => j = k
    <3> SUFFICES ASSUME NEW j \in 1..i, NEW k \in 1..i, j # k PROVE s[j] # s[k]
      OBVIOUS
    <3>1. j < k \/ k < j
      OBVIOUS
    <3>2. s[j] < s[k] \/ s[k] < s[j]
      BY <1>3, <2>1, <3>1
    <3>3. s[j] \in Nat /\ s[k] \in Nat
      BY <2>1
    <3> QED BY <3>2, <3>3
  <2>3. f \in Bijection(1..i, T)
    BY <1>4, <2>2 DEF Bijection, Injection, Surjection, IsInjective
  <2>4. ExistsBijection(1..i, T)
    BY <2>3 DEF ExistsBijection
  <2> QED BY <2>1, <2>4, FS_CountingElements, FS_NatBijection
<1>5. Cardinality(S) = n /\ IsFiniteSet(S)
  BY <1>1, <1>2, <1>4
<1>6. ASSUME NEW i \in 1..n PROVE Cardinality(upto(s[i])) = i
  <2>1. upto(s[i]) = {s[j] : j \in 1..i}
    <3>1. ASSUME NEW j \in 1..n PROVE s[j] <= s[i] <=> j <= i
      <4>1. s[j] \in Nat /\ s[i] \in Nat
        BY <1>1
      <4>2. (j < i => s[j] < s[i]) /\ (i < j => s[i] < s[j])
        BY <1>3
      <4>3. j < i \/ j = i \/ i < j
        BY <1>1
      <4> QED BY <1>1, <4>1, <4>2, <4>3
    <3>2. \A j \in 1..i : j \in 1..n /\ j <= i
      BY <1>1
    <3> QED BY <1>1, <1>2, <3>1, <3>2
  <2> HIDE DEF upto
  <2> QED BY <1>1, <1>4, <2>1
<1>7. W!Sorted(S) = [i \in 1..n |-> CHOOSE c \in S : Cardinality(upto(c)) = i]
  BY <1>5, SortedIs
<1> HIDE DEF upto
<1>8. ASSUME NEW i \in 1..n PROVE (CHOOSE c \in S : Cardinality(upto(c)) = i) = s[i]
  <2>1. s[i] \in S /\ Cardinality(upto(s[i])) = i
    BY <1>2, <1>6
  <2>2. \A c \in S : Cardinality(upto(c)) = i => c = s[i]
    BY <1>2, <1>6
  <2> QED BY <2>1, <2>2
<1>9. W!Sorted(S) = [i \in 1..n |-> s[i]]
  BY <1>7, <1>8
<1>10. W!Sorted(S) = s
  BY <1>1, <1>9
<1> QED BY <1>2, <1>5, <1>10 DEF S, n
-----------------------------------------------------------------------------
(* The newest candles of a sequence and of a set.                          *)

LEMMA SuffixProperties ==
  ASSUME NEW X, NEW s \in Seq(X), NEW k \in Nat
  PROVE  /\ Suffix(s, k) \in Seq(X)
         /\ Len(Suffix(s, k)) = IF Len(s) <= k THEN Len(s) ELSE k
         /\ \A i \in 1..Len(Suffix(s, k)) :
               /\ Suffix(s, k)[i] = s[i + (Len(s) - Len(Suffix(s, k)))]
               /\ i + (Len(s) - Len(Suffix(s, k))) \in 1..Len(s)
<1>1. Len(s) \in Nat /\ \A i \in 1..Len(s) : s[i] \in X
  BY LenProperties, ElementOfSeq
<1>2. CASE Len(s) <= k
  BY <1>1, <1>2 DEF Suffix
<1>3. CASE ~(Len(s) <= k)
  <2> DEFINE v == SubSeq(s, Len(s) - k + 1, Len(s))
  <2>1. /\ Len(s) - k + 1 \in Int /\ Len(s) \in Int
        /\ \A i \in (Len(s) - k + 1)..Len(s) : s[i] \in X
    BY <1>1, <1>3
  <2>2. /\ v \in Seq(X)
        /\ Len(v) = IF Len(s) - k + 1 <= Len(s) THEN Len(s) - (Len(s) - k + 1) + 1 ELSE 0
        /\ \A i \in 1..(Len(s) - (Len(s) - k + 1) + 1) : v[i] = s[Len(s) - k + 1 + i - 1]
    BY <2>1, SubSeqProperties
  <2>3. Suffix(s, k) = v
    BY <1>3 DEF Suffix
  <2> HIDE DEF v
  <2>4. Len(v) = k
    BY <1>1, <2>2
  <2>5. \A i \in 1..k : v[i] = s[i + (Len(s) - k)] /\ i + (Len(s) - k) \in 1..Len(s)
    <3> SUFFICES ASSUME NEW i \in 1..k
                 PROVE  v[i] = s[i + (Len(s) - k)] /\ i + (Len(s) - k) \in 1..Len(s)
      OBVIOUS
    <3>1. /\ i \in 1..(Len(s) - (Len(s) - k + 1) + 1)
          /\ Len(s) - k + 1 + i - 1 = i + (Len(s) - k)
          /\ i + (Len(s) - k) \in 1..Len(s)
      BY <1>1, <1>3
    <3> QED BY <2>2, <3>1
  <2> QED BY <1>3, <2>2, <2>3, <2>4, <2>5
<1> QED BY <1>2, <1>3

\* The members of an ascending sequence that a suffix leaves out are older than
\* those it keeps.
LEMMA OrderedSuffix ==
  ASSUME NEW s \in Seq(Nat), Ascending(s), NEW k \in Nat
  PROVE  /\ Suffix(s, k) \in Seq(Nat) /\ Ascending(Suffix(s, k))
         /\ ToSet(Suffix(s, k)) \subseteq ToSet(s)
         /\ \A x \in ToSet(s) \ ToSet(Suffix(s, k)), y \in ToSet(Suffix(s, k)) : x < y
<1> DEFINE v == Suffix(s, k)
           d == Len(s) - Len(v)
<1>1. /\ v \in Seq(Nat) /\ Len(v) \in Nat /\ Len(s) \in Nat /\ Len(v) <= Len(s)
      /\ DOMAIN s = 1..Len(s) /\ DOMAIN v = 1..Len(v)
  BY SuffixProperties, LenProperties
<1>2. d \in Nat /\ Len(s) = d + Len(v)
  <2> HIDE DEF v
  <2> QED BY <1>1
<1>3. \A i \in 1..Len(v) : v[i] = s[i + d] /\ i + d \in 1..Len(s)
  BY SuffixProperties
<1> HIDE DEF v, d
<1>4. Ascending(v)
  <2> SUFFICES ASSUME NEW i \in 1..Len(v), NEW j \in 1..Len(v), i < j PROVE v[i] < v[j]
    BY <1>1 DEF Ascending
  <2>1. i + d < j + d
    BY <1>1, <1>2
  <2> QED BY <1>1, <1>3, <2>1 DEF Ascending
<1>5. ToSet(v) \subseteq ToSet(s)
  BY <1>1, <1>3 DEF ToSet
<1>6. ASSUME NEW i \in 1..Len(s), s[i] \notin ToSet(v) PROVE i <= d
  <2> SUFFICES ASSUME ~(i <= d) PROVE FALSE
    OBVIOUS
  <2>1. i - d \in 1..Len(v) /\ i - d + d = i
    BY <1>1, <1>2
  <2>2. v[i - d] = s[i]
    BY <1>3, <2>1
  <2> QED BY <1>1, <1>6, <2>1, <2>2 DEF ToSet
<1>7. ASSUME NEW x \in ToSet(s) \ ToSet(v), NEW y \in ToSet(v) PROVE x < y
  <2>1. PICK i \in 1..Len(s) : s[i] = x
    BY <1>1 DEF ToSet
  <2>2. PICK j \in 1..Len(v) : v[j] = y
    BY <1>1 DEF ToSet
  <2>3. i <= d
    BY <1>6, <2>1
  <2>4. i < j + d
    BY <1>1, <1>2, <2>3
  <2>5. s[i] < s[j + d]
    BY <1>1, <1>3, <2>4 DEF Ascending
  <2> QED BY <1>3, <2>1, <2>2, <2>5
<1> QED BY <1>1, <1>4, <1>5, <1>7 DEF v

\* The first of an ascending sequence is the oldest.
LEMMA HeadIsOldest ==
  ASSUME NEW s \in Seq(Nat), Ascending(s), s # <<>>
  PROVE  Head(s) = s[1] /\ Head(s) \in ToSet(s) /\ \A x \in ToSet(s) : Head(s) <= x
<1>1. Len(s) \in Nat /\ Len(s) # 0 /\ DOMAIN s = 1..Len(s) /\ \A i \in 1..Len(s) : s[i] \in Nat
  BY EmptySeq, LenProperties, ElementOfSeq
<1>2. Head(s) = s[1] /\ 1 \in 1..Len(s)
  BY <1>1
<1>3. ASSUME NEW i \in 1..Len(s) PROVE s[1] <= s[i]
  <2>1. CASE i = 1
    BY <1>1, <2>1
  <2>2. CASE 1 < i
    <3>1. s[1] < s[i]
      BY <1>1, <1>2, <2>2 DEF Ascending
    <3> QED BY <1>1, <1>2, <3>1
  <2> QED BY <1>1, <2>1, <2>2
<1> QED BY <1>1, <1>2, <1>3 DEF ToSet

LEMMA NewestIs ==
  ASSUME NEW S, NEW k
  PROVE  W!Newest(S, k) = Suffix(W!Sorted(S), k)
BY DEF W!Newest, Suffix

LEMMA NewestOfOrdered ==
  ASSUME NEW s \in Seq(Nat), Ascending(s), NEW k
  PROVE  W!Newest(ToSet(s), k) = Suffix(s, k)
BY SortedIsOrdered, NewestIs

\* The newest k candles of a set are ascending; a candle that is not among them
\* is older than all of them, and they are k.
LEMMA NewestProperties ==
  ASSUME NEW S \in SUBSET Nat, IsFiniteSet(S), NEW k \in Nat
  PROVE  /\ W!Newest(S, k) \in Seq(S) /\ W!Newest(S, k) \in Seq(Nat)
         /\ Ascending(W!Newest(S, k))
         /\ Len(W!Newest(S, k)) = IF Cardinality(S) <= k THEN Cardinality(S) ELSE k
         /\ \A c \in S : \/ c \in ToSet(W!Newest(S, k))
                         \/ Len(W!Newest(S, k)) = k /\ \A y \in ToSet(W!Newest(S, k)) : c < y
<1> DEFINE t == W!Sorted(S)
           v == W!Newest(S, k)
<1>1. t \in Seq(S) /\ Len(t) = Cardinality(S) /\ Ascending(t) /\ ToSet(t) = S
  BY SortedProperties
<1>2. v = Suffix(t, k)
  BY NewestIs
<1> HIDE DEF t, v
<1>3. t \in Seq(Nat) /\ Cardinality(S) \in Nat
  BY <1>1, SeqMonotonic, FS_CardinalityType
<1>4. v \in Seq(S) /\ Len(v) = IF Len(t) <= k THEN Len(t) ELSE k
  BY <1>1, <1>2, SuffixProperties
<1>5. v \in Seq(Nat) /\ Ascending(v) /\ \A x \in S \ ToSet(v), y \in ToSet(v) : x < y
  BY <1>1, <1>2, <1>3, OrderedSuffix
<1>6. ASSUME NEW c \in S, c \notin ToSet(v) PROVE Len(v) = k
  <2>1. CASE Len(t) <= k
    <3>1. v = t
      BY <1>2, <2>1 DEF Suffix
    <3> QED BY <1>1, <1>6, <3>1
  <2>2. CASE ~(Len(t) <= k)
    BY <1>4, <2>2
  <2> QED BY <2>1, <2>2
<1> QED BY <1>1, <1>4, <1>5, <1>6 DEF v

\* A set of at least k candles that are newer than the others holds the newest k.
LEMMA NewestIgnoresOlder ==
  ASSUME NEW S \in SUBSET Nat, IsFiniteSet(S), NEW T \in SUBSET S,
         \A x \in S \ T, y \in T : x < y,
         NEW k \in Nat, k <= Cardinality(T)
  PROVE  W!Newest(S, k) = W!Newest(T, k)
<1> DEFINE U == S \ T
           u == W!Sorted(U)
           t == W!Sorted(T)
           ut == u \o t
<1>1. U \in SUBSET Nat /\ T \in SUBSET Nat /\ IsFiniteSet(U) /\ IsFiniteSet(T) /\ U \in SUBSET S
  BY FS_Subset
<1>2. /\ u \in Seq(U) /\ Ascending(u) /\ ToSet(u) = U
      /\ t \in Seq(T) /\ Ascending(t) /\ ToSet(t) = T /\ Len(t) = Cardinality(T)
  <2> HIDE DEF U
  <2> QED BY <1>1, SortedProperties
<1>3. u \in Seq(Nat) /\ t \in Seq(Nat)
  BY <1>1, <1>2, SeqMonotonic
<1> HIDE DEF u, t
<1>4. /\ Len(u) \in Nat /\ Len(t) \in Nat /\ DOMAIN u = 1..Len(u) /\ DOMAIN t = 1..Len(t)
      /\ \A i \in 1..Len(u) : u[i] \in U
      /\ \A i \in 1..Len(t) : t[i] \in T
  BY <1>2, <1>3, LenProperties, ElementOfSeq
<1>5. /\ ut \in Seq(Nat) /\ Len(ut) = Len(u) + Len(t) /\ DOMAIN ut = 1..(Len(u) + Len(t))
      /\ \A i \in 1..Len(u) : ut[i] = u[i]
      /\ \A i \in 1..Len(t) : ut[Len(u) + i] = t[i]
  <2>1. /\ ut \in Seq(Nat) /\ Len(ut) = Len(u) + Len(t)
        /\ \A i \in 1..(Len(u) + Len(t)) : ut[i] = IF i <= Len(u) THEN u[i] ELSE t[i - Len(u)]
    BY <1>3, ConcatProperties
  <2>2. \A i \in 1..Len(u) : i \in 1..(Len(u) + Len(t)) /\ i <= Len(u)
    BY <1>4
  <2>3. \A i \in 1..Len(t) : /\ Len(u) + i \in 1..(Len(u) + Len(t)) /\ ~(Len(u) + i <= Len(u))
                             /\ Len(u) + i - Len(u) = i
    BY <1>4
  <2>4. DOMAIN ut = 1..(Len(u) + Len(t))
    <3> HIDE DEF ut
    <3> QED BY <2>1, LenProperties
  <2> HIDE DEF ut
  <2> QED BY <2>1, <2>2, <2>3, <2>4
<1> HIDE DEF ut
<1>6. Ascending(ut)
  <2> SUFFICES ASSUME NEW i \in 1..(Len(u) + Len(t)), NEW j \in 1..(Len(u) + Len(t)), i < j
               PROVE  ut[i] < ut[j]
    BY <1>5 DEF Ascending
  <2>1. CASE j <= Len(u)
    <3>1. i \in 1..Len(u) /\ j \in 1..Len(u)
      BY <1>4, <2>1
    <3> QED BY <1>2, <1>4, <1>5, <3>1 DEF Ascending
  <2>2. CASE ~(j <= Len(u)) /\ i <= Len(u)
    <3>1. i \in 1..Len(u) /\ j - Len(u) \in 1..Len(t) /\ Len(u) + (j - Len(u)) = j
      BY <1>4, <2>2
    <3>2. ut[i] \in U /\ ut[j] \in T
      BY <1>4, <1>5, <3>1
    <3> QED BY <3>2
  <2>3. CASE ~(i <= Len(u))
    <3>1. /\ i - Len(u) \in 1..Len(t) /\ j - Len(u) \in 1..Len(t) /\ i - Len(u) < j - Len(u)
          /\ Len(u) + (j - Len(u)) = j /\ Len(u) + (i - Len(u)) = i
      BY <1>4, <2>3
    <3>2. t[i - Len(u)] < t[j - Len(u)]
      BY <1>2, <1>4, <3>1 DEF Ascending
    <3>3. ut[i] = t[i - Len(u)] /\ ut[j] = t[j - Len(u)]
      BY <1>5, <3>1
    <3> QED BY <3>2, <3>3
  <2> QED BY <2>1, <2>2, <2>3
<1>7. ToSet(ut) = S
  <2>1. ToSet(ut) \subseteq S
    <3> SUFFICES ASSUME NEW i \in 1..(Len(u) + Len(t)) PROVE ut[i] \in S
      BY <1>5 DEF ToSet
    <3>1. i \in 1..Len(u) \/ (i - Len(u) \in 1..Len(t) /\ Len(u) + (i - Len(u)) = i)
      BY <1>4
    <3> QED BY <1>1, <1>4, <1>5, <3>1
  <2>2. ASSUME NEW x \in S PROVE x \in ToSet(ut)
    <3>1. CASE x \in T
      <4>1. PICK i \in 1..Len(t) : t[i] = x
        BY <1>2, <1>4, <3>1 DEF ToSet
      <4>2. Len(u) + i \in 1..(Len(u) + Len(t))
        BY <1>4
      <4> QED BY <1>5, <4>1, <4>2 DEF ToSet
    <3>2. CASE x \in U
      <4>1. PICK i \in 1..Len(u) : u[i] = x
        BY <1>2, <1>4, <3>2 DEF ToSet
      <4>2. i \in 1..(Len(u) + Len(t))
        BY <1>4
      <4> QED BY <1>5, <4>1, <4>2 DEF ToSet
    <3> QED BY <3>1, <3>2
  <2> QED BY <2>1, <2>2
<1>8. W!Newest(S, k) = Suffix(ut, k) /\ W!Newest(T, k) = Suffix(t, k)
  BY <1>2, <1>3, <1>5, <1>6, <1>7, NewestOfOrdered
<1>9. Suffix(ut, k) = Suffix(t, k)
  <2> DEFINE v == Suffix(ut, k)
             w == Suffix(t, k)
  <2>1. /\ v \in Seq(Nat) /\ Len(v) = k
        /\ \A i \in 1..Len(v) : v[i] = ut[i + (Len(ut) - Len(v))]
    <3>1. ~(Len(ut) <= k) \/ Len(ut) = k
      BY <1>2, <1>4, <1>5
    <3>2. /\ v \in Seq(Nat) /\ Len(v) = IF Len(ut) <= k THEN Len(ut) ELSE k
          /\ \A i \in 1..Len(v) : v[i] = ut[i + (Len(ut) - Len(v))]
      BY <1>5, SuffixProperties
    <3> QED BY <3>1, <3>2
  <2>2. /\ w \in Seq(Nat) /\ Len(w) = k
        /\ \A i \in 1..Len(w) : w[i] = t[i + (Len(t) - Len(w))]
    <3>1. ~(Len(t) <= k) \/ Len(t) = k
      BY <1>2, <1>4
    <3>2. /\ w \in Seq(Nat) /\ Len(w) = IF Len(t) <= k THEN Len(t) ELSE k
          /\ \A i \in 1..Len(w) : w[i] = t[i + (Len(t) - Len(w))]
      BY <1>3, SuffixProperties
    <3> QED BY <3>1, <3>2
  <2> HIDE DEF v, w
  <2>3. ASSUME NEW i \in 1..k PROVE v[i] = w[i]
    <3>1. Len(t) \in Nat /\ Len(u) \in Nat /\ Len(ut) = Len(u) + Len(t) /\ k <= Len(t)
      BY <1>2, <1>4, <1>5
    <3>2. i + (Len(t) - k) \in 1..Len(t)
      BY <3>1
    <3>3. i + (Len(ut) - k) = Len(u) + (i + (Len(t) - k))
      BY <3>1
    <3>4. v[i] = ut[i + (Len(ut) - k)] /\ w[i] = t[i + (Len(t) - k)]
      BY <2>1, <2>2
    <3>5. ut[Len(u) + (i + (Len(t) - k))] = t[i + (Len(t) - k)]
      BY <1>5, <3>2
    <3> QED BY <3>3, <3>4, <3>5
  <2>4. v = w
    BY <2>1, <2>2, <2>3, SeqEqual
  <2> QED BY <2>4 DEF v, w
<1> QED BY <1>8, <1>9

\* Appending what is newer than all of an ascending sequence.
LEMMA NewestOfAppend ==
  ASSUME NEW s \in Seq(Nat), Ascending(s), NEW c \in Nat, s = <<>> \/ c > Last(s), NEW k
  PROVE  /\ Append(s, c) \in Seq(Nat) /\ Ascending(Append(s, c))
         /\ ToSet(Append(s, c)) = ToSet(s) \cup {c}
         /\ W!Newest(ToSet(s) \cup {c}, k) = Suffix(Append(s, c), k)
<1> DEFINE t == Append(s, c)
<1>1. Len(s) \in Nat /\ DOMAIN s = 1..Len(s) /\ \A i \in 1..Len(s) : s[i] \in Nat
  BY LenProperties, ElementOfSeq
<1>2. /\ t \in Seq(Nat) /\ Len(t) = Len(s) + 1
      /\ \A i \in 1..Len(s) : t[i] = s[i]
      /\ t[Len(s) + 1] = c
  BY AppendProperties
<1> HIDE DEF t
<1>3. DOMAIN t = 1..(Len(s) + 1)
  BY <1>2, LenProperties
<1>4. ASSUME NEW i \in 1..Len(s) PROVE s[i] < c
  <2>1. Len(s) \in 1..Len(s) /\ Len(s) # 0 /\ (i = Len(s) \/ i < Len(s))
    <3>1. Len(s) \in Nat
      BY <1>1
    <3> QED BY <3>1
  <2>2. s[Len(s)] < c
    <3>1. s # <<>>
      BY <2>1, EmptySeq
    <3> QED BY <1>1, <2>1, <3>1 DEF Last
  <2>3. i < Len(s) => s[i] < s[Len(s)]
    BY <1>1, <2>1 DEF Ascending
  <2>4. s[i] \in Nat /\ s[Len(s)] \in Nat
    BY <1>1, <2>1
  <2> QED BY <2>1, <2>2, <2>3, <2>4
<1>5. Ascending(t)
  <2> SUFFICES ASSUME NEW i \in 1..(Len(s) + 1), NEW j \in 1..(Len(s) + 1), i < j
               PROVE  t[i] < t[j]
    BY <1>3 DEF Ascending
  <2>1. i \in 1..Len(s) /\ (j \in 1..Len(s) \/ j = Len(s) + 1)
    BY <1>1
  <2> QED BY <1>1, <1>2, <1>4, <2>1 DEF Ascending
<1>6. ToSet(t) = ToSet(s) \cup {c}
  <2>1. 1..(Len(s) + 1) = 1..Len(s) \cup {Len(s) + 1}
    BY <1>1
  <2> QED BY <1>1, <1>2, <1>3, <2>1 DEF ToSet
<1>7. W!Newest(ToSet(t), k) = Suffix(t, k)
  BY <1>2, <1>5, NewestOfOrdered
<1> QED BY <1>2, <1>5, <1>6, <1>7 DEF t

\* A candle that is in an ascending sequence already, or older than the newest k
\* of it, changes nothing.
LEMMA NewestAbsorbs ==
  ASSUME NEW s \in Seq(Nat), Ascending(s), NEW k \in Nat \ {0}, NEW c \in Nat,
         c \in ToSet(s) \/ (k <= Len(s) /\ c < Head(Suffix(s, k)))
  PROVE  W!Newest(ToSet(s) \cup {c}, k) = Suffix(s, k)
<1> DEFINE v == Suffix(s, k)
           S == ToSet(s) \cup {c}
<1>1. CASE c \in ToSet(s)
  <2>1. S = ToSet(s)
    BY <1>1
  <2> QED BY <2>1, NewestOfOrdered
<1>2. CASE k <= Len(s) /\ c < Head(v)
  <2>1. /\ v \in Seq(Nat) /\ Ascending(v) /\ ToSet(v) \subseteq ToSet(s)
        /\ \A x \in ToSet(s) \ ToSet(v), y \in ToSet(v) : x < y
    BY OrderedSuffix
  <2>2. Len(v) = k
    <3>1. Len(s) \in Nat /\ Len(v) = IF Len(s) <= k THEN Len(s) ELSE k
      BY SuffixProperties, LenProperties
    <3> QED BY <1>2, <3>1
  <2>3. ToSet(s) \in SUBSET Nat /\ IsFiniteSet(ToSet(s)) /\ Cardinality(ToSet(v)) = k
        /\ W!Newest(ToSet(v), k) = Suffix(v, k)
    <3> HIDE DEF v
    <3> QED BY <2>1, <2>2, SortedIsOrdered, NewestOfOrdered
  <2>4. Suffix(v, k) = v
    BY <2>2 DEF Suffix
  <2>5. v # <<>>
    BY <2>2
  <2> HIDE DEF v
  <2>6. \A y \in ToSet(v) : c < y
    <3>1. Head(v) = v[1] /\ \A y \in ToSet(v) : Head(v) <= y
      BY <2>1, <2>5, HeadIsOldest
    <3>2. \A y \in ToSet(v) : y \in Nat
      BY <2>1, <2>3
    <3>3. Head(v) \in Nat
      BY <2>1, <2>5, HeadTailProperties
    <3> QED BY <1>2, <3>1, <3>2, <3>3
  <2>7. S \in SUBSET Nat /\ IsFiniteSet(S) /\ ToSet(v) \in SUBSET S
    BY <2>1, <2>3, FS_AddElement
  <2>8. \A x \in S \ ToSet(v), y \in ToSet(v) : x < y
    BY <2>1, <2>6
  <2> HIDE DEF S
  <2>9. W!Newest(S, k) = W!Newest(ToSet(v), k)
    BY <2>3, <2>7, <2>8, NewestIgnoresOlder
  <2> QED BY <2>3, <2>4, <2>9 DEF S, v
<1> QED BY <1>1, <1>2

\* An upsert needs no more of an ascending list than its newest k candles.
LEMMA MergeOfSuffix ==
  ASSUME NEW s \in Seq(Nat), Ascending(s), NEW k \in Nat \ {0}, NEW c \in Nat
  PROVE  Merge(Suffix(s, k), c, k) = W!Newest(ToSet(s) \cup {c}, k)
<1> DEFINE v == Suffix(s, k)
           S == ToSet(s) \cup {c}
           T == ToSet(v) \cup {c}
<1>1. /\ v \in Seq(Nat) /\ Ascending(v) /\ ToSet(v) \subseteq ToSet(s)
      /\ \A x \in ToSet(s) \ ToSet(v), y \in ToSet(v) : x < y
  BY OrderedSuffix
<1>2. Len(s) \in Nat /\ Len(v) = IF Len(s) <= k THEN Len(s) ELSE k
  BY SuffixProperties, LenProperties
<1>3. ToSet(s) \in SUBSET Nat /\ IsFiniteSet(ToSet(s))
  BY SortedIsOrdered
<1>4. CASE Len(s) <= k
  <2>1. v = s
    BY <1>4 DEF Suffix
  <2> QED BY <2>1 DEF Merge
<1>5. CASE ~(Len(s) <= k)
  <2>1. Len(v) = k /\ k <= Len(s) /\ v # <<>>
    BY <1>2, <1>5
  <2>2. Suffix(v, k) = v
    BY <2>1 DEF Suffix
  <2> HIDE DEF v
  <2>3. /\ IsFiniteSet(ToSet(v)) /\ Cardinality(ToSet(v)) = k
        /\ Head(v) \in Nat /\ \A x \in ToSet(v) : Head(v) <= x /\ x \in Nat
    BY <1>1, <1>3, <2>1, SortedIsOrdered, HeadIsOldest, HeadTailProperties
  <2>4. CASE c < Head(v)
    <3>1. W!Newest(ToSet(s) \cup {c}, k) = v
      BY <2>1, <2>4, NewestAbsorbs DEF v
    <3>2. W!Newest(ToSet(v) \cup {c}, k) = v
      BY <1>1, <2>1, <2>2, <2>4, NewestAbsorbs
    <3> QED BY <3>1, <3>2 DEF Merge, v
  <2>5. CASE ~(c < Head(v))
    <3>1. S \in SUBSET Nat /\ IsFiniteSet(S) /\ T \in SUBSET S
      BY <1>1, <1>3, FS_AddElement
    <3>2. ToSet(v) \in SUBSET T /\ IsFiniteSet(T)
      BY <2>3, FS_AddElement
    <3>3. Cardinality(T) \in Nat /\ k <= Cardinality(T)
      <4> HIDE DEF T
      <4> QED BY <2>3, <3>2, FS_Subset, FS_CardinalityType
    <3>4. ASSUME NEW x \in S \ T, NEW y \in T PROVE x < y
      <4>1. x \in ToSet(s) \ ToSet(v) /\ x \in Nat
        BY <3>1, <3>4
      <4>2. Head(v) \in ToSet(v)
        BY <1>1, <2>1, HeadIsOldest
      <4>3. x < Head(v)
        BY <1>1, <4>1, <4>2
      <4>4. y \in ToSet(v) \/ y = c
        BY <3>4
      <4> QED BY <1>1, <2>3, <2>5, <4>1, <4>3, <4>4
    <3> HIDE DEF S, T
    <3>5. W!Newest(S, k) = W!Newest(T, k)
      BY <3>1, <3>3, <3>4, NewestIgnoresOlder
    <3> QED BY <3>5 DEF S, T, Merge, v
  <2> QED BY <2>4, <2>5
<1> QED BY <1>4, <1>5

\* Candles of an interval, in order.
LEMMA NewestOfInterval ==
  ASSUME NEW m \in Nat, NEW k
  PROVE  /\ [i \in 1..m |-> i] \in Seq(Nat) /\ Len([i \in 1..m |-> i]) = m
         /\ Ascending([i \in 1..m |-> i]) /\ ToSet([i \in 1..m |-> i]) = 1..m
         /\ W!Newest(1..m, k) = Suffix([i \in 1..m |-> i], k)
<1> DEFINE s == [i \in 1..m |-> i]
<1>1. s \in Seq(Nat) /\ Len(s) = m
  <2>1. s \in [1..m -> Nat]
    OBVIOUS
  <2> QED BY <2>1, SeqDef, LenProperties
<1>2. Ascending(s) /\ ToSet(s) = 1..m
  BY DEF Ascending, ToSet
<1> HIDE DEF s
<1>3. W!Newest(1..m, k) = Suffix(s, k)
  BY <1>1, <1>2, NewestOfOrdered
<1> QED BY <1>1, <1>2, <1>3 DEF s

-----------------------------------------------------------------------------
(* The invariant.                                                          *)

Stages == {"idle", "tail", "push", "length", "only", "set", "range", "rebuild",
           "window", "history", "refill", "reset", "evaluate"}

Calls == [pc : Stages, ts : 0..closed, own : BOOLEAN, at : Nat,
          seen : Seq(1..closed), window : Seq(1..closed)]

Limited(s) == Len(s) <= Target \/ \E k \in Limits : Len(s) <= k

\* The types of the variables; what a task is about to write is within the limits.
TypeInv ==
    /\ closed \in 0..NumCandles /\ handed \in 0..closed
    /\ list \in Seq(1..closed) /\ Limited(list)
    /\ run \in [Tasks -> Calls]
    /\ run["bootstrap"].pc \in {"idle", "reset"}
    /\ \A p \in Processors :
          /\ ~At(p, "reset")
          /\ ~At(p, "idle") => run[p].ts # 0
          /\ At(p, "set") => run[p].at # 0
    /\ \A p \in Tasks : At(p, "rebuild") \/ At(p, "reset") => Limited(run[p].seen)
    /\ calls \in 0..MaxCalls /\ faults \in 0..MaxFaults
    /\ torn \in BOOLEAN /\ skipped \in BOOLEAN

\* c is in the ascending sequence s, unless s has k candles and all are newer.
Fits(s, c, k) ==
    /\ Ascending(s)
    /\ c \in ToSet(s) \/ (Len(s) = k /\ \A y \in ToSet(s) : c < y)

\* What was merged into the history, and into the window, has the task's own candle.
WindowOK(r) ==
    /\ r.pc = "refill" /\ r.own => Fits(r.seen, r.ts, Target)
    /\ r.pc = "evaluate" /\ r.own => Fits(r.window, r.ts, Required) /\ Len(r.window) <= Required

\* What a task will write of the history is some of its newest candles.
FetchedOK(r) ==
    /\ r.pc = "refill" =>
          \E h \in 0..NumCandles : r.seen = IF r.own THEN W!Newest((1..h) \cup {r.ts}, Target)
                                                     ELSE W!Newest(1..h, NumCandles)
    /\ r.pc = "reset" => \E h \in 0..NumCandles, k \in Limits : r.seen = W!Newest(1..h, k)

\* What a task has read of the list is still true of it.
ReadOK(r) ==
    /\ r.pc = "push" => list = <<>> \/ r.ts > Last(list)
    /\ r.pc = "length" => list # <<>> /\ r.ts = Last(list)
    /\ r.pc # "only"
    /\ r.pc = "set" => list # <<>> /\ r.at = Len(list) /\ r.ts = Last(list)
    /\ r.pc = "rebuild" => r.seen = W!Newest(ToSet(list) \cup {r.ts}, Maxlen)

\* As long as no write fell between another task's read of the list and its write.
RollingInv == ~torn => Ascending(list) /\ \A p \in Tasks : ReadOK(run[p])

SharedInv == /\ \A p \in Tasks : WindowOK(run[p]) /\ FetchedOK(run[p])
             /\ RollingInv

\* Successive candles, at least one, of which the oldest is the first candle unless
\* there are k of them.
Covers(s, k) ==
    /\ s # <<>>
    /\ \A i \in DOMAIN s : s[i] = s[1] + (i - 1)
    /\ k <= Len(s) \/ s[1] = 1

\* The worker alone, with entries that come in order or again: what the list covers
\* at each step of a call, when windows are longer than one candle.
UpToDate == Covers(list, Maxlen) /\ handed <= Last(list)

AloneOK(r) ==
    /\ r.pc # "idle" => r.ts <= handed + 1 /\ r.own
    /\ r.pc \in {"idle", "evaluate"} => list = <<>> \/ UpToDate
    /\ r.pc = "tail" => \/ list = <<>>
                        \/ /\ Covers(list, Maxlen) /\ r.ts <= Last(list) + 1
                           /\ handed <= Last(list) \/ handed <= r.ts
    /\ r.pc = "push" => \/ list = <<>>
                        \/ Covers(list, Maxlen) /\ r.ts = Last(list) + 1 /\ handed <= r.ts
    /\ r.pc = "length" => UpToDate /\ r.ts = Last(list)
    /\ r.pc # "only"
    /\ r.pc = "set" => UpToDate /\ r.ts = Last(list) /\ r.at = Len(list)
    /\ r.pc = "range" => UpToDate /\ r.ts < Last(list)
    /\ r.pc = "rebuild" => /\ Covers(r.seen, Maxlen)
                           /\ handed <= Last(r.seen) /\ r.ts <= Last(r.seen)
    /\ r.pc = "window" => Len(list) < Required \/ (UpToDate /\ r.ts <= Last(list))
    /\ r.pc = "refill" => /\ Covers(r.seen, Target) /\ Len(r.seen) <= Target
                          /\ handed <= Last(r.seen)
    /\ r.pc = "evaluate" => Covers(r.window, Required) /\ Len(r.window) <= Required

\* Windows of one candle have no gaps.
SingleOK(r) ==
    /\ r.pc = "evaluate" => Len(r.window) = Required
    /\ r.pc = "refill" => r.seen # <<>>

Calm == calls = 0 /\ ~skipped

CalmInv ==
    Calm => /\ run["route"].pc = "idle" /\ run["bootstrap"].pc = "idle"
            /\ IF Required = 1 THEN SingleOK(run["shard"]) ELSE AloneOK(run["shard"])

-----------------------------------------------------------------------------
(* Types.                                                                  *)

LEMMA TargetIs == Target \in Nat \ {0} /\ Required <= Target /\ Maxlen <= Target
BY ConstantsAssumption DEF Target

\* Every list the code makes has candles that have closed.
LEMMA SuffixIsShort ==
  ASSUME NEW X, NEW s \in Seq(X), NEW k \in Nat
  PROVE  Suffix(s, k) \in Seq(X) /\ Len(Suffix(s, k)) <= k
<1>1. Len(s) \in Nat
  BY LenProperties
<1> QED BY <1>1, SuffixProperties

LEMMA NewestIsShort ==
  ASSUME NEW m \in Nat, NEW S \in SUBSET (1..m), NEW k \in Nat
  PROVE  W!Newest(S, k) \in Seq(1..m) /\ Len(W!Newest(S, k)) <= k
<1>1. S \in SUBSET Nat /\ IsFiniteSet(S)
  <2>1. IsFiniteSet(1..m) /\ 1..m \subseteq Nat
    BY FS_Interval
  <2> QED BY <2>1, FS_Subset
<1>2. Cardinality(S) \in Nat
  BY <1>1, FS_CardinalityType
<1>3. W!Newest(S, k) \in Seq(S)
  BY <1>1, NewestProperties
<1>4. Len(W!Newest(S, k)) <= k
  BY <1>1, <1>2, NewestProperties
<1> QED BY <1>3, <1>4, SeqMonotonic

LEMMA MergeIsShort ==
  ASSUME NEW m \in Nat, NEW s \in Seq(1..m), NEW c \in 1..m, NEW k \in Nat
  PROVE  Merge(s, c, k) \in Seq(1..m) /\ Len(Merge(s, c, k)) <= k
<1>1. ToSet(s) \cup {c} \in SUBSET (1..m)
  BY LenProperties, ElementOfSeq DEF ToSet
<1> QED BY <1>1, NewestIsShort DEF Merge

LEMMA HistoryIsShort ==
  ASSUME NEW m \in 0..NumCandles, NEW h \in 0..m
  PROVE  History(h) \in Seq(1..m)
<1>1. m \in Nat /\ NumCandles \in Nat /\ 1..h \in SUBSET (1..m)
  BY ConstantsAssumption
<1> QED BY <1>1, NewestIsShort DEF History

LEMMA KnownIs == closed \in Nat => Known \subseteq 0..closed
BY DEF Known

\* What a step leaves of the records of the tasks.
LEMMA OthersStay ==
  ASSUME TypeInv, NEW p \in Tasks, NEW r, run' = [run EXCEPT ![p] = r]
  PROVE  run'[p] = r /\ \A q \in Tasks \ {p} : run'[q] = run[q]
BY DEF TypeInv

LEMMA CallsGrow ==
  ASSUME TypeInv, closed' \in Nat, closed <= closed'
  PROVE  Calls \subseteq Calls' /\ Seq(1..closed) \subseteq Seq(1..closed')
<1>1. closed \in Nat
  BY ConstantsAssumption DEF TypeInv
<1>2. 1..closed \subseteq 1..closed' /\ 0..closed \subseteq 0..closed'
  BY <1>1
<1>3. Seq(1..closed) \subseteq Seq(1..closed')
  BY <1>2, SeqMonotonic
<1> QED BY <1>2, <1>3 DEF Calls

\* The types after a step of one task.
LEMMA TaskTypes ==
  ASSUME TypeInv, UNCHANGED closed, handed' \in 0..closed,
         NEW p \in Tasks, NEW r \in Calls, run' = [run EXCEPT ![p] = r],
         p = "bootstrap" => r.pc \in {"idle", "reset"},
         p \in Processors => /\ r.pc # "reset" /\ (r.pc # "idle" => r.ts # 0)
                             /\ (r.pc = "set" => r.at # 0),
         r.pc \in {"rebuild", "reset"} => Limited(r.seen),
         list' \in Seq(1..closed), Limited(list'),
         calls' \in 0..MaxCalls, faults' \in 0..MaxFaults,
         torn' \in BOOLEAN, skipped' \in BOOLEAN
  PROVE  TypeInv'
<1>1. run'[p] = r /\ \A q \in Tasks \ {p} : run'[q] = run[q]
  BY OthersStay
<1>2. run' \in [Tasks -> Calls']
  BY DEF TypeInv, Calls
<1>3. Limited(list)' /\ \A s : Limited(s)' <=> Limited(s)
  BY DEF Limited
<1>4. run'["bootstrap"].pc \in {"idle", "reset"}
  BY <1>1 DEF TypeInv, Tasks
<1>5. ASSUME NEW q \in Processors
      PROVE  /\ run'[q].pc # "reset" /\ (run'[q].pc # "idle" => run'[q].ts # 0)
             /\ (run'[q].pc = "set" => run'[q].at # 0)
  BY <1>1 DEF TypeInv, At, Tasks
<1>6. ASSUME NEW q \in Tasks, run'[q].pc \in {"rebuild", "reset"} PROVE Limited(run'[q].seen)
  BY <1>1, <1>6 DEF TypeInv, At
<1> QED BY <1>2, <1>3, <1>4, <1>5, <1>6 DEF TypeInv, At

LEMMA TypeInit == Init => TypeInv
<1> SUFFICES ASSUME Init PROVE TypeInv
  OBVIOUS
<1>1. closed \in 0..NumCandles /\ closed \in Nat /\ handed = closed /\ calls = 0 /\ faults = 0
      /\ torn = FALSE /\ skipped = FALSE /\ run = [p \in Tasks |-> Idle]
  BY ConstantsAssumption DEF Init
<1>2. W!Newest(1..closed, Maxlen) \in Seq(1..closed) /\ Len(W!Newest(1..closed, Maxlen)) <= Maxlen
  <2>1. 1..closed \in SUBSET (1..closed) /\ Maxlen \in Nat
    BY ConstantsAssumption
  <2> QED BY <1>1, <2>1, NewestIsShort
<1>3. list \in Seq(1..closed) /\ Limited(list)
  <2>1. CASE list = <<>>
    BY <2>1, EmptySeq, TargetIs DEF Limited
  <2>2. CASE list = W!Newest(1..closed, Maxlen)
    <3>1. Len(list) \in Nat
      BY <1>2, <2>2, LenProperties
    <3> QED BY <1>2, <2>2, <3>1, TargetIs, ConstantsAssumption DEF Limited
  <2> QED BY <2>1, <2>2 DEF Init
<1>4. Idle \in Calls
  BY <1>1, EmptySeq DEF Idle, Calls, Stages
<1>5. \A p \in Tasks : run[p] = Idle
  BY <1>1
<1>6. run \in [Tasks -> Calls]
  BY <1>1, <1>4
<1>7. calls \in 0..MaxCalls /\ faults \in 0..MaxFaults /\ handed \in 0..closed
  BY <1>1, ConstantsAssumption
<1> QED BY <1>1, <1>3, <1>5, <1>6, <1>7 DEF TypeInv, At, Idle, Tasks, Processors

\* The call of task p is a record of its fields.
LEMMA TaskIs ==
  ASSUME TypeInv, NEW p \in Tasks
  PROVE  /\ run[p] = [pc |-> run[p].pc, ts |-> run[p].ts, own |-> run[p].own, at |-> run[p].at,
                      seen |-> run[p].seen, window |-> run[p].window]
         /\ run[p].pc \in Stages /\ run[p].ts \in 0..closed /\ run[p].own \in BOOLEAN
         /\ run[p].at \in Nat
         /\ run[p].seen \in Seq(1..closed) /\ run[p].window \in Seq(1..closed)
         /\ closed \in Nat /\ closed <= NumCandles /\ closed \in 0..NumCandles
         /\ run[p].ts \in Nat
<1>1. run[p] \in Calls /\ closed \in 0..NumCandles
  BY DEF TypeInv
<1>2. closed \in Nat /\ closed <= NumCandles
  BY <1>1, ConstantsAssumption
<1>3. run[p].ts \in 0..closed
  BY <1>1 DEF Calls
<1>4. run[p].ts \in Nat
  BY <1>2, <1>3
<1> QED BY <1>1, <1>2, <1>3, <1>4 DEF Calls

LEMMA CalledTypes ==
  ASSUME TypeInv, NEW p \in Processors, NEW n \in 1..NumCandles, NEW candle \in BOOLEAN,
         n <= closed, Called(p, n, candle), UNCHANGED <<closed, list>>, handed' \in 0..closed,
         calls' \in 0..MaxCalls, faults' \in 0..MaxFaults,
         torn' \in BOOLEAN, skipped' \in BOOLEAN
  PROVE  TypeInv'
<1> DEFINE r == [Idle EXCEPT !.pc = IF candle THEN "tail" ELSE "window", !.ts = n, !.own = candle]
<1>1. run' = [run EXCEPT ![p] = r] /\ p \in Tasks
  BY DEF Called, Tasks
<1>2. closed \in Nat /\ list \in Seq(1..closed) /\ Limited(list)
  BY <1>1, TaskIs DEF TypeInv
<1>3. r \in Calls /\ r.pc \in {"tail", "window"} /\ r.ts = n /\ n # 0
  <2>1. n \in 0..closed /\ n # 0
    BY <1>2, ConstantsAssumption
  <2>2. Idle \in Calls
    BY <1>2, EmptySeq DEF Idle, Calls, Stages
  <2> QED BY <2>1, <2>2 DEF Calls, Stages, Idle
<1> HIDE DEF r
<1>4. p # "bootstrap" /\ r.pc \notin {"reset", "set", "rebuild"}
  BY <1>3 DEF Processors
<1> QED BY <1>1, <1>2, <1>3, <1>4, TaskTypes

\* A step of a processor that writes no list, and one that writes it.
LEMMA ReadTypes ==
  ASSUME TypeInv, NEW p \in Processors, NEW r \in Calls, run' = [run EXCEPT ![p] = r],
         r.ts # 0 \/ r.pc = "idle", r.pc # "reset", r.pc = "set" => r.at # 0,
         r.pc = "rebuild" => Limited(r.seen),
         UNCHANGED <<closed, handed, list, calls, faults, torn>>, skipped' \in BOOLEAN
  PROVE  TypeInv'
<1>1. p \in Tasks /\ p # "bootstrap"
  BY DEF Tasks, Processors
<1>2. /\ handed' \in 0..closed /\ list' \in Seq(1..closed) /\ Limited(list')
      /\ calls' \in 0..MaxCalls /\ faults' \in 0..MaxFaults /\ torn' \in BOOLEAN
  BY DEF TypeInv
<1> QED BY <1>1, <1>2, TaskTypes

LEMMA WriteTypes ==
  ASSUME TypeInv, NEW p \in Processors, NEW r \in Calls, run' = [run EXCEPT ![p] = r],
         r.ts # 0, r.pc \in {"window", "evaluate"},
         NEW s \in Seq(1..closed), Limited(s), WriteList(p, s)
  PROVE  TypeInv'
<1>1. p \in Tasks /\ p # "bootstrap"
  BY DEF Tasks, Processors
<1>2. /\ handed' \in 0..closed /\ UNCHANGED closed /\ list' \in Seq(1..closed) /\ Limited(list')
      /\ calls' \in 0..MaxCalls /\ faults' \in 0..MaxFaults /\ torn' \in BOOLEAN
      /\ skipped' \in BOOLEAN
  BY DEF TypeInv, WriteList
<1> QED BY <1>1, <1>2, TaskTypes

LEMMA ShortIsLimited ==
  ASSUME NEW X, NEW s \in Seq(X), Len(s) <= Maxlen \/ Len(s) <= Target
  PROVE  Limited(s)
<1>1. Len(s) \in Nat
  BY LenProperties
<1> QED BY <1>1, TargetIs, ConstantsAssumption DEF Limited

LEMMA TypeStep == TypeInv /\ [Next]_vars => TypeInv'
<1> SUFFICES ASSUME TypeInv, [Next]_vars PROVE TypeInv'
  OBVIOUS
<1> USE DEF Reading
<1>0. /\ Maxlen \in Nat /\ Required \in Nat /\ MaxCalls \in Nat /\ MaxFaults \in Nat
      /\ Target \in Nat /\ closed \in Nat /\ closed \in 0..NumCandles /\ handed \in 0..closed
      /\ list \in Seq(1..closed) /\ Limited(list)
      /\ torn \in BOOLEAN /\ skipped \in BOOLEAN
      /\ calls \in 0..MaxCalls /\ faults \in 0..MaxFaults
  BY ConstantsAssumption, TargetIs DEF TypeInv
<1>1. CASE UNCHANGED vars
  <2>1. Calls' = Calls /\ Limited(list)' = Limited(list) /\ \A s : Limited(s)' <=> Limited(s)
    BY <1>1 DEF Calls, Limited, vars
  <2> QED BY <1>1, <2>1 DEF vars, TypeInv, At
<1>2. CASE CandleCloses
  <2>1. closed' \in 0..NumCandles /\ closed' \in Nat /\ closed <= closed' /\ handed' \in 0..closed'
    BY <1>0, <1>2, ConstantsAssumption DEF CandleCloses
  <2>2. Calls \subseteq Calls' /\ Seq(1..closed) \subseteq Seq(1..closed')
    BY <2>1, CallsGrow
  <2>3. \A s : Limited(s)' <=> Limited(s)
    BY DEF Limited
  <2>4. UNCHANGED <<list, run, calls, faults, torn, skipped>>
    BY <1>2 DEF CandleCloses
  <2>5. list' \in Seq(1..closed') /\ Limited(list)'
    BY <1>0, <2>2, <2>3, <2>4
  <2>6. run' \in [Tasks -> Calls']
    BY <2>2, <2>4 DEF TypeInv
  <2> QED BY <2>1, <2>3, <2>4, <2>5, <2>6 DEF TypeInv, At
<1>3. CASE HandleEntry
  <2>1. handed' \in 1..NumCandles /\ handed' <= closed /\ handed' \in 0..closed
    BY <1>0, <1>3, ConstantsAssumption DEF HandleEntry
  <2>2. PICK n \in 1..NumCandles : n = handed'
    BY <2>1
  <2> QED BY <1>0, <1>3, <2>1, <2>2, CalledTypes DEF HandleEntry, Processors
<1>4. ASSUME NEW n \in 1..NumCandles, HandleOther(n) PROVE TypeInv'
  <2>1. faults' \in 0..MaxFaults /\ skipped' \in BOOLEAN
    BY <1>0, <1>4 DEF HandleOther, Fault
  <2> QED BY <1>0, <1>4, <2>1, CalledTypes DEF HandleOther, Processors
<1>5. ASSUME NEW n \in 1..NumCandles, Trigger(n) PROVE TypeInv'
  <2>1. calls' \in 0..MaxCalls
    BY <1>0, <1>5 DEF Trigger
  <2> QED BY <1>0, <1>5, <2>1, CalledTypes DEF Trigger, Processors
<1>6. ASSUME NEW p \in Processors,
             Upsert(p) \/ ReadWindow(p) \/ ReadHistory(p) \/ Refill(p) \/ Evaluate(p)
      PROVE  TypeInv'
  <2>1. p \in Tasks
    BY DEF Tasks
  <2>2. /\ run[p] \in Calls
        /\ run[p].pc \in Stages /\ run[p].ts \in 0..closed /\ run[p].at \in Nat
        /\ run[p].seen \in Seq(1..closed) /\ run[p].window \in Seq(1..closed)
    BY <2>1, TaskIs DEF TypeInv
  <2>3. ~At(p, "idle") => run[p].ts # 0 /\ run[p].ts \in 1..closed
    BY <1>0, <2>2 DEF TypeInv
  <2>4. ASSUME NEW pc \in Stages
        PROVE  /\ [run[p] EXCEPT !.pc = pc] \in Calls
               /\ [run[p] EXCEPT !.pc = pc].pc = pc /\ [run[p] EXCEPT !.pc = pc].ts = run[p].ts
               /\ [run[p] EXCEPT !.pc = pc].seen = run[p].seen
               /\ [run[p] EXCEPT !.pc = pc].at = run[p].at
    BY <2>2 DEF Calls
  <2>5. CASE ReadTail(p)
    <3>1. PICK pc \in {"push", "length", "range"} : run' = [run EXCEPT ![p].pc = pc]
      BY <2>5 DEF ReadTail, Goto
    <3>2. pc \in Stages /\ ~At(p, "idle")
      BY <2>5 DEF Stages, ReadTail, At
    <3>3. PICK r \in Calls : r = [run[p] EXCEPT !.pc = pc] /\ r.pc = pc /\ r.ts = run[p].ts
      BY <2>4, <3>2
    <3>4. run' = [run EXCEPT ![p] = r] /\ r.ts # 0 /\ r.pc \notin {"reset", "set", "rebuild"}
      BY <2>3, <3>1, <3>2, <3>3
    <3>5. UNCHANGED <<closed, handed, list, calls, faults, torn>> /\ skipped' \in BOOLEAN
      BY <2>5 DEF ReadTail, TypeInv
    <3> QED BY <3>4, <3>5, ReadTypes
  <2>6. CASE Push(p)
    <3>1. ~At(p, "idle") /\ "window" \in Stages
      BY <2>6 DEF Push, At, Stages
    <3>2. /\ Suffix(Append(list, run[p].ts), Maxlen) \in Seq(1..closed)
          /\ Limited(Suffix(Append(list, run[p].ts), Maxlen))
      <4>1. Append(list, run[p].ts) \in Seq(1..closed)
        BY <1>0, <2>3, <3>1, AppendProperties
      <4> QED BY <1>0, <4>1, SuffixIsShort, ShortIsLimited
    <3> QED BY <2>3, <2>4, <2>6, <3>1, <3>2, WriteTypes DEF Push, Goto
  <2>7. CASE ReadLength(p)
    <3> DEFINE r == [run[p] EXCEPT !.pc = IF list = <<>> THEN "only" ELSE "set", !.at = Len(list)]
    <3>1. run' = [run EXCEPT ![p] = r] /\ ~At(p, "idle")
      BY <2>7 DEF ReadLength, At
    <3>2. Len(list) \in Nat /\ (list # <<>> => Len(list) # 0)
      BY <1>0, LenProperties, EmptySeq
    <3>3. r \in Calls /\ r.ts = run[p].ts /\ r.pc \in {"only", "set"} /\ (r.pc = "set" => r.at # 0)
      BY <2>2, <3>2 DEF Calls, Stages
    <3> HIDE DEF r
    <3> QED BY <1>0, <2>3, <2>7, <3>1, <3>3, ReadTypes DEF ReadLength
  <2>8. CASE ReplaceByOwn(p)
    <3>1. ~At(p, "idle") /\ "window" \in Stages
      BY <2>8 DEF ReplaceByOwn, At, Stages
    <3>2. <<run[p].ts>> \in Seq(1..closed) /\ Limited(<<run[p].ts>>)
      <4>1. <<run[p].ts>> \in Seq(1..closed) /\ Len(<<run[p].ts>>) = 1 /\ 1 <= Maxlen
        BY <2>3, <3>1, ConstantsAssumption
      <4> QED BY <4>1, ShortIsLimited
    <3> QED BY <2>3, <2>4, <2>8, <3>1, <3>2, WriteTypes DEF ReplaceByOwn, Goto
  <2>9. CASE SetTail(p)
    <3>1. ~At(p, "idle") /\ "window" \in Stages
      BY <2>9 DEF SetTail, At, Stages
    <3>2. run[p].at \in 1..Len(list)
      <4>1. run[p].at # 0 /\ run[p].at <= Len(list) /\ Len(list) \in Nat
        BY <1>0, <2>9, LenProperties DEF SetTail, TypeInv
      <4> QED BY <2>2, <4>1
    <3>3. /\ [list EXCEPT ![run[p].at] = run[p].ts] \in Seq(1..closed)
          /\ Limited([list EXCEPT ![run[p].at] = run[p].ts])
      <4>1. /\ [list EXCEPT ![run[p].at] = run[p].ts] \in Seq(1..closed)
            /\ Len([list EXCEPT ![run[p].at] = run[p].ts]) = Len(list)
        BY <1>0, <2>3, <3>1, <3>2, ExceptSeq
      <4> QED BY <1>0, <4>1 DEF Limited
    <3> QED BY <2>3, <2>4, <2>9, <3>1, <3>3, WriteTypes DEF SetTail, Goto
  <2>10. CASE SetTailError(p) \/ Evaluate(p)
    <3>1. run' = [run EXCEPT ![p] = Idle]
      BY <2>10 DEF SetTailError, Evaluate
    <3>2. Idle \in Calls /\ Idle.pc = "idle"
      BY <1>0, EmptySeq DEF Idle, Calls, Stages
    <3> QED BY <1>0, <2>10, <3>1, <3>2, ReadTypes DEF SetTailError, Evaluate
  <2>11. CASE ReadRange(p)
    <3> DEFINE s == Merge(Suffix(list, Maxlen), run[p].ts, Maxlen)
               r == [run[p] EXCEPT !.pc = "rebuild", !.seen = s]
    <3>1. run' = [run EXCEPT ![p] = r] /\ ~At(p, "idle")
      BY <2>11 DEF ReadRange, At
    <3>2. s \in Seq(1..closed) /\ Limited(s)
      <4>1. Suffix(list, Maxlen) \in Seq(1..closed)
        BY <1>0, SuffixIsShort
      <4> QED BY <1>0, <2>3, <3>1, <4>1, MergeIsShort, ShortIsLimited
    <3> HIDE DEF s
    <3>3. r \in Calls /\ r.ts = run[p].ts /\ r.pc = "rebuild" /\ r.seen = s
      BY <2>2, <3>2 DEF Calls, Stages
    <3> HIDE DEF r
    <3> QED BY <1>0, <2>3, <2>11, <3>1, <3>2, <3>3, ReadTypes DEF ReadRange
  <2>12. CASE Rebuild(p)
    <3>1. ~At(p, "idle") /\ "window" \in Stages
      BY <2>12 DEF Rebuild, At, Stages
    <3>2. Limited(run[p].seen)
      BY <2>1, <2>12 DEF Rebuild, TypeInv
    <3>3. run[p].seen \in Seq(1..closed)
      BY <2>2
    <3>4. PICK r \in Calls : /\ r = [run[p] EXCEPT !.pc = "window"] /\ r.pc = "window"
                             /\ r.ts = run[p].ts
      BY <2>4, <3>1
    <3>5. run' = [run EXCEPT ![p] = r] /\ WriteList(p, run[p].seen) /\ r.ts # 0
      BY <2>3, <2>12, <3>1, <3>4 DEF Rebuild, Goto
    <3> QED BY <3>2, <3>3, <3>4, <3>5, WriteTypes
  <2>13. CASE ReadWindow(p)
    <3> DEFINE last == Suffix(list, Required)
               all == IF run[p].own THEN Merge(last, run[p].ts, Required) ELSE last
               w == IF Len(last) < Required THEN <<>> ELSE all
               r == [run[p] EXCEPT !.pc = IF Len(last) < Required THEN "history" ELSE "evaluate",
                                   !.window = w]
    <3>1. run' = [run EXCEPT ![p] = r] /\ ~At(p, "idle")
      BY <2>13 DEF ReadWindow, At
    <3>2. last \in Seq(1..closed)
      BY <1>0, SuffixIsShort
    <3> HIDE DEF last
    <3>3. w \in Seq(1..closed)
      BY <1>0, <2>3, <3>1, <3>2, MergeIsShort, EmptySeq
    <3> HIDE DEF w
    <3>4. r \in Calls /\ r.ts = run[p].ts /\ r.pc \in {"history", "evaluate"}
      BY <2>2, <3>3 DEF Calls, Stages
    <3> HIDE DEF r
    <3> QED BY <1>0, <2>3, <2>13, <3>1, <3>4, ReadTypes DEF ReadWindow
  <2>14. CASE ReadHistory(p)
    <3>1. PICK h \in Known :
             Fetched(p, h, IF run[p].own THEN Merge(History(h), run[p].ts, Target) ELSE History(h))
      BY <2>14 DEF ReadHistory
    <3> DEFINE s == IF run[p].own THEN Merge(History(h), run[p].ts, Target) ELSE History(h)
               r == [run[p] EXCEPT !.pc = IF s = <<>> THEN "idle" ELSE "refill", !.seen = s]
    <3>2. run' = [run EXCEPT ![p] = r] /\ ~At(p, "idle")
      BY <2>14, <3>1, ZenonT(60) DEF ReadHistory, Fetched, At
    <3>3. s \in Seq(1..closed)
      <4>1. h \in 0..closed
        BY <1>0, KnownIs
      <4>2. History(h) \in Seq(1..closed)
        BY <1>0, <4>1, HistoryIsShort
      <4> QED BY <1>0, <2>3, <3>2, <4>2, MergeIsShort
    <3>4. Fetched(p, h, s)
      BY <3>1
    <3> HIDE DEF s
    <3>5. r \in Calls /\ r.ts = run[p].ts /\ r.pc \in {"idle", "refill"}
      BY <2>2, <3>3 DEF Calls, Stages
    <3> HIDE DEF r
    <3>6. UNCHANGED <<closed, handed, list, calls, faults, torn>> /\ skipped' \in BOOLEAN
      BY <3>4, <1>0 DEF Fetched
    <3> QED BY <2>3, <3>2, <3>5, <3>6, ReadTypes
  <2>15. CASE Refill(p)
    <3> DEFINE w == Suffix(run[p].seen, Required)
               r == [run[p] EXCEPT !.pc = "evaluate", !.window = w]
    <3>1. run' = [run EXCEPT ![p] = r] /\ ~At(p, "idle")
      BY <2>15 DEF Refill, At
    <3>2. w \in Seq(1..closed)
      BY <1>0, <2>2, SuffixIsShort
    <3> HIDE DEF w
    <3>3. r \in Calls /\ r.ts = run[p].ts /\ r.pc = "evaluate"
      BY <2>2, <3>2 DEF Calls, Stages
    <3> HIDE DEF r
    <3>4. Suffix(run[p].seen, Target) \in Seq(1..closed) /\ Limited(Suffix(run[p].seen, Target))
      BY <1>0, <2>2, SuffixIsShort, ShortIsLimited
    <3> QED BY <2>3, <2>15, <3>1, <3>3, <3>4, WriteTypes DEF Refill
  <2> QED BY <1>6, <2>5, <2>6, <2>7, <2>8, <2>9, <2>10, <2>11, <2>12, <2>13, <2>14, <2>15
          DEF Upsert
<1>7. CASE StartBootstrap
  <2>1. PICK h \in Known, k \in Limits :
           run' = [run EXCEPT !["bootstrap"].pc = "reset",
                              !["bootstrap"].seen = Suffix(History(h), k)]
    BY <1>7 DEF StartBootstrap
  <2> DEFINE s == Suffix(History(h), k)
             r == [run["bootstrap"] EXCEPT !.pc = "reset", !.seen = s]
  <2>2. run' = [run EXCEPT !["bootstrap"] = r] /\ "bootstrap" \in Tasks
    BY <2>1 DEF Tasks
  <2>3. s \in Seq(1..closed) /\ Limited(s)
    <3>1. h \in 0..closed /\ k \in Nat
      BY <1>0, KnownIs, ConstantsAssumption
    <3>2. History(h) \in Seq(1..closed)
      BY <1>0, <3>1, HistoryIsShort
    <3> QED BY <3>1, <3>2, SuffixIsShort DEF Limited
  <2> HIDE DEF s
  <2>4. r \in Calls /\ r.pc = "reset" /\ r.seen = s
    <3>1. run["bootstrap"] \in Calls
      BY <2>2 DEF TypeInv
    <3> QED BY <2>3, <3>1 DEF Calls, Stages
  <2> HIDE DEF r
  <2>5. calls' \in 0..MaxCalls
    BY <1>0, <1>7 DEF StartBootstrap
  <2>6. "bootstrap" \notin Processors
    BY DEF Processors
  <2>7. UNCHANGED <<closed, handed, list, faults, torn, skipped>>
    BY <1>7 DEF StartBootstrap
  <2> QED BY <1>0, <2>2, <2>3, <2>4, <2>5, <2>6, <2>7, TaskTypes
<1>8. CASE Reset
  <2>1. Idle \in Calls /\ Idle.pc = "idle"
    BY <1>0, EmptySeq DEF Idle, Calls, Stages
  <2>2. "bootstrap" \in Tasks /\ "bootstrap" \notin Processors
    BY DEF Tasks, Processors
  <2>3. run["bootstrap"].seen \in Seq(1..closed) /\ Limited(run["bootstrap"].seen)
    BY <1>8, <2>2, TaskIs DEF Reset, TypeInv
  <2>4. /\ UNCHANGED <<closed, handed, calls, faults, skipped>>
        /\ list' = run["bootstrap"].seen /\ torn' \in BOOLEAN
        /\ run' = [run EXCEPT !["bootstrap"] = Idle]
    BY <1>0, <1>8 DEF Reset, WriteList
  <2> QED BY <1>0, <2>1, <2>2, <2>3, <2>4, TaskTypes
<1>9. ASSUME NEW p \in Tasks, CallFault(p) PROVE TypeInv'
  <2>1. Idle \in Calls /\ Idle.pc = "idle"
    BY <1>0, EmptySeq DEF Idle, Calls, Stages
  <2>2. faults' \in 0..MaxFaults /\ skipped' \in BOOLEAN
    BY <1>0, <1>9 DEF CallFault, Fault
  <2>3. run' = [run EXCEPT ![p] = Idle] /\ UNCHANGED <<closed, handed, list, calls, torn>>
    BY <1>9 DEF CallFault
  <2> QED BY <1>0, <2>1, <2>2, <2>3, TaskTypes
<1> QED BY <1>1, <1>2, <1>3, <1>4, <1>5, <1>6, <1>7, <1>8, <1>9 DEF Next

-----------------------------------------------------------------------------
(* The window and the list, whatever the three writers do.                 *)

\* Sorting out the newest k candles of a set leaves out none that is as new as they.
LEMMA NewestFits ==
  ASSUME NEW S \in SUBSET Nat, IsFiniteSet(S), NEW c \in S, NEW k \in Nat
  PROVE  Fits(W!Newest(S, k), c, k) /\ Len(W!Newest(S, k)) <= k
<1>1. Cardinality(S) \in Nat
  BY FS_CardinalityType
<1>2. Len(W!Newest(S, k)) <= k
  BY <1>1, NewestProperties
<1> QED BY <1>2, NewestProperties DEF Fits

LEMMA SuffixFits ==
  ASSUME NEW s \in Seq(Nat), NEW c \in Nat, NEW j \in Nat, NEW k \in Nat, k <= j, Fits(s, c, j)
  PROVE  Fits(Suffix(s, k), c, k) /\ Len(Suffix(s, k)) <= k
<1> DEFINE v == Suffix(s, k)
<1>1. /\ v \in Seq(Nat) /\ Ascending(v) /\ ToSet(v) \subseteq ToSet(s)
      /\ \A x \in ToSet(s) \ ToSet(v), y \in ToSet(v) : x < y
  BY OrderedSuffix DEF Fits
<1>2. Len(s) \in Nat /\ Len(v) = IF Len(s) <= k THEN Len(s) ELSE k
  BY SuffixProperties, LenProperties
<1>3. CASE Len(s) <= k
  <2>1. v = s
    BY <1>3 DEF Suffix
  <2>2. Len(s) = j => Len(s) = k
    BY <1>2, <1>3
  <2> QED BY <1>3, <2>1, <2>2 DEF Fits
<1>4. CASE ~(Len(s) <= k)
  <2>1. Len(v) = k
    BY <1>2, <1>4
  <2> QED BY <1>1, <2>1 DEF Fits
<1> QED BY <1>3, <1>4

LEMMA MergeFits ==
  ASSUME NEW s \in Seq(Nat), NEW c \in Nat, NEW k \in Nat, NEW h \in Nat, NEW S,
         S = ToSet(s), S \in SUBSET (1..h)
  PROVE  Fits(Merge(s, c, k), c, k) /\ Len(Merge(s, c, k)) <= k
<1>1. S \cup {c} \in SUBSET Nat /\ IsFiniteSet(S \cup {c}) /\ c \in S \cup {c}
  <2>1. IsFiniteSet(1..h) /\ 1..h \subseteq Nat
    BY FS_Interval
  <2> QED BY <2>1, FS_Subset, FS_AddElement
<1> QED BY <1>1, NewestFits DEF Merge

\* The history is all candles up to one of them.
LEMMA HistoryIs ==
  ASSUME NEW h \in 0..NumCandles
  PROVE  /\ History(h) \in Seq(Nat) /\ Ascending(History(h)) /\ ToSet(History(h)) = 1..h
         /\ \A k : Suffix(History(h), k) = W!Newest(1..h, k)
<1>1. h \in Nat /\ h <= NumCandles
  BY ConstantsAssumption
<1>2. PICK s : s = [i \in 1..h |-> i]
  OBVIOUS
<1>3. /\ s \in Seq(Nat) /\ Len(s) = h /\ Ascending(s) /\ ToSet(s) = 1..h
      /\ \A k : W!Newest(1..h, k) = Suffix(s, k)
  BY <1>1, <1>2, NewestOfInterval
<1>4. Suffix(s, NumCandles) = s
  BY <1>1, <1>3 DEF Suffix
<1> QED BY <1>3, <1>4 DEF History

\* What was fetched is ascending.
LEMMA FetchedIsOrdered ==
  ASSUME NEW r, r.ts \in Nat, FetchedOK(r), r.pc = "refill" \/ r.pc = "reset"
  PROVE  r.seen \in Seq(Nat) /\ Ascending(r.seen)
<1>1. PICK h \in Nat, k \in Nat, S \in SUBSET Nat :
         S \subseteq (1..h) \cup {r.ts} /\ r.seen = W!Newest(S, k)
  <2>1. NumCandles \in Nat /\ Limits \subseteq Nat /\ Target \in Nat
    BY ConstantsAssumption, TargetIs
  <2>2. CASE r.pc = "refill"
    <3>1. PICK h \in 0..NumCandles : r.seen = IF r.own THEN W!Newest((1..h) \cup {r.ts}, Target)
                                                       ELSE W!Newest(1..h, NumCandles)
      BY <2>2 DEF FetchedOK
    <3>2. h \in Nat /\ (1..h) \cup {r.ts} \in SUBSET Nat /\ 1..h \in SUBSET Nat
      BY <2>1
    <3> QED BY <2>1, <3>1, <3>2
  <2>3. CASE r.pc = "reset"
    <3>1. PICK h \in 0..NumCandles, k \in Limits : r.seen = W!Newest(1..h, k)
      BY <2>3 DEF FetchedOK
    <3>2. h \in Nat /\ k \in Nat /\ 1..h \in SUBSET Nat
      BY <2>1
    <3> QED BY <2>1, <3>1, <3>2
  <2> QED BY <2>2, <2>3
<1>2. S \in SUBSET Nat /\ IsFiniteSet(S)
  <2>1. IsFiniteSet(1..h)
    BY FS_Interval
  <2>2. IsFiniteSet((1..h) \cup {r.ts})
    BY <2>1, FS_AddElement
  <2>3. PICK U : U = (1..h) \cup {r.ts}
    OBVIOUS
  <2>4. S \in SUBSET U /\ IsFiniteSet(U)
    BY <1>1, <2>2, <2>3
  <2> QED BY <2>4, FS_Subset
<1> QED BY <1>1, <1>2, NewestProperties

\* A step of a task that writes no list.
LEMMA ReadKeeps ==
  ASSUME TypeInv, SharedInv, NEW p \in Tasks, NEW r, run' = [run EXCEPT ![p] = r],
         UNCHANGED <<list, torn>>, WindowOK(r), FetchedOK(r), ~torn => ReadOK(r)
  PROVE  SharedInv'
<1>1. run'[p] = r /\ \A q \in Tasks \ {p} : run'[q] = run[q]
  BY OthersStay
<1>2. \A q : ReadOK(q)' <=> ReadOK(q)
  BY DEF ReadOK
<1>3. \A q \in Tasks : ReadOK(run[q])' <=> ReadOK(run'[q])
  BY DEF ReadOK
<1>4. \A q \in Tasks : WindowOK(run'[q]) /\ FetchedOK(run'[q])
  BY <1>1 DEF SharedInv
<1>5. RollingInv'
  BY <1>1, <1>3 DEF SharedInv, RollingInv
<1> QED BY <1>4, <1>5 DEF SharedInv

\* A step of a task that writes the list: as long as no other task is about to write.
LEMMA WriteKeeps ==
  ASSUME TypeInv, SharedInv, NEW p \in Tasks, NEW r, run' = [run EXCEPT ![p] = r],
         NEW s, WriteList(p, s), WindowOK(r), FetchedOK(r),
         r.pc \in {"idle", "window", "evaluate"}, ~torn => Ascending(s)
  PROVE  SharedInv'
<1>1. run'[p] = r /\ \A q \in Tasks \ {p} : run'[q] = run[q]
  BY OthersStay
<1>2. \A q \in Tasks : WindowOK(run'[q]) /\ FetchedOK(run'[q])
  BY <1>1 DEF SharedInv
<1>3. list' = s /\ torn' = (torn \/ \E q \in Tasks \ {p} : Holds(q))
  BY DEF WriteList
<1>4. ASSUME ~torn', NEW q \in Tasks PROVE ReadOK(run[q])'
  <2>1. CASE q = p
    BY <1>1, <2>1 DEF ReadOK
  <2>2. CASE q # p
    BY <1>1, <1>3, <1>4, <2>2 DEF ReadOK, Holds
  <2> QED BY <2>1, <2>2
<1>5. RollingInv'
  BY <1>3, <1>4 DEF RollingInv
<1> QED BY <1>2, <1>5 DEF SharedInv

LEMMA IdleIsOK == WindowOK(Idle) /\ FetchedOK(Idle) /\ ReadOK(Idle)
BY DEF Idle, WindowOK, FetchedOK, ReadOK

\* A task that has not read the list, or no more than its window.
LEMMA NothingRead ==
  ASSUME NEW r, r.pc \in {"idle", "tail", "range", "window", "history"}
  PROVE  WindowOK(r) /\ FetchedOK(r) /\ ReadOK(r)
BY DEF WindowOK, FetchedOK, ReadOK

LEMMA SharedInit == Init => SharedInv
<1> SUFFICES ASSUME Init PROVE SharedInv
  OBVIOUS
<1>1. \A p \in Tasks : run[p] = Idle
  BY DEF Init
<1>2. Ascending(list)
  <2>1. CASE list = <<>>
    BY <2>1 DEF Ascending
  <2>2. CASE list = W!Newest(1..NumClosed, Maxlen)
    <3>1. IsFiniteSet(1..NumClosed) /\ 1..NumClosed \in SUBSET Nat /\ Maxlen \in Nat
      BY FS_Interval, ConstantsAssumption
    <3> QED BY <2>2, <3>1, NewestProperties
  <2> QED BY <2>1, <2>2 DEF Init
<1> QED BY <1>1, <1>2, IdleIsOK DEF SharedInv, RollingInv

LEMMA Numbers ==
  ASSUME NEW m \in Nat, NEW s \in Seq(1..m)
  PROVE  s \in Seq(Nat) /\ ToSet(s) \in SUBSET (1..m) /\ ToSet(s) \in SUBSET Nat
         /\ IsFiniteSet(ToSet(s))
<1>1. s \in Seq(Nat)
  <2>1. 1..m \subseteq Nat
    OBVIOUS
  <2> QED BY <2>1, SeqMonotonic
<1>2. ToSet(s) \in SUBSET (1..m)
  BY LenProperties, ElementOfSeq DEF ToSet
<1>3. IsFiniteSet(1..m) /\ 1..m \in SUBSET Nat
  BY FS_Interval
<1> QED BY <1>1, <1>2, <1>3, FS_Subset

\* What a write of the list that rests on a read of it makes of an ascending list.
LEMMA PushIs ==
  ASSUME TypeInv, SharedInv, ~torn, NEW p \in Processors, At(p, "push")
  PROVE  /\ Suffix(Append(list, run[p].ts), Maxlen) = W!Newest(ToSet(list) \cup {run[p].ts}, Maxlen)
         /\ Ascending(Suffix(Append(list, run[p].ts), Maxlen))
<1> DEFINE c == run[p].ts
<1>1. p \in Tasks /\ closed \in Nat /\ list \in Seq(1..closed) /\ Maxlen \in Nat
  BY TaskIs, ConstantsAssumption DEF TypeInv, Tasks
<1>2. list \in Seq(Nat) /\ c \in Nat
  <2>1. c \in Nat
    BY <1>1, TaskIs
  <2> QED BY <1>1, <2>1, Numbers
<1>3. Ascending(list) /\ (list = <<>> \/ c > Last(list))
  BY <1>1 DEF SharedInv, RollingInv, ReadOK, At
<1> HIDE DEF c
<1>4. /\ Append(list, c) \in Seq(Nat) /\ Ascending(Append(list, c))
      /\ W!Newest(ToSet(list) \cup {c}, Maxlen) = Suffix(Append(list, c), Maxlen)
  BY <1>2, <1>3, NewestOfAppend
<1>5. Ascending(Suffix(Append(list, c), Maxlen))
  BY <1>1, <1>4, OrderedSuffix
<1> QED BY <1>4, <1>5 DEF c

LEMMA SetIs ==
  ASSUME TypeInv, SharedInv, ~torn, NEW p \in Processors, At(p, "set")
  PROVE  [list EXCEPT ![run[p].at] = run[p].ts] = list /\ Ascending(list)
<1>1. p \in Tasks /\ list \in Seq(1..closed) /\ DOMAIN list = 1..Len(list)
  BY LenProperties DEF TypeInv, Tasks
<1>2. Ascending(list) /\ list # <<>> /\ run[p].at = Len(list) /\ run[p].ts = list[Len(list)]
  BY <1>1 DEF SharedInv, RollingInv, ReadOK, At, Last
<1>3. [list EXCEPT ![Len(list)] = list[Len(list)]] = list
  BY <1>1
<1> QED BY <1>2, <1>3

LEMMA RebuildIs ==
  ASSUME TypeInv, SharedInv, ~torn, NEW p \in Processors, At(p, "rebuild")
  PROVE  /\ run[p].seen = W!Newest(ToSet(list) \cup {run[p].ts}, Maxlen)
         /\ Ascending(run[p].seen)
<1>1. p \in Tasks /\ closed \in Nat /\ list \in Seq(1..closed) /\ Maxlen \in Nat
  BY TaskIs, ConstantsAssumption DEF TypeInv, Tasks
<1>2. run[p].seen = W!Newest(ToSet(list) \cup {run[p].ts}, Maxlen)
  BY <1>1 DEF SharedInv, RollingInv, ReadOK, At
<1>3. ToSet(list) \cup {run[p].ts} \in SUBSET Nat /\ IsFiniteSet(ToSet(list) \cup {run[p].ts})
  <2>1. run[p].ts \in Nat /\ ToSet(list) \in SUBSET Nat /\ IsFiniteSet(ToSet(list))
    BY <1>1, Numbers, TaskIs
  <2> QED BY <2>1, FS_AddElement
<1> QED BY <1>1, <1>2, <1>3, NewestProperties

\* What a fill and a bootstrap write.
LEMMA RefillIs ==
  ASSUME TypeInv, SharedInv, NEW p \in Processors, At(p, "refill")
  PROVE  /\ \E h \in 0..NumCandles : \/ Suffix(run[p].seen, Target) = W!Newest(1..h, Target)
                                     \/ Suffix(run[p].seen, Target) = W!Newest((1..h) \cup {run[p].ts}, Target)
         /\ Ascending(Suffix(run[p].seen, Target))
<1>1. p \in Tasks /\ run[p].ts \in Nat /\ Target \in Nat /\ NumCandles \in Nat
  <2>1. p \in Tasks
    BY DEF Tasks
  <2> QED BY <2>1, TaskIs, TargetIs, ConstantsAssumption
<1>2. FetchedOK(run[p]) /\ run[p].pc = "refill"
  BY <1>1 DEF SharedInv, At
<1>3. run[p].seen \in Seq(Nat) /\ Ascending(run[p].seen)
  BY <1>1, <1>2, FetchedIsOrdered
<1>4. PICK h \in 0..NumCandles : run[p].seen = IF run[p].own THEN W!Newest((1..h) \cup {run[p].ts}, Target)
                                                             ELSE W!Newest(1..h, NumCandles)
  BY <1>2 DEF FetchedOK
<1>5. CASE run[p].own
  <2>1. PICK S : S = (1..h) \cup {run[p].ts}
    OBVIOUS
  <2>2. S \in SUBSET Nat /\ IsFiniteSet(S)
    <3>1. IsFiniteSet(1..h) /\ 1..h \subseteq Nat
      BY FS_Interval
    <3> QED BY <1>1, <2>1, <3>1, FS_AddElement
  <2>3. Cardinality(S) \in Nat
    BY <2>2, FS_CardinalityType
  <2>4. Len(W!Newest(S, Target)) <= Target
    <3>1. Len(W!Newest(S, Target)) = IF Cardinality(S) <= Target THEN Cardinality(S) ELSE Target
      BY <1>1, <2>2, NewestProperties
    <3> QED BY <1>1, <2>3, <3>1
  <2>5. Suffix(run[p].seen, Target) = run[p].seen
    BY <1>4, <1>5, <2>1, <2>4 DEF Suffix
  <2> QED BY <1>3, <1>4, <1>5, <2>5
<1>6. CASE ~run[p].own
  <2>1. Suffix(run[p].seen, Target) = W!Newest(1..h, Target)
    BY <1>4, <1>6, HistoryIs DEF History
  <2> QED BY <1>1, <1>3, <2>1, OrderedSuffix
<1> QED BY <1>5, <1>6

LEMMA ResetIs ==
  ASSUME TypeInv, SharedInv, At("bootstrap", "reset")
  PROVE  /\ \E h \in 0..NumCandles, k \in Limits : run["bootstrap"].seen = W!Newest(1..h, k)
         /\ Ascending(run["bootstrap"].seen)
<1>1. PICK b \in Tasks : b = "bootstrap"
  BY DEF Tasks
<1>2. FetchedOK(run[b]) /\ run[b].pc = "reset" /\ run[b].ts \in Nat
  <2>1. run[b].pc = "reset"
    BY <1>1 DEF At
  <2> QED BY <2>1, TaskIs DEF SharedInv
<1> QED BY <1>1, <1>2, FetchedIsOrdered DEF FetchedOK

\* What the evaluator gets, from the list and from the history.
LEMMA WindowFits ==
  ASSUME TypeInv, NEW p \in Processors, ~At(p, "idle"), NEW k \in Nat, NEW m \in Nat,
         NEW s \in Seq(1..m)
  PROVE  Fits(Merge(s, run[p].ts, k), run[p].ts, k) /\ Len(Merge(s, run[p].ts, k)) <= k
<1>1. p \in Tasks
  BY DEF Tasks
<1>2. run[p].ts \in Nat
  BY <1>1, TaskIs
<1>3. s \in Seq(Nat) /\ ToSet(s) \in SUBSET (1..m)
  BY Numbers
<1> QED BY <1>2, <1>3, MergeFits

LEMMA ReadRangeIs ==
  ASSUME TypeInv, SharedInv, ~torn, NEW p \in Processors
  PROVE  Merge(Suffix(list, Maxlen), run[p].ts, Maxlen)
           = W!Newest(ToSet(list) \cup {run[p].ts}, Maxlen)
<1>1. p \in Tasks
  BY DEF Tasks
<1>2. run[p].ts \in Nat /\ closed \in Nat /\ list \in Seq(1..closed) /\ Maxlen \in Nat \ {0}
  BY <1>1, TaskIs, ConstantsAssumption DEF TypeInv
<1>3. list \in Seq(Nat) /\ Ascending(list)
  BY <1>2, Numbers DEF SharedInv, RollingInv
<1> QED BY <1>2, <1>3, MergeOfSuffix

LEMMA ReadHistoryIs ==
  ASSUME NEW h \in 0..NumCandles, NEW c
  PROVE  Merge(History(h), c, Target) = W!Newest((1..h) \cup {c}, Target)
BY HistoryIs DEF Merge

LEMMA SharedStep == TypeInv /\ SharedInv /\ [Next]_vars => SharedInv'
<1> SUFFICES ASSUME TypeInv, SharedInv, [Next]_vars PROVE SharedInv'
  OBVIOUS
<1> USE DEF Reading
<1>0. closed \in Nat /\ closed \in 0..NumCandles /\ list \in Seq(1..closed) /\ list \in Seq(Nat)
  <2>1. closed \in Nat /\ closed \in 0..NumCandles /\ list \in Seq(1..closed)
    BY ConstantsAssumption DEF TypeInv
  <2> QED BY <2>1, Numbers
<1>1. CASE UNCHANGED <<list, run, torn>>
  BY <1>1 DEF SharedInv, RollingInv, ReadOK
<1>2. ASSUME NEW p \in Processors, NEW n, NEW candle \in BOOLEAN, Called(p, n, candle),
             UNCHANGED <<list, torn>>
      PROVE  SharedInv'
  <2> DEFINE r == [Idle EXCEPT !.pc = IF candle THEN "tail" ELSE "window", !.ts = n, !.own = candle]
  <2>1. run' = [run EXCEPT ![p] = r] /\ p \in Tasks
    BY <1>2 DEF Called, Tasks
  <2>2. r.pc \in {"tail", "window"}
    BY DEF Idle
  <2> HIDE DEF r
  <2>3. WindowOK(r) /\ FetchedOK(r) /\ ReadOK(r)
    BY <2>2, NothingRead
  <2> QED BY <1>2, <2>1, <2>3, ReadKeeps
<1>3. ASSUME NEW p \in Processors,
             Upsert(p) \/ ReadWindow(p) \/ ReadHistory(p) \/ Refill(p) \/ Evaluate(p)
      PROVE  SharedInv'
  <2>1. p \in Tasks /\ run[p] \in Calls
    BY DEF Tasks, TypeInv
  <2>2. run[p].ts \in Nat /\ run[p].seen \in Seq(1..closed)
    BY <2>1, TaskIs
  <2>3. ASSUME NEW pc \in Stages
        PROVE  LET r == [run[p] EXCEPT !.pc = pc] IN
               r.pc = pc /\ r.ts = run[p].ts /\ r.seen = run[p].seen /\ r.at = run[p].at
    BY <2>1 DEF Calls
  <2>4. ASSUME NEW s, WriteList(p, s), Goto(p, "window"), ~torn => Ascending(s)
        PROVE  SharedInv'
    <3>1. PICK r : r = [run[p] EXCEPT !.pc = "window"]
      OBVIOUS
    <3>2. run' = [run EXCEPT ![p] = r] /\ r.pc = "window"
      BY <2>1, <2>4, <3>1 DEF Goto, Calls
    <3>3. WindowOK(r) /\ FetchedOK(r) /\ ReadOK(r)
      BY <3>2, NothingRead
    <3> QED BY <2>1, <2>4, <3>2, <3>3, WriteKeeps
  <2>5. CASE ReadTail(p)
    <3> DEFINE pc == IF list = <<>> \/ run[p].ts > Last(list) THEN "push"
                     ELSE IF run[p].ts = Last(list) THEN "length" ELSE "range"
               r == [run[p] EXCEPT !.pc = pc]
    <3>1. run' = [run EXCEPT ![p] = r] /\ pc \in Stages
      BY <2>5 DEF ReadTail, Goto, Stages
    <3>2. r.pc = pc /\ r.ts = run[p].ts
      BY <2>3, <3>1
    <3>3. WindowOK(r) /\ FetchedOK(r) /\ ReadOK(r)
      <4> HIDE DEF r
      <4> QED BY <3>2 DEF WindowOK, FetchedOK, ReadOK
    <3> HIDE DEF r
    <3> QED BY <2>1, <2>5, <3>1, <3>3, ReadKeeps DEF ReadTail
  <2>6. CASE Push(p)
    <3>1. ~torn => Ascending(Suffix(Append(list, run[p].ts), Maxlen))
      BY <2>6, PushIs DEF Push
    <3> QED BY <2>4, <2>6, <3>1 DEF Push
  <2>7. CASE ReadLength(p)
    <3> DEFINE r == [run[p] EXCEPT !.pc = IF list = <<>> THEN "only" ELSE "set", !.at = Len(list)]
    <3>1. run' = [run EXCEPT ![p] = r]
      BY <2>7 DEF ReadLength
    <3>2. r.pc = (IF list = <<>> THEN "only" ELSE "set") /\ r.ts = run[p].ts /\ r.at = Len(list)
      BY <2>1 DEF Calls
    <3>3. WindowOK(r) /\ FetchedOK(r)
      BY <3>2 DEF WindowOK, FetchedOK
    <3>4. ~torn => list # <<>> /\ run[p].ts = Last(list)
      BY <2>1, <2>7 DEF SharedInv, RollingInv, ReadOK, ReadLength, At
    <3>5. ~torn => ReadOK(r)
      <4> HIDE DEF r
      <4> QED BY <3>2, <3>4 DEF ReadOK
    <3> HIDE DEF r
    <3> QED BY <2>1, <2>7, <3>1, <3>3, <3>5, ReadKeeps DEF ReadLength
  <2>8. CASE ReplaceByOwn(p)
    <3>1. Ascending(<<run[p].ts>>)
      BY DEF Ascending
    <3> QED BY <2>4, <2>8, <3>1 DEF ReplaceByOwn
  <2>9. CASE SetTail(p)
    <3>1. ~torn => Ascending([list EXCEPT ![run[p].at] = run[p].ts])
      BY <2>9, SetIs DEF SetTail
    <3> QED BY <2>4, <2>9, <3>1 DEF SetTail
  <2>10. CASE SetTailError(p) \/ Evaluate(p)
    <3>1. run' = [run EXCEPT ![p] = Idle] /\ UNCHANGED <<list, torn>>
      BY <2>10 DEF SetTailError, Evaluate
    <3> QED BY <2>1, <3>1, IdleIsOK, ReadKeeps
  <2>11. CASE ReadRange(p)
    <3> DEFINE s == Merge(Suffix(list, Maxlen), run[p].ts, Maxlen)
               r == [run[p] EXCEPT !.pc = "rebuild", !.seen = s]
    <3>1. run' = [run EXCEPT ![p] = r]
      BY <2>11 DEF ReadRange
    <3>2. r.pc = "rebuild" /\ r.ts = run[p].ts /\ r.seen = s
      BY <2>1 DEF Calls
    <3>3. ~torn => s = W!Newest(ToSet(list) \cup {run[p].ts}, Maxlen)
      BY ReadRangeIs
    <3> HIDE DEF r, s
    <3>4. WindowOK(r) /\ FetchedOK(r) /\ (~torn => ReadOK(r))
      BY <3>2, <3>3 DEF WindowOK, FetchedOK, ReadOK
    <3> QED BY <2>1, <2>11, <3>1, <3>4, ReadKeeps DEF ReadRange
  <2>12. CASE Rebuild(p)
    <3>1. ~torn => Ascending(run[p].seen)
      BY <2>12, RebuildIs DEF Rebuild
    <3> QED BY <2>4, <2>12, <3>1 DEF Rebuild
  <2>13. CASE ReadWindow(p)
    <3> DEFINE last == Suffix(list, Required)
               all == IF run[p].own THEN Merge(last, run[p].ts, Required) ELSE last
               w == IF Len(last) < Required THEN <<>> ELSE all
               r == [run[p] EXCEPT !.pc = IF Len(last) < Required THEN "history" ELSE "evaluate",
                                   !.window = w]
    <3>1. run' = [run EXCEPT ![p] = r] /\ ~At(p, "idle")
      BY <2>13 DEF ReadWindow, At
    <3>2. last \in Seq(1..closed) /\ Required \in Nat
      BY <1>0, SuffixIsShort, ConstantsAssumption
    <3> HIDE DEF last
    <3>3. run[p].own => Fits(all, run[p].ts, Required) /\ Len(all) <= Required
      BY <1>0, <3>1, <3>2, WindowFits
    <3> HIDE DEF all
    <3>4. /\ r.pc = (IF Len(last) < Required THEN "history" ELSE "evaluate")
          /\ r.ts = run[p].ts /\ r.own = run[p].own
          /\ r.window = w
      BY <2>1 DEF Calls
    <3> HIDE DEF r
    <3>5. WindowOK(r) /\ FetchedOK(r) /\ ReadOK(r)
      BY <3>3, <3>4 DEF WindowOK, FetchedOK, ReadOK
    <3> QED BY <2>1, <2>13, <3>1, <3>5, ReadKeeps DEF ReadWindow
  <2>14. CASE ReadHistory(p)
    <3>1. PICK h \in Known :
             Fetched(p, h, IF run[p].own THEN Merge(History(h), run[p].ts, Target) ELSE History(h))
      BY <2>14 DEF ReadHistory
    <3> DEFINE s == IF run[p].own THEN Merge(History(h), run[p].ts, Target) ELSE History(h)
               r == [run[p] EXCEPT !.pc = IF s = <<>> THEN "idle" ELSE "refill", !.seen = s]
    <3>2. run' = [run EXCEPT ![p] = r] /\ UNCHANGED <<list, torn>> /\ ~At(p, "idle")
      BY <2>14, <3>1, ZenonT(60) DEF ReadHistory, Fetched, At
    <3>3. h \in 0..closed /\ h \in 0..NumCandles /\ Target \in Nat
      <4>1. h \in 0..closed
        BY <1>0, KnownIs
      <4>2. h \in 0..NumCandles
        BY <1>0, <4>1, ConstantsAssumption
      <4> QED BY <4>1, <4>2, TargetIs
    <3>4. History(h) \in Seq(1..closed)
      BY <1>0, <3>3, HistoryIsShort
    <3>5. run[p].own => Fits(s, run[p].ts, Target)
      BY <1>0, <3>2, <3>3, <3>4, WindowFits
    <3>6. s = IF run[p].own THEN W!Newest((1..h) \cup {run[p].ts}, Target) ELSE W!Newest(1..h, NumCandles)
      BY <3>3, ReadHistoryIs DEF History
    <3> HIDE DEF s
    <3>7. /\ r.pc = (IF s = <<>> THEN "idle" ELSE "refill") /\ r.seen = s
          /\ r.ts = run[p].ts /\ r.own = run[p].own
      BY <2>1 DEF Calls
    <3> HIDE DEF r
    <3>8. WindowOK(r) /\ FetchedOK(r) /\ ReadOK(r)
      BY <3>3, <3>5, <3>6, <3>7 DEF WindowOK, FetchedOK, ReadOK
    <3> QED BY <2>1, <3>2, <3>8, ReadKeeps
  <2>15. CASE Refill(p)
    <3> DEFINE w == Suffix(run[p].seen, Required)
               r == [run[p] EXCEPT !.pc = "evaluate", !.window = w]
    <3>1. run' = [run EXCEPT ![p] = r] /\ WriteList(p, Suffix(run[p].seen, Target)) /\ At(p, "refill")
      BY <2>15 DEF Refill
    <3>2. /\ Required \in Nat /\ Target \in Nat /\ Required <= Target
      BY TargetIs, ConstantsAssumption
    <3>3. run[p].own => Fits(run[p].seen, run[p].ts, Target)
      BY <2>1, <3>1 DEF SharedInv, WindowOK, At
    <3>4. run[p].seen \in Seq(Nat)
      BY <1>0, <2>2, Numbers
    <3>5. run[p].own => Fits(w, run[p].ts, Required) /\ Len(w) <= Required
      BY <2>2, <3>2, <3>3, <3>4, SuffixFits
    <3> HIDE DEF w
    <3>6. r.pc = "evaluate" /\ r.ts = run[p].ts /\ r.own = run[p].own /\ r.window = w
      BY <2>1 DEF Calls
    <3> HIDE DEF r
    <3>7. WindowOK(r) /\ FetchedOK(r)
      BY <3>5, <3>6 DEF WindowOK, FetchedOK
    <3>8. Ascending(Suffix(run[p].seen, Target))
      BY <3>1, RefillIs
    <3> QED BY <2>1, <3>1, <3>6, <3>7, <3>8, WriteKeeps
  <2> QED BY <1>3, <2>5, <2>6, <2>7, <2>8, <2>9, <2>10, <2>11, <2>12, <2>13, <2>14, <2>15
          DEF Upsert
<1>4. CASE StartBootstrap
  <2>1. PICK h \in Known, k \in Limits :
           run' = [run EXCEPT !["bootstrap"].pc = "reset",
                              !["bootstrap"].seen = Suffix(History(h), k)]
    BY <1>4 DEF StartBootstrap
  <2>2. PICK b \in Tasks : b = "bootstrap"
    BY DEF Tasks
  <2> DEFINE s == Suffix(History(h), k)
             r == [run[b] EXCEPT !.pc = "reset", !.seen = s]
  <2>3. run' = [run EXCEPT ![b] = r] /\ run[b] \in Calls
    BY <2>1, <2>2 DEF TypeInv
  <2>4. h \in 0..NumCandles /\ s = W!Newest(1..h, k)
    <3>1. h \in 0..NumCandles
      BY <1>0, KnownIs, ConstantsAssumption
    <3> QED BY <3>1, HistoryIs
  <2> HIDE DEF s
  <2>5. r.pc = "reset" /\ r.seen = s
    BY <2>3 DEF Calls
  <2> HIDE DEF r
  <2>6. WindowOK(r) /\ FetchedOK(r) /\ ReadOK(r)
    BY <2>4, <2>5 DEF WindowOK, FetchedOK, ReadOK
  <2>7. UNCHANGED <<list, torn>>
    BY <1>4 DEF StartBootstrap
  <2> QED BY <2>3, <2>6, <2>7, ReadKeeps
<1>5. CASE Reset
  <2>1. PICK b \in Tasks : b = "bootstrap"
    BY DEF Tasks
  <2>2. run' = [run EXCEPT ![b] = Idle] /\ WriteList(b, run[b].seen) /\ Ascending(run[b].seen)
    BY <1>5, <2>1, ResetIs DEF Reset
  <2>3. Idle.pc = "idle"
    BY DEF Idle
  <2> QED BY <2>2, <2>3, IdleIsOK, WriteKeeps
<1>6. ASSUME NEW p \in Tasks, CallFault(p) PROVE SharedInv'
  BY <1>6, IdleIsOK, ReadKeeps DEF CallFault
<1>7. CASE HandleEntry \/ \E n \in 1..NumCandles : HandleOther(n) \/ Trigger(n)
  BY <1>2, <1>7 DEF HandleEntry, HandleOther, Trigger, Processors
<1> QED BY <1>1, <1>3, <1>4, <1>5, <1>6, <1>7 DEF Next, vars, CandleCloses

\* Every variable keeps the values the code can give it and the list stays within
\* the limits of its writers.
THEOREM TypeCorrect == Spec => []TypeOK
<1>1. TypeInv => TypeOK
  <2> SUFFICES ASSUME TypeInv PROVE TypeOK
    OBVIOUS
  <2>1. \A p \in Tasks : run[p].window \in Seq(1..closed) /\ run[p].seen \in Seq(1..closed)
    BY TaskIs
  <2> QED BY <2>1 DEF TypeInv, TypeOK, Limited
<1> QED BY <1>1, TypeInit, TypeStep, PTL DEF Spec

\* The evaluator's window is ascending, short enough and has the message's candle,
\* whatever other writers did to the list.
THEOREM WindowIsSound == Spec => []WindowSound
<1>1. TypeInv /\ SharedInv => WindowSound
  <2> SUFFICES ASSUME TypeInv, SharedInv, NEW p \in Processors, At(p, "evaluate"), run[p].own
               PROVE  LET w == run[p].window
                      IN  /\ Ascending(w) /\ Len(w) <= Required
                          /\ run[p].ts \in ToSet(w) \/ (Len(w) = Required /\ Head(w) > run[p].ts)
    BY DEF WindowSound
  <2> DEFINE w == run[p].window
  <2>1. p \in Tasks
    BY DEF Tasks
  <2>2. Fits(w, run[p].ts, Required) /\ Len(w) <= Required
    BY <2>1 DEF SharedInv, WindowOK, At
  <2>3. w \in Seq(1..closed) /\ closed \in Nat /\ run[p].ts \in Nat
    BY <2>1, TaskIs
  <2>4. w \in Seq(Nat)
    BY <2>3, Numbers
  <2> HIDE DEF w
  <2>5. ASSUME Len(w) = Required, \A y \in ToSet(w) : run[p].ts < y PROVE Head(w) > run[p].ts
    <3>1. w # <<>>
      BY <2>5, ConstantsAssumption
    <3>2. Head(w) \in ToSet(w) /\ Head(w) \in Nat
      BY <2>2, <2>4, <3>1, HeadIsOldest, HeadTailProperties DEF Fits
    <3> QED BY <2>3, <2>5, <3>2
  <2>6. Ascending(w) /\ (run[p].ts \in ToSet(w) \/ (Len(w) = Required /\ \A y \in ToSet(w) : run[p].ts < y))
    BY <2>2 DEF Fits
  <2> QED BY <2>2, <2>5, <2>6 DEF w
<1> QED BY <1>1, TypeInit, TypeStep, SharedInit, SharedStep, PTL DEF Spec

\* A write that rests on what is still true of the list is a step of the window.
LEMMA RollingStep ==
  ASSUME TypeInv, SharedInv, [Next]_vars
  PROVE  [torn' \/ W!Step]_list
<1> SUFFICES ASSUME ~torn', list' # list PROVE W!Step
  OBVIOUS
<1>0. \A s : W!ToSet(s) = ToSet(s)
  BY DEF W!ToSet, ToSet
<1>1. ASSUME NEW c \in 1..NumCandles, NEW k \in {1, Maxlen, Target} \cup Limits,
             list' = W!Newest(ToSet(list) \cup {c}, k)
      PROVE  W!Step
  BY <1>0, <1>1 DEF W!Step, W!Put, W!Candles
<1>2. ASSUME NEW h \in 0..NumCandles, NEW k \in {1, Maxlen, Target} \cup Limits,
             list' = W!Newest(1..h, k), NEW c \in 1..NumCandles
      PROVE  W!Step
  <2>1. (1..h) \cup {} = 1..h
    OBVIOUS
  <2>2. W!Fill(h, {})
    BY <1>2, <2>1 DEF W!Fill
  <2> QED BY <2>2 DEF W!Step, W!Candles
<1>3. ASSUME NEW h \in 0..NumCandles, NEW k \in {1, Maxlen, Target} \cup Limits,
             NEW c \in 1..NumCandles, list' = W!Newest((1..h) \cup {c}, k)
      PROVE  W!Step
  <2>1. W!Fill(h, {c})
    BY <1>3 DEF W!Fill
  <2> QED BY <2>1 DEF W!Step, W!Candles
<1>4. ASSUME NEW p \in Processors, Upsert(p) \/ Refill(p) PROVE W!Step
  <2>1. p \in Tasks /\ ~At(p, "idle")
    BY <1>4 DEF Tasks, Upsert, At, ReadTail, Push, ReadLength, ReplaceByOwn, SetTail,
                SetTailError, ReadRange, Rebuild, Refill
  <2>2. run[p].ts \in 1..NumCandles
    <3>1. run[p].ts \in 0..closed /\ closed \in Nat /\ closed <= NumCandles /\ run[p].ts # 0
      BY <2>1, TaskIs DEF TypeInv
    <3> QED BY <3>1, ConstantsAssumption
  <2>3. CASE Push(p)
    <3>1. list' = Suffix(Append(list, run[p].ts), Maxlen) /\ ~torn /\ At(p, "push")
      BY <2>3 DEF Push, WriteList
    <3> QED BY <1>1, <2>2, <3>1, PushIs
  <2>4. CASE ReplaceByOwn(p)
    BY <2>1, <2>4 DEF ReplaceByOwn, WriteList, At, SharedInv, RollingInv, ReadOK
  <2>5. CASE SetTail(p)
    BY <2>5, SetIs DEF SetTail, WriteList
  <2>6. CASE Rebuild(p)
    <3>1. list' = run[p].seen /\ ~torn /\ At(p, "rebuild")
      BY <2>6 DEF Rebuild, WriteList
    <3> QED BY <1>1, <2>2, <3>1, RebuildIs
  <2>7. CASE Refill(p)
    <3>1. list' = Suffix(run[p].seen, Target) /\ At(p, "refill")
      BY <2>7 DEF Refill, WriteList
    <3> QED BY <1>2, <1>3, <2>2, <3>1, RefillIs
  <2> QED BY <1>4, <2>3, <2>4, <2>5, <2>6, <2>7
          DEF Upsert, ReadTail, ReadLength, SetTailError, ReadRange, Reading
<1>5. CASE Reset
  <2>1. /\ list' = run["bootstrap"].seen /\ At("bootstrap", "reset")
    BY <1>5 DEF Reset, WriteList
  <2>2. PICK h \in 0..NumCandles, k \in Limits : list' = W!Newest(1..h, k)
    BY <2>1, ResetIs
  <2>3. NumCandles = 0 => list' = list
    <3> SUFFICES ASSUME NumCandles = 0 PROVE list' = list
      OBVIOUS
    <3>1. PICK b \in Tasks : b = "bootstrap"
      BY DEF Tasks
    <3>2. closed = 0 /\ list \in Seq(1..closed) /\ run[b].seen \in Seq(1..closed)
      BY <3>1, TaskIs DEF TypeInv
    <3>3. ASSUME NEW s \in Seq(1..closed) PROVE s = <<>>
      <4>1. Len(s) \in Nat /\ \A i \in 1..Len(s) : s[i] \in 1..closed
        BY LenProperties, ElementOfSeq
      <4>2. Len(s) = 0
        <5>1. 1..closed = {}
          BY <3>2
        <5>2. 1 \notin 1..Len(s)
          BY <4>1, <5>1
        <5> QED BY <4>1, <5>2
      <4> QED BY <4>2, EmptySeq
    <3> QED BY <2>1, <3>1, <3>2, <3>3
  <2>4. NumCandles # 0 => 1 \in 1..NumCandles
    BY ConstantsAssumption
  <2> QED BY <1>2, <2>2, <2>3, <2>4
<1>6. CASE UNCHANGED list
  BY <1>6
<1> QED BY <1>4, <1>5, <1>6
        DEF Next, vars, CandleCloses, HandleEntry, HandleOther, Trigger, ReadWindow,
            ReadHistory, Fetched, Evaluate, StartBootstrap, CallFault, Reading

\* As long as no write falls between another task's read and its write, the steps of
\* the three writers are those of the abstract window.
THEOREM BufferRolls == Spec => BufferIsRollingWindow
BY RollingStep, TypeInit, TypeStep, SharedInit, SharedStep, PTL DEF Spec, BufferIsRollingWindow

-----------------------------------------------------------------------------
(* The worker alone.                                                       *)

LEMMA CoversIs ==
  ASSUME NEW s \in Seq(Nat), NEW k, Covers(s, k)
  PROVE  /\ Len(s) \in Nat \ {0} /\ DOMAIN s = 1..Len(s) /\ s[1] \in Nat
         /\ Last(s) \in Nat /\ Last(s) = s[1] + (Len(s) - 1)
         /\ Head(s) = s[1]
         /\ Ascending(s)
<1>1. s # <<>> /\ \A i \in DOMAIN s : s[i] = s[1] + (i - 1)
  BY DEF Covers
<1>2. Len(s) \in Nat \ {0} /\ DOMAIN s = 1..Len(s) /\ \A i \in 1..Len(s) : s[i] \in Nat
  BY <1>1, EmptySeq, LenProperties, ElementOfSeq
<1>3. 1 \in 1..Len(s) /\ Len(s) \in 1..Len(s)
  BY <1>2
<1>4. s[1] \in Nat /\ s[Len(s)] \in Nat /\ s[Len(s)] = s[1] + (Len(s) - 1)
  BY <1>1, <1>2, <1>3
<1>5. Ascending(s)
  <2> SUFFICES ASSUME NEW i \in 1..Len(s), NEW j \in 1..Len(s), i < j PROVE s[i] < s[j]
    BY <1>2 DEF Ascending
  <2>1. s[i] = s[1] + (i - 1) /\ s[j] = s[1] + (j - 1)
    BY <1>1, <1>2
  <2>2. s[1] \in Nat /\ i \in Nat /\ j \in Nat
    BY <1>2, <1>4
  <2> QED BY <2>1, <2>2
<1> QED BY <1>1, <1>2, <1>4, <1>5 DEF Last

\* The newest k of successive candles.
LEMMA CoversSuffix ==
  ASSUME NEW s \in Seq(Nat), NEW j \in Nat, Covers(s, j),
         NEW k \in Nat \ {0}, k <= j \/ k <= Len(s)
  PROVE  /\ Suffix(s, k) \in Seq(Nat) /\ Covers(Suffix(s, k), k) /\ Len(Suffix(s, k)) <= k
         /\ Last(Suffix(s, k)) = Last(s)
<1> DEFINE v == Suffix(s, k)
<1>1. /\ Len(s) \in Nat \ {0} /\ DOMAIN s = 1..Len(s) /\ s[1] \in Nat
      /\ \A i \in 1..Len(s) : s[i] = s[1] + (i - 1)
      /\ j <= Len(s) \/ s[1] = 1
  BY CoversIs DEF Covers
<1>2. CASE Len(s) <= k
  <2>1. v = s
    BY <1>2 DEF Suffix
  <2>2. k <= Len(s) \/ s[1] = 1
    BY <1>1, <1>2
  <2>3. Covers(s, k)
    BY <2>2 DEF Covers
  <2> QED BY <1>2, <2>1, <2>3
<1>3. CASE ~(Len(s) <= k)
  <2>0. v \in Seq(Nat) /\ Len(v) = k
    BY <1>1, <1>3, SuffixProperties
  <2>1. /\ v \in Seq(Nat) /\ Len(v) = k
        /\ \A i \in 1..k : v[i] = s[i + (Len(s) - k)] /\ i + (Len(s) - k) \in 1..Len(s)
    <3>1. \A i \in 1..Len(v) : /\ v[i] = s[i + (Len(s) - Len(v))]
                               /\ i + (Len(s) - Len(v)) \in 1..Len(s)
      BY SuffixProperties
    <3> HIDE DEF v
    <3> QED BY <2>0, <3>1
  <2> HIDE DEF v
  <2>2. DOMAIN v = 1..k /\ v # <<>>
    BY <2>1, LenProperties, EmptySeq
  <2>3. ASSUME NEW i \in 1..k PROVE v[i] = v[1] + (i - 1)
    <3>1. 1 \in 1..k
      OBVIOUS
    <3>2. /\ v[i] = s[i + (Len(s) - k)] /\ i + (Len(s) - k) \in 1..Len(s)
          /\ v[1] = s[1 + (Len(s) - k)] /\ 1 + (Len(s) - k) \in 1..Len(s)
      BY <2>1, <3>1
    <3>3. \A e \in 1..Len(s) : s[e] = s[1] + (e - 1)
      BY <1>1
    <3>4. v[i] = s[1] + (i + (Len(s) - k) - 1)
      BY <3>2, <3>3
    <3>5. v[1] = s[1] + (1 + (Len(s) - k) - 1)
      BY <3>2, <3>3
    <3>6. Len(s) \in Nat /\ s[1] \in Nat
      BY <1>1
    <3> QED BY <3>4, <3>5, <3>6
  <2>4. Covers(v, k)
    BY <2>1, <2>2, <2>3 DEF Covers
  <2>5. v[k] = s[Len(s)]
    <3>1. k \in 1..k /\ k + (Len(s) - k) = Len(s)
      BY <1>1
    <3> QED BY <2>1, <3>1
  <2> QED BY <2>1, <2>4, <2>5 DEF v, Last
<1> QED BY <1>2, <1>3

\* A candle that is not newer than successive candles changes none of the newest.
LEMMA CoversAbsorbs ==
  ASSUME NEW s \in Seq(Nat), NEW j \in Nat, Covers(s, j), NEW c \in Nat \ {0}, c <= Last(s),
         NEW k \in Nat \ {0}, k <= j \/ k <= Len(s)
  PROVE  W!Newest(ToSet(s) \cup {c}, k) = Suffix(s, k)
<1>1. /\ Len(s) \in Nat \ {0} /\ DOMAIN s = 1..Len(s) /\ s[1] \in Nat
      /\ Last(s) = s[1] + (Len(s) - 1) /\ Head(s) = s[1] /\ Ascending(s) /\ s # <<>>
  BY CoversIs DEF Covers
<1>2. (\A i \in 1..Len(s) : s[i] = s[1] + (i - 1)) /\ (j <= Len(s) \/ s[1] = 1)
  BY <1>1 DEF Covers
<1>3. CASE s[1] <= c
  <2>1. c - s[1] + 1 \in 1..Len(s) /\ s[1] + (c - s[1] + 1 - 1) = c
    BY <1>1, <1>3
  <2>2. s[c - s[1] + 1] = c
    BY <1>2, <2>1
  <2>3. c \in ToSet(s)
    BY <1>1, <2>1, <2>2 DEF ToSet
  <2> QED BY <1>1, <2>3, NewestAbsorbs
<1>4. CASE c < s[1]
  <2>1. k <= Len(s)
    BY <1>1, <1>2, <1>4
  <2> DEFINE v == Suffix(s, k)
  <2>2. v \in Seq(Nat) /\ Ascending(v) /\ ToSet(v) \subseteq ToSet(s)
    BY <1>1, OrderedSuffix
  <2>3. v # <<>>
    BY CoversSuffix DEF Covers
  <2> HIDE DEF v
  <2>4. Head(v) \in ToSet(s) /\ Head(v) \in Nat
    BY <2>2, <2>3, HeadIsOldest, HeadTailProperties
  <2>5. s[1] <= Head(v)
    BY <1>1, <2>4, HeadIsOldest
  <2>6. c < Head(v)
    BY <1>1, <1>4, <2>4, <2>5
  <2> QED BY <1>1, <2>1, <2>6, NewestAbsorbs DEF v
<1> QED BY <1>1, <1>3, <1>4

LEMMA CoversAppend ==
  ASSUME NEW s \in Seq(Nat), NEW k \in Nat, Covers(s, k)
  PROVE  LET t == Append(s, Last(s) + 1) IN
         t \in Seq(Nat) /\ Covers(t, k) /\ Last(t) = Last(s) + 1
<1> DEFINE c == Last(s) + 1
           t == Append(s, c)
<1>1. /\ Len(s) \in Nat \ {0} /\ DOMAIN s = 1..Len(s) /\ s[1] \in Nat
      /\ Last(s) = s[1] + (Len(s) - 1) /\ c \in Nat
  BY CoversIs
<1>2. (\A i \in 1..Len(s) : s[i] = s[1] + (i - 1)) /\ (k <= Len(s) \/ s[1] = 1)
  BY <1>1 DEF Covers
<1>3. c = s[1] + (Len(s) + 1 - 1)
  BY <1>1
<1> HIDE DEF c
<1>4. /\ t \in Seq(Nat) /\ Len(t) = Len(s) + 1 /\ t # <<>>
      /\ \A i \in 1..Len(s) : t[i] = s[i]
      /\ t[Len(s) + 1] = c
  BY <1>1, AppendProperties
<1> HIDE DEF t
<1>5. DOMAIN t = 1..(Len(s) + 1)
  BY <1>4, LenProperties
<1>6. t[1] = s[1]
  <2>1. 1 \in 1..Len(s)
    BY <1>1
  <2> QED BY <1>4, <2>1
<1>7. ASSUME NEW i \in 1..(Len(s) + 1) PROVE t[i] = t[1] + (i - 1)
  <2>1. i \in 1..Len(s) \/ i = Len(s) + 1
    BY <1>1
  <2> QED BY <1>2, <1>3, <1>4, <1>6, <2>1
<1>8. k <= Len(t) \/ t[1] = 1
  BY <1>1, <1>2, <1>4, <1>6
<1>9. Covers(t, k)
  BY <1>4, <1>5, <1>7, <1>8 DEF Covers
<1>10. Last(t) = c
  BY <1>4 DEF Last
<1> QED BY <1>4, <1>9, <1>10 DEF c, t

LEMMA CoversInterval ==
  ASSUME NEW m \in Nat \ {0}, NEW k \in Nat \ {0}
  PROVE  LET s == W!Newest(1..m, k) IN
         s \in Seq(Nat) /\ Covers(s, k) /\ Len(s) <= k /\ Last(s) = m
<1>1. PICK t : t = [i \in 1..m |-> i]
  OBVIOUS
<1>2. t \in Seq(Nat) /\ Len(t) = m /\ W!Newest(1..m, k) = Suffix(t, k)
  BY <1>1, NewestOfInterval
<1>3. DOMAIN t = 1..m /\ \A i \in 1..m : t[i] = t[1] + (i - 1)
  BY <1>1
<1>4. t[1] = 1 /\ t[m] = m /\ t # <<>>
  BY <1>1, <1>2
<1>5. Covers(t, k)
  BY <1>3, <1>4 DEF Covers
<1> QED BY <1>2, <1>4, <1>5, CoversSuffix DEF Last

LEMMA AloneTypes ==
  ASSUME TypeInv, NEW p \in Processors
  PROVE  /\ p \in Tasks /\ run[p].pc \in Stages
         /\ list \in Seq(Nat) /\ Len(list) \in Nat /\ run[p].seen \in Seq(Nat)
         /\ run[p].ts \in Nat /\ handed \in Nat /\ closed \in Nat
         /\ ~At(p, "idle") => run[p].ts \in Nat \ {0}
         /\ Required \in Nat \ {0} /\ Maxlen \in Nat \ {0} /\ Target \in Nat \ {0}
<1>1. p \in Tasks
  BY DEF Tasks
<1>2. /\ run[p].pc \in Stages /\ run[p].ts \in Nat /\ run[p].seen \in Seq(1..closed)
      /\ closed \in Nat
  BY <1>1, TaskIs
<1>3. list \in Seq(1..closed) /\ handed \in 0..closed /\ (~At(p, "idle") => run[p].ts # 0)
  BY DEF TypeInv
<1>4. list \in Seq(Nat) /\ run[p].seen \in Seq(Nat)
  BY <1>2, <1>3, Numbers
<1>5. handed \in Nat
  BY <1>2, <1>3
<1> QED BY <1>1, <1>2, <1>3, <1>4, <1>5, LenProperties, TargetIs, ConstantsAssumption

\* The record of a task after a step that changes its stage.
LEMMA StageIs ==
  ASSUME TypeInv, NEW p \in Tasks, NEW pc, Goto(p, pc)
  PROVE  /\ run'[p].pc = pc /\ run'[p].ts = run[p].ts /\ run'[p].own = run[p].own
         /\ run'[p].at = run[p].at /\ run'[p].seen = run[p].seen
         /\ run'[p].window = run[p].window
         /\ \A q \in Tasks \ {p} : run'[q] = run[q]
<1>1. run'[p] = [run[p] EXCEPT !.pc = pc] /\ \A q \in Tasks \ {p} : run'[q] = run[q]
  BY DEF Goto, TypeInv
<1> QED BY <1>1, TaskIs

LEMMA AloneReadTail ==
  ASSUME TypeInv, NEW p \in Processors, AloneOK(run[p]), ReadTail(p), NEW r, r = run'[p]
  PROVE  AloneOK(r)'
<1>1. /\ p \in Tasks /\ list \in Seq(Nat) /\ run[p].ts \in Nat /\ handed \in Nat
      /\ Maxlen \in Nat
  BY AloneTypes
<1>2. /\ At(p, "tail") /\ UNCHANGED <<list, handed>>
      /\ Goto(p, IF list = <<>> \/ run[p].ts > Last(list) THEN "push"
                 ELSE IF run[p].ts = Last(list) THEN "length" ELSE "range")
  BY DEF ReadTail, Reading
<1>3. /\ r.pc = IF list = <<>> \/ run[p].ts > Last(list) THEN "push"
                ELSE IF run[p].ts = Last(list) THEN "length" ELSE "range"
      /\ r.ts = run[p].ts /\ r.own = run[p].own
  BY <1>1, <1>2, StageIs
<1>4. /\ run[p].ts <= handed + 1 /\ run[p].own
      /\ \/ list = <<>>
         \/ /\ Covers(list, Maxlen) /\ run[p].ts <= Last(list) + 1
            /\ handed <= Last(list) \/ handed <= run[p].ts
  BY <1>2 DEF AloneOK, At
<1>5. CASE list = <<>>
  BY <1>2, <1>3, <1>4, <1>5 DEF AloneOK
<1>6. CASE list # <<>>
  <2>1. Last(list) \in Nat
    BY <1>1, <1>4, <1>6, CoversIs
  <2>2. CASE run[p].ts > Last(list)
    <3>1. run[p].ts = Last(list) + 1 /\ handed <= run[p].ts
      BY <1>1, <1>4, <1>6, <2>1, <2>2
    <3> QED BY <1>2, <1>3, <1>4, <1>6, <2>2, <3>1 DEF AloneOK
  <2>3. CASE run[p].ts = Last(list)
    <3>1. ~(run[p].ts > Last(list)) /\ handed <= Last(list)
      BY <1>1, <1>4, <1>6, <2>1, <2>3
    <3> QED BY <1>2, <1>3, <1>4, <1>6, <2>3, <3>1 DEF AloneOK, UpToDate
  <2>4. CASE run[p].ts < Last(list)
    <3>1. /\ ~(run[p].ts > Last(list)) /\ run[p].ts # Last(list) /\ handed <= Last(list)
      BY <1>1, <1>4, <1>6, <2>1, <2>4
    <3> QED BY <1>2, <1>3, <1>4, <1>6, <2>4, <3>1 DEF AloneOK, UpToDate
  <2> QED BY <1>1, <2>1, <2>2, <2>3, <2>4
<1> QED BY <1>5, <1>6

\* A write of the upsert leaves a list with too few candles or one that is up to date.
LEMMA AloneUpserts ==
  ASSUME TypeInv, NEW p \in Processors, AloneOK(run[p]), ~At(p, "idle"),
         UNCHANGED handed, Goto(p, "window"),
         \/ Len(list') < Required
         \/ Covers(list', Maxlen) /\ handed <= Last(list') /\ run[p].ts <= Last(list'),
         NEW r, r = run'[p]
  PROVE  AloneOK(r)'
<1>1. p \in Tasks
  BY AloneTypes
<1>2. r.pc = "window" /\ r.ts = run[p].ts /\ r.own = run[p].own
  BY <1>1, StageIs
<1>3. run[p].ts <= handed + 1 /\ run[p].own
  BY DEF AloneOK, At
<1> QED BY <1>2, <1>3 DEF AloneOK, UpToDate, Covers

LEMMA AlonePush ==
  ASSUME TypeInv, NEW p \in Processors, AloneOK(run[p]), Required # 1, Push(p), NEW r, r = run'[p]
  PROVE  AloneOK(r)'
<1> DEFINE c == run[p].ts
           t == Append(list, c)
<1>1. /\ p \in Tasks /\ list \in Seq(Nat) /\ c \in Nat /\ handed \in Nat
      /\ Maxlen \in Nat \ {0} /\ Required \in Nat \ {0}
  BY AloneTypes
<1>2. /\ At(p, "push") /\ UNCHANGED handed /\ list' = Suffix(t, Maxlen) /\ Goto(p, "window")
  BY DEF Push, WriteList
<1>3. list = <<>> \/ (Covers(list, Maxlen) /\ c = Last(list) + 1 /\ handed <= c)
  BY <1>2 DEF AloneOK, At
<1> HIDE DEF c
<1>4. CASE list = <<>>
  <2>1. Len(t) = 1
    BY <1>1, <1>4
  <2>2. list' = t
    BY <1>1, <1>2, <2>1 DEF Suffix
  <2>3. Len(list') < Required
    BY <1>1, <2>1, <2>2
  <2> QED BY <1>2, <2>3, AloneUpserts DEF At
<1>5. CASE list # <<>>
  <2>1. t \in Seq(Nat) /\ Covers(t, Maxlen) /\ Last(t) = c
    BY <1>1, <1>3, <1>5, CoversAppend
  <2> HIDE DEF t
  <2>2. Covers(list', Maxlen) /\ Last(list') = c
    BY <1>1, <1>2, <2>1, CoversSuffix
  <2>3. handed <= Last(list') /\ run[p].ts <= Last(list')
    BY <1>1, <1>3, <1>5, <2>2 DEF c
  <2> QED BY <1>2, <2>2, <2>3, AloneUpserts DEF At
<1> QED BY <1>4, <1>5

LEMMA AloneReadLength ==
  ASSUME TypeInv, NEW p \in Processors, AloneOK(run[p]), ReadLength(p), NEW r, r = run'[p]
  PROVE  AloneOK(r)'
<1>1. p \in Tasks
  BY AloneTypes
<1>2. /\ run[p].pc = "length" /\ UNCHANGED <<list, handed>>
      /\ run' = [run EXCEPT ![p].pc = IF list = <<>> THEN "only" ELSE "set", ![p].at = Len(list)]
  BY DEF ReadLength, At, Reading
<1>3. UpToDate /\ run[p].ts = Last(list) /\ run[p].ts <= handed + 1 /\ run[p].own
  BY <1>2 DEF AloneOK
<1>4. list # <<>>
  BY <1>3 DEF UpToDate, Covers
<1>5. r = [run[p] EXCEPT !.pc = "set", !.at = Len(list)]
  BY <1>1, <1>2, <1>4 DEF TypeInv
<1>6. r.pc = "set" /\ r.ts = run[p].ts /\ r.own = run[p].own /\ r.at = Len(list)
  BY <1>1, <1>5, TaskIs
<1> QED BY <1>2, <1>3, <1>6 DEF AloneOK, UpToDate, Covers

LEMMA AloneSetTail ==
  ASSUME TypeInv, NEW p \in Processors, AloneOK(run[p]), SetTail(p), NEW r, r = run'[p]
  PROVE  AloneOK(r)'
<1>1. p \in Tasks /\ list \in Seq(Nat) /\ Len(list) \in Nat /\ handed \in Nat
  BY AloneTypes
<1>2. /\ run[p].pc = "set" /\ At(p, "set") /\ UNCHANGED handed /\ Goto(p, "window")
      /\ list' = [list EXCEPT ![run[p].at] = run[p].ts]
  BY DEF SetTail, At, WriteList
<1>3. UpToDate /\ run[p].ts = list[Len(list)] /\ run[p].at = Len(list) /\ run[p].ts = Last(list)
  BY <1>2 DEF AloneOK, Last
<1>4. list' = list
  <2>1. [list EXCEPT ![Len(list)] = list[Len(list)]] = list
    BY <1>1
  <2> QED BY <1>2, <1>3, <2>1
<1>5. Last(list) \in Nat
  BY <1>1, <1>3, CoversIs DEF UpToDate
<1>6. Covers(list', Maxlen) /\ handed <= Last(list') /\ run[p].ts <= Last(list')
  BY <1>3, <1>4, <1>5 DEF UpToDate
<1> QED BY <1>2, <1>6, AloneUpserts DEF At

LEMMA AloneReadRange ==
  ASSUME TypeInv, NEW p \in Processors, AloneOK(run[p]), ReadRange(p), NEW r, r = run'[p]
  PROVE  AloneOK(r)'
<1> DEFINE c == run[p].ts
           m == Merge(Suffix(list, Maxlen), c, Maxlen)
<1>1. /\ p \in Tasks /\ list \in Seq(Nat) /\ c \in Nat /\ handed \in Nat
      /\ Maxlen \in Nat \ {0} /\ (run[p].pc # "idle" => c \in Nat \ {0})
  BY AloneTypes DEF At
<1>2. /\ run[p].pc = "range" /\ UNCHANGED <<list, handed>>
      /\ run' = [run EXCEPT ![p].pc = "rebuild", ![p].seen = m]
  BY DEF ReadRange, At, Reading
<1>3. UpToDate /\ c < Last(list) /\ c <= handed + 1 /\ run[p].own
  BY <1>2 DEF AloneOK
<1> HIDE DEF m
<1>4. r = [run[p] EXCEPT !.pc = "rebuild", !.seen = m]
  BY <1>1, <1>2 DEF TypeInv
<1>5. r.pc = "rebuild" /\ r.ts = c /\ r.own = run[p].own /\ r.seen = m
  BY <1>1, <1>4, TaskIs
<1> HIDE DEF c
<1>6. Covers(list, Maxlen) /\ handed <= Last(list) /\ Last(list) \in Nat /\ Ascending(list)
  BY <1>1, <1>3, CoversIs DEF UpToDate
<1>7. c \in Nat \ {0} /\ c <= Last(list)
  BY <1>1, <1>2, <1>3, <1>6
<1>8. m = Suffix(list, Maxlen)
  <2>1. m = W!Newest(ToSet(list) \cup {c}, Maxlen)
    BY <1>1, <1>6, <1>7, MergeOfSuffix DEF m
  <2> QED BY <1>1, <1>6, <1>7, <2>1, CoversAbsorbs
<1>9. Covers(m, Maxlen) /\ Last(m) = Last(list)
  BY <1>1, <1>6, <1>8, CoversSuffix
<1>10. /\ Covers(r.seen, Maxlen) /\ handed' <= Last(r.seen) /\ r.ts <= Last(r.seen)
       /\ r.ts <= handed' + 1 /\ r.own
  BY <1>2, <1>3, <1>5, <1>6, <1>7, <1>9
<1> QED BY <1>5, <1>10 DEF AloneOK, Covers

LEMMA AloneRebuild ==
  ASSUME TypeInv, NEW p \in Processors, AloneOK(run[p]), Rebuild(p), NEW r, r = run'[p]
  PROVE  AloneOK(r)'
<1>1. /\ run[p].pc = "rebuild" /\ UNCHANGED handed /\ Goto(p, "window") /\ list' = run[p].seen
  BY DEF Rebuild, At, WriteList
<1>2. /\ Covers(run[p].seen, Maxlen) /\ handed <= Last(run[p].seen)
      /\ run[p].ts <= Last(run[p].seen)
  BY <1>1 DEF AloneOK
<1> QED BY <1>1, <1>2, AloneUpserts DEF At

\* The window of a list that is long enough is its newest candles: the task's own
\* candle is among them already, or older.
LEMMA AloneReadWindow ==
  ASSUME TypeInv, NEW p \in Processors, AloneOK(run[p]), ReadWindow(p), NEW r, r = run'[p]
  PROVE  AloneOK(r)'
<1> DEFINE c == run[p].ts
           last == Suffix(list, Required)
           w == Merge(last, c, Required)
<1>1. /\ p \in Tasks /\ list \in Seq(Nat) /\ Len(list) \in Nat /\ c \in Nat /\ handed \in Nat
      /\ Maxlen \in Nat \ {0} /\ Required \in Nat \ {0} /\ (run[p].pc # "idle" => c \in Nat \ {0})
  BY AloneTypes DEF At
<1>2. run[p].pc = "window" /\ UNCHANGED <<list, handed>>
  BY DEF ReadWindow, At, Reading
<1>3. /\ c <= handed + 1 /\ run[p].own
      /\ Len(list) < Required \/ (UpToDate /\ c <= Last(list))
  BY <1>2 DEF AloneOK
<1>4. run' = [run EXCEPT ![p].pc = IF Len(last) < Required THEN "history" ELSE "evaluate",
                         ![p].window = IF Len(last) < Required THEN <<>> ELSE w]
  BY <1>3 DEF ReadWindow
<1>5. Len(last) = IF Len(list) <= Required THEN Len(list) ELSE Required
  BY <1>1, SuffixProperties
<1> HIDE DEF last, w
<1>6. /\ r.pc = IF Len(last) < Required THEN "history" ELSE "evaluate"
      /\ r.window = IF Len(last) < Required THEN <<>> ELSE w
      /\ r.ts = c /\ r.own = run[p].own
  <2>1. r = [run[p] EXCEPT !.pc = IF Len(last) < Required THEN "history" ELSE "evaluate",
                           !.window = IF Len(last) < Required THEN <<>> ELSE w]
    BY <1>1, <1>4 DEF TypeInv
  <2> QED BY <1>1, <2>1, TaskIs
<1> HIDE DEF c
<1>7. CASE Len(last) < Required
  BY <1>2, <1>3, <1>6, <1>7 DEF AloneOK
<1>8. CASE ~(Len(last) < Required)
  <2>1. Required <= Len(list) /\ UpToDate /\ c <= Last(list)
    BY <1>1, <1>3, <1>5, <1>8
  <2>2. Covers(list, Maxlen) /\ Ascending(list) /\ c \in Nat \ {0}
    BY <1>1, <1>2, <2>1, CoversIs DEF UpToDate
  <2>3. w = last
    <3>1. w = W!Newest(ToSet(list) \cup {c}, Required)
      BY <1>1, <2>2, MergeOfSuffix DEF w, last
    <3> QED BY <1>1, <2>1, <2>2, <3>1, CoversAbsorbs DEF last
  <2>4. Covers(last, Required) /\ Len(last) <= Required
    BY <1>1, <2>1, <2>2, CoversSuffix DEF last
  <2>5. Covers(r.window, Required) /\ Len(r.window) <= Required /\ r.pc = "evaluate"
    BY <1>6, <1>8, <2>3, <2>4
  <2>6. r.ts <= handed' + 1 /\ r.own /\ UpToDate'
    BY <1>2, <1>3, <1>6, <2>1 DEF UpToDate, Covers
  <2> QED BY <2>5, <2>6 DEF AloneOK, Covers
<1> QED BY <1>7, <1>8

\* A fill that lacks no candle handed before has all candles up to the newest.
LEMMA AloneReadHistory ==
  ASSUME TypeInv, NEW p \in Processors, AloneOK(run[p]), ReadHistory(p), ~skipped',
         NEW r, r = run'[p]
  PROVE  AloneOK(r)'
<1> DEFINE c == run[p].ts
<1>1. /\ p \in Tasks /\ c \in Nat /\ handed \in Nat /\ closed \in Nat
      /\ Target \in Nat \ {0} /\ (run[p].pc # "idle" => c \in Nat \ {0})
  BY AloneTypes DEF At
<1>2. run[p].pc = "history"
  BY DEF ReadHistory, At
<1>3. c <= handed + 1 /\ run[p].own
  BY <1>2 DEF AloneOK
<1>4. PICK h \in Known : Fetched(p, h, Merge(History(h), c, Target))
  BY <1>3 DEF ReadHistory
<1>5. /\ UNCHANGED <<list, handed>> /\ (1..handed) \subseteq (1..h) \cup {c}
      /\ run' = [run EXCEPT ![p].pc = IF Merge(History(h), c, Target) = <<>> THEN "idle"
                                                                            ELSE "refill",
                            ![p].seen = Merge(History(h), c, Target)]
  BY <1>4 DEF Fetched
<1>6. h \in Nat /\ h \in 0..NumCandles
  <2>1. closed \in 0..NumCandles /\ h \in 0..closed
    BY <1>1, KnownIs DEF TypeInv
  <2> QED BY <1>1, <2>1, ConstantsAssumption
<1> DEFINE s == Merge(History(h), c, Target)
<1>7. s = W!Newest((1..h) \cup {c}, Target)
  BY <1>6, ReadHistoryIs
<1>8. r = [run[p] EXCEPT !.pc = IF s = <<>> THEN "idle" ELSE "refill", !.seen = s]
  BY <1>1, <1>5 DEF TypeInv
<1> HIDE DEF s
<1>9. /\ r.pc = IF s = <<>> THEN "idle" ELSE "refill"
      /\ r.seen = s /\ r.ts = c /\ r.own = run[p].own
  BY <1>1, <1>8, TaskIs
<1> HIDE DEF c
<1>10. c \in Nat \ {0}
  BY <1>1, <1>2
<1>11. PICK m \in Nat \ {0} : (1..h) \cup {c} = 1..m /\ handed <= m
  <2>1. CASE c <= h
    <3>1. (1..h) \cup {c} = 1..h /\ h \in Nat \ {0}
      BY <1>6, <1>10, <2>1
    <3>2. handed <= h
      <4> SUFFICES ASSUME h < handed PROVE FALSE
        BY <1>1, <1>6
      <4>1. handed \in 1..handed
        BY <1>1, <1>6
      <4>2. handed \in 1..h
        BY <1>5, <3>1, <4>1
      <4> QED BY <1>1, <1>6, <4>2
    <3> QED BY <3>1, <3>2
  <2>2. CASE ~(c <= h)
    <3>1. c = h + 1
      <4> SUFFICES ASSUME c # h + 1 PROVE FALSE
        OBVIOUS
      <4>1. h + 1 \in 1..handed /\ h + 1 \notin 1..h /\ h + 1 # c
        BY <1>1, <1>3, <1>6, <1>10, <2>2
      <4> QED BY <1>5, <4>1
    <3>2. (1..h) \cup {c} = 1..c
      BY <1>6, <1>10, <3>1
    <3>3. handed <= c
      <4> SUFFICES ASSUME c < handed PROVE FALSE
        BY <1>1, <1>10
      <4>1. handed \in 1..handed
        BY <1>1, <1>10
      <4>2. handed \in 1..c
        BY <1>5, <3>2, <4>1
      <4> QED BY <1>1, <1>10, <4>2
    <3> QED BY <1>10, <3>2, <3>3
  <2> QED BY <2>1, <2>2
<1>12. Covers(s, Target) /\ Len(s) <= Target /\ Last(s) = m
  BY <1>1, <1>7, <1>11, CoversInterval
<1>13. s # <<>>
  BY <1>12 DEF Covers
<1>14. /\ Covers(r.seen, Target) /\ Len(r.seen) <= Target /\ handed' <= Last(r.seen)
       /\ r.ts <= handed' + 1 /\ r.own /\ r.pc = "refill"
  BY <1>3, <1>5, <1>9, <1>11, <1>12, <1>13
<1> QED BY <1>14 DEF AloneOK, Covers

LEMMA AloneRefill ==
  ASSUME TypeInv, NEW p \in Processors, AloneOK(run[p]), Refill(p), NEW r, r = run'[p]
  PROVE  AloneOK(r)'
<1> DEFINE s == run[p].seen
           w == Suffix(s, Required)
<1>1. /\ p \in Tasks /\ s \in Seq(Nat) /\ handed \in Nat
      /\ Maxlen \in Nat \ {0} /\ Required \in Nat \ {0} /\ Target \in Nat \ {0}
  BY AloneTypes
<1>2. /\ run[p].pc = "refill" /\ UNCHANGED handed /\ list' = Suffix(s, Target)
      /\ run' = [run EXCEPT ![p].pc = "evaluate", ![p].window = w]
  BY DEF Refill, At, WriteList
<1>3. /\ Covers(s, Target) /\ Len(s) <= Target /\ handed <= Last(s)
      /\ run[p].ts <= handed + 1 /\ run[p].own
  BY <1>2 DEF AloneOK
<1> HIDE DEF w
<1>4. r.pc = "evaluate" /\ r.window = w /\ r.ts = run[p].ts /\ r.own = run[p].own
  <2>1. r = [run[p] EXCEPT !.pc = "evaluate", !.window = w]
    BY <1>1, <1>2 DEF TypeInv
  <2> QED BY <1>1, <2>1, TaskIs
<1> HIDE DEF s
<1>5. list' = s
  BY <1>2, <1>3 DEF Suffix
<1>6. Len(s) \in Nat
  BY <1>1, LenProperties
<1>7. Covers(s, Maxlen)
  <2>1. Maxlen <= Len(s) \/ s[1] = 1
    <3>1. Target <= Len(s) \/ s[1] = 1
      BY <1>3 DEF Covers
    <3> QED BY <1>1, <1>6, <3>1, TargetIs
  <2> QED BY <1>3, <2>1 DEF Covers
<1>8. Covers(w, Required) /\ Len(w) <= Required
  <2>1. Required <= Target
    BY TargetIs
  <2> QED BY <1>1, <1>3, <2>1, CoversSuffix DEF w
<1>9. /\ Covers(r.window, Required) /\ Len(r.window) <= Required
      /\ Covers(list', Maxlen) /\ handed' <= Last(list')
      /\ r.ts <= handed' + 1 /\ r.own
  BY <1>2, <1>3, <1>4, <1>5, <1>7, <1>8
<1> QED BY <1>4, <1>9 DEF AloneOK, UpToDate, Covers

LEMMA AloneStep ==
  ASSUME TypeInv, NEW p \in Processors, AloneOK(run[p]), Required # 1, ~skipped',
         \/ Upsert(p) \/ ReadWindow(p) \/ ReadHistory(p) \/ Refill(p) \/ Evaluate(p),
         NEW r, r = run'[p]
  PROVE  AloneOK(r)'
<1>1. CASE ReplaceByOwn(p)
  <2>1. run[p].pc = "only"
    BY <1>1 DEF ReplaceByOwn, At
  <2> QED BY <2>1 DEF AloneOK
<1>2. CASE SetTailError(p)
  <2>1. run[p].pc = "set" /\ run[p].at > Len(list)
    BY <1>2 DEF SetTailError, At
  <2>2. run[p].at = Len(list) /\ Len(list) \in Nat
    BY <2>1, AloneTypes DEF AloneOK
  <2> QED BY <2>1, <2>2
<1>3. CASE Evaluate(p)
  <2>1. run[p].pc = "evaluate" /\ UNCHANGED <<list, handed>> /\ run' = [run EXCEPT ![p] = Idle]
    BY <1>3 DEF Evaluate, At, Reading
  <2>2. p \in Tasks
    BY AloneTypes
  <2>3. r.pc = "idle"
    <3>1. r = Idle
      BY <2>1, <2>2 DEF TypeInv
    <3> QED BY <3>1 DEF Idle
  <2>4. list = <<>> \/ UpToDate
    BY <2>1 DEF AloneOK
  <2> QED BY <2>1, <2>3, <2>4 DEF AloneOK, UpToDate
<1>4. CASE ReadTail(p)
  BY <1>4, AloneReadTail
<1>5. CASE Push(p)
  BY <1>5, AlonePush
<1>6. CASE ReadLength(p)
  BY <1>6, AloneReadLength
<1>7. CASE SetTail(p)
  BY <1>7, AloneSetTail
<1>8. CASE ReadRange(p)
  BY <1>8, AloneReadRange
<1>9. CASE Rebuild(p)
  BY <1>9, AloneRebuild
<1>10. CASE ReadWindow(p)
  BY <1>10, AloneReadWindow
<1>11. CASE ReadHistory(p)
  BY <1>11, AloneReadHistory
<1>12. CASE Refill(p)
  BY <1>12, AloneRefill
<1> QED BY <1>1, <1>2, <1>3, <1>4, <1>5, <1>6, <1>7, <1>8, <1>9, <1>10, <1>11, <1>12 DEF Upsert

\* The stages of an upsert end in the window's.
LEMMA SingleStage ==
  ASSUME TypeInv, NEW p \in Processors, Upsert(p) \/ Evaluate(p), NEW r, r = run'[p]
  PROVE  SingleOK(r)
<1>1. p \in Tasks /\ run \in [Tasks -> Calls]
  BY AloneTypes DEF TypeInv
<1>2. run[p] \in Calls
  BY <1>1
<1>3. r.pc \in {"idle", "push", "length", "only", "set", "range", "rebuild", "window"}
  BY <1>1, <1>2 DEF Upsert, ReadTail, Push, ReadLength, ReplaceByOwn, SetTail, SetTailError,
                    ReadRange, Rebuild, Evaluate, Goto, Idle, Calls
<1> QED BY <1>3 DEF SingleOK

LEMMA SingleReadWindow ==
  ASSUME TypeInv, NEW p \in Processors, Required <= 1, ReadWindow(p), NEW r, r = run'[p]
  PROVE  SingleOK(r)
<1> DEFINE c == run[p].ts
           last == Suffix(list, Required)
           w == IF run[p].own THEN Merge(last, c, Required) ELSE last
<1>1. /\ p \in Tasks /\ list \in Seq(Nat) /\ c \in Nat /\ Required \in Nat \ {0}
  BY AloneTypes
<1>2. /\ last \in Seq(Nat) /\ Len(last) \in Nat /\ Len(last) <= Required
  <2>1. last \in Seq(Nat) /\ Len(last) <= Required
    BY <1>1, SuffixIsShort
  <2> QED BY <2>1, LenProperties
<1>3. run' = [run EXCEPT ![p].pc = IF Len(last) < Required THEN "history" ELSE "evaluate",
                         ![p].window = IF Len(last) < Required THEN <<>> ELSE w]
  BY DEF ReadWindow
<1>4. /\ r.pc = IF Len(last) < Required THEN "history" ELSE "evaluate"
      /\ r.window = IF Len(last) < Required THEN <<>> ELSE w
  <2> HIDE DEF last, w
  <2>1. r = [run[p] EXCEPT !.pc = IF Len(last) < Required THEN "history" ELSE "evaluate",
                           !.window = IF Len(last) < Required THEN <<>> ELSE w]
    BY <1>1, <1>3 DEF TypeInv
  <2> QED BY <1>1, <2>1, TaskIs
<1> HIDE DEF last, c
<1>5. CASE Len(last) < Required
  BY <1>4, <1>5 DEF SingleOK
<1>6. CASE ~(Len(last) < Required)
  <2>1. Len(last) = Required
    BY <1>1, <1>2, <1>6
  <2>2. Len(Merge(last, c, Required)) = Required
    <3>1. PICK S : S = ToSet(last) \cup {c}
      OBVIOUS
    <3>2. S \in SUBSET Nat /\ IsFiniteSet(S) /\ S # {}
      <4>1. closed \in Nat /\ last \in Seq(1..closed)
        BY <1>1, TaskIs, SuffixIsShort DEF TypeInv, last
      <4>2. ToSet(last) \in SUBSET Nat /\ IsFiniteSet(ToSet(last))
        BY <4>1, Numbers
      <4> QED BY <1>1, <3>1, <4>2, FS_AddElement
    <3>3. Cardinality(S) \in Nat /\ Cardinality(S) # 0
      BY <3>2, FS_CardinalityType, FS_EmptySet
    <3>4. Len(W!Newest(S, Required)) = IF Cardinality(S) <= Required THEN Cardinality(S) ELSE Required
      BY <1>1, <3>2, NewestProperties
    <3>5. Len(W!Newest(S, Required)) = Required
      BY <1>1, <3>3, <3>4
    <3> QED BY <3>1, <3>5 DEF Merge
  <2>3. Len(w) = Required
    BY <2>1, <2>2
  <2> HIDE DEF w
  <2> QED BY <1>4, <1>6, <2>3 DEF SingleOK
<1> QED BY <1>5, <1>6

LEMMA SingleReadHistory ==
  ASSUME TypeInv, NEW p \in Processors, ReadHistory(p), NEW r, r = run'[p]
  PROVE  SingleOK(r)
<1>1. p \in Tasks
  BY AloneTypes
<1>2. PICK s : run' = [run EXCEPT ![p].pc = IF s = <<>> THEN "idle" ELSE "refill",
                                  ![p].seen = s]
  BY DEF ReadHistory, Fetched
<1>3. r.pc = (IF s = <<>> THEN "idle" ELSE "refill") /\ r.seen = s
  <2>1. r = [run[p] EXCEPT !.pc = IF s = <<>> THEN "idle" ELSE "refill", !.seen = s]
    BY <1>1, <1>2 DEF TypeInv
  <2> QED BY <1>1, <2>1, TaskIs
<1> QED BY <1>3 DEF SingleOK

LEMMA SingleRefill ==
  ASSUME TypeInv, NEW p \in Processors, SingleOK(run[p]), Required <= 1, Refill(p),
         NEW r, r = run'[p]
  PROVE  SingleOK(r)
<1> DEFINE s == run[p].seen
           w == Suffix(s, Required)
<1>1. p \in Tasks /\ s \in Seq(Nat) /\ Required \in Nat \ {0}
  BY AloneTypes
<1>2. s # <<>> /\ run' = [run EXCEPT ![p].pc = "evaluate", ![p].window = w]
  BY DEF Refill, At, SingleOK
<1>3. Len(w) = Required
  <2>1. Len(s) \in Nat /\ Len(s) # 0
    BY <1>1, <1>2, LenProperties, EmptySeq
  <2>2. Len(w) = IF Len(s) <= Required THEN Len(s) ELSE Required
    BY <1>1, SuffixProperties
  <2> HIDE DEF w, s
  <2> QED BY <1>1, <2>1, <2>2
<1> HIDE DEF w
<1>4. r.pc = "evaluate" /\ r.window = w
  <2>1. r = [run[p] EXCEPT !.pc = "evaluate", !.window = w]
    BY <1>1, <1>2 DEF TypeInv
  <2> QED BY <1>1, <2>1, TaskIs
<1> QED BY <1>3, <1>4 DEF SingleOK

\* What a step of the worker has to keep.
LEMMA CalmMove ==
  ASSUME CalmInv, Calm, NEW p \in Processors, p = "shard",
         \A q \in Tasks \ {p} : run'[q] = run[q],
         NEW r, r = run'[p], IF Required = 1 THEN SingleOK(r) ELSE AloneOK(r)'
  PROVE  CalmInv'
<1>1. PICK u \in Tasks \ {p}, b \in Tasks \ {p} : u = "route" /\ b = "bootstrap"
  BY DEF Tasks, Processors
<1>2. run["route"].pc = "idle" /\ run["bootstrap"].pc = "idle"
  BY DEF CalmInv
<1>3. run'["route"].pc = "idle" /\ run'["bootstrap"].pc = "idle" /\ run'["shard"] = r
  BY <1>1, <1>2
<1>4. CASE Required = 1
  BY <1>3, <1>4 DEF CalmInv, SingleOK
<1>5. CASE Required # 1
  BY <1>3, <1>5 DEF CalmInv, AloneOK, UpToDate
<1> QED BY <1>4, <1>5

\* A call of the worker, with the next entry or one that was handled before.
LEMMA CalmCall ==
  ASSUME TypeInv, CalmInv, Calm, NEW p \in Processors, p = "shard",
         NEW n \in Nat, Called(p, n, TRUE), UNCHANGED list,
         \/ handed' = handed /\ n <= handed + 1
         \/ handed' = handed + 1 /\ n = handed + 1
  PROVE  CalmInv'
<1>1. /\ p \in Tasks /\ list \in Seq(Nat) /\ handed \in Nat
  BY AloneTypes
<1>2. PICK r : r = [Idle EXCEPT !.pc = "tail", !.ts = n, !.own = TRUE]
  OBVIOUS
<1>3. run[p].pc = "idle" /\ run' = [run EXCEPT ![p] = r]
  BY <1>2 DEF Called
<1>4. run'[p] = r /\ \A q \in Tasks \ {p} : run'[q] = run[q]
  BY <1>1, <1>3, OthersStay
<1>5. r.pc = "tail" /\ r.ts = n /\ r.own
  BY <1>2 DEF Idle
<1>6. ASSUME Required # 1 PROVE AloneOK(r)'
  <2>1. list = <<>> \/ UpToDate
    BY <1>3, <1>6 DEF CalmInv, AloneOK
  <2>2. CASE list = <<>>
    BY <1>1, <1>5, <2>2 DEF AloneOK
  <2>3. CASE UpToDate
    <3>1. Covers(list, Maxlen) /\ handed <= Last(list) /\ Last(list) \in Nat
      BY <1>1, <2>3, CoversIs DEF UpToDate
    <3>2. n <= Last(list) + 1 /\ (handed' <= Last(list) \/ handed' <= n) /\ n <= handed' + 1
      BY <1>1, <3>1
    <3> QED BY <1>5, <3>1, <3>2 DEF AloneOK, Covers
  <2> QED BY <2>1, <2>2, <2>3
<1>7. SingleOK(r)
  BY <1>5 DEF SingleOK
<1> QED BY <1>4, <1>6, <1>7, CalmMove

LEMMA CalmStep == TypeInv /\ CalmInv /\ [Next]_vars => CalmInv'
<1> SUFFICES ASSUME TypeInv, CalmInv, [Next]_vars, Calm' PROVE CalmInv'
  BY DEF CalmInv
<1>1. calls \in Nat
  BY ConstantsAssumption DEF TypeInv
<1>2. PICK p \in Processors : p = "shard"
  BY DEF Processors
<1>3. PICK u \in Processors : u = "route"
  BY DEF Processors
<1>4. handed \in Nat
  BY AloneTypes, <1>2
<1> DEFINE Move(q) == \/ Upsert(q) \/ ReadWindow(q) \/ ReadHistory(q) \/ Refill(q) \/ Evaluate(q)
<1>5. ASSUME Calm, CandleCloses \/ UNCHANGED vars PROVE CalmInv'
  <2>1. UNCHANGED <<list, handed, run>>
    BY <1>5 DEF CandleCloses, vars
  <2> QED BY <1>5, <2>1 DEF CalmInv, AloneOK, SingleOK, UpToDate, Covers
<1>6. ASSUME Calm, HandleEntry PROVE CalmInv'
  <2>1. PICK n \in Nat : n = handed + 1
    BY <1>4
  <2>2. handed' = n /\ UNCHANGED list
    BY <1>6, <2>1 DEF HandleEntry
  <2>3. Called(p, n, TRUE)
    BY <1>2, <1>6, <2>2 DEF HandleEntry, Called
  <2> QED BY <1>2, <1>6, <2>1, <2>2, <2>3, CalmCall
<1>7. ASSUME Calm, NEW n \in 1..NumCandles, HandleOther(n) PROVE CalmInv'
  <2>1. UNCHANGED <<list, handed>> /\ Called(p, n, TRUE) /\ ~(n > handed + 1)
    BY <1>2, <1>7 DEF HandleOther, Calm
  <2>2. n \in Nat /\ n <= handed + 1
    BY <1>4, <2>1, ConstantsAssumption
  <2> QED BY <1>2, <1>7, <2>1, <2>2, CalmCall
<1>8. ASSUME NEW n \in 1..NumCandles, Trigger(n) PROVE FALSE
  BY <1>1, <1>8 DEF Trigger, Calm
<1>9. ASSUME StartBootstrap PROVE FALSE
  BY <1>1, <1>9 DEF StartBootstrap, Calm
<1>10. ASSUME NEW q \in Tasks, CallFault(q) PROVE FALSE
  BY <1>10 DEF CallFault, Calm
<1>11. ASSUME Calm, Reset PROVE FALSE
  BY <1>11 DEF Reset, At, CalmInv
<1>12. ASSUME Calm, NEW q \in Processors, Move(q), q # p PROVE FALSE
  <2>1. run[q].pc # "idle"
    BY <1>12 DEF Upsert, ReadTail, Push, ReadLength, ReplaceByOwn, SetTail, SetTailError,
                 ReadRange, Rebuild, ReadWindow, ReadHistory, Refill, Evaluate, At
  <2>2. q = "route"
    BY <1>2, <1>12 DEF Processors
  <2> QED BY <1>12, <2>1, <2>2 DEF CalmInv
<1>13. ASSUME Calm, Move(p) PROVE CalmInv'
  <2>1. PICK r : r = run'[p]
    OBVIOUS
  <2>2. \A q \in Tasks \ {p} : run'[q] = run[q]
    BY <1>13 DEF Upsert, ReadTail, Push, ReadLength, ReplaceByOwn, SetTail, SetTailError,
                 ReadRange, Rebuild, ReadWindow, ReadHistory, Fetched, Refill, Evaluate, Goto,
                 TypeInv
  <2>3. ~skipped'
    BY DEF Calm
  <2>4. CASE Required = 1
    <3>1. SingleOK(run[p])
      BY <1>2, <1>13, <2>4 DEF CalmInv
    <3>2. SingleOK(r)
      <4>1. Required <= 1
        BY <2>4
      <4> QED BY <1>13, <2>1, <3>1, <4>1, SingleStage, SingleReadWindow, SingleReadHistory,
                 SingleRefill
    <3> QED BY <1>2, <1>13, <2>1, <2>2, <2>4, <3>2, CalmMove
  <2>5. CASE Required # 1
    <3>1. AloneOK(run[p])
      BY <1>2, <1>13, <2>5 DEF CalmInv
    <3>2. AloneOK(r)'
      BY <1>13, <2>1, <2>3, <2>5, <3>1, AloneStep
    <3> QED BY <1>2, <1>13, <2>1, <2>2, <2>5, <3>2, CalmMove
  <2> QED BY <2>4, <2>5
<1>14. Calm
  <2>1. calls' = 0 /\ ~skipped'
    BY DEF Calm
  <2>2. calls' = calls \/ calls' = calls + 1
    BY DEF Next, vars, CandleCloses, HandleEntry, HandleOther, Trigger, Upsert, ReadTail, Push,
           ReadLength, ReplaceByOwn, SetTail, SetTailError, ReadRange, Rebuild, ReadWindow,
           ReadHistory, Fetched, Refill, Evaluate, StartBootstrap, Reset, CallFault, WriteList,
           Reading
  <2>3. skipped => skipped'
    BY DEF Next, vars, CandleCloses, HandleEntry, HandleOther, Trigger, Upsert, ReadTail, Push,
           ReadLength, ReplaceByOwn, SetTail, SetTailError, ReadRange, Rebuild, ReadWindow,
           ReadHistory, Fetched, Refill, Evaluate, StartBootstrap, Reset, CallFault, WriteList,
           Reading
  <2> QED BY <1>1, <2>1, <2>2, <2>3 DEF Calm
<1> QED BY <1>5, <1>6, <1>7, <1>8, <1>9, <1>10, <1>11, <1>12, <1>13, <1>14 DEF Next

LEMMA CalmInit == Init => CalmInv
<1> SUFFICES ASSUME Init PROVE CalmInv
  OBVIOUS
<1>1. run["shard"] = Idle /\ run["route"] = Idle /\ run["bootstrap"] = Idle
  BY DEF Init, Tasks, Processors
<1>2. Idle.pc = "idle"
  BY DEF Idle
<1>3. SingleOK(Idle)
  BY <1>2 DEF SingleOK
<1>4. list = <<>> \/ UpToDate
  <2>1. CASE list = W!Newest(1..NumClosed, Maxlen) /\ NumClosed # 0
    <3>1. NumClosed \in Nat \ {0} /\ Maxlen \in Nat \ {0} /\ handed = NumClosed
      BY <2>1, ConstantsAssumption DEF Init
    <3>2. Covers(list, Maxlen) /\ Last(list) = NumClosed
      BY <2>1, <3>1, CoversInterval
    <3> QED BY <3>1, <3>2 DEF UpToDate
  <2>2. CASE list = W!Newest(1..NumClosed, Maxlen) /\ NumClosed = 0
    <3>1. 1..NumClosed \in SUBSET (1..0) /\ Maxlen \in Nat
      BY <2>2, ConstantsAssumption
    <3>2. list \in Seq(1..0)
      BY <2>2, <3>1, NewestIsShort
    <3>3. list = <<>>
      <4>1. Len(list) \in Nat /\ \A i \in 1..Len(list) : list[i] \in 1..0
        BY <3>2, LenProperties, ElementOfSeq
      <4>2. Len(list) = 0
        BY <4>1
      <4> QED BY <3>2, <4>2, EmptySeq
    <3> QED BY <3>3
  <2> QED BY <2>1, <2>2 DEF Init
<1>5. AloneOK(Idle)
  BY <1>2, <1>4 DEF AloneOK
<1> QED BY <1>1, <1>2, <1>3, <1>5 DEF CalmInv

LEMMA WindowCovers ==
  ASSUME NEW w \in Seq(Nat), NEW k \in Nat \ {0}, Covers(w, k), Len(w) <= k
  PROVE  /\ \A i \in 1..(Len(w) - 1) : w[i + 1] = w[i] + 1
         /\ Len(w) = k \/ Head(w) = 1
<1>1. /\ Len(w) \in Nat \ {0} /\ DOMAIN w = 1..Len(w) /\ w[1] \in Nat /\ Head(w) = w[1]
  BY CoversIs
<1>2. (\A i \in 1..Len(w) : w[i] = w[1] + (i - 1)) /\ (k <= Len(w) \/ w[1] = 1)
  BY <1>1 DEF Covers
<1>3. ASSUME NEW i \in 1..(Len(w) - 1) PROVE w[i + 1] = w[i] + 1
  <2>1. i \in 1..Len(w) /\ i + 1 \in 1..Len(w)
    BY <1>1
  <2>2. w[i] = w[1] + (i - 1) /\ w[i + 1] = w[1] + (i + 1 - 1)
    BY <1>2, <2>1
  <2> QED BY <1>1, <2>2
<1>4. Len(w) = k \/ Head(w) = 1
  <2>1. k <= Len(w) \/ Head(w) = 1
    BY <1>1, <1>2
  <2>2. k <= Len(w) => Len(w) = k
    <3>1. PICK n \in Nat : n = Len(w)
      BY <1>1
    <3>2. n <= k
      BY <3>1
    <3>3. k <= n => n = k
      BY <3>2
    <3> QED BY <3>1, <3>3
  <2> QED BY <2>1, <2>2
<1> QED BY <1>3, <1>4

\* While no call fails, no entry overtakes another and the routes are not called,
\* entries that come again leave no gap in what the evaluator gets.
THEOREM ReplaysOpenNoGap == Spec => []ReplaysLeaveNoGap
<1>1. TypeInv /\ CalmInv => ReplaysLeaveNoGap
  <2> SUFFICES ASSUME TypeInv, CalmInv, calls = 0, ~skipped, At("shard", "evaluate")
               PROVE  LET w == run["shard"].window
                      IN  /\ \A i \in 1..(Len(w) - 1) : w[i + 1] = w[i] + 1
                          /\ Len(w) = Required \/ Head(w) = 1
    BY DEF ReplaysLeaveNoGap
  <2>1. PICK p \in Tasks : p = "shard"
    BY DEF Tasks, Processors
  <2>2. PICK w : w = run[p].window
    OBVIOUS
  <2>3. w \in Seq(Nat) /\ Required \in Nat \ {0}
    <3>1. w \in Seq(1..closed) /\ closed \in Nat
      BY <2>2, TaskIs
    <3> QED BY <3>1, Numbers, ConstantsAssumption
  <2>4. CASE Required = 1
    <3>1. Required <= 1
      BY <2>4
    <3>2. Len(w) = Required
      BY <2>1, <2>2, <2>4 DEF CalmInv, Calm, SingleOK, At
    <3>3. 1..(Len(w) - 1) = {}
      BY <2>3, <3>1, <3>2
    <3> QED BY <2>1, <2>2, <3>2, <3>3
  <2>5. CASE Required # 1
    <3>1. Covers(w, Required) /\ Len(w) <= Required
      BY <2>1, <2>2, <2>5 DEF CalmInv, Calm, AloneOK, At
    <3> QED BY <2>1, <2>2, <2>3, <3>1, WindowCovers
  <2> QED BY <2>4, <2>5
<1> QED BY <1>1, TypeInit, TypeStep, CalmInit, CalmStep, PTL DEF Spec
=============================================================================
