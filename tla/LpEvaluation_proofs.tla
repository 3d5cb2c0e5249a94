------------------------- MODULE LpEvaluation_proofs -------------------------
(***************************************************************************)
(* For every number of candles, every list of tiers and every setting.     *)
(***************************************************************************)
EXTENDS LpEvaluation, BoundedRecursion

-----------------------------------------------------------------------------
(***************************************************************************)
(* The search for a tier.                                                  *)
(***************************************************************************)

Results == [streak : [TierNames -> Nat], chosen : TierNames \cup {None}, over : BOOLEAN]

\* A turn of the search counts one tier, at most by one.
LEMMA JudgeTierType ==
  ASSUME NEW k \in DOMAIN Tiers, NEW r \in Results, NEW pool, NEW low, NEW stop
  PROVE  JudgeTier(k, r, pool, low, stop) \in Results
<1> DEFINE t == Tiers[k].name
           n == Held(r.streak, low, t)
<1>1. t \in TierNames
  BY DEF TierNames
<1>2. r.streak \in [TierNames -> Nat] /\ n \in Nat
  BY <1>1 DEF Results, Held
<1>3. [r EXCEPT !.over = TRUE] \in Results
  BY DEF Results
<1>4. [streak |-> [r.streak EXCEPT ![t] = n], chosen |-> IF n >= Tiers[k].bars THEN t ELSE None,
       over |-> n >= Tiers[k].bars] \in Results
  <2>1. [r.streak EXCEPT ![t] = n] \in [TierNames -> Nat]
    BY <1>1, <1>2
  <2>2. (n >= Tiers[k].bars) \in BOOLEAN
    OBVIOUS
  <2>3. \A s \in [TierNames -> Nat], c \in TierNames \cup {None}, o \in BOOLEAN :
           [streak |-> s, chosen |-> c, over |-> o] \in Results
    BY DEF Results
  <2>4. (IF n >= Tiers[k].bars THEN t ELSE None) \in TierNames \cup {None}
    BY <1>1
  <2> QED BY <2>1, <2>2, <2>3, <2>4
<1> HIDE DEF n, Results
<1>5. CASE r.over
  BY <1>5 DEF JudgeTier
<1>6. CASE ~r.over /\ stop /\ pool = t
  BY <1>3, <1>6 DEF JudgeTier
<1>7. CASE ~r.over /\ ~(stop /\ pool = t) /\ pool \notin Tiers[k].from
  BY <1>7 DEF JudgeTier
<1>8. CASE ~r.over /\ ~(stop /\ pool = t) /\ pool \in Tiers[k].from
  BY <1>4, <1>8 DEF JudgeTier, n
<1> QED BY <1>5, <1>6, <1>7, <1>8

\* The ways a turn can end: with what it was given, at the pool, or with a count.
LEMMA JudgeTierCases ==
  ASSUME NEW k \in DOMAIN Tiers, NEW r \in Results, NEW pool, NEW low, NEW stop
  PROVE  LET t == Tiers[k].name
             n == Held(r.streak, low, t)
             q == JudgeTier(k, r, pool, low, stop)
         IN  \/ q = r /\ (r.over \/ pool \notin Tiers[k].from)
             \/ stop /\ ~r.over /\ q.over /\ q.chosen = r.chosen /\ q.streak = r.streak
             \/ /\ ~r.over /\ pool \in Tiers[k].from
                /\ q.streak = [r.streak EXCEPT ![t] = n]
                /\ q.over = (n >= Tiers[k].bars)
                /\ q.chosen = IF n >= Tiers[k].bars THEN t ELSE None
<1> DEFINE t == Tiers[k].name
           n == Held(r.streak, low, t)
<1> HIDE DEF n
<1>1. CASE r.over
  BY <1>1 DEF JudgeTier
<1>2. CASE ~r.over /\ stop /\ pool = t
  <2>1. JudgeTier(k, r, pool, low, stop) = [r EXCEPT !.over = TRUE]
    BY <1>2 DEF JudgeTier
  <2> QED BY <1>2, <2>1 DEF Results
<1>3. CASE ~r.over /\ ~(stop /\ pool = t) /\ pool \notin Tiers[k].from
  BY <1>3 DEF JudgeTier
<1>4. CASE ~r.over /\ ~(stop /\ pool = t) /\ pool \in Tiers[k].from
  <2>1. JudgeTier(k, r, pool, low, stop)
           = [streak |-> [r.streak EXCEPT ![t] = n],
              chosen |-> IF n >= Tiers[k].bars THEN t ELSE None, over |-> n >= Tiers[k].bars]
    BY <1>4 DEF JudgeTier, n
  <2> QED BY <1>4, <2>1 DEF n
<1> QED BY <1>1, <1>2, <1>3, <1>4

\* g[k] is what the search has found when it has been through the tiers from k on.
Search(g, L, pool, low, streak, stop) ==
    /\ g \in [1..(L + 1) -> Results]
    /\ g[L + 1] = [streak |-> streak, chosen |-> None, over |-> FALSE]
    /\ \A k \in 1..L : g[k] = JudgeTier(k, g[k + 1], pool, low, stop)
    /\ Gate(pool, low, streak, stop) = g[1]

\* The search goes through the tiers from the last one to the first.
LEMMA GateUnfolds ==
  ASSUME NEW pool, NEW low, NEW streak \in [TierNames -> Nat], NEW stop
  PROVE  \E g : Search(g, Len(Tiers), pool, low, streak, stop)
<1>0. PICK L \in Nat : L = Len(Tiers) /\ DOMAIN Tiers = 1..L
  BY ConstantsAssumption
<1>b. PICK base \in Results : base = [streak |-> streak, chosen |-> None, over |-> FALSE]
  BY DEF Results
<1>1. PICK step \in [1..L -> [Results -> Results]] :
         \A k \in 1..L, r \in Results : step[k][r] = JudgeTier(k, r, pool, low, stop)
  <2> DEFINE s == [k \in 1..L |-> [r \in Results |-> JudgeTier(k, r, pool, low, stop)]]
  <2>1. s \in [1..L -> [Results -> Results]]
    BY <1>0, JudgeTierType
  <2>2. \A k \in 1..L, r \in Results : s[k][r] = JudgeTier(k, r, pool, low, stop)
    OBVIOUS
  <2> HIDE DEF s
  <2> QED BY <2>1, <2>2
<1> DEFINE F(h) == [k \in 1..(L + 1) |-> IF k = L + 1 THEN base ELSE JudgeTier(k, h[k + 1], pool, low, stop)]
<1>2. \E g : g = F(g)
  <2>1. PICK g \in [1..(L + 1) -> Results] :
            g[L + 1] = base /\ \A k \in 1..L : g[k] = step[k][g[k + 1]]
    <3>1. Descending(L, Results, base, step) # {}
      BY DownwardRecursion
    <3> QED BY <3>1 DEF Descending
  <2>2. ASSUME NEW k \in 1..(L + 1)
        PROVE  g[k] = IF k = L + 1 THEN base ELSE JudgeTier(k, g[k + 1], pool, low, stop)
    <3>1. CASE k = L + 1
      BY <2>1, <3>1
    <3>2. CASE k # L + 1
      <4>1. k \in 1..L /\ k + 1 \in 1..(L + 1)
        BY <3>2
      <4>2. g[k + 1] \in Results
        BY <4>1
      <4> QED BY <1>1, <2>1, <3>2, <4>1, <4>2
    <3> QED BY <3>1, <3>2
  <2>3. g = F(g)
    BY <2>2
  <2> QED BY <2>3
<1> DEFINE h == CHOOSE g : g = F(g)
<1>3. h = F(h)
  <2> HIDE DEF F
  <2> QED BY <1>2
<1>4. Gate(pool, low, streak, stop) = h[1]
  BY <1>0, <1>b DEF Gate
<1>5. PICK g : g = F(g) /\ Gate(pool, low, streak, stop) = g[1]
  <2> HIDE DEF h, F
  <2> QED BY <1>3, <1>4
<1>6. g[L + 1] = base /\ \A k \in 1..L : g[k] = JudgeTier(k, g[k + 1], pool, low, stop)
  <2>1. L + 1 \in 1..(L + 1)
    OBVIOUS
  <2>2. \A k \in 1..L : k \in 1..(L + 1) /\ k # L + 1
    OBVIOUS
  <2> QED BY <1>5, <2>1, <2>2
<1>7. g \in [1..(L + 1) -> Results]
  <2> DEFINE S == {k \in 1..(L + 1) : g[k] \in Results}
  <2>1. L + 1 \in S
    BY <1>6
  <2>2. ASSUME NEW k \in 1..L, k + 1 \in S PROVE k \in S
    <3>1. g[k + 1] \in Results /\ k \in DOMAIN Tiers
      BY <1>0, <2>2
    <3>2. g[k] \in Results
      BY <1>6, <3>1, JudgeTierType
    <3> QED BY <3>2
  <2>3. 1..(L + 1) \subseteq S
    <3> HIDE DEF S
    <3> QED BY <2>1, <2>2, DownwardInduction
  <2>4. g = [k \in 1..(L + 1) |-> g[k]]
    BY <1>5
  <2> QED BY <2>3, <2>4
<1> HIDE DEF F, h
<1>8. Search(g, L, pool, low, streak, stop)
  BY <1>b, <1>5, <1>6, <1>7 DEF Search
<1> QED BY <1>0, <1>8

\* No two tiers are called the same.
DistinctTiers == \A i, j \in DOMAIN Tiers : Tiers[i].name = Tiers[j].name => i = j

\* One search counts every tier at most once.
LEMMA GateCountsOnce ==
  ASSUME DistinctTiers, NEW pool, NEW low, NEW streak \in [TierNames -> Nat], NEW stop
  PROVE  LET g == Gate(pool, low, streak, stop)
         IN  g \in Results /\ \A t \in TierNames : g.streak[t] <= streak[t] + 1
<1>0. PICK L \in Nat : L = Len(Tiers) /\ DOMAIN Tiers = 1..L
  BY ConstantsAssumption
<1>s. PICK g : Search(g, L, pool, low, streak, stop)
  BY <1>0, GateUnfolds
<1>1. /\ g \in [1..(L + 1) -> Results]
      /\ g[L + 1] = [streak |-> streak, chosen |-> None, over |-> FALSE]
      /\ \A m \in 1..L : g[m] = JudgeTier(m, g[m + 1], pool, low, stop)
      /\ Gate(pool, low, streak, stop) = g[1]
  BY <1>s DEF Search
<1> DEFINE Once(k) == \A t \in TierNames :
                         /\ g[k].streak[t] <= streak[t] + 1
                         /\ (\A j \in k..L : Tiers[j].name # t) => g[k].streak[t] = streak[t]
           S == {k \in 1..(L + 1) : Once(k)}
<1>2. L + 1 \in S
  <2>1. g[L + 1].streak = streak
    BY <1>1
  <2> QED BY <2>1
<1>3. ASSUME NEW k \in 1..L, k + 1 \in S PROVE k \in S
  <2> DEFINE r == g[k + 1]
             q == g[k]
             u == Tiers[k].name
             n == Held(r.streak, low, u)
  <2>1. k \in DOMAIN Tiers /\ r \in Results /\ u \in TierNames /\ k + 1 \in 1..(L + 1)
    <3>1. k \in DOMAIN Tiers /\ k + 1 \in 1..(L + 1)
      BY <1>0
    <3>2. r \in Results
      BY <1>1, <3>1
    <3>3. u \in TierNames
      BY <3>1 DEF TierNames
    <3> QED BY <3>1, <3>2, <3>3
  <2>2. r.streak \in [TierNames -> Nat]
    BY <2>1 DEF Results
  <2>3. q = JudgeTier(k, r, pool, low, stop)
    BY <1>1
  <2>4. \/ q.streak = r.streak \/ q.streak = [r.streak EXCEPT ![u] = n]
    <3> HIDE DEF r, q
    <3> QED BY <2>1, <2>3, JudgeTierCases
  <2> SUFFICES ASSUME NEW t \in TierNames
               PROVE  /\ q.streak[t] <= streak[t] + 1
                      /\ (\A j \in k..L : Tiers[j].name # t) => q.streak[t] = streak[t]
    OBVIOUS
  <2>5. /\ r.streak[t] <= streak[t] + 1
        /\ (\A j \in (k + 1)..L : Tiers[j].name # t) => r.streak[t] = streak[t]
    BY <1>3
  <2>6. (\A j \in k..L : Tiers[j].name # t) => t # u /\ r.streak[t] = streak[t]
    BY <2>5
  <2>7. \A j \in (k + 1)..L : Tiers[j].name # u
    BY <1>0 DEF DistinctTiers
  <2>8. t = u => r.streak[t] = streak[t] /\ n <= streak[t] + 1
    BY <2>2, <2>5, <2>7 DEF Held
  <2> HIDE DEF r, q, u, n
  <2> QED BY <2>2, <2>4, <2>5, <2>6, <2>8
<1>4. 1..(L + 1) \subseteq S
  <2> HIDE DEF S
  <2> QED BY <1>2, <1>3, DownwardInduction
<1>5. 1 \in S /\ g[1] \in Results
  BY <1>1, <1>4
<1> QED BY <1>1, <1>5

\* If a search chose tier k, its threshold has held long enough, and longer
\* still for the next search.
LEMMA GateChoice ==
  ASSUME DistinctTiers, NEW pool, NEW low, NEW streak \in [TierNames -> Nat], NEW stop,
         NEW k \in DOMAIN Tiers, Gate(pool, low, streak, stop).chosen = Tiers[k].name
  PROVE  /\ pool \in Tiers[k].from
         /\ Held(Gate(pool, low, streak, stop).streak, low, Tiers[k].name) >= Tiers[k].bars
<1>0. PICK L \in Nat : L = Len(Tiers) /\ DOMAIN Tiers = 1..L
  BY ConstantsAssumption
<1>s. PICK g : Search(g, L, pool, low, streak, stop)
  BY <1>0, GateUnfolds
<1>1. /\ g \in [1..(L + 1) -> Results]
      /\ g[L + 1] = [streak |-> streak, chosen |-> None, over |-> FALSE]
      /\ \A m \in 1..L : g[m] = JudgeTier(m, g[m + 1], pool, low, stop)
      /\ Gate(pool, low, streak, stop) = g[1]
  BY <1>s DEF Search
<1> DEFINE v == Tiers[k].name
           Chosen(m) == /\ g[m].chosen # None => g[m].over
                        /\ g[m].chosen = v => /\ pool \in Tiers[k].from
                                              /\ Held(g[m].streak, low, v) >= Tiers[k].bars
           S == {m \in 1..(L + 1) : Chosen(m)}
<1>2. v \in TierNames /\ v # None /\ Tiers[k].bars \in Nat
  BY ConstantsAssumption, TagsAssumption DEF TierNames
<1>3. L + 1 \in S
  <2>1. g[L + 1].chosen = None
    BY <1>1
  <2> QED BY <1>2, <2>1
<1>4. ASSUME NEW m \in 1..L, m + 1 \in S PROVE m \in S
  <2> DEFINE r == g[m + 1]
             q == g[m]
             u == Tiers[m].name
             n == Held(r.streak, low, u)
  <2>1. m \in DOMAIN Tiers /\ r \in Results /\ u \in TierNames
    <3>1. m \in DOMAIN Tiers /\ m + 1 \in 1..(L + 1)
      BY <1>0
    <3>2. r \in Results
      BY <1>1, <3>1
    <3>3. u \in TierNames
      BY <3>1 DEF TierNames
    <3> QED BY <3>1, <3>2, <3>3
  <2>2. r.streak \in [TierNames -> Nat] /\ n \in Nat
    <3>1. r.streak \in [TierNames -> Nat]
      BY <2>1 DEF Results
    <3> QED BY <2>1, <3>1 DEF Held
  <2>3. q = JudgeTier(m, r, pool, low, stop)
    BY <1>1
  <2>4. /\ r.chosen # None => r.over
        /\ r.chosen = v => pool \in Tiers[k].from /\ Held(r.streak, low, v) >= Tiers[k].bars
    BY <1>4
  <2>5. \/ q = r
        \/ ~r.over /\ q.over /\ q.chosen = r.chosen /\ q.streak = r.streak
        \/ /\ ~r.over /\ pool \in Tiers[m].from
           /\ q.streak = [r.streak EXCEPT ![u] = n]
           /\ q.over = (n >= Tiers[m].bars)
           /\ q.chosen = IF n >= Tiers[m].bars THEN u ELSE None
    <3> HIDE DEF r, q
    <3> QED BY <2>1, <2>3, JudgeTierCases
  <2>6. CASE q = r
    BY <2>4, <2>6
  <2>7. CASE ~r.over /\ q.over /\ q.chosen = r.chosen /\ q.streak = r.streak
    BY <2>4, <2>7
  <2>8. CASE /\ ~r.over /\ pool \in Tiers[m].from
             /\ q.streak = [r.streak EXCEPT ![u] = n]
             /\ q.over = (n >= Tiers[m].bars)
             /\ q.chosen = IF n >= Tiers[m].bars THEN u ELSE None
    <3>1. q.chosen = v => m = k /\ n >= Tiers[m].bars
      BY <1>2, <2>1, <2>8 DEF DistinctTiers
    <3>0. m \in 1..(L + 1)
      OBVIOUS
    <3>2. q.streak[u] = n
      BY <2>1, <2>2, <2>8
    <3>3. n >= Tiers[m].bars => Held(q.streak, low, u) >= Tiers[m].bars
      <4>1. Tiers[m].bars \in Nat
        BY <2>1, ConstantsAssumption
      <4> HIDE DEF q, r
      <4>2. CASE u \in low
        BY <2>2, <3>2, <4>1, <4>2 DEF Held
      <4>3. CASE u \notin low
        BY <4>3 DEF Held
      <4> QED BY <4>2, <4>3
    <3>4. Chosen(m)
      BY <2>8, <3>1, <3>3
    <3> QED BY <3>0, <3>4
  <2> QED BY <2>5, <2>6, <2>7, <2>8
<1>5. 1..(L + 1) \subseteq S
  <2> HIDE DEF S
  <2> QED BY <1>3, <1>4, DownwardInduction
<1>6. Chosen(1)
  BY <1>5
<1> QED BY <1>1, <1>6

Reaches(k, name) == \E j \in k..Len(Tiers) : name = Tiers[j].name

\* The search for the next pool chooses a tier whose threshold has held long
\* enough, or one after it.
LEMMA GateReaches ==
  ASSUME DistinctTiers, NEW pool, NEW low, NEW streak \in [TierNames -> Nat],
         NEW k \in DOMAIN Tiers, pool \in Tiers[k].from,
         Held(streak, low, Tiers[k].name) >= Tiers[k].bars
  PROVE  Reaches(k, Gate(pool, low, streak, FALSE).chosen)
<1>0. PICK L \in Nat : L = Len(Tiers) /\ DOMAIN Tiers = 1..L
  BY ConstantsAssumption
<1>s. PICK g : Search(g, L, pool, low, streak, FALSE)
  BY <1>0, GateUnfolds
<1>1. /\ g \in [1..(L + 1) -> Results]
      /\ g[L + 1] = [streak |-> streak, chosen |-> None, over |-> FALSE]
      /\ \A m \in 1..L : g[m] = JudgeTier(m, g[m + 1], pool, low, FALSE)
      /\ Gate(pool, low, streak, FALSE) = g[1]
  BY <1>s DEF Search
<1> DEFINE v == Tiers[k].name
           Found(m) == g[m].over /\ \E j \in k..L : g[m].chosen = Tiers[j].name
           Kept(m) == k < m /\ ~g[m].over /\ g[m].streak[v] = streak[v]
           S == {m \in 1..(L + 1) : Found(m) \/ Kept(m)}
<1>2. v \in TierNames /\ k \in 1..L
  BY <1>0 DEF TierNames
<1>3. L + 1 \in S
  <2>1. ~g[L + 1].over /\ g[L + 1].streak = streak
    BY <1>1
  <2>2. k < L + 1 /\ L + 1 \in 1..(L + 1)
    BY <1>2
  <2> QED BY <2>1, <2>2
<1>4. ASSUME NEW m \in 1..L, m + 1 \in S PROVE m \in S
  <2> DEFINE r == g[m + 1]
             q == g[m]
             u == Tiers[m].name
             n == Held(r.streak, low, u)
  <2>1. m \in DOMAIN Tiers /\ r \in Results /\ u \in TierNames
    <3>1. m \in DOMAIN Tiers /\ m + 1 \in 1..(L + 1)
      BY <1>0
    <3>2. r \in Results
      BY <1>1, <3>1
    <3>3. u \in TierNames
      BY <3>1 DEF TierNames
    <3> QED BY <3>1, <3>2, <3>3
  <2>2. r.streak \in [TierNames -> Nat]
    BY <2>1 DEF Results
  <2>3. q = JudgeTier(m, r, pool, low, FALSE)
    BY <1>1
  <2>4. \/ q = r /\ (r.over \/ pool \notin Tiers[m].from)
        \/ /\ ~r.over
           /\ q.streak = [r.streak EXCEPT ![u] = n]
           /\ q.over = (n >= Tiers[m].bars)
           /\ q.chosen = IF n >= Tiers[m].bars THEN u ELSE None
    <3> HIDE DEF r, q
    <3>1. PICK stop : stop = FALSE
      OBVIOUS
    <3>2. q = JudgeTier(m, r, pool, low, stop)
      BY <2>3, <3>1
    <3> QED BY <2>1, <3>1, <3>2, JudgeTierCases
  <2>5. Found(m + 1) \/ Kept(m + 1)
    BY <1>4
  <2>6. m \in 1..(L + 1)
    OBVIOUS
  <2>7. CASE Found(m + 1)
    <3>1. q = r
      BY <2>4, <2>7
    <3>2. Found(m)
      BY <2>7, <3>1
    <3> QED BY <2>6, <3>2
  <2>8. CASE Kept(m + 1) /\ k < m
    <3>1. CASE q = r
      <4>1. Kept(m)
        BY <2>8, <3>1
      <4> QED BY <2>6, <4>1
    <3>2. CASE ~(q = r) /\ n >= Tiers[m].bars
      <4>0. q.over = (n >= Tiers[m].bars) /\ q.chosen = u
        BY <2>4, <3>2
      <4>1. q.over
        <5> HIDE DEF q, r, n
        <5> QED BY <3>2, <4>0
      <4>3. m \in k..L
        BY <1>2, <2>8
      <4>2. Found(m)
        BY <4>0, <4>1, <4>3
      <4> QED BY <2>6, <4>2
    <3>3. CASE ~(q = r) /\ ~(n >= Tiers[m].bars)
      <4>1. u # v
        BY <1>0, <1>2, <2>1, <2>8 DEF DistinctTiers
      <4>2. ~q.over /\ q.streak = [r.streak EXCEPT ![u] = n]
        BY <2>4, <3>3
      <4>3. q.streak[v] = r.streak[v]
        BY <1>2, <2>2, <4>1, <4>2
      <4>4. Kept(m)
        BY <2>8, <4>2, <4>3
      <4> QED BY <2>6, <4>4
    <3> QED BY <3>1, <3>2, <3>3
  <2>9. CASE Kept(m + 1) /\ ~(k < m)
    <3>1. m = k
      BY <1>2, <2>9
    <3>2. n >= Tiers[m].bars
      BY <2>9, <3>1 DEF Held
    <3>0. q.over = (n >= Tiers[m].bars) /\ q.chosen = u
      BY <2>4, <2>9, <3>1, <3>2
    <3>3. q.over
      <4> HIDE DEF q, r, n
      <4> QED BY <3>0, <3>2
    <3>4. Found(m)
      BY <1>2, <3>0, <3>1, <3>3
    <3> QED BY <2>6, <3>4
  <2> QED BY <2>5, <2>7, <2>8, <2>9
<1>5. 1..(L + 1) \subseteq S
  <2> HIDE DEF S
  <2> QED BY <1>3, <1>4, DownwardInduction
<1>6. 1 \in S
  BY <1>5
<1>7. Found(1)
  BY <1>2, <1>6
<1> QED BY <1>0, <1>1, <1>7 DEF Reaches

-----------------------------------------------------------------------------
(***************************************************************************)
(* The counters.                                                           *)
(***************************************************************************)

Reasons == {None, "cross_max", "cross_min"} \cup TierNames

\* An episode without the bounds of EpisodeType.
Episodes ==
    [status : {"OPEN", "CLOSED"}, pool : Pools, bar : Nat, above : Nat, below : Nat,
     aboveTotal : Nat, belowTotal : Nat, streak : [TierNames -> Nat], reason : Reasons]

Stages == {"off", "sem", "read", "count", "streak", "close", "restreak", "open", "signal"}

Runs == [pc : Stages, of : Candles \cup {None}, copy : Episodes \cup {None},
         place : Places, low : SUBSET TierNames, trigger : Reasons]

Typed ==
    /\ run \in [Candles -> Runs]
    /\ episode \in [Candles -> Episodes \cup {None}]
    /\ marked \subseteq Candles /\ signals \subseteq Candles /\ processed \subseteq Candles
    /\ overlapped \in BOOLEAN /\ faults \in 0..MaxFaults

\* The candles whose evaluation has read no episode yet.
Pending == {m \in Candles : run[m].pc \in {"sem", "read"}}

\* The candles that can have been counted for episode o.
CountedFor(o) == marked \ ({o} \cup Pending)

Size(o) == Cardinality(CountedFor(o))

Sides(e) ==
    /\ e.above <= e.aboveTotal /\ e.below <= e.belowTotal
    /\ e.above = 0 \/ e.below = 0
    /\ e.aboveTotal + e.belowTotal <= e.bar

\* The candles counted by e, and twice as many turns of the tiers less slack,
\* are at most c.
Within(e, c, slack) ==
    /\ Sides(e)
    /\ e.bar <= c
    /\ DistinctTiers => \A t \in TierNames : e.streak[t] + slack <= 2 * c

EpisodeOK(o) ==
    episode[o] # None =>
        /\ o \in marked
        /\ Within(episode[o], Size(o), 0)
        /\ episode[o].status = "OPEN" => episode[o].reason = None

Holding == {"count", "streak", "close", "restreak"}

\* How often the evaluation may still count a tier.
Slack(pc) == IF pc = "count" THEN 2 ELSE IF pc = "restreak" THEN 0 ELSE 1

CopyOK(n, o) ==
    /\ run[n].of = o /\ episode[o] # None
    /\ run[n].copy \in Episodes
    /\ Within(run[n].copy, Size(o), Slack(run[n].pc))

RunOK(n) ==
    /\ run[n].pc # "off" => n \in marked
    /\ run[n].pc \notin {"off", "signal"} => episode[n] = None
    /\ run[n].pc \in Holding => \E o \in Candles : CopyOK(n, o)
    /\ run[n].pc \in {"sem", "read", "restreak", "open"} => run[n].trigger \in TierNames \cup {None}

CountInv ==
    /\ Typed
    /\ \A n \in Candles : EpisodeOK(n) /\ RunOK(n)

LEMMA Sizes ==
  /\ \A A \in SUBSET Candles : IsFiniteSet(A) /\ Cardinality(A) \in 0..NumCandles
  /\ \A A, B \in SUBSET Candles : A \subseteq B => Cardinality(A) <= Cardinality(B)
<1>1. IsFiniteSet(Candles) /\ Cardinality(Candles) = NumCandles /\ NumCandles \in Nat
  <2>1. NumCandles \in Nat
    BY ConstantsAssumption
  <2> QED BY <2>1, FS_Interval DEF Candles
<1>2. ASSUME NEW B \in SUBSET Candles PROVE IsFiniteSet(B) /\ Cardinality(B) \in 0..NumCandles
  <2>1. IsFiniteSet(B) /\ Cardinality(B) <= NumCandles
    BY <1>1, FS_Subset
  <2> QED BY <1>1, <2>1, FS_CardinalityType
<1>3. ASSUME NEW A \in SUBSET Candles, NEW B \in SUBSET Candles, A \subseteq B
      PROVE  Cardinality(A) <= Cardinality(B)
  BY <1>2, <1>3, FS_Subset
<1> QED BY <1>2, <1>3

\* What a candle does to a document.
LEMMA CountedFields ==
  ASSUME NEW e \in Episodes, NEW place \in Places
  PROVE  LET c == Counted(e, place)
         IN  /\ c \in Episodes /\ c.bar = e.bar + 1 /\ c.streak = e.streak
             /\ c.above = IF place = "above" THEN e.above + 1 ELSE 0
             /\ c.below = IF place = "below" THEN e.below + 1 ELSE 0
             /\ c.aboveTotal = IF place = "above" THEN e.aboveTotal + 1 ELSE e.aboveTotal
             /\ c.belowTotal = IF place = "below" THEN e.belowTotal + 1 ELSE e.belowTotal
<1>1. PICK a \in Nat : a = IF place = "above" THEN e.above + 1 ELSE 0
  BY DEF Episodes
<1>2. PICK b \in Nat : b = IF place = "below" THEN e.below + 1 ELSE 0
  BY DEF Episodes
<1>3. PICK at \in Nat : at = IF place = "above" THEN e.aboveTotal + 1 ELSE e.aboveTotal
  BY DEF Episodes
<1>4. PICK bt \in Nat : bt = IF place = "below" THEN e.belowTotal + 1 ELSE e.belowTotal
  BY DEF Episodes
<1>5. PICK n \in Nat : n = e.bar + 1
  BY DEF Episodes
<1>6. Counted(e, place) = [e EXCEPT !.bar = n, !.above = a, !.below = b,
                                    !.aboveTotal = at, !.belowTotal = bt]
  BY <1>1, <1>2, <1>3, <1>4, <1>5 DEF Counted, Episodes
<1> HIDE DEF Places
<1>7. PICK c : c = [e EXCEPT !.bar = n, !.above = a, !.below = b, !.aboveTotal = at, !.belowTotal = bt]
  OBVIOUS
<1>8. c \in Episodes
  BY <1>7 DEF Episodes
<1>9. c.bar = n /\ c.above = a /\ c.below = b /\ c.aboveTotal = at /\ c.belowTotal = bt /\ c.streak = e.streak
  BY <1>7 DEF Episodes
<1> QED BY <1>1, <1>2, <1>3, <1>4, <1>5, <1>6, <1>7, <1>8, <1>9

\* A document that counts within c counts within c + 1 after one more candle.
LEMMA CountedWithin ==
  ASSUME NEW e \in Episodes, NEW place \in Places, NEW c \in Nat, Within(e, c, 0)
  PROVE  Counted(e, place) \in Episodes /\ Within(Counted(e, place), c + 1, 2)
<1>1. PICK d : d = Counted(e, place)
  OBVIOUS
<1>2. /\ d \in Episodes /\ d.bar = e.bar + 1 /\ d.streak = e.streak
      /\ d.above = IF place = "above" THEN e.above + 1 ELSE 0
      /\ d.below = IF place = "below" THEN e.below + 1 ELSE 0
      /\ d.aboveTotal = IF place = "above" THEN e.aboveTotal + 1 ELSE e.aboveTotal
      /\ d.belowTotal = IF place = "below" THEN e.belowTotal + 1 ELSE e.belowTotal
  BY <1>1, CountedFields
<1>3. /\ e.bar \in Nat /\ e.above \in Nat /\ e.below \in Nat /\ e.aboveTotal \in Nat
      /\ e.belowTotal \in Nat /\ e.streak \in [TierNames -> Nat]
  BY DEF Episodes
<1>4. Sides(d)
  BY <1>2, <1>3 DEF Within, Sides
<1>5. d.bar <= c + 1
  BY <1>2, <1>3 DEF Within
<1>6. DistinctTiers => \A t \in TierNames : d.streak[t] + 2 <= 2 * (c + 1)
  BY <1>2, <1>3 DEF Within
<1> QED BY <1>1, <1>2, <1>4, <1>5, <1>6 DEF Within

\* Within is monotone.
LEMMA WithinMonotone ==
  ASSUME NEW e \in Episodes, NEW c \in Nat, NEW d \in Nat, c <= d,
         NEW s \in Nat, NEW r \in Nat, r <= s, Within(e, c, s)
  PROVE  Within(e, d, r)
<1>1. e.bar \in Nat /\ e.streak \in [TierNames -> Nat]
  BY DEF Episodes
<1> QED BY <1>1 DEF Within

\* What the other parts of a step leave alone.
LEMMA Frame ==
  ASSUME CountInv, Typed', marked \subseteq marked', NEW n \in Candles,
         \A m \in Candles : m \in Pending' => m \in Pending \/ m \notin marked,
         \A m \in Candles \ {n} : run'[m] = run[m] \/ run'[m] = NoRun,
         \A o \in Candles : episode[o] # None => episode'[o] # None,
         \A o \in Candles : episode'[o] = episode[o] \/ EpisodeOK(o)',
         \A o \in Candles \ {n} : episode[o] = None => episode'[o] = None,
         RunOK(n)'
  PROVE  CountInv'
<1>1. ASSUME NEW o \in Candles
      PROVE  Size(o) \in Nat /\ Size(o)' \in Nat /\ Size(o) <= Size(o)'
  <2>1. CountedFor(o) \in SUBSET Candles /\ CountedFor(o)' \in SUBSET Candles
    BY DEF CountInv, Typed, CountedFor
  <2>2. CountedFor(o) \subseteq CountedFor(o)'
    BY DEF CountInv, Typed, CountedFor
  <2> QED BY <2>1, <2>2, Sizes DEF Size
<1>2. ASSUME NEW o \in Candles, episode'[o] = episode[o] PROVE EpisodeOK(o)'
  <2> SUFFICES ASSUME episode[o] # None
               PROVE  /\ o \in marked' /\ Within(episode[o], Size(o)', 0)
                      /\ episode[o].status = "OPEN" => episode[o].reason = None
    BY <1>2 DEF EpisodeOK
  <2>1. /\ episode[o] \in Episodes /\ o \in marked /\ Within(episode[o], Size(o), 0)
        /\ episode[o].status = "OPEN" => episode[o].reason = None
    BY DEF CountInv, Typed, EpisodeOK
  <2> QED BY <1>1, <2>1, WithinMonotone
<1>3. ASSUME NEW m \in Candles \ {n} PROVE RunOK(m)'
  <2>1. CASE run'[m] = NoRun
    <3>1. run'[m].pc = "off"
      BY <2>1 DEF NoRun
    <3> QED BY <3>1 DEF RunOK, Holding
  <2>2. CASE run'[m] = run[m]
    <3>0. RunOK(m)
      BY DEF CountInv
    <3>1. run'[m].pc # "off" => m \in marked'
      BY <2>2, <3>0 DEF RunOK
    <3>2. run'[m].pc \notin {"off", "signal"} => episode'[m] = None
      BY <2>2, <3>0 DEF RunOK
    <3>3. ASSUME run'[m].pc \in Holding PROVE \E o \in Candles : CopyOK(m, o)'
      <4>1. PICK o \in Candles : CopyOK(m, o)
        BY <2>2, <3>0, <3>3 DEF RunOK
      <4>2. Slack(run[m].pc) \in Nat
        BY DEF Slack
      <4>3. Within(run[m].copy, Size(o)', Slack(run[m].pc))
        BY <1>1, <4>1, <4>2, WithinMonotone DEF CopyOK
      <4>4. CopyOK(m, o)'
        BY <2>2, <4>1, <4>3 DEF CopyOK
      <4> QED BY <4>4
    <3>4. run'[m].pc \in {"sem", "read", "restreak", "open"} => run'[m].trigger \in TierNames \cup {None}
      BY <2>2, <3>0 DEF RunOK
    <3> QED BY <3>1, <3>2, <3>3, <3>4 DEF RunOK
  <2> QED BY <2>1, <2>2
<1> QED BY <1>2, <1>3 DEF CountInv

LEMMA NoRunType == NoRun \in Runs
  BY DEF NoRun, Runs, Stages, Places, Reasons

LEMMA NoEpisode == None \notin Episodes
  BY TagsAssumption DEF Episodes, Reasons

\* A document read, counted for the first time: the candle is one more.
LEMMA SizeGrows ==
  ASSUME CountInv, NEW n \in Candles, NEW o \in Candles, n # o, run[n].pc = "read",
         marked' = marked, run'[n].pc \notin {"sem", "read"},
         \A m \in Candles \ {n} : run'[m] = run[m]
  PROVE  Size(o)' = Size(o) + 1 /\ Size(o) \in Nat
<1>1. CountedFor(o) \in SUBSET Candles
  BY DEF CountInv, Typed, CountedFor
<1>2. n \in marked /\ n \in Pending
  BY DEF CountInv, RunOK, Pending
<1>3. CountedFor(o)' = CountedFor(o) \cup {n} /\ n \notin CountedFor(o)
  <2>1. Pending' = Pending \ {n}
    BY <1>2 DEF Pending
  <2>2. marked \subseteq Candles
    BY DEF CountInv, Typed
  <2> QED BY <1>2, <2>1, <2>2 DEF CountedFor
<1> QED BY <1>1, <1>3, Sizes, FS_AddElement DEF Size

LEMMA TriggerCounts ==
  ASSUME CountInv, NEW n \in Candles, Trigger(n)
  PROVE  CountInv'
<1>1. PICK q \in Requests :
         run' = [run EXCEPT ![n] = [NoRun EXCEPT !.pc = "sem", !.place = q.place, !.low = q.low]]
  BY DEF Trigger
<1>2. PICK r : r = [NoRun EXCEPT !.pc = "sem", !.place = q.place, !.low = q.low]
  OBVIOUS
<1>3. r \in Runs /\ r.pc = "sem" /\ r.trigger = None
  <2>1. q.place \in Places /\ q.low \in SUBSET TierNames
    <3> HIDE DEF Places, TierNames
    <3> QED BY ConstantsAssumption
  <2>2. None \in Reasons /\ "sem" \in Stages
    BY DEF Reasons, Stages
  <2> HIDE DEF Places
  <2> QED BY <1>2, <2>1, <2>2, NoRunType DEF NoRun, Runs
<1>4. run \in [Candles -> Runs] /\ run' = [run EXCEPT ![n] = r]
  BY <1>1, <1>2 DEF CountInv, Typed
<1>5. run'[n] = r /\ \A m \in Candles \ {n} : run'[m] = run[m]
  BY <1>4
<1>6. Typed'
  BY <1>3, <1>4 DEF Trigger, CountInv, Typed
<1>7. n \notin marked /\ n \in marked' /\ marked \subseteq marked' /\ episode' = episode
  BY DEF Trigger
<1>8. episode[n] = None
  BY <1>7 DEF CountInv, EpisodeOK
<1>9. RunOK(n)'
  BY <1>3, <1>5, <1>7, <1>8 DEF RunOK, Holding
<1>10. \A m \in Candles : m \in Pending' => m \in Pending \/ m \notin marked
  BY <1>5, <1>7 DEF Pending
<1> QED BY <1>5, <1>6, <1>7, <1>9, <1>10, Frame

\* An evaluation moves on without a candle, an episode or a counter.
LEMMA MoveCounts ==
  ASSUME CountInv, NEW n \in Candles, UNCHANGED <<marked, episode, overlapped>>,
         signals' \subseteq Candles, processed' \subseteq Candles, faults' \in 0..MaxFaults,
         NEW r \in Runs, run' = [run EXCEPT ![n] = r],
         \/ r = NoRun
         \/ /\ r = [run[n] EXCEPT !.pc = r.pc]
            /\ run[n].pc \in {"sem", "read"} /\ r.pc \in {"read", "open"}
  PROVE  CountInv'
<1>1. run'[n] = r /\ \A m \in Candles \ {n} : run'[m] = run[m]
  BY DEF CountInv, Typed
<1>2. Typed'
  BY DEF CountInv, Typed
<1>3. run[n] \in Runs
  BY DEF CountInv, Typed
<1>4. RunOK(n)'
  <2>1. CASE r = NoRun
    BY <1>1, <2>1 DEF RunOK, NoRun, Holding
  <2>2. CASE r # NoRun
    <3>1. r.pc \in {"read", "open"} /\ r.trigger = run[n].trigger
      BY <1>3, <2>2 DEF Runs
    <3> QED BY <1>1, <2>2, <3>1 DEF CountInv, RunOK, Holding
  <2> QED BY <2>1, <2>2
<1>5. \A m \in Candles : m \in Pending' => m \in Pending \/ m \notin marked
  <2>1. CASE r = NoRun
    BY <1>1, <2>1 DEF Pending, NoRun
  <2>2. CASE r # NoRun
    BY <1>1, <2>2 DEF Pending
  <2> QED BY <2>1, <2>2
<1> QED BY <1>1, <1>2, <1>4, <1>5, Frame

LEMMA TriggerFaultCounts ==
  ASSUME CountInv, NEW n \in Candles, TriggerFault(n)
  PROVE  CountInv'
<1>1. /\ marked \subseteq marked' /\ marked' \subseteq Candles
      /\ UNCHANGED <<run, episode, signals, processed, overlapped>> /\ faults' \in 0..MaxFaults
  BY ConstantsAssumption DEF TriggerFault, Fault, CountInv, Typed
<1>2. Typed'
  BY <1>1 DEF CountInv, Typed
<1>3. ASSUME NEW m \in Candles PROVE Size(m) \in Nat /\ Size(m)' \in Nat /\ Size(m) <= Size(m)'
  <2>1. CountedFor(m) \in SUBSET Candles /\ CountedFor(m)' \in SUBSET Candles
    BY <1>2 DEF CountInv, Typed, CountedFor
  <2>2. CountedFor(m) \subseteq CountedFor(m)'
    BY <1>1 DEF CountedFor, Pending
  <2> QED BY <2>1, <2>2, Sizes DEF Size
<1>4. RunOK(n)'
  <2>1. RunOK(n)
    BY DEF CountInv
  <2>2. ASSUME run[n].pc \in Holding PROVE \E o \in Candles : CopyOK(n, o)'
    <3>1. PICK o \in Candles : CopyOK(n, o)
      BY <2>1, <2>2 DEF RunOK
    <3>2. Slack(run[n].pc) \in Nat
      BY DEF Slack
    <3>3. Within(run[n].copy, Size(o)', Slack(run[n].pc))
      BY <1>3, <3>1, <3>2, WithinMonotone DEF CopyOK
    <3>4. CopyOK(n, o)'
      BY <1>1, <3>1, <3>3 DEF CopyOK
    <3> QED BY <3>4
  <2> QED BY <1>1, <2>1, <2>2 DEF RunOK
<1>5. \A m \in Candles : m \in Pending' => m \in Pending
  BY <1>1 DEF Pending
<1> QED BY <1>1, <1>2, <1>4, <1>5, Frame

\* The evaluation of candle n writes document d of the episode o it holds.
LEMMA WriteCounts ==
  ASSUME CountInv, NEW n \in Candles, NEW o \in Candles, CopyOK(n, o), run[n].pc \in Holding,
         UNCHANGED <<marked, signals, overlapped, faults>>, processed' \subseteq Candles,
         NEW d \in Episodes, episode' = [episode EXCEPT ![o] = d],
         Within(d, Size(o), 0), d.status = "OPEN" => d.reason = None,
         NEW r \in Runs, run' = [run EXCEPT ![n] = r],
         \/ r = NoRun
         \/ /\ r.pc \in {"streak", "close", "restreak"} /\ r.of = o /\ r.copy \in Episodes
            /\ Within(r.copy, Size(o), Slack(r.pc))
            /\ r.pc = "restreak" => r.trigger \in TierNames \cup {None}
         \/ r.pc = "open" /\ r.trigger \in TierNames \cup {None}
  PROVE  CountInv'
<1>1. /\ run'[n] = r /\ \A m \in Candles \ {n} : run'[m] = run[m]
      /\ episode'[o] = d /\ \A m \in Candles \ {o} : episode'[m] = episode[m]
  BY DEF CountInv, Typed
<1>2. Typed'
  BY DEF CountInv, Typed
<1>3. n \in marked /\ episode[n] = None /\ n # o /\ d # None /\ episode[o] # None /\ o \in marked
  BY NoEpisode DEF CountInv, RunOK, Holding, CopyOK, EpisodeOK
<1>4. r.pc \notin {"sem", "read"}
  BY DEF NoRun
<1>5. Pending' = Pending
  BY <1>1, <1>4 DEF Pending, Holding
<1>6. Size(o)' = Size(o)
  BY <1>5 DEF Size, CountedFor
<1>7. EpisodeOK(o)'
  BY <1>1, <1>3, <1>6 DEF EpisodeOK
<1>8. RunOK(n)'
  <2>1. CASE r = NoRun
    BY <1>1, <2>1 DEF RunOK, NoRun, Holding
  <2>2. CASE r.pc = "open" /\ r.trigger \in TierNames \cup {None}
    BY <1>1, <1>3, <2>2 DEF RunOK, Holding
  <2>3. CASE /\ r.pc \in {"streak", "close", "restreak"} /\ r.of = o /\ r.copy \in Episodes
             /\ Within(r.copy, Size(o), Slack(r.pc))
             /\ r.pc = "restreak" => r.trigger \in TierNames \cup {None}
    <3>1. CopyOK(n, o)'
      BY <1>1, <1>3, <1>6, <2>3 DEF CopyOK
    <3> QED BY <1>1, <1>3, <2>3, <3>1 DEF RunOK
  <2> QED BY <2>1, <2>2, <2>3
<1> QED BY <1>1, <1>2, <1>3, <1>5, <1>7, <1>8, Frame

LEMMA ReadEpisodeCounts ==
  ASSUME CountInv, NEW n \in Candles, ReadEpisode(n)
  PROVE  CountInv'
<1>1. CASE Goto(n, "open")
  <2>1. PICK r : r = [run[n] EXCEPT !.pc = "open"]
    OBVIOUS
  <2>2. run[n] \in Runs /\ run \in [Candles -> Runs]
    BY DEF CountInv, Typed
  <2>3. r \in Runs /\ r.pc = "open"
    BY <2>1, <2>2 DEF Runs, Stages
  <2>4. run' = [run EXCEPT ![n] = r]
    BY <1>1, <2>1, <2>2 DEF Goto
  <2>5. UNCHANGED <<marked, episode, signals, processed, overlapped, faults>> /\ run[n].pc = "read"
    BY DEF ReadEpisode
  <2>6. signals' \subseteq Candles /\ processed' \subseteq Candles /\ faults' \in 0..MaxFaults
    BY <2>5 DEF CountInv, Typed
  <2>7. r = [run[n] EXCEPT !.pc = r.pc]
    BY <2>1, <2>3
  <2> QED BY <2>3, <2>4, <2>5, <2>6, <2>7, MoveCounts
<1>2. ASSUME NEW o \in OpenEpisodes,
             run' = [run EXCEPT ![n].of = o, ![n].copy = Counted(episode[o], run[n].place),
                                ![n].pc = "count"]
      PROVE  CountInv'
  <2>1. o \in Candles /\ episode[o] \in Episodes
    BY DEF OpenEpisodes, Opened, CountInv, Typed
  <2>2. run[n] \in Runs /\ run \in [Candles -> Runs] /\ run[n].place \in Places /\ run[n].pc = "read"
    BY DEF CountInv, Typed, Runs, ReadEpisode
  <2>3. n # o /\ n \in marked /\ episode[n] = None
    BY <2>1, <2>2, NoEpisode DEF CountInv, RunOK
  <2>4. EpisodeOK(o) /\ episode[o] # None
    BY <2>1, NoEpisode DEF CountInv
  <2>5. PICK c : c = Counted(episode[o], run[n].place)
    OBVIOUS
  <2>6. PICK r : r = [run[n] EXCEPT !.of = o, !.copy = c, !.pc = "count"]
    OBVIOUS
  <2>7. run' = [run EXCEPT ![n] = r]
    BY <1>2, <2>2, <2>5, <2>6
  <2>8. run'[n] = r /\ \A m \in Candles \ {n} : run'[m] = run[m]
    BY <2>2, <2>7
  <2>9. r.of = o /\ r.copy = c /\ r.pc = "count"
    BY <2>2, <2>6 DEF Runs
  <2>10. UNCHANGED <<marked, episode, signals, processed, overlapped, faults>>
    BY DEF ReadEpisode
  <2>11. Size(o)' = Size(o) + 1 /\ Size(o) \in Nat
    BY <2>1, <2>2, <2>3, <2>8, <2>9, <2>10, SizeGrows
  <2>12. c \in Episodes /\ Within(c, Size(o) + 1, 2)
    BY <2>1, <2>2, <2>4, <2>5, <2>11, CountedWithin DEF EpisodeOK
  <2>13. r \in Runs
    BY <2>1, <2>2, <2>6, <2>12 DEF Runs, Stages
  <2>14. Typed'
    BY <2>7, <2>10, <2>13 DEF CountInv, Typed
  <2>15. CopyOK(n, o)'
    BY <2>4, <2>8, <2>9, <2>10, <2>11, <2>12 DEF CopyOK, Slack
  <2>16. RunOK(n)'
    BY <2>1, <2>3, <2>8, <2>9, <2>10, <2>15 DEF RunOK
  <2>17. \A m \in Candles : m \in Pending' => m \in Pending
    BY <2>8, <2>9 DEF Pending
  <2> QED BY <2>8, <2>10, <2>14, <2>16, <2>17, Frame
<1> QED BY <1>1, <1>2 DEF ReadEpisode

\* A search on the counters of a copy that leaves room for one more turn.
LEMMA GateWithin ==
  ASSUME NEW e \in Episodes, NEW c \in Nat, NEW k \in Nat, Within(e, c, k + 1),
         NEW low, NEW stop
  PROVE  LET g == Gate(e.pool, low, e.streak, stop)
         IN  /\ g.chosen \in TierNames \cup {None}
             /\ [e EXCEPT !.streak = g.streak] \in Episodes
             /\ Within([e EXCEPT !.streak = g.streak], c, k)
<1> DEFINE g == Gate(e.pool, low, e.streak, stop)
<1>1. e.streak \in [TierNames -> Nat] /\ e.bar \in Nat
  BY DEF Episodes
<1>2. g \in Results
  <2>1. PICK h : Search(h, Len(Tiers), e.pool, low, e.streak, stop)
    BY <1>1, GateUnfolds
  <2>2. 1 \in 1..(Len(Tiers) + 1)
    BY ConstantsAssumption
  <2> QED BY <2>1, <2>2 DEF Search
<1>3. DistinctTiers => \A t \in TierNames : g.streak[t] <= e.streak[t] + 1
  BY <1>1, GateCountsOnce
<1>4. g.chosen \in TierNames \cup {None} /\ g.streak \in [TierNames -> Nat]
  BY <1>2 DEF Results
<1> HIDE DEF g
<1>5. PICK d : d = [e EXCEPT !.streak = g.streak]
  OBVIOUS
<1>6. /\ d \in Episodes /\ d.streak = g.streak /\ d.bar = e.bar /\ d.above = e.above
      /\ d.below = e.below /\ d.aboveTotal = e.aboveTotal /\ d.belowTotal = e.belowTotal
  BY <1>4, <1>5 DEF Episodes
<1>7. Sides(d) /\ d.bar <= c
  BY <1>6 DEF Within, Sides
<1>8. ASSUME DistinctTiers, NEW t \in TierNames PROVE d.streak[t] + k <= 2 * c
  <2>1. e.streak[t] \in Nat /\ g.streak[t] \in Nat
    BY <1>1, <1>4
  <2>2. g.streak[t] <= e.streak[t] + 1 /\ e.streak[t] + (k + 1) <= 2 * c
    BY <1>3, <1>8 DEF Within
  <2> QED BY <1>6, <2>1, <2>2
<1>9. Within(d, c, k)
  BY <1>7, <1>8 DEF Within
<1> QED BY <1>4, <1>5, <1>6, <1>9 DEF g

\* The document the counters are stored in: the counters of the copy, and the
\* rest as it is.
LEMMA CountersStored ==
  ASSUME NEW e \in Episodes, NEW c \in Episodes, NEW s \in Nat,
         Within(e, s, 0), Within(c, s, 2)
  PROVE  LET d == [e EXCEPT !.bar = c.bar, !.above = c.above, !.below = c.below,
                            !.aboveTotal = c.aboveTotal, !.belowTotal = c.belowTotal]
         IN  d \in Episodes /\ Within(d, s, 0) /\ d.status = e.status /\ d.reason = e.reason
<1>1. PICK d : d = [e EXCEPT !.bar = c.bar, !.above = c.above, !.below = c.below,
                             !.aboveTotal = c.aboveTotal, !.belowTotal = c.belowTotal]
  OBVIOUS
<1>2. PICK b \in Nat, a \in Nat, w \in Nat, at \in Nat, bt \in Nat :
         b = c.bar /\ a = c.above /\ w = c.below /\ at = c.aboveTotal /\ bt = c.belowTotal
  BY DEF Episodes
<1>3. d = [e EXCEPT !.bar = b, !.above = a, !.below = w, !.aboveTotal = at, !.belowTotal = bt]
  BY <1>1, <1>2
<1>4. d \in Episodes
  BY <1>3 DEF Episodes
<1>5. /\ d.bar = b /\ d.above = a /\ d.below = w /\ d.aboveTotal = at /\ d.belowTotal = bt
      /\ d.streak = e.streak /\ d.status = e.status /\ d.reason = e.reason
  BY <1>3 DEF Episodes
<1>6. Within(d, s, 0)
  BY <1>2, <1>5 DEF Within, Sides
<1> QED BY <1>1, <1>4, <1>5, <1>6

LEMMA SizeType ==
  ASSUME CountInv, NEW o \in Candles
  PROVE  Size(o) \in 0..NumCandles
<1>1. CountedFor(o) \in SUBSET Candles
  BY DEF CountInv, Typed, CountedFor
<1> QED BY <1>1, Sizes DEF Size

\* What an evaluation that holds an episode has in hand.
LEMMA HeldEpisode ==
  ASSUME CountInv, NEW n \in Candles, run[n].pc \in Holding
  PROVE  /\ run[n] \in Runs /\ run \in [Candles -> Runs] /\ run[n].of \in Candles
         /\ CopyOK(n, run[n].of) /\ EpisodeOK(run[n].of)
         /\ episode[run[n].of] \in Episodes /\ Size(run[n].of) \in Nat
<1>1. PICK o \in Candles : CopyOK(n, o)
  BY DEF CountInv, RunOK
<1>2. o = run[n].of /\ episode[o] # None
  BY <1>1 DEF CopyOK
<1> QED BY <1>1, <1>2, SizeType DEF CountInv, Typed

LEMMA StoreCountersCounts ==
  ASSUME CountInv, NEW n \in Candles, StoreCounters(n)
  PROVE  CountInv'
<1>0. run[n].pc = "count" /\ run[n].pc \in Holding
  BY DEF StoreCounters, Holding
<1>1. PICK o \in Candles, e \in Episodes, c \in Episodes :
        /\ o = run[n].of /\ e = episode[o] /\ c = run[n].copy
        /\ CopyOK(n, o) /\ EpisodeOK(o) /\ Size(o) \in Nat
  BY <1>0, HeldEpisode DEF CopyOK
<1>2. run[n] \in Runs /\ run \in [Candles -> Runs] /\ episode \in [Candles -> Episodes \cup {None}]
  BY <1>0, HeldEpisode DEF CountInv, Typed
<1>3. Within(e, Size(o), 0) /\ Within(c, Size(o), 2) /\ (e.status = "OPEN" => e.reason = None)
  BY <1>0, <1>1, NoEpisode DEF CopyOK, EpisodeOK, Slack
<1>4. PICK d : d = [e EXCEPT !.bar = c.bar, !.above = c.above, !.below = c.below,
                             !.aboveTotal = c.aboveTotal, !.belowTotal = c.belowTotal]
  OBVIOUS
<1>5. d \in Episodes /\ Within(d, Size(o), 0) /\ (d.status = "OPEN" => d.reason = None)
  BY <1>1, <1>3, <1>4, CountersStored, ZenonT(30)
<1>6. episode' = [episode EXCEPT ![o] = d]
  BY <1>1, <1>2, <1>4 DEF StoreCounters
<1>7. UNCHANGED <<marked, signals, overlapped, faults>>
  BY DEF StoreCounters
<1>8. CASE Breakout(c) # None /\ run' = [run EXCEPT ![n].pc = "close", ![n].trigger = Breakout(c)]
           /\ UNCHANGED processed
  <2>1. PICK r : r = [run[n] EXCEPT !.pc = "close", !.trigger = Breakout(c)]
    OBVIOUS
  <2>2. Breakout(c) \in Reasons
    BY DEF Breakout, Reasons
  <2>3. r \in Runs /\ r.pc = "close" /\ r.of = o /\ r.copy = c
    BY <1>1, <1>2, <2>1, <2>2 DEF Runs, Stages
  <2>4. run' = [run EXCEPT ![n] = r]
    BY <1>2, <1>8, <2>1
  <2>5. Within(c, Size(o), Slack(r.pc))
    BY <1>1, <1>3, <2>3, WithinMonotone DEF Slack
  <2>6. processed' \subseteq Candles
    BY <1>8 DEF CountInv, Typed
  <2> QED BY <1>0, <1>1, <1>5, <1>6, <1>7, <2>3, <2>4, <2>5, <2>6, WriteCounts
<1> DEFINE g == Gate(c.pool, run[n].low, c.streak, TRUE)
<1>9. CASE run' = [run EXCEPT ![n].pc = "streak", ![n].trigger = g.chosen, ![n].copy.streak = g.streak]
           /\ UNCHANGED processed
  <2>1. PICK v : v = [c EXCEPT !.streak = g.streak]
    OBVIOUS
  <2>2. g.chosen \in Reasons /\ v \in Episodes /\ Within(v, Size(o), 1)
    <3>1. Within(c, Size(o), 1 + 1)
      BY <1>3
    <3>2. PICK stop : stop = TRUE
      OBVIOUS
    <3>3. g.chosen \in TierNames \cup {None} /\ v \in Episodes /\ Within(v, Size(o), 1)
      BY <1>1, <2>1, <3>1, <3>2, GateWithin
    <3> QED BY <3>3 DEF Reasons
  <2> HIDE DEF g
  <2>3. PICK r : r = [run[n] EXCEPT !.pc = "streak", !.trigger = g.chosen, !.copy = v]
    OBVIOUS
  <2>4. r \in Runs /\ r.pc = "streak" /\ r.of = o /\ r.copy = v
    BY <1>1, <1>2, <2>2, <2>3 DEF Runs, Stages
  <2>5. run' = [run EXCEPT ![n] = r]
    <3>1. run' = [run EXCEPT ![n] = [[[run[n] EXCEPT !.pc = "streak"] EXCEPT !.trigger = g.chosen]
                                       EXCEPT !.copy.streak = g.streak]]
      BY <1>2, <1>9
    <3>2. [[[run[n] EXCEPT !.pc = "streak"] EXCEPT !.trigger = g.chosen] EXCEPT !.copy.streak = g.streak] = r
      BY <1>1, <1>2, <2>1, <2>3 DEF Runs
    <3> QED BY <3>1, <3>2
  <2>6. Within(v, Size(o), Slack(r.pc))
    BY <2>2, <2>4 DEF Slack
  <2>7. processed' \subseteq Candles
    BY <1>9 DEF CountInv, Typed
  <2> QED BY <1>0, <1>1, <1>5, <1>6, <1>7, <2>2, <2>4, <2>5, <2>6, <2>7, WriteCounts
<1>10. CASE End(n)
  <2>1. run' = [run EXCEPT ![n] = NoRun] /\ processed' \subseteq Candles
    BY <1>10 DEF End, CountInv, Typed
  <2> QED BY <1>0, <1>1, <1>5, <1>6, <1>7, <2>1, NoRunType, WriteCounts
<1> QED BY <1>1, <1>8, <1>9, <1>10 DEF StoreCounters

LEMMA StoreStreakCounts ==
  ASSUME CountInv, NEW n \in Candles,
         StoreStreak(n) \/ StoreLastStreak(n)
  PROVE  CountInv'
<1>0. run[n].pc \in {"streak", "restreak"} /\ run[n].pc \in Holding
  BY DEF StoreStreak, StoreLastStreak, Holding
<1>1. PICK o \in Candles, e \in Episodes, c \in Episodes :
        /\ o = run[n].of /\ e = episode[o] /\ c = run[n].copy
        /\ CopyOK(n, o) /\ EpisodeOK(o) /\ Size(o) \in Nat
  BY <1>0, HeldEpisode DEF CopyOK
<1>2. run[n] \in Runs /\ run \in [Candles -> Runs] /\ episode \in [Candles -> Episodes \cup {None}]
  BY <1>0, HeldEpisode DEF CountInv, Typed
<1>3. Within(e, Size(o), 0) /\ Within(c, Size(o), 0) /\ (e.status = "OPEN" => e.reason = None)
  <2>1. Within(c, Size(o), Slack(run[n].pc)) /\ Slack(run[n].pc) \in Nat
    BY <1>1 DEF CopyOK, Slack
  <2>2. Within(c, Size(o), 0)
    BY <1>1, <2>1, WithinMonotone
  <2> QED BY <1>1, <2>2, NoEpisode DEF EpisodeOK
<1>4. PICK d : d = [e EXCEPT !.streak = c.streak]
  OBVIOUS
<1>5. /\ d \in Episodes /\ d.status = e.status /\ d.reason = e.reason /\ d.streak = c.streak
      /\ d.bar = e.bar /\ d.above = e.above /\ d.below = e.below
      /\ d.aboveTotal = e.aboveTotal /\ d.belowTotal = e.belowTotal
  <2>1. PICK s \in [TierNames -> Nat] : s = c.streak
    BY DEF Episodes
  <2>2. d = [e EXCEPT !.streak = s]
    BY <1>4, <2>1
  <2> QED BY <2>1, <2>2 DEF Episodes
<1>6. Within(d, Size(o), 0) /\ (d.status = "OPEN" => d.reason = None)
  BY <1>3, <1>5 DEF Within, Sides
<1>7. episode' = [episode EXCEPT ![o] = d] /\ UNCHANGED <<marked, signals, overlapped, faults>>
  BY <1>1, <1>2, <1>4 DEF StoreStreak, StoreLastStreak
<1>8. CASE End(n)
  <2>1. run' = [run EXCEPT ![n] = NoRun] /\ processed' \subseteq Candles
    BY <1>8 DEF End, CountInv, Typed
  <2> QED BY <1>0, <1>1, <1>5, <1>6, <1>7, <2>1, NoRunType, WriteCounts
<1>9. CASE StoreStreak(n) /\ Goto(n, "close") /\ UNCHANGED processed
  <2>1. PICK r : r = [run[n] EXCEPT !.pc = "close"]
    OBVIOUS
  <2>2. r \in Runs /\ r.pc = "close" /\ r.of = o /\ r.copy = c
    BY <1>1, <1>2, <2>1 DEF Runs, Stages
  <2>3. run' = [run EXCEPT ![n] = r]
    BY <1>2, <1>9, <2>1 DEF Goto
  <2>4. run[n].pc = "streak"
    BY <1>9 DEF StoreStreak
  <2>5. Within(c, Size(o), Slack(r.pc))
    BY <1>1, <2>2, <2>4 DEF CopyOK, Slack
  <2>6. processed' \subseteq Candles
    BY <1>9 DEF CountInv, Typed
  <2> QED BY <1>0, <1>1, <1>5, <1>6, <1>7, <2>2, <2>3, <2>5, <2>6, WriteCounts
<1>10. CASE StoreLastStreak(n)
  <2>1. PICK r : r = [run[n] EXCEPT !.pc = "open"]
    OBVIOUS
  <2>2. r \in Runs /\ r.pc = "open" /\ r.trigger = run[n].trigger
    BY <1>2, <2>1 DEF Runs, Stages
  <2>3. run' = [run EXCEPT ![n] = r]
    BY <1>2, <1>10, <2>1 DEF StoreLastStreak, Goto
  <2>4. r.trigger \in TierNames \cup {None}
    BY <1>10, <2>2 DEF StoreLastStreak, CountInv, RunOK
  <2>6. processed' \subseteq Candles
    BY <1>10 DEF StoreLastStreak, CountInv, Typed
  <2> QED BY <1>0, <1>1, <1>5, <1>6, <1>7, <2>2, <2>3, <2>4, <2>6, WriteCounts
<1> QED BY <1>8, <1>9, <1>10 DEF StoreStreak

LEMMA CloseEpisodeCounts ==
  ASSUME CountInv, NEW n \in Candles, CloseEpisode(n)
  PROVE  CountInv'
<1>0. run[n].pc = "close" /\ run[n].pc \in Holding
  BY DEF CloseEpisode, Holding
<1>1. PICK o \in Candles, e \in Episodes, c \in Episodes :
        /\ o = run[n].of /\ e = episode[o] /\ c = run[n].copy
        /\ CopyOK(n, o) /\ EpisodeOK(o) /\ Size(o) \in Nat
  BY <1>0, HeldEpisode DEF CopyOK
<1>2. run[n] \in Runs /\ run \in [Candles -> Runs] /\ episode \in [Candles -> Episodes \cup {None}]
  BY <1>0, HeldEpisode DEF CountInv, Typed
<1>3. Within(e, Size(o), 0) /\ Within(c, Size(o), 0 + 1)
  BY <1>0, <1>1, NoEpisode DEF CopyOK, EpisodeOK, Slack
<1>4. PICK d : d = [e EXCEPT !.status = "CLOSED", !.reason = run[n].trigger]
  OBVIOUS
<1>5. /\ d \in Episodes /\ d.status = "CLOSED" /\ d.streak = e.streak
      /\ d.bar = e.bar /\ d.above = e.above /\ d.below = e.below
      /\ d.aboveTotal = e.aboveTotal /\ d.belowTotal = e.belowTotal
  <2>1. run[n].trigger \in Reasons
    BY <1>2 DEF Runs
  <2> QED BY <1>4, <2>1 DEF Episodes
<1>6. Within(d, Size(o), 0) /\ (d.status = "OPEN" => d.reason = None)
  BY <1>3, <1>5 DEF Within, Sides
<1>7. episode' = [episode EXCEPT ![o] = d] /\ UNCHANGED <<marked, signals, overlapped, faults>>
      /\ processed' \subseteq Candles
  BY <1>1, <1>2, <1>4 DEF CloseEpisode, CountInv, Typed
<1> DEFINE g == Gate(c.pool, run[n].low, c.streak, FALSE)
<1>8. PICK v : v = [c EXCEPT !.streak = g.streak]
  OBVIOUS
<1>9. g.chosen \in TierNames \cup {None} /\ v \in Episodes /\ Within(v, Size(o), 0)
  <2>1. PICK stop : stop = FALSE
    OBVIOUS
  <2> QED BY <1>1, <1>3, <1>8, <2>1, GateWithin
<1>10. run' = [run EXCEPT ![n].pc = "restreak", ![n].trigger = g.chosen, ![n].copy.streak = g.streak]
  BY <1>1 DEF CloseEpisode
<1> HIDE DEF g
<1>11. PICK r : r = [run[n] EXCEPT !.pc = "restreak", !.trigger = g.chosen, !.copy = v]
  OBVIOUS
<1>12. r \in Runs /\ r.pc = "restreak" /\ r.of = o /\ r.copy = v /\ r.trigger \in TierNames \cup {None}
  BY <1>1, <1>2, <1>9, <1>11 DEF Runs, Stages, Reasons
<1>13. run' = [run EXCEPT ![n] = r]
  <2>1. run' = [run EXCEPT ![n] = [[[run[n] EXCEPT !.pc = "restreak"] EXCEPT !.trigger = g.chosen]
                                     EXCEPT !.copy.streak = g.streak]]
    BY <1>2, <1>10
  <2>2. [[[run[n] EXCEPT !.pc = "restreak"] EXCEPT !.trigger = g.chosen] EXCEPT !.copy.streak = g.streak] = r
    BY <1>1, <1>2, <1>8, <1>11 DEF Runs
  <2> QED BY <2>1, <2>2
<1>14. Within(v, Size(o), Slack(r.pc))
  BY <1>9, <1>12 DEF Slack
<1> QED BY <1>0, <1>1, <1>5, <1>6, <1>7, <1>9, <1>12, <1>13, <1>14, WriteCounts

LEMMA NewEpisodeType ==
  ASSUME NEW pool \in Pools, NEW c \in Nat
  PROVE  NewEpisode(pool) \in Episodes /\ Within(NewEpisode(pool), c, 0)
         /\ NewEpisode(pool).reason = None
<1>1. NoStreak \in [TierNames -> Nat]
  BY DEF NoStreak
<1>2. NewEpisode(pool) \in Episodes
  BY <1>1 DEF NewEpisode, Episodes, Reasons
<1>3. Sides(NewEpisode(pool)) /\ NewEpisode(pool).bar <= c
  BY DEF NewEpisode, Sides
<1>4. \A t \in TierNames : NewEpisode(pool).streak[t] + 0 <= 2 * c
  BY DEF NewEpisode, NoStreak
<1> QED BY <1>2, <1>3, <1>4 DEF Within, NewEpisode

LEMMA OpenEpisodeCounts ==
  ASSUME CountInv, NEW n \in Candles, OpenEpisode(n)
  PROVE  CountInv'
<1>0. run[n] \in Runs /\ run \in [Candles -> Runs] /\ episode \in [Candles -> Episodes \cup {None}]
      /\ run[n].pc = "open" /\ n \in marked
  BY DEF OpenEpisode, CountInv, RunOK, Typed
<1>1. PICK pool \in Pools : pool = IF run[n].trigger = None THEN "high_vol" ELSE run[n].trigger
  BY <1>0 DEF CountInv, RunOK, Pools
<1>2. PICK d : d = NewEpisode(pool)
  OBVIOUS
<1>3. PICK r : r = [run[n] EXCEPT !.pc = "signal"]
  OBVIOUS
<1>4. r \in Runs /\ r.pc = "signal"
  BY <1>0, <1>3 DEF Runs, Stages
<1>5. run' = [run EXCEPT ![n] = r]
  BY <1>0, <1>3 DEF OpenEpisode, Goto
<1>6. run'[n] = r /\ \A m \in Candles \ {n} : run'[m] = run[m]
  BY <1>0, <1>5
<1>7. episode' = [episode EXCEPT ![n] = d]
  BY <1>1, <1>2 DEF OpenEpisode
<1>8. episode'[n] = d /\ \A m \in Candles \ {n} : episode'[m] = episode[m]
  BY <1>0, <1>7
<1>9. UNCHANGED <<marked, signals, processed, overlapped, faults>>
  BY DEF OpenEpisode
<1>10. Pending' = Pending /\ Size(n)' = Size(n)
  <2>1. Pending' = Pending
    BY <1>0, <1>4, <1>6 DEF Pending
  <2> QED BY <1>9, <2>1 DEF Size, CountedFor
<1>11. d \in Episodes /\ Within(d, Size(n), 0) /\ d.reason = None
  BY <1>2, SizeType, NewEpisodeType
<1>12. Typed'
  BY <1>4, <1>5, <1>7, <1>9, <1>11 DEF CountInv, Typed
<1>13. EpisodeOK(n)'
  BY <1>0, <1>8, <1>9, <1>10, <1>11 DEF EpisodeOK
<1>14. RunOK(n)'
  BY <1>0, <1>4, <1>6, <1>9 DEF RunOK, Holding
<1>15. \A o \in Candles : episode[o] # None => episode'[o] # None
  BY <1>8, <1>11, NoEpisode
<1>16. \A m \in Candles : m \in Pending' => m \in Pending \/ m \notin marked
  BY <1>10
<1>17. \A o \in Candles : episode'[o] = episode[o] \/ EpisodeOK(o)'
  BY <1>8, <1>13
<1> QED BY <1>6, <1>8, <1>9, <1>12, <1>14, <1>15, <1>16, <1>17, Frame

LEMMA CrashCounts ==
  ASSUME CountInv, Crash
  PROVE  CountInv'
<1>1. Candles # {}
  BY DEF Crash, Active
<1>2. PICK n \in Candles : TRUE
  BY <1>1
<1>3. \A m \in Candles : run'[m] = NoRun /\ run'[m].pc = "off"
  BY DEF Crash, NoRun
<1>4. Typed'
  BY NoRunType, ConstantsAssumption DEF Crash, Fault, CountInv, Typed
<1>5. RunOK(n)'
  BY <1>3 DEF RunOK, Holding
<1>6. \A m \in Candles : m \notin Pending'
  BY <1>3 DEF Pending
<1>7. marked' = marked /\ episode' = episode
  BY DEF Crash
<1> QED BY <1>3, <1>4, <1>5, <1>6, <1>7, Frame

LEMMA CountInvInit == Init => CountInv
<1> SUFFICES ASSUME Init PROVE CountInv
  OBVIOUS
<1>1. Typed
  <2>1. run \in [Candles -> Runs] /\ episode \in [Candles -> Episodes \cup {None}]
    BY NoRunType DEF Init
  <2>2. faults \in 0..MaxFaults
    BY ConstantsAssumption DEF Init
  <2> QED BY <2>1, <2>2 DEF Init, Typed
<1>2. \A n \in Candles : run[n].pc = "off" /\ episode[n] = None
  BY DEF Init, NoRun
<1> QED BY <1>1, <1>2 DEF CountInv, EpisodeOK, RunOK, Holding

LEMMA CountInvStep == CountInv /\ [Next]_vars => CountInv'
<1> SUFFICES ASSUME CountInv, [Next]_vars PROVE CountInv'
  OBVIOUS
<1>0. run \in [Candles -> Runs] /\ \A n \in Candles : run[n] \in Runs
  BY DEF CountInv, Typed
<1>1. ASSUME NEW n \in Candles, AcquireSemaphore(n) PROVE CountInv'
  <2>1. PICK r : r = [run[n] EXCEPT !.pc = "read"]
    OBVIOUS
  <2>2. r \in Runs /\ r.pc = "read"
    BY <1>0, <2>1 DEF Runs, Stages
  <2>3. /\ run' = [run EXCEPT ![n] = r] \/ run' = [run EXCEPT ![n] = NoRun]
        /\ r = [run[n] EXCEPT !.pc = r.pc] /\ run[n].pc = "sem"
    BY <1>0, <1>1, <2>1, <2>2 DEF AcquireSemaphore
  <2>4. UNCHANGED <<marked, episode, overlapped>> /\ signals' \subseteq Candles
        /\ processed' \subseteq Candles /\ faults' \in 0..MaxFaults
    BY <1>1 DEF AcquireSemaphore, CountInv, Typed
  <2>5. CASE run' = [run EXCEPT ![n] = r]
    BY <2>2, <2>3, <2>4, <2>5, MoveCounts
  <2>6. CASE run' = [run EXCEPT ![n] = NoRun]
    BY <2>4, <2>6, NoRunType, MoveCounts
  <2> QED BY <2>3, <2>5, <2>6
<1>2. ASSUME NEW n \in Candles, StoreSignal(n) \/ SkipStrategy(n) \/ EvaluationFault(n)
      PROVE  CountInv'
  <2>1. run' = [run EXCEPT ![n] = NoRun]
    BY <1>2 DEF StoreSignal, SkipStrategy, End, EvaluationFault
  <2>2. UNCHANGED <<marked, episode, overlapped>> /\ signals' \subseteq Candles
        /\ processed' \subseteq Candles
    BY <1>2 DEF StoreSignal, SkipStrategy, End, EvaluationFault, CountInv, Typed
  <2>3. faults' \in 0..MaxFaults
    BY <1>2, ConstantsAssumption DEF StoreSignal, SkipStrategy, EvaluationFault, Fault, CountInv, Typed
  <2> QED BY <2>1, <2>2, <2>3, NoRunType, MoveCounts
<1>3. CASE UNCHANGED vars
  BY <1>3 DEF vars, CountInv, Typed, EpisodeOK, RunOK, CopyOK, Size, CountedFor, Pending
<1> QED BY <1>1, <1>2, <1>3, TriggerCounts, TriggerFaultCounts, ReadEpisodeCounts,
           StoreCountersCounts, StoreStreakCounts, CloseEpisodeCounts, OpenEpisodeCounts,
           CrashCounts DEF Next, Evaluation

LEMMA CountInvAlways == Spec => []CountInv
  BY CountInvInit, CountInvStep, PTL DEF Spec

\* An episode within its counts is of EpisodeType.
LEMMA EpisodeBounded ==
  ASSUME DistinctTiers, NEW e \in Episodes, NEW c \in 0..NumCandles, Within(e, c, 0)
  PROVE  e \in EpisodeType
<1>0. NumCandles \in Nat
  BY ConstantsAssumption
<1>1. /\ e.bar \in Nat /\ e.above \in Nat /\ e.below \in Nat /\ e.aboveTotal \in Nat
      /\ e.belowTotal \in Nat /\ e.streak \in [TierNames -> Nat] /\ e.status \in {"OPEN", "CLOSED"}
      /\ e.pool \in Pools /\ e.reason \in {None, "cross_max", "cross_min"} \cup TierNames
      /\ e = [status |-> e.status, pool |-> e.pool, bar |-> e.bar, above |-> e.above,
              below |-> e.below, aboveTotal |-> e.aboveTotal, belowTotal |-> e.belowTotal,
              streak |-> e.streak, reason |-> e.reason]
  BY DEF Episodes, Reasons
<1>2. /\ e.bar \in 0..NumCandles /\ e.above \in 0..NumCandles /\ e.below \in 0..NumCandles
      /\ e.aboveTotal \in 0..NumCandles /\ e.belowTotal \in 0..NumCandles
  BY <1>0, <1>1 DEF Within, Sides
<1>3. e.streak \in [TierNames -> 0..(2 * NumCandles)]
  <2>1. ASSUME NEW t \in TierNames PROVE e.streak[t] \in 0..(2 * NumCandles)
    <3>1. e.streak[t] \in Nat /\ e.streak[t] + 0 <= 2 * c
      BY <1>1 DEF Within
    <3> QED BY <1>0, <3>1
  <2> QED BY <1>1, <2>1
<1> QED BY <1>1, <1>2, <1>3 DEF EpisodeType

LEMMA CountInvTypes == CountInv /\ DistinctTiers => TypeOK
<1> SUFFICES ASSUME CountInv, DistinctTiers PROVE TypeOK
  OBVIOUS
<1>1. ASSUME NEW n \in Candles PROVE episode[n] \in EpisodeType \cup {None}
  BY SizeType, EpisodeBounded DEF CountInv, Typed, EpisodeOK
<1>2. ASSUME NEW n \in Candles
      PROVE  /\ run[n].pc \in Stages /\ run[n].of \in Candles \cup {None}
             /\ run[n].trigger \in Pools \cup {None, "cross_max", "cross_min"}
  <2>1. run[n] \in Runs
    BY DEF CountInv, Typed
  <2> QED BY <2>1 DEF Runs, Reasons, Pools
<1> QED BY <1>1, <1>2 DEF TypeOK, CountInv, Typed, Stages

\* Every variable keeps the values the code can give it; the counters of a tier
\* stay within two turns for each candle if no two tiers share a name.
THEOREM LpEvaluationTypeCorrect == DistinctTiers => (Spec => []TypeOK)
<1> SUFFICES ASSUME DistinctTiers PROVE Spec => []TypeOK
  OBVIOUS
<1>1. CountInv => TypeOK
  BY CountInvTypes
<1> QED BY <1>1, CountInvAlways, PTL

LEMMA CountInvAdds == CountInv => CountersAddUp
<1> SUFFICES ASSUME CountInv, NEW n \in Opened
             PROVE  /\ Sides(episode[n]) /\ episode[n].bar <= Cardinality(marked \ {n})
  BY DEF CountersAddUp, Sides
<1>1. n \in Candles /\ episode[n] \in Episodes /\ Within(episode[n], Size(n), 0)
  BY DEF Opened, CountInv, Typed, EpisodeOK
<1>2. marked \ {n} \in SUBSET Candles /\ CountedFor(n) \in SUBSET Candles
      /\ CountedFor(n) \subseteq marked \ {n}
  BY DEF CountInv, Typed, CountedFor
<1>3. Size(n) <= Cardinality(marked \ {n}) /\ Size(n) \in Nat /\ Cardinality(marked \ {n}) \in Nat
  BY <1>2, Sizes DEF Size
<1>4. episode[n].bar \in Nat
  BY <1>1 DEF Episodes
<1> QED BY <1>1, <1>3, <1>4 DEF Within

\* The counters of an episode stay consistent, also when the evaluations of
\* several candles overlap and overwrite each other's update_partial.
THEOREM CountersAlwaysAddUp == Spec => []CountersAddUp
  BY CountInvAlways, CountInvAdds, PTL

-----------------------------------------------------------------------------
(***************************************************************************)
(* One evaluation after the other.                                         *)
(***************************************************************************)

\* What the documents show of an episode apart from its counters.
Shown(o) == [opened |-> episode[o] # None, status |-> episode[o].status,
             pool |-> episode[o].pool, reason |-> episode[o].reason]

\* The writes of counters show nothing.
LEMMA CountersShowNothing ==
  ASSUME CountInv, NEW n \in Candles, StoreCounters(n) \/ StoreStreak(n) \/ StoreLastStreak(n)
  PROVE  \A o \in Candles : Shown(o)' = Shown(o)
<1>0. run[n].pc \in Holding
  BY DEF StoreCounters, StoreStreak, StoreLastStreak, Holding
<1>1. PICK o \in Candles, e \in Episodes, c \in Episodes :
        o = run[n].of /\ e = episode[o] /\ c = run[n].copy
  BY <1>0, HeldEpisode DEF CopyOK
<1>2. episode \in [Candles -> Episodes \cup {None}]
  BY DEF CountInv, Typed
<1>3. \E d \in Episodes : /\ episode' = [episode EXCEPT ![o] = d]
                          /\ d.status = e.status /\ d.pool = e.pool /\ d.reason = e.reason
  <2>1. CASE StoreCounters(n)
    <3>1. PICK b \in Nat, a \in Nat, w \in Nat, at \in Nat, bt \in Nat :
             b = c.bar /\ a = c.above /\ w = c.below /\ at = c.aboveTotal /\ bt = c.belowTotal
      BY DEF Episodes
    <3>2. PICK d : d = [e EXCEPT !.bar = b, !.above = a, !.below = w, !.aboveTotal = at, !.belowTotal = bt]
      OBVIOUS
    <3>3. episode' = [episode EXCEPT ![o] = d]
      BY <1>1, <1>2, <2>1, <3>1, <3>2 DEF StoreCounters
    <3>4. d \in Episodes
      BY <3>2 DEF Episodes
    <3>5. d.status = e.status /\ d.pool = e.pool /\ d.reason = e.reason
      BY <3>2 DEF Episodes
    <3> QED BY <3>3, <3>4, <3>5
  <2>2. CASE StoreStreak(n) \/ StoreLastStreak(n)
    <3>1. PICK s \in [TierNames -> Nat] : s = c.streak
      BY DEF Episodes
    <3>2. PICK d : d = [e EXCEPT !.streak = s]
      OBVIOUS
    <3>3. episode' = [episode EXCEPT ![o] = d]
      BY <1>1, <1>2, <2>2, <3>1, <3>2 DEF StoreStreak, StoreLastStreak
    <3>4. d \in Episodes /\ d.status = e.status /\ d.pool = e.pool /\ d.reason = e.reason
      BY <3>2 DEF Episodes
    <3> QED BY <3>3, <3>4
  <2> QED BY <2>1, <2>2
<1>4. PICK d \in Episodes : /\ episode' = [episode EXCEPT ![o] = d]
                            /\ d.status = e.status /\ d.pool = e.pool /\ d.reason = e.reason
  BY <1>3
<1>5. episode'[o] = d /\ \A m \in Candles \ {o} : episode'[m] = episode[m]
  BY <1>2, <1>4
<1>6. episode'[o] # None /\ episode[o] # None
  BY <1>1, <1>5, NoEpisode
<1>7. Shown(o)' = Shown(o)
  BY <1>1, <1>4, <1>5, <1>6 DEF Shown
<1>8. \A m \in Candles \ {o} : Shown(m)' = Shown(m)
  BY <1>5 DEF Shown
<1> QED BY <1>7, <1>8

LEMMA ShownSame ==
  ASSUME \A o \in Candles : Shown(o)' = Shown(o)
  PROVE  /\ Opened' = Opened /\ OpenEpisodes' = OpenEpisodes
         /\ \A o \in Candles : /\ episode'[o].reason = episode[o].reason
                               /\ episode'[o].pool = episode[o].pool
<1>1. \A o \in Candles : /\ Shown(o).opened = (episode[o] # None) /\ Shown(o)'.opened = (episode'[o] # None)
                         /\ Shown(o).status = episode[o].status /\ Shown(o)'.status = episode'[o].status
                         /\ Shown(o).pool = episode[o].pool /\ Shown(o)'.pool = episode'[o].pool
                         /\ Shown(o).reason = episode[o].reason /\ Shown(o)'.reason = episode'[o].reason
  BY DEF Shown
<1>2. \A o \in Candles : /\ (episode'[o] # None) = (episode[o] # None)
                         /\ episode'[o].status = episode[o].status
                         /\ episode'[o].pool = episode[o].pool
                         /\ episode'[o].reason = episode[o].reason
  BY <1>1
<1>3. \A o \in Candles : (episode'[o] # None) <=> (episode[o] # None)
  BY <1>2
<1>4. Opened' = Opened
  BY <1>3 DEF Opened
<1>5. OpenEpisodes' = OpenEpisodes
  BY <1>2, <1>4 DEF OpenEpisodes, Opened
<1> QED BY <1>2, <1>4, <1>5

\* Closing an episode shows its status and the reason.
LEMMA CloseShows ==
  ASSUME CountInv, NEW n \in Candles, CloseEpisode(n)
  PROVE  LET o == run[n].of
         IN  /\ o \in Opened /\ Opened' = Opened /\ OpenEpisodes' = OpenEpisodes \ {o}
             /\ episode'[o].reason = run[n].trigger /\ episode'[o].pool = episode[o].pool
             /\ \A m \in Candles \ {o} : episode'[m] = episode[m]
<1>0. run[n].pc \in Holding
  BY DEF CloseEpisode, Holding
<1>1. PICK o \in Candles, e \in Episodes : o = run[n].of /\ e = episode[o]
  BY <1>0, HeldEpisode
<1>2. episode \in [Candles -> Episodes \cup {None}] /\ run[n].trigger \in Reasons
  BY DEF CountInv, Typed, Runs
<1>3. PICK d : d = [e EXCEPT !.status = "CLOSED", !.reason = run[n].trigger]
  OBVIOUS
<1>4. d \in Episodes /\ d.status = "CLOSED" /\ d.reason = run[n].trigger /\ d.pool = e.pool
  BY <1>2, <1>3 DEF Episodes
<1>5. episode' = [episode EXCEPT ![o] = d]
  BY <1>1, <1>2, <1>3 DEF CloseEpisode
<1>6. episode'[o] = d /\ \A m \in Candles \ {o} : episode'[m] = episode[m]
  BY <1>2, <1>5
<1>7. d # None /\ episode[o] # None
  BY <1>1, <1>4, NoEpisode
<1>8. Opened' = Opened /\ o \in Opened
  BY <1>6, <1>7 DEF Opened
<1>9. OpenEpisodes' = OpenEpisodes \ {o}
  BY <1>4, <1>6, <1>8 DEF OpenEpisodes, Opened
<1> QED BY <1>1, <1>4, <1>6, <1>8, <1>9

\* Opening an episode adds one.
LEMMA OpenShows ==
  ASSUME CountInv, NEW n \in Candles, OpenEpisode(n)
  PROVE  /\ n \in marked /\ n \notin Opened
         /\ Opened' = Opened \cup {n} /\ OpenEpisodes' = OpenEpisodes \cup {n}
         /\ episode'[n].pool = IF run[n].trigger = None THEN "high_vol" ELSE run[n].trigger
         /\ episode'[n].reason = None
         /\ \A m \in Candles \ {n} : episode'[m] = episode[m]
<1>1. /\ episode \in [Candles -> Episodes \cup {None}] /\ run[n].pc = "open" /\ n \in marked
      /\ episode[n] = None
  BY DEF OpenEpisode, CountInv, RunOK, Typed
<1>2. PICK pool \in Pools : pool = IF run[n].trigger = None THEN "high_vol" ELSE run[n].trigger
  BY <1>1 DEF CountInv, RunOK, Pools
<1>3. PICK d : d = NewEpisode(pool)
  OBVIOUS
<1>4. d \in Episodes /\ d.pool = pool /\ d.reason = None /\ d.status = "OPEN"
  <2>1. d \in Episodes
    BY <1>3, NewEpisodeType
  <2>2. d.pool = pool /\ d.reason = None /\ d.status = "OPEN"
    BY <1>3 DEF NewEpisode
  <2> QED BY <2>1, <2>2
<1>5. episode' = [episode EXCEPT ![n] = d]
  BY <1>2, <1>3 DEF OpenEpisode
<1>6. episode'[n] = d /\ \A m \in Candles \ {n} : episode'[m] = episode[m]
  BY <1>1, <1>5
<1>7. Opened' = Opened \cup {n} /\ n \notin Opened
  BY <1>1, <1>4, <1>6, NoEpisode DEF Opened
<1>8. OpenEpisodes' = OpenEpisodes \cup {n}
  BY <1>4, <1>6, <1>7 DEF OpenEpisodes, Opened
<1> QED BY <1>1, <1>2, <1>4, <1>6, <1>7, <1>8

\* Where an evaluation goes.
LEMMA Moves ==
  ASSUME CountInv, NEW n \in Candles, Evaluation(n)
  PROVE  /\ n \in Active /\ \A m \in Candles \ {n} : run'[m] = run[m]
         /\ marked' = marked /\ overlapped' = overlapped /\ faults' = faults
         /\ \/ run'[n] = NoRun
            \/ AcquireSemaphore(n) /\ run'[n].pc = "read"
            \/ ReadEpisode(n) /\ OpenEpisodes = {} /\ run'[n].pc = "open"
            \/ ReadEpisode(n) /\ run'[n].pc = "count" /\ run'[n].of \in OpenEpisodes
            \/ /\ run'[n].of = run[n].of
               /\ \/ StoreCounters(n) /\ run'[n].pc \in {"streak", "close"}
                  \/ StoreStreak(n) /\ run'[n].pc = "close"
                  \/ CloseEpisode(n) /\ run'[n].pc = "restreak"
                  \/ StoreLastStreak(n) /\ run'[n].pc = "open"
                  \/ OpenEpisode(n) /\ run'[n].pc = "signal"
<1>0. run \in [Candles -> Runs] /\ run[n] \in Runs
  BY DEF CountInv, Typed
<1>1. ASSUME NEW pc, Goto(n, pc)
      PROVE  /\ run'[n].pc = pc /\ run'[n].of = run[n].of
             /\ \A m \in Candles \ {n} : run'[m] = run[m]
  BY <1>0, <1>1 DEF Goto, Runs
<1>2. ASSUME End(n)
      PROVE  run'[n] = NoRun /\ \A m \in Candles \ {n} : run'[m] = run[m]
  BY <1>0, <1>2 DEF End
<1>3. ASSUME NEW pc, NEW trigger, run' = [run EXCEPT ![n].pc = pc, ![n].trigger = trigger]
      PROVE  /\ run'[n].pc = pc /\ run'[n].of = run[n].of
             /\ \A m \in Candles \ {n} : run'[m] = run[m]
  BY <1>0, <1>3 DEF Runs
<1>4. ASSUME NEW pc, NEW trigger, NEW s, run[n].copy \in Episodes,
             run' = [run EXCEPT ![n].pc = pc, ![n].trigger = trigger, ![n].copy.streak = s]
      PROVE  /\ run'[n].pc = pc /\ run'[n].of = run[n].of
             /\ \A m \in Candles \ {n} : run'[m] = run[m]
  <2>1. PICK v : v = [run[n].copy EXCEPT !.streak = s]
    OBVIOUS
  <2>2. run' = [run EXCEPT ![n] = [[[run[n] EXCEPT !.pc = pc] EXCEPT !.trigger = trigger]
                                     EXCEPT !.copy.streak = s]]
    BY <1>0, <1>4
  <2>3. PICK r : r = [run[n] EXCEPT !.pc = pc, !.trigger = trigger, !.copy = v]
    OBVIOUS
  <2>4. [[[run[n] EXCEPT !.pc = pc] EXCEPT !.trigger = trigger] EXCEPT !.copy.streak = s] = r
    BY <1>0, <2>1, <2>3 DEF Runs
  <2>5. run' = [run EXCEPT ![n] = r] /\ r.pc = pc /\ r.of = run[n].of
    BY <1>0, <2>2, <2>3, <2>4 DEF Runs
  <2> QED BY <1>0, <2>5
<1>5. CASE AcquireSemaphore(n)
  <2>1. /\ run'[n].pc = "read" \/ run'[n] = NoRun
        /\ (\A m \in Candles \ {n} : run'[m] = run[m]) /\ run[n].pc = "sem"
    BY <1>0, <1>5 DEF AcquireSemaphore, Runs
  <2> QED BY <1>5, <2>1 DEF AcquireSemaphore, Active
<1>6. CASE ReadEpisode(n)
  <2>1. CASE OpenEpisodes = {} /\ Goto(n, "open")
    <3>1. run'[n].pc = "open" /\ \A m \in Candles \ {n} : run'[m] = run[m]
      BY <1>1, <2>1
    <3> QED BY <1>6, <2>1, <3>1 DEF ReadEpisode, Active
  <2>2. ASSUME NEW o \in OpenEpisodes, NEW c,
               run' = [run EXCEPT ![n].of = o, ![n].copy = c, ![n].pc = "count"]
        PROVE  run'[n].pc = "count" /\ run'[n].of = o /\ \A m \in Candles \ {n} : run'[m] = run[m]
    BY <1>0, <2>2 DEF Runs
  <2> QED BY <1>6, <2>1, <2>2 DEF ReadEpisode, Active
<1>7. CASE StoreCounters(n)
  <2>1. run[n].pc = "count" /\ run[n].copy \in Episodes
    BY <1>7, HeldEpisode DEF StoreCounters, Holding, CopyOK
  <2>2. /\ run'[n] = NoRun \/ (run'[n].of = run[n].of /\ run'[n].pc \in {"streak", "close"})
        /\ \A m \in Candles \ {n} : run'[m] = run[m]
    <3> DEFINE b == Breakout(run[n].copy)
               g == Gate(run[n].copy.pool, run[n].low, run[n].copy.streak, TRUE)
    <3>1. \/ run' = [run EXCEPT ![n].pc = "close", ![n].trigger = b]
          \/ run' = [run EXCEPT ![n].pc = "streak", ![n].trigger = g.chosen,
                                ![n].copy.streak = g.streak]
          \/ End(n)
      BY <1>7 DEF StoreCounters
    <3> HIDE DEF b, g
    <3>2. CASE run' = [run EXCEPT ![n].pc = "close", ![n].trigger = b]
      BY <1>3, <3>2
    <3>3. CASE run' = [run EXCEPT ![n].pc = "streak", ![n].trigger = g.chosen,
                                  ![n].copy.streak = g.streak]
      BY <1>4, <2>1, <3>3
    <3> QED BY <1>2, <3>1, <3>2, <3>3
  <2> QED BY <1>7, <2>1, <2>2 DEF StoreCounters, Active
<1>8. CASE StoreStreak(n)
  BY <1>1, <1>2, <1>8 DEF StoreStreak, Active
<1>9. CASE CloseEpisode(n)
  <2>1. run[n].pc = "close" /\ run[n].copy \in Episodes
    BY <1>9, HeldEpisode DEF CloseEpisode, Holding, CopyOK
  <2>2. /\ run'[n].of = run[n].of /\ run'[n].pc = "restreak"
        /\ \A m \in Candles \ {n} : run'[m] = run[m]
    BY <1>4, <1>9, <2>1 DEF CloseEpisode
  <2> QED BY <1>9, <2>1, <2>2 DEF CloseEpisode, Active
<1>10. CASE StoreLastStreak(n)
  BY <1>1, <1>10 DEF StoreLastStreak, Active
<1>11. CASE OpenEpisode(n)
  BY <1>1, <1>11 DEF OpenEpisode, Active
<1>12. CASE StoreSignal(n)
  BY <1>2, <1>12 DEF StoreSignal, Active
<1>13. CASE SkipStrategy(n)
  BY <1>0, <1>13 DEF SkipStrategy, Active
<1> QED BY <1>5, <1>6, <1>7, <1>8, <1>9, <1>10, <1>11, <1>12, <1>13 DEF Evaluation

Solo(n) ==
    /\ run[n].pc \in {"count", "streak", "close"} => run[n].of \in OpenEpisodes
    /\ run[n].pc \in {"restreak", "open"} => OpenEpisodes = {}
    /\ run[n].pc = "signal" => n \in OpenEpisodes

\* As long as evaluations do not overlap there is at most one open episode, and
\* the evaluation under way holds it until it has closed it.
SoloInv ==
    ~overlapped =>
        /\ \A m, n \in Active : m = n
        /\ \A a, b \in OpenEpisodes : a = b
        /\ \A n \in Active : Solo(n)

\* The task is over before it has read an episode.
ReturnsEarly(n) == run[n].pc \in {"sem", "read"} /\ UNCHANGED <<episode, signals, processed>>

\* An evaluation leaves an open episode behind when it comes to its end.
LEMMA EndsOpen ==
  ASSUME CountInv, SoloInv, ~overlapped, NEW n \in Candles, Evaluation(n), run'[n] = NoRun
  PROVE  /\ OpenEpisodes' = OpenEpisodes /\ Opened' = Opened
         /\ OpenEpisodes # {} \/ ReturnsEarly(n)
<1>1. n \in Active /\ run'[n].pc = "off"
  BY Moves DEF NoRun
<1>2. CASE StoreCounters(n) \/ StoreStreak(n)
  <2>1. run[n].of \in OpenEpisodes
    BY <1>1, <1>2 DEF SoloInv, Solo, StoreCounters, StoreStreak
  <2> QED BY <1>2, <2>1, CountersShowNothing, ShownSame
<1>3. CASE StoreSignal(n)
  <2>1. n \in OpenEpisodes /\ episode' = episode
    BY <1>1, <1>3 DEF SoloInv, Solo, StoreSignal
  <2> QED BY <2>1 DEF OpenEpisodes, Opened
<1>4. run \in [Candles -> Runs] /\ run[n] \in Runs
  BY DEF CountInv, Typed
<1>5. ASSUME NEW pc, Goto(n, pc) PROVE run'[n].pc = pc
  BY <1>4, <1>5 DEF Goto, Runs
<1>6. ~OpenEpisode(n) /\ ~StoreLastStreak(n)
  BY <1>1, <1>5 DEF OpenEpisode, StoreLastStreak
<1>9. CASE AcquireSemaphore(n) \/ SkipStrategy(n)
  <2>1. ReturnsEarly(n)
    BY <1>9 DEF AcquireSemaphore, SkipStrategy, ReturnsEarly
  <2> QED BY <2>1 DEF ReturnsEarly, OpenEpisodes, Opened
<1>7. ~ReadEpisode(n)
  <2>1. ASSUME NEW o, NEW c, run' = [run EXCEPT ![n].of = o, ![n].copy = c, ![n].pc = "count"]
        PROVE  run'[n].pc = "count"
    BY <1>4, <2>1 DEF Runs
  <2> QED BY <1>1, <1>5, <2>1 DEF ReadEpisode
<1>8. ~CloseEpisode(n)
  <2> SUFFICES ASSUME CloseEpisode(n) PROVE FALSE
    OBVIOUS
  <2>1. run[n].pc = "close"
    BY DEF CloseEpisode
  <2>2. \/ run'[n] = NoRun /\ FALSE
        \/ run'[n].pc = "restreak"
    <3>1. PICK t, s : run' = [run EXCEPT ![n].pc = "restreak", ![n].trigger = t, ![n].copy.streak = s]
      BY DEF CloseEpisode
    <3>2. run' = [run EXCEPT ![n] = [[[run[n] EXCEPT !.pc = "restreak"] EXCEPT !.trigger = t]
                                       EXCEPT !.copy.streak = s]]
      BY <1>4, <3>1
    <3> QED BY <1>4, <3>2 DEF Runs
  <2> QED BY <1>1, <2>2
<1> QED BY <1>2, <1>3, <1>6, <1>7, <1>8, <1>9 DEF Evaluation

LEMMA SoloEvaluation ==
  ASSUME CountInv, SoloInv, NEW n \in Candles, Evaluation(n)
  PROVE  SoloInv'
<1> SUFFICES ASSUME ~overlapped
             PROVE  /\ \A m, k \in Active' : m = k
                    /\ \A a, b \in OpenEpisodes' : a = b
                    /\ \A m \in Active' : Solo(m)'
  BY Moves DEF SoloInv
<1>1. Active = {n} /\ Active' \subseteq {n} /\ Solo(n) /\ \A a, b \in OpenEpisodes : a = b
  BY Moves DEF SoloInv, Active
<1>2. CASE run'[n] = NoRun
  <2>1. OpenEpisodes' = OpenEpisodes
    BY <1>2, EndsOpen
  <2>2. run'[n].pc = "off"
    BY <1>2 DEF NoRun
  <2>3. n \notin Active'
    BY <2>2 DEF Active
  <2> QED BY <1>1, <2>1, <2>3
<1>3. CASE AcquireSemaphore(n) /\ run'[n].pc = "read"
  <2>1. OpenEpisodes' = OpenEpisodes
    BY <1>3 DEF AcquireSemaphore, OpenEpisodes, Opened
  <2> QED BY <1>1, <1>3, <2>1 DEF Solo
<1>4. CASE ReadEpisode(n) /\ OpenEpisodes = {} /\ run'[n].pc = "open"
  <2>1. OpenEpisodes' = OpenEpisodes
    BY <1>4 DEF ReadEpisode, OpenEpisodes, Opened
  <2> QED BY <1>1, <1>4, <2>1 DEF Solo
<1>5. CASE ReadEpisode(n) /\ run'[n].pc = "count" /\ run'[n].of \in OpenEpisodes
  <2>1. OpenEpisodes' = OpenEpisodes
    BY <1>5 DEF ReadEpisode, OpenEpisodes, Opened
  <2> QED BY <1>1, <1>5, <2>1 DEF Solo
<1>6. CASE \/ StoreCounters(n) /\ run'[n].pc \in {"streak", "close"}
           \/ StoreStreak(n) /\ run'[n].pc = "close"
  <2>1. CASE run'[n].of = run[n].of
    <3>1. OpenEpisodes' = OpenEpisodes
      BY <1>6, CountersShowNothing, ShownSame
    <3>2. run[n].of \in OpenEpisodes
      BY <1>1, <1>6 DEF Solo, StoreCounters, StoreStreak
    <3> QED BY <1>1, <1>6, <2>1, <3>1, <3>2 DEF Solo
  <2> QED BY <1>2, <1>3, <1>4, <1>5, <1>6, <2>1, Moves DEF StoreCounters, StoreStreak
<1>7. CASE CloseEpisode(n) /\ run'[n].pc = "restreak"
  <2>0. run[n].of \in OpenEpisodes
    BY <1>1, <1>7 DEF Solo, CloseEpisode
  <2>2. OpenEpisodes' = OpenEpisodes \ {run[n].of}
    BY <1>7, CloseShows
  <2>1. OpenEpisodes' = {}
    BY <1>1, <2>0, <2>2
  <2> QED BY <1>1, <1>7, <2>1 DEF Solo
<1>8. CASE StoreLastStreak(n) /\ run'[n].pc = "open"
  <2>1. OpenEpisodes' = OpenEpisodes /\ OpenEpisodes = {}
    BY <1>1, <1>8, CountersShowNothing, ShownSame DEF Solo, StoreLastStreak
  <2> QED BY <1>1, <1>8, <2>1 DEF Solo
<1>9. CASE OpenEpisode(n) /\ run'[n].pc = "signal"
  <2>1. OpenEpisodes' = {n}
    BY <1>1, <1>9, OpenShows DEF Solo, OpenEpisode
  <2> QED BY <1>1, <1>9, <2>1 DEF Solo
<1> QED BY <1>2, <1>3, <1>4, <1>5, <1>6, <1>7, <1>8, <1>9, Moves

LEMMA SoloInvStep == CountInv /\ SoloInv /\ [Next]_vars => SoloInv'
<1> SUFFICES ASSUME CountInv, SoloInv, [Next]_vars PROVE SoloInv'
  OBVIOUS
<1>0. run \in [Candles -> Runs]
  BY DEF CountInv, Typed
<1>1. ASSUME NEW n \in Candles, Trigger(n) PROVE SoloInv'
  <2> SUFFICES ASSUME ~overlapped'
               PROVE  /\ \A m, k \in Active' : m = k
                      /\ \A a, b \in OpenEpisodes' : a = b
                      /\ \A m \in Active' : Solo(m)'
    BY DEF SoloInv
  <2>1. ~overlapped /\ Active = {}
    BY <1>1 DEF Trigger
  <2>2. PICK q \in Requests :
           run' = [run EXCEPT ![n] = [NoRun EXCEPT !.pc = "sem", !.place = q.place, !.low = q.low]]
    BY <1>1 DEF Trigger
  <2>3. run'[n].pc = "sem" /\ \A m \in Candles \ {n} : run'[m] = run[m]
    BY <1>0, <2>2 DEF NoRun
  <2>4. Active' \subseteq {n}
    BY <2>1, <2>3 DEF Active
  <2>5. OpenEpisodes' = OpenEpisodes
    BY <1>1 DEF Trigger, OpenEpisodes, Opened
  <2>6. Solo(n)'
    BY <2>3 DEF Solo
  <2> QED BY <2>1, <2>4, <2>5, <2>6 DEF SoloInv
<1>2. ASSUME NEW n \in Candles, TriggerFault(n) PROVE SoloInv'
  BY <1>2 DEF TriggerFault, SoloInv, Active, OpenEpisodes, Opened, Solo
<1>3. ASSUME NEW n \in Candles, EvaluationFault(n) PROVE SoloInv'
  <2>1. /\ run'[n].pc = "off" /\ \A m \in Candles \ {n} : run'[m] = run[m]
        /\ episode' = episode /\ overlapped' = overlapped
    BY <1>0, <1>3 DEF EvaluationFault, NoRun
  <2>2. Active' \subseteq Active /\ n \notin Active' /\ OpenEpisodes' = OpenEpisodes
    BY <2>1 DEF Active, OpenEpisodes, Opened
  <2>3. \A m \in Active' : Solo(m) => Solo(m)'
    BY <2>1, <2>2 DEF Solo, Active
  <2> QED BY <2>1, <2>2, <2>3 DEF SoloInv
<1>4. CASE Crash
  <2>1. /\ \A m \in Candles : run'[m].pc = "off"
        /\ episode' = episode /\ overlapped' = overlapped
    BY <1>4 DEF Crash, NoRun
  <2>2. Active' = {} /\ OpenEpisodes' = OpenEpisodes
    BY <2>1 DEF Active, OpenEpisodes, Opened
  <2> QED BY <2>1, <2>2 DEF SoloInv
<1>5. CASE UNCHANGED vars
  BY <1>5 DEF vars, SoloInv, Active, OpenEpisodes, Opened, Solo
<1> QED BY <1>1, <1>2, <1>3, <1>4, <1>5, SoloEvaluation DEF Next

LEMMA SoloInvInit == Init => SoloInv
  BY DEF Init, SoloInv, Active, OpenEpisodes, Opened, NoRun

LEMMA SoloInvAlways == Spec => [](CountInv /\ SoloInv)
<1>1. Init => CountInv /\ SoloInv
  BY CountInvInit, SoloInvInit
<1>2. CountInv /\ SoloInv /\ [Next]_vars => (CountInv /\ SoloInv)'
  BY CountInvStep, SoloInvStep
<1> QED BY <1>1, <1>2, PTL DEF Spec

\* As long as the evaluations of a strategy do not overlap, the candles leave
\* it at most one open episode, whatever fails on the way: the close, the
\* writes after it and the insertion are calls of their own.
THEOREM AtMostOneOpenEpisode == Spec => []OneOpenEpisode
<1>1. SoloInv => OneOpenEpisode
  <2> SUFFICES ASSUME SoloInv, ~overlapped PROVE Cardinality(OpenEpisodes) <= 1
    BY DEF OneOpenEpisode
  <2>1. CASE OpenEpisodes = {}
    BY <2>1, FS_EmptySet
  <2>2. CASE OpenEpisodes # {}
    <3>1. PICK o : OpenEpisodes = {o}
      BY <2>2 DEF SoloInv
    <3>2. Cardinality({o}) = 1
      BY FS_Singleton
    <3> QED BY <3>1, <3>2
  <2> QED BY <2>1, <2>2
<1> QED BY <1>1, SoloInvAlways, PTL

\* An evaluation that comes to its end leaves the strategy an open episode,
\* also when an earlier one had left it without.
THEOREM FailuresAreReopened == Spec => ReopensAfterFailure
<1>1. CountInv /\ SoloInv /\ [Next]_vars => [processed' # processed /\ ~overlapped => OpenEpisodes' # {}]_vars
  <2> SUFFICES ASSUME CountInv, SoloInv, Next, processed' # processed, ~overlapped
               PROVE  OpenEpisodes' # {}
    BY DEF vars
  <2>1. PICK n \in Candles : Evaluation(n)
    BY DEF Next, Trigger, TriggerFault, EvaluationFault, Crash
  <2>2. End(n)
    BY <2>1 DEF Evaluation, AcquireSemaphore, SkipStrategy, ReadEpisode, StoreCounters,
                StoreStreak, CloseEpisode, StoreLastStreak, OpenEpisode, StoreSignal
  <2>3. run'[n] = NoRun
    BY <2>2 DEF End, CountInv, Typed
  <2> QED BY <2>1, <2>3, EndsOpen DEF ReturnsEarly
<1> QED BY <1>1, SoloInvAlways, PTL DEF Spec, ReopensAfterFailure

-----------------------------------------------------------------------------
(***************************************************************************)
(* Undisturbed evaluations.                                                *)
(***************************************************************************)

Told(o) == o \in signals \/ run[o].pc = "signal"

\* The evaluation under way is that of the last candle marked, every episode
\* has its signal or gets it next, and between two evaluations there is an open
\* episode if there ever was one, as there was for every evaluation that ended.
QuietInv ==
    Undisturbed =>
        /\ signals \subseteq Opened
        /\ \A o \in Opened : Told(o)
        /\ \A n \in Active, m \in marked : m <= n
        /\ processed # {} => Opened # {}
        /\ Opened # {} /\ Active = {} => OpenEpisodes # {}
        /\ \A n \in Active : run[n].pc \in {"sem", "read"} /\ Opened # {} => OpenEpisodes # {}

\* Only the last step of an evaluation stores its signal.
LEMMA SignalsMove ==
  ASSUME CountInv, NEW n \in Candles, Evaluation(n)
  PROVE  \/ signals' = signals /\ run[n].pc # "signal"
         \/ signals' = signals \cup {n} /\ run'[n] = NoRun /\ run[n].pc = "signal"
<1>1. CASE StoreSignal(n)
  <2>1. run \in [Candles -> Runs]
    BY DEF CountInv, Typed
  <2> QED BY <1>1, <2>1 DEF StoreSignal, End
<1>2. CASE ~StoreSignal(n)
  BY <1>2 DEF Evaluation, AcquireSemaphore, SkipStrategy, ReadEpisode, StoreCounters,
              StoreStreak, CloseEpisode, StoreLastStreak, OpenEpisode
<1> QED BY <1>1, <1>2

\* An evaluation that does not come to its end is not processed, and no
\* episode disappears.
LEMMA ProcessedMove ==
  ASSUME CountInv, NEW n \in Candles, Evaluation(n)
  PROVE  /\ run'[n] = NoRun \/ processed' = processed
         /\ Opened \subseteq Opened'
<1>1. run \in [Candles -> Runs] /\ episode \in [Candles -> Episodes \cup {None}]
  BY DEF CountInv, Typed
<1>2. End(n) => run'[n] = NoRun
  BY <1>1 DEF End
<1>3. End(n) \/ processed' = processed
  BY DEF Evaluation, AcquireSemaphore, SkipStrategy, ReadEpisode, StoreCounters,
         StoreStreak, CloseEpisode, StoreLastStreak, OpenEpisode, StoreSignal
<1>4. CASE episode' = episode
  BY <1>2, <1>3, <1>4 DEF Opened
<1>5. CASE StoreCounters(n) \/ StoreStreak(n) \/ StoreLastStreak(n)
  BY <1>2, <1>3, <1>5, CountersShowNothing, ShownSame
<1>6. CASE CloseEpisode(n)
  BY <1>2, <1>3, <1>6, CloseShows
<1>7. CASE OpenEpisode(n)
  BY <1>2, <1>3, <1>7, OpenShows
<1> QED BY <1>4, <1>5, <1>6, <1>7 DEF Evaluation, AcquireSemaphore, SkipStrategy, ReadEpisode, StoreSignal

LEMMA QuietEvaluation ==
  ASSUME CountInv, SoloInv, QuietInv, NEW n \in Candles, Evaluation(n)
  PROVE  QuietInv'
<1> SUFFICES ASSUME faults = 0, ~overlapped
             PROVE  /\ signals' \subseteq Opened'
                    /\ \A o \in Opened' : Told(o)'
                    /\ \A k \in Active', m \in marked' : m <= k
                    /\ processed' # {} => Opened' # {}
                    /\ Opened' # {} /\ Active' = {} => OpenEpisodes' # {}
                    /\ \A k \in Active' : run'[k].pc \in {"sem", "read"} /\ Opened' # {} => OpenEpisodes' # {}
  BY Moves DEF QuietInv, Undisturbed
<1>1. Active = {n} /\ Active' \subseteq {n} /\ Solo(n) /\ marked' = marked
  BY Moves DEF SoloInv, Active
<1>2. /\ signals \subseteq Opened
      /\ \A o \in Opened : Told(o)
      /\ \A m \in marked : m <= n
      /\ run[n].pc \in {"sem", "read"} /\ Opened # {} => OpenEpisodes # {}
      /\ processed # {} => Opened # {}
  BY <1>1 DEF QuietInv, Undisturbed
<1>3. \A k \in Active', m \in marked' : m <= k
  BY <1>1, <1>2
<1>4. \A o \in Opened : o # n => o \in signals
  BY <1>1, <1>2 DEF Told, Active, Opened
<1>5. CASE run'[n] = NoRun
  <2>1. /\ Opened' = Opened
        /\ Opened # {} => OpenEpisodes' # {}
        /\ processed' # {} => Opened' # {}
    BY <1>2, <1>5, EndsOpen DEF ReturnsEarly, OpenEpisodes
  <2>2. Active' = {}
    <3>1. run'[n].pc = "off"
      BY <1>5 DEF NoRun
    <3> QED BY <1>1, <3>1 DEF Active
  <2>3. CASE signals' = signals /\ run[n].pc # "signal"
    <3>1. \A o \in Opened : o \in signals
      BY <1>2, <1>4, <2>3 DEF Told
    <3> QED BY <1>2, <2>1, <2>2, <2>3, <3>1 DEF Told
  <2>4. CASE signals' = signals \cup {n} /\ run[n].pc = "signal"
    <3>1. signals' \subseteq Opened
      BY <1>1, <1>2, <2>4 DEF Solo, OpenEpisodes
    <3>2. \A o \in Opened : o \in signals'
      BY <1>4, <2>4
    <3> QED BY <2>1, <2>2, <3>1, <3>2 DEF Told
  <2> QED BY <2>3, <2>4, SignalsMove
<1>6. CASE run'[n] # NoRun
  <2>1. signals' = signals /\ run[n].pc # "signal"
    BY <1>6, SignalsMove
  <2>2. \A o \in Opened : o \in signals
    BY <1>2, <1>4, <2>1 DEF Told
  <2>3. n \in Active'
    <3>1. run'[n].pc # "off"
      BY <1>6, Moves
    <3> QED BY <3>1 DEF Active
  <2>p. processed' # {} => Opened' # {}
    BY <1>2, <1>6, ProcessedMove
  <2>4. CASE AcquireSemaphore(n) \/ ReadEpisode(n)
    <3>1. episode' = episode /\ run[n].pc \in {"sem", "read"}
      BY <2>4 DEF AcquireSemaphore, ReadEpisode
    <3>2. Opened' = Opened /\ OpenEpisodes' = OpenEpisodes
      BY <3>1 DEF Opened, OpenEpisodes
    <3> QED BY <1>1, <1>2, <1>3, <2>1, <2>2, <2>3, <2>p, <3>1, <3>2 DEF Told
  <2>5. ASSUME run'[n].pc \notin {"sem", "read"}, Opened' = Opened
        PROVE  /\ signals' \subseteq Opened'
               /\ \A o \in Opened' : Told(o)'
               /\ processed' # {} => Opened' # {}
               /\ Opened' # {} /\ Active' = {} => OpenEpisodes' # {}
               /\ \A k \in Active' : run'[k].pc \in {"sem", "read"} /\ Opened' # {} => OpenEpisodes' # {}
    BY <1>1, <1>2, <2>1, <2>2, <2>3, <2>5, <2>p DEF Told
  <2>6. CASE \/ StoreCounters(n) /\ run'[n].pc \in {"streak", "close"}
             \/ StoreStreak(n) /\ run'[n].pc = "close"
             \/ StoreLastStreak(n) /\ run'[n].pc = "open"
    BY <1>3, <2>5, <2>6, CountersShowNothing, ShownSame
  <2>7. CASE CloseEpisode(n) /\ run'[n].pc = "restreak"
    BY <1>3, <2>5, <2>7, CloseShows
  <2>8. CASE OpenEpisode(n) /\ run'[n].pc = "signal"
    <3>1. Opened' = Opened \cup {n}
      BY <2>8, OpenShows
    <3> QED BY <1>1, <1>2, <1>3, <2>1, <2>2, <2>3, <2>8, <2>p, <3>1 DEF Told
  <2> QED BY <1>6, <2>4, <2>6, <2>7, <2>8, Moves
<1> QED BY <1>5, <1>6

\* A fault is remembered.
LEMMA FaultsStay ==
  ASSUME CountInv, Fault
  PROVE  faults' # 0
BY ConstantsAssumption DEF CountInv, Typed, Fault

LEMMA TriggerMoves ==
  ASSUME CountInv, NEW n \in Candles, Trigger(n), ~overlapped'
  PROVE  /\ ~overlapped /\ Active = {} /\ Active' = {n} /\ run'[n].pc = "sem"
         /\ \A m \in Candles \ {n} : run'[m] = run[m]
         /\ Opened' = Opened /\ OpenEpisodes' = OpenEpisodes
         /\ faults' = faults /\ signals' = signals /\ episode' = episode
         /\ processed' = processed /\ marked' = marked \cup {n} /\ \A m \in marked : m < n
<1>1. ~overlapped /\ Active = {}
  BY DEF Trigger
<1>2. PICK q \in Requests :
         run' = [run EXCEPT ![n] = [NoRun EXCEPT !.pc = "sem", !.place = q.place, !.low = q.low]]
  BY DEF Trigger
<1>3. run'[n].pc = "sem" /\ \A m \in Candles \ {n} : run'[m] = run[m]
  BY <1>2 DEF NoRun, CountInv, Typed
<1>4. Active' = {n}
  BY <1>1, <1>3 DEF Active
<1> QED BY <1>1, <1>3, <1>4 DEF Trigger, Opened, OpenEpisodes

LEMMA QuietInvStep == CountInv /\ SoloInv /\ QuietInv /\ [Next]_vars => QuietInv'
<1> SUFFICES ASSUME CountInv, SoloInv, QuietInv, [Next]_vars PROVE QuietInv'
  OBVIOUS
<1>1. ASSUME NEW n \in Candles, Trigger(n) PROVE QuietInv'
  <2> SUFFICES ASSUME faults' = 0, ~overlapped' PROVE QuietInv'
    BY DEF QuietInv, Undisturbed
  <2>1. /\ Active = {} /\ Active' = {n} /\ run'[n].pc = "sem"
        /\ Opened' = Opened /\ OpenEpisodes' = OpenEpisodes
        /\ signals' = signals /\ processed' = processed
        /\ marked' = marked \cup {n} /\ \A m \in marked : m < n
    BY <1>1, TriggerMoves
  <2>2. /\ signals \subseteq Opened /\ (\A o \in Opened : Told(o))
        /\ Opened # {} => OpenEpisodes # {}
        /\ processed # {} => Opened # {}
    BY <1>1, <2>1, TriggerMoves DEF QuietInv, Undisturbed
  <2>3. \A o \in Opened : o \in signals
    BY <2>1, <2>2 DEF Told, Active, Opened
  <2>4. Opened \subseteq marked
    BY DEF CountInv, EpisodeOK, Opened
  <2>5. n \in Nat /\ \A m \in marked' : m <= n
    BY <2>1 DEF Candles, CountInv, Typed
  <2> QED BY <2>1, <2>2, <2>3, <2>4, <2>5 DEF QuietInv, Told
<1>2. ASSUME \/ Crash
             \/ \E n \in Candles : TriggerFault(n) \/ EvaluationFault(n)
      PROVE  QuietInv'
  BY <1>2, FaultsStay DEF Crash, TriggerFault, EvaluationFault, QuietInv, Undisturbed
<1>3. CASE UNCHANGED vars
  BY <1>3 DEF vars, QuietInv, Undisturbed, Told, Active, OpenEpisodes, Opened
<1> QED BY <1>1, <1>2, <1>3, QuietEvaluation DEF Next

LEMMA QuietInvAlways == Spec => [](CountInv /\ SoloInv /\ QuietInv)
<1>1. Init => QuietInv
  BY DEF Init, QuietInv, Active, Opened, NoRun
<1>2. CountInv /\ SoloInv /\ QuietInv /\ [Next]_vars => QuietInv'
  BY QuietInvStep
<1> QED BY <1>1, <1>2, SoloInvAlways, PTL DEF Spec

\* Evaluations that neither fail nor overlap leave no episode without a signal
\* for the executor, and exactly one open episode once one of them came to its
\* end: a candle marked for a request without a snapshot opens none.
THEOREM NothingIsLeftBehind == Spec => []NothingLeftBehind
<1>1. CountInv /\ SoloInv /\ QuietInv => NothingLeftBehind
  <2> SUFFICES ASSUME CountInv, SoloInv, QuietInv, Undisturbed, Active = {}
               PROVE  Opened = signals /\ (processed # {} => Cardinality(OpenEpisodes) = 1)
    BY DEF NothingLeftBehind
  <2>1. Opened = signals
    BY DEF QuietInv, Told, Active, Opened
  <2>2. ASSUME processed # {} PROVE Cardinality(OpenEpisodes) = 1
    <3>1. PICK o : OpenEpisodes = {o}
      BY <2>2 DEF QuietInv, SoloInv, Undisturbed
    <3>2. Cardinality({o}) = 1
      BY FS_Singleton
    <3> QED BY <3>1, <3>2
  <2> QED BY <2>1, <2>2
<1> QED BY <1>1, QuietInvAlways, PTL

\* What the search for the next pool will choose.
NextPool(r) == Gate(r.copy.pool, r.low, r.copy.streak, FALSE).chosen

Tightens(n) ==
    \A k \in DOMAIN Tiers :
        /\ run[n].pc \in {"streak", "close"} /\ run[n].trigger = Tiers[k].name =>
              Reaches(k, NextPool(run[n]))
        /\ run[n].pc \in {"restreak", "open"} /\ Opened # {}
           /\ episode[run[n].of].reason = Tiers[k].name =>
              Reaches(k, run[n].trigger)

Replaces(n) ==
    run[n].pc \in {"restreak", "open"} /\ Opened # {} =>
        run[n].of \in Opened /\ \A o \in Opened : o <= run[n].of

\* The open episode is the last one, the evaluation that closed one replaces the
\* last one, and with a tier that the trigger promised.
TierInv ==
    Undisturbed =>
        /\ \A a \in OpenEpisodes, o \in Opened : o <= a
        /\ \A n \in Active : Replaces(n) /\ Tightens(n)

\* What an evaluation carries along.
LEMMA Carries ==
  ASSUME CountInv, NEW n \in Candles, run'[n] # NoRun
  PROVE  /\ StoreCounters(n) =>
               \/ run'[n].trigger \in {"cross_max", "cross_min"}
               \/ LET c == run[n].copy
                      g == Gate(c.pool, run[n].low, c.streak, TRUE)
                  IN  /\ c \in Episodes /\ run'[n].trigger = g.chosen /\ run'[n].low = run[n].low
                      /\ run'[n].copy.pool = c.pool /\ run'[n].copy.streak = g.streak
         /\ StoreStreak(n) => /\ run[n].pc = "streak" /\ run'[n].trigger = run[n].trigger
                              /\ run'[n].low = run[n].low /\ run'[n].copy = run[n].copy
         /\ CloseEpisode(n) => run[n].pc = "close" /\ run'[n].trigger = NextPool(run[n])
         /\ StoreLastStreak(n) => /\ run[n].pc = "restreak" /\ run'[n].trigger = run[n].trigger
<1>0. run \in [Candles -> Runs] /\ run[n] \in Runs
  BY DEF CountInv, Typed
<1>1. ASSUME NEW pc, Goto(n, pc)
      PROVE  /\ run'[n].trigger = run[n].trigger /\ run'[n].low = run[n].low
             /\ run'[n].copy = run[n].copy
  BY <1>0, <1>1 DEF Goto, Runs
<1>2. ASSUME End(n) PROVE FALSE
  BY <1>0, <1>2 DEF End
<1>3. ASSUME NEW pc, NEW trigger, run' = [run EXCEPT ![n].pc = pc, ![n].trigger = trigger]
      PROVE  run'[n].trigger = trigger
  BY <1>0, <1>3 DEF Runs
<1>4. ASSUME NEW pc, NEW trigger, NEW s, run[n].copy \in Episodes,
             run' = [run EXCEPT ![n].pc = pc, ![n].trigger = trigger, ![n].copy.streak = s]
      PROVE  /\ run'[n].trigger = trigger /\ run'[n].low = run[n].low
             /\ run'[n].copy.pool = run[n].copy.pool /\ run'[n].copy.streak = s
  <2>1. PICK v : v = [run[n].copy EXCEPT !.streak = s]
    OBVIOUS
  <2>2. run' = [run EXCEPT ![n] = [[[run[n] EXCEPT !.pc = pc] EXCEPT !.trigger = trigger]
                                     EXCEPT !.copy.streak = s]]
    BY <1>0, <1>4
  <2>3. PICK r : r = [run[n] EXCEPT !.pc = pc, !.trigger = trigger, !.copy = v]
    OBVIOUS
  <2>4. [[[run[n] EXCEPT !.pc = pc] EXCEPT !.trigger = trigger] EXCEPT !.copy.streak = s] = r
    BY <1>0, <2>1, <2>3 DEF Runs
  <2>5. run'[n] = r /\ r.trigger = trigger /\ r.low = run[n].low /\ r.copy = v
    BY <1>0, <2>2, <2>3, <2>4 DEF Runs
  <2>6. v.pool = run[n].copy.pool /\ v.streak = s
    BY <1>4, <2>1 DEF Episodes
  <2> QED BY <2>5, <2>6
<1>5. ASSUME StoreCounters(n)
      PROVE  \/ run'[n].trigger \in {"cross_max", "cross_min"}
             \/ LET c == run[n].copy
                    g == Gate(c.pool, run[n].low, c.streak, TRUE)
                IN  /\ c \in Episodes /\ run'[n].trigger = g.chosen /\ run'[n].low = run[n].low
                    /\ run'[n].copy.pool = c.pool /\ run'[n].copy.streak = g.streak
  <2> DEFINE b == Breakout(run[n].copy)
             g == Gate(run[n].copy.pool, run[n].low, run[n].copy.streak, TRUE)
  <2>1. \/ b # None /\ run' = [run EXCEPT ![n].pc = "close", ![n].trigger = b]
        \/ run' = [run EXCEPT ![n].pc = "streak", ![n].trigger = g.chosen,
                              ![n].copy.streak = g.streak]
        \/ End(n)
    BY <1>5 DEF StoreCounters
  <2>2. b # None => b \in {"cross_max", "cross_min"}
    BY DEF Breakout
  <2>3. run[n].copy \in Episodes
    BY <1>5, HeldEpisode DEF StoreCounters, Holding, CopyOK
  <2> HIDE DEF b, g
  <2>4. CASE b # None /\ run' = [run EXCEPT ![n].pc = "close", ![n].trigger = b]
    BY <1>3, <2>2, <2>4
  <2>5. CASE run' = [run EXCEPT ![n].pc = "streak", ![n].trigger = g.chosen, ![n].copy.streak = g.streak]
    BY <1>4, <2>3, <2>5, ZenonT(30) DEF g
  <2> QED BY <1>2, <2>1, <2>4, <2>5
<1>6. ASSUME StoreStreak(n)
      PROVE  /\ run[n].pc = "streak" /\ run'[n].trigger = run[n].trigger
             /\ run'[n].low = run[n].low /\ run'[n].copy = run[n].copy
  BY <1>1, <1>2, <1>6 DEF StoreStreak
<1>7. ASSUME CloseEpisode(n) PROVE run[n].pc = "close" /\ run'[n].trigger = NextPool(run[n])
  <2>1. run[n].pc = "close" /\ run[n].copy \in Episodes
    BY <1>7, HeldEpisode DEF CloseEpisode, Holding, CopyOK
  <2> DEFINE g == Gate(run[n].copy.pool, run[n].low, run[n].copy.streak, FALSE)
  <2>2. run' = [run EXCEPT ![n].pc = "restreak", ![n].trigger = g.chosen, ![n].copy.streak = g.streak]
    BY <1>7 DEF CloseEpisode
  <2>3. NextPool(run[n]) = g.chosen
    BY DEF NextPool
  <2> HIDE DEF g
  <2> QED BY <1>4, <2>1, <2>2, <2>3
<1>8. ASSUME StoreLastStreak(n) PROVE run[n].pc = "restreak" /\ run'[n].trigger = run[n].trigger
  BY <1>1, <1>8 DEF StoreLastStreak
<1> QED BY <1>5, <1>6, <1>7, <1>8

\* The tier a search chose is reached by the next search.
LEMMA ChosenIsReached ==
  ASSUME DistinctTiers, NEW c \in Episodes, NEW low, NEW k \in DOMAIN Tiers,
         Gate(c.pool, low, c.streak, TRUE).chosen = Tiers[k].name
  PROVE  Reaches(k, Gate(c.pool, low, Gate(c.pool, low, c.streak, TRUE).streak, FALSE).chosen)
<1>1. PICK stop : stop = TRUE
  OBVIOUS
<1>2. PICK s : s = Gate(c.pool, low, c.streak, stop).streak
  OBVIOUS
<1>3. c.streak \in [TierNames -> Nat]
  BY DEF Episodes
<1>4. s \in [TierNames -> Nat]
  BY <1>2, <1>3, GateCountsOnce DEF Results
<1>5. Gate(c.pool, low, c.streak, stop).chosen = Tiers[k].name
  BY <1>1
<1>6. c.pool \in Tiers[k].from /\ Held(s, low, Tiers[k].name) >= Tiers[k].bars
  BY <1>2, <1>3, <1>5, GateChoice
<1>7. Reaches(k, Gate(c.pool, low, s, FALSE).chosen)
  BY <1>4, <1>6, GateReaches
<1> QED BY <1>1, <1>2, <1>7

LEMMA TierEvaluation ==
  ASSUME DistinctTiers, CountInv, SoloInv, QuietInv, TierInv, NEW n \in Candles, Evaluation(n)
  PROVE  TierInv'
<1> SUFFICES ASSUME faults = 0, ~overlapped
             PROVE  /\ \A a \in OpenEpisodes', o \in Opened' : o <= a
                    /\ \A m \in Active' : Replaces(m)' /\ Tightens(m)'
  BY Moves DEF TierInv, Undisturbed
<1>1. Active = {n} /\ Active' \subseteq {n} /\ Solo(n) /\ \A a, b \in OpenEpisodes : a = b
  BY Moves DEF SoloInv, Active
<1>2. (\A a \in OpenEpisodes, o \in Opened : o <= a) /\ Replaces(n) /\ Tightens(n)
  BY <1>1 DEF TierInv, Undisturbed
<1>3. CASE run'[n] = NoRun
  <2>1. run'[n].pc = "off"
    BY <1>3 DEF NoRun
  <2>2. Active' = {}
    BY <1>1, <2>1 DEF Active
  <2> QED BY <1>2, <1>3, <2>2, EndsOpen
<1>4. CASE AcquireSemaphore(n) /\ run'[n].pc = "read"
  <2>1. OpenEpisodes' = OpenEpisodes /\ Opened' = Opened
    BY <1>4 DEF AcquireSemaphore, OpenEpisodes, Opened
  <2> QED BY <1>1, <1>2, <1>4, <2>1 DEF Replaces, Tightens
<1>5. CASE ReadEpisode(n) /\ OpenEpisodes = {} /\ run'[n].pc = "open"
  <2>1. OpenEpisodes' = OpenEpisodes /\ Opened' = Opened /\ run[n].pc = "read"
    BY <1>5 DEF ReadEpisode, OpenEpisodes, Opened
  <2>2. Opened = {}
    BY <1>1, <1>5, <2>1 DEF QuietInv, Undisturbed
  <2> QED BY <1>1, <1>5, <2>1, <2>2 DEF Replaces, Tightens
<1>6. CASE ReadEpisode(n) /\ run'[n].pc = "count" /\ run'[n].of \in OpenEpisodes
  <2>1. OpenEpisodes' = OpenEpisodes /\ Opened' = Opened
    BY <1>6 DEF ReadEpisode, OpenEpisodes, Opened
  <2> QED BY <1>1, <1>2, <1>6, <2>1 DEF Replaces, Tightens
<1>7. CASE StoreCounters(n) /\ run'[n].pc \in {"streak", "close"} /\ run'[n] # NoRun
  <2>1. OpenEpisodes' = OpenEpisodes /\ Opened' = Opened
    BY <1>7, CountersShowNothing, ShownSame
  <2>2. ASSUME NEW k \in DOMAIN Tiers, run'[n].trigger = Tiers[k].name
        PROVE  Reaches(k, NextPool(run'[n]))
    <3>1. run'[n].trigger \notin {"cross_max", "cross_min"}
      BY <2>2, TagsAssumption DEF TierNames
    <3> DEFINE c == run[n].copy
               g == Gate(c.pool, run[n].low, c.streak, TRUE)
    <3>2. /\ c \in Episodes /\ run'[n].trigger = g.chosen /\ run'[n].low = run[n].low
          /\ run'[n].copy.pool = c.pool /\ run'[n].copy.streak = g.streak
      BY <1>7, <3>1, Carries
    <3>3. Reaches(k, Gate(c.pool, run[n].low, g.streak, FALSE).chosen)
      BY <2>2, <3>2, ChosenIsReached
    <3>4. NextPool(run'[n]) = Gate(c.pool, run[n].low, g.streak, FALSE).chosen
      BY <3>2 DEF NextPool
    <3> QED BY <3>3, <3>4
  <2>3. Replaces(n)' /\ Tightens(n)'
    BY <1>7, <2>2 DEF Replaces, Tightens
  <2> QED BY <1>1, <1>2, <2>1, <2>3
<1>8. CASE StoreStreak(n) /\ run'[n].pc = "close" /\ run'[n] # NoRun
  <2>1. OpenEpisodes' = OpenEpisodes /\ Opened' = Opened
    BY <1>8, CountersShowNothing, ShownSame
  <2>2. /\ run[n].pc = "streak" /\ run'[n].trigger = run[n].trigger
        /\ NextPool(run'[n]) = NextPool(run[n])
    BY <1>8, Carries DEF NextPool
  <2>3. Replaces(n)' /\ Tightens(n)'
    BY <1>2, <1>8, <2>2 DEF Replaces, Tightens
  <2> QED BY <1>1, <1>2, <2>1, <2>3
<1>9. CASE CloseEpisode(n) /\ run'[n].pc = "restreak" /\ run'[n].of = run[n].of
  <2>1. run'[n] # NoRun
    BY <1>9 DEF NoRun
  <2>2. run[n].pc = "close" /\ run'[n].trigger = NextPool(run[n])
    BY <1>9, <2>1, Carries
  <2>3. run[n].of \in OpenEpisodes /\ run[n].of \in Opened
    BY <1>1, <2>2 DEF Solo, OpenEpisodes
  <2>4. Opened' = Opened /\ OpenEpisodes' = OpenEpisodes \ {run[n].of}
        /\ episode'[run[n].of].reason = run[n].trigger
    BY <1>9, CloseShows
  <2>5. OpenEpisodes' = {}
    BY <1>1, <2>3, <2>4
  <2>6. Replaces(n)'
    BY <1>2, <1>9, <2>3, <2>4 DEF Replaces
  <2>7. Tightens(n)'
    BY <1>2, <1>9, <2>2, <2>4 DEF Tightens
  <2> QED BY <1>1, <2>5, <2>6, <2>7
<1>10. CASE StoreLastStreak(n) /\ run'[n].pc = "open" /\ run'[n].of = run[n].of
  <2>1. run'[n] # NoRun
    BY <1>10 DEF NoRun
  <2>2. run[n].pc = "restreak" /\ run'[n].trigger = run[n].trigger
    BY <1>10, <2>1, Carries
  <2>3. OpenEpisodes' = OpenEpisodes /\ Opened' = Opened
        /\ \A o \in Candles : episode'[o].reason = episode[o].reason
    BY <1>10, CountersShowNothing, ShownSame
  <2>4. Replaces(n)'
    BY <1>2, <1>10, <2>2, <2>3 DEF Replaces
  <2>5. Tightens(n)'
    <3>1. Opened # {} => run[n].of \in Candles
      BY <1>2, <2>2 DEF Replaces, Opened
    <3> QED BY <1>2, <1>10, <2>2, <2>3, <3>1 DEF Tightens
  <2> QED BY <1>1, <1>2, <2>3, <2>4, <2>5
<1>11. CASE OpenEpisode(n) /\ run'[n].pc = "signal"
  <2>1. Opened' = Opened \cup {n} /\ OpenEpisodes' = OpenEpisodes \cup {n} /\ OpenEpisodes = {}
    BY <1>1, <1>11, OpenShows DEF Solo, OpenEpisode
  <2>2. \A o \in Opened \cup {n} : o \in marked
    BY <1>11, OpenShows DEF CountInv, EpisodeOK, Opened
  <2>3. \A m \in marked : m <= n
    BY <1>1 DEF QuietInv, Undisturbed
  <2>4. Replaces(n)' /\ Tightens(n)'
    BY <1>11 DEF Replaces, Tightens
  <2> QED BY <1>1, <2>1, <2>2, <2>3, <2>4
<1> QED BY <1>3, <1>4, <1>5, <1>6, <1>7, <1>8, <1>9, <1>10, <1>11, Moves

LEMMA TierInvStep ==
  DistinctTiers => (CountInv /\ SoloInv /\ QuietInv /\ TierInv /\ [Next]_vars => TierInv')
<1> SUFFICES ASSUME DistinctTiers, CountInv, SoloInv, QuietInv, TierInv, [Next]_vars PROVE TierInv'
  OBVIOUS
<1>1. ASSUME NEW n \in Candles, Trigger(n) PROVE TierInv'
  <2> SUFFICES ASSUME faults' = 0, ~overlapped' PROVE TierInv'
    BY DEF TierInv, Undisturbed
  <2>1. /\ Active' = {n} /\ run'[n].pc = "sem" /\ faults = 0 /\ ~overlapped
        /\ Opened' = Opened /\ OpenEpisodes' = OpenEpisodes
    BY <1>1, TriggerMoves
  <2> QED BY <2>1 DEF TierInv, Undisturbed, Replaces, Tightens
<1>2. ASSUME \/ Crash
             \/ \E n \in Candles : TriggerFault(n) \/ EvaluationFault(n)
      PROVE  TierInv'
  BY <1>2, FaultsStay DEF Crash, TriggerFault, EvaluationFault, TierInv, Undisturbed
<1>3. CASE UNCHANGED vars
  BY <1>3 DEF vars, TierInv, Undisturbed, Replaces, Tightens, NextPool, Active, OpenEpisodes, Opened
<1> QED BY <1>1, <1>2, <1>3, TierEvaluation DEF Next

\* The property is kept: a new episode follows the last one, and the last one
\* is the only one whose reason can still change.
LEMMA TightenStep ==
  CountInv /\ SoloInv /\ QuietInv /\ TierInv /\ TightenReachesTier /\ [Next]_vars
    => TightenReachesTier'
<1> SUFFICES ASSUME CountInv, SoloInv, QuietInv, TierInv, TightenReachesTier, [Next]_vars,
                    Undisturbed', NEW n \in Opened', NEW o \in Opened', NEW k \in DOMAIN Tiers,
                    o < n, \A m \in (o + 1)..(n - 1) : m \notin Opened',
                    episode'[o].reason = Tiers[k].name
             PROVE  Reaches(k, episode'[n].pool)
  BY DEF TightenReachesTier, Reaches
<1>0. n \in Candles /\ o \in Candles
  BY DEF Opened
<1>1. ASSUME n \in Opened, o \in Opened, Undisturbed,
             Opened \subseteq Opened',
             episode'[n].pool = episode[n].pool, episode'[o].reason = episode[o].reason
      PROVE  Reaches(k, episode'[n].pool)
  <2>1. \A m \in (o + 1)..(n - 1) : m \notin Opened
    BY <1>1
  <2> QED BY <1>1, <2>1, ZenonT(30) DEF TightenReachesTier, Reaches
<1>2. ASSUME NEW i \in Candles, Trigger(i) PROVE Reaches(k, episode'[n].pool)
  <2>1. Opened' = Opened /\ episode' = episode /\ Undisturbed
    BY <1>2, TriggerMoves DEF Undisturbed
  <2> QED BY <1>1, <2>1
<1>3. ~Crash /\ \A i \in Candles : ~TriggerFault(i) /\ ~EvaluationFault(i)
  BY FaultsStay DEF Crash, TriggerFault, EvaluationFault, Undisturbed
<1>4. CASE UNCHANGED vars
  BY <1>1, <1>4 DEF vars, Opened, Undisturbed
<1>5. ASSUME NEW i \in Candles, Evaluation(i) PROVE Reaches(k, episode'[n].pool)
  <2>1. Undisturbed /\ i \in Active /\ Active = {i} /\ Solo(i) /\ Replaces(i) /\ Tightens(i)
    BY <1>5, Moves DEF Undisturbed, SoloInv, TierInv
  <2>2. CASE StoreCounters(i) \/ StoreStreak(i) \/ StoreLastStreak(i)
    <3>1. Opened' = Opened /\ episode'[n].pool = episode[n].pool /\ episode'[o].reason = episode[o].reason
      BY <1>0, <2>2, CountersShowNothing, ShownSame
    <3> QED BY <1>1, <2>1, <3>1
  <2>3. CASE episode' = episode
    BY <1>1, <2>1, <2>3 DEF Opened
  <2>4. CASE CloseEpisode(i)
    <3> DEFINE a == run[i].of
    <3>1. /\ Opened' = Opened
          /\ episode'[a].pool = episode[a].pool
          /\ \A m \in Candles \ {a} : episode'[m] = episode[m]
      BY <2>4, CloseShows
    <3>2. a \in OpenEpisodes
      BY <2>1, <2>4 DEF Solo, CloseEpisode
    <3>3. n <= a /\ a \in Candles
      BY <2>1, <3>1, <3>2 DEF TierInv, OpenEpisodes, Opened
    <3>4. o # a
      BY <1>0, <3>3 DEF Candles
    <3>5. episode'[n].pool = episode[n].pool /\ episode'[o].reason = episode[o].reason
      BY <1>0, <3>1, <3>4
    <3> QED BY <1>1, <2>1, <3>1, <3>5
  <2>5. CASE OpenEpisode(i)
    <3>1. /\ i \in marked /\ i \notin Opened /\ Opened' = Opened \cup {i}
          /\ episode'[i].pool = IF run[i].trigger = None THEN "high_vol" ELSE run[i].trigger
          /\ episode'[i].reason = None
          /\ \A m \in Candles \ {i} : episode'[m] = episode[m]
      BY <2>5, OpenShows
    <3>2. o # i
      <4>1. Tiers[k].name # None
        BY TagsAssumption DEF TierNames
      <4> QED BY <3>1, <4>1
    <3>3. o \in Opened /\ episode'[o].reason = episode[o].reason
      BY <1>0, <3>1, <3>2
    <3>4. CASE n # i
      BY <1>0, <1>1, <2>1, <3>1, <3>3, <3>4
    <3>5. CASE n = i
      <4>1. run[i].of \in Opened /\ \A m \in Opened : m <= run[i].of
        BY <2>1, <2>5, <3>3 DEF Replaces, OpenEpisode
      <4>2. run[i].of < i
        <5>1. run[i].of \in marked /\ run[i].of # i
          BY <3>1, <4>1 DEF CountInv, EpisodeOK, Opened
        <5>2. run[i].of <= i
          BY <2>1, <5>1 DEF QuietInv, Undisturbed
        <5> QED BY <4>1, <5>1, <5>2 DEF Opened, Candles
      <4>3. o = run[i].of
        <5>1. o <= run[i].of /\ run[i].of \in Candles
          BY <3>3, <4>1 DEF Opened
        <5>2. run[i].of \in Opened'
          BY <3>1, <4>1
        <5> QED BY <1>0, <3>5, <4>2, <5>1, <5>2 DEF Candles
      <4>4. Reaches(k, run[i].trigger)
        BY <2>1, <2>5, <3>3, <4>3 DEF Tightens, OpenEpisode
      <4>5. run[i].trigger # None
        <5>1. \A j \in k..Len(Tiers) : Tiers[j].name # None
          BY TagsAssumption, ConstantsAssumption DEF TierNames
        <5> QED BY <4>4, <5>1 DEF Reaches
      <4> QED BY <3>1, <3>5, <4>4, <4>5
    <3> QED BY <3>4, <3>5
  <2>6. \/ StoreCounters(i) \/ StoreStreak(i) \/ StoreLastStreak(i)
        \/ episode' = episode \/ CloseEpisode(i) \/ OpenEpisode(i)
    BY <1>5 DEF Evaluation, AcquireSemaphore, SkipStrategy, ReadEpisode, StoreSignal
  <2> QED BY <2>2, <2>3, <2>4, <2>5, <2>6
<1> QED BY <1>2, <1>3, <1>4, <1>5 DEF Next

\* The episode opened when one was closed for a tier is on that tier or on one
\* the code prefers to it, although the second search starts from the counters
\* that the first one has moved on.  The names of the tiers are distinct, since
\* the code keeps one counter for a name.
THEOREM TightenAlwaysReachesTier == DistinctTiers => (Spec => []TightenReachesTier)
<1> SUFFICES ASSUME DistinctTiers PROVE Spec => []TightenReachesTier
  OBVIOUS
<1>1. Init => TierInv /\ TightenReachesTier
  BY DEF Init, TierInv, TightenReachesTier, Active, Opened, OpenEpisodes, NoRun
<1>2. CountInv /\ SoloInv /\ QuietInv /\ TierInv /\ TightenReachesTier /\ [Next]_vars
        => (TierInv /\ TightenReachesTier)'
  BY TierInvStep, TightenStep
<1> QED BY <1>1, <1>2, QuietInvAlways, PTL DEF Spec
=============================================================================
