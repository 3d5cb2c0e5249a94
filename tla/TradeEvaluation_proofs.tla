------------------------ MODULE TradeEvaluation_proofs ------------------------
(***************************************************************************)
(* For every number of candles, batch size and budget of faults and calls  *)
(* of the manual route.                                                    *)
(***************************************************************************)
EXTENDS TradeEvaluation, BoundedRecursion

-----------------------------------------------------------------------------
(***************************************************************************)
(* The evaluation of a window, with the market as a parameter.             *)
(***************************************************************************)

TurnOn(m, s, n) ==
    CASE m[n] = "entry" /\ s.position = "FLAT" ->
            [ts |-> n, position |-> "LONG", event |-> "OPEN_LONG", signal |-> "OPEN_LONG"]
      [] m[n] = "exit" /\ s.position = "LONG" ->
            [ts |-> n, position |-> "FLAT", event |-> "EXIT", signal |-> "CLOSE_LONG"]
      [] m[n] = "arm" /\ s.position = "FLAT" ->
            [ts |-> n, position |-> "FLAT", event |-> "ARM_ON_LOW_ATR", signal |-> None]
      [] OTHER -> [ts |-> n, position |-> s.position, event |-> None, signal |-> None]

EvaluateOn(m, s, window) ==
    LET f[n \in 0..NumCandles] ==
            IF n = 0 THEN [s EXCEPT !.signal = None,
                                    !.position = IF @ = None THEN "FLAT" ELSE @]
            ELSE IF n \in window /\ n > s.ts THEN TurnOn(m, f[n - 1], n)
            ELSE f[n - 1]
    IN  f[NumCandles]

LEMMA EvaluateIsOn ==
  /\ \A s, w : EvaluateLatest(s, w) = EvaluateOn(market, s, w)
  /\ \A s, w : EvaluateLatest(s, w)' = EvaluateOn(market', s, w)
  BY DEF EvaluateLatest, EvaluateOn, Turn, TurnOn

Base(s) == [s EXCEPT !.signal = None, !.position = IF @ = None THEN "FLAT" ELSE @]

Turning(m, s, window, n, r) == IF n \in window /\ n > s.ts THEN TurnOn(m, r, n) ELSE r

\* f[n] is what the evaluation has made of the candles up to n.
Evaluation(f, m, s, window) ==
    /\ f \in [0..NumCandles -> SnapshotType]
    /\ f[0] = Base(s)
    /\ \A n \in 1..NumCandles : f[n] = Turning(m, s, window, n, f[n - 1])
    /\ EvaluateOn(m, s, window) = f[NumCandles]

LEMMA BaseType ==
  ASSUME NEW s \in SnapshotType
  PROVE  /\ Base(s) \in SnapshotType /\ Base(s).ts = s.ts
         /\ Base(s).position \in {"FLAT", "LONG"}
<1>1. PICK p \in {"FLAT", "LONG"} : p = IF s.position = None THEN "FLAT" ELSE s.position
  BY DEF SnapshotType
<1>2. Base(s) = [s EXCEPT !.signal = None, !.position = p]
  BY <1>1 DEF Base
<1>3. Base(s) = [ts |-> s.ts, position |-> p, event |-> s.event, signal |-> None]
  BY <1>2 DEF SnapshotType
<1> QED BY <1>3 DEF SnapshotType

LEMMA TurnType ==
  ASSUME NEW m, NEW s \in SnapshotType, NEW n \in 1..NumCandles
  PROVE  TurnOn(m, s, n) \in SnapshotType /\ TurnOn(m, s, n).ts = n
<1>1. n \in 0..NumCandles /\ s.position \in {None, "FLAT", "LONG"}
  BY DEF SnapshotType
<1>2. \A p \in {None, "FLAT", "LONG"}, e \in {None, "OPEN_LONG", "EXIT", "ARM_ON_LOW_ATR"},
         g \in {None, "OPEN_LONG", "CLOSE_LONG"} :
         [ts |-> n, position |-> p, event |-> e, signal |-> g] \in SnapshotType
  BY <1>1 DEF SnapshotType
<1>3. CASE m[n] = "entry" /\ s.position = "FLAT"
  BY <1>2, <1>3 DEF TurnOn
<1>4. CASE m[n] = "exit" /\ s.position = "LONG"
  BY <1>2, <1>4 DEF TurnOn
<1>5. CASE m[n] = "arm" /\ s.position = "FLAT"
  BY <1>2, <1>5 DEF TurnOn
<1>6. CASE ~(m[n] = "entry" /\ s.position = "FLAT") /\ ~(m[n] = "exit" /\ s.position = "LONG")
           /\ ~(m[n] = "arm" /\ s.position = "FLAT")
  BY <1>1, <1>2, <1>6 DEF TurnOn
<1> QED BY <1>3, <1>4, <1>5, <1>6

LEMMA EvaluationExists ==
  ASSUME NEW m, NEW s \in SnapshotType, NEW window
  PROVE  \E f : Evaluation(f, m, s, window)
<1>0. PICK N \in Nat : N = NumCandles
  BY ConstantsAssumption
<1>1. PICK base \in SnapshotType : base = Base(s)
  BY BaseType
<1>2. PICK step \in [1..N -> [SnapshotType -> SnapshotType]] :
         \A n \in 1..N, r \in SnapshotType : step[n][r] = Turning(m, s, window, n, r)
  <2> DEFINE t == [n \in 1..N |-> [r \in SnapshotType |-> Turning(m, s, window, n, r)]]
  <2>1. \A n \in 1..N, r \in SnapshotType : Turning(m, s, window, n, r) \in SnapshotType
    BY <1>0, TurnType DEF Turning
  <2>2. t \in [1..N -> [SnapshotType -> SnapshotType]]
    BY <2>1
  <2>3. \A n \in 1..N, r \in SnapshotType : t[n][r] = Turning(m, s, window, n, r)
    OBVIOUS
  <2> HIDE DEF t
  <2> QED BY <2>2, <2>3
<1> DEFINE F(h) == [n \in 0..N |-> IF n = 0 THEN base
                                   ELSE IF n \in window /\ n > s.ts THEN TurnOn(m, h[n - 1], n)
                                   ELSE h[n - 1]]
<1>3. \E f : f = F(f)
  <2>1. PICK f \in [0..N -> SnapshotType] : f[0] = base /\ \A i \in 1..N : f[i] = step[i][f[i - 1]]
    <3>1. Ascending(N, SnapshotType, base, step) # {}
      BY UpwardRecursion
    <3> QED BY <3>1 DEF Ascending
  <2>2. ASSUME NEW n \in 0..N
        PROVE  f[n] = IF n = 0 THEN base
                      ELSE IF n \in window /\ n > s.ts THEN TurnOn(m, f[n - 1], n)
                      ELSE f[n - 1]
    <3>1. CASE n = 0
      BY <2>1, <3>1
    <3>2. CASE n # 0
      <4>1. n \in 1..N /\ n - 1 \in 0..N
        BY <3>2
      <4>2. f[n - 1] \in SnapshotType
        BY <4>1
      <4> QED BY <1>2, <2>1, <3>2, <4>1, <4>2 DEF Turning
    <3> QED BY <3>1, <3>2
  <2> QED BY <2>2
<1> DEFINE h == CHOOSE f : f = F(f)
<1>4. h = F(h)
  <2> HIDE DEF F
  <2> QED BY <1>3
<1>5. EvaluateOn(m, s, window) = h[N]
  BY <1>0, <1>1 DEF EvaluateOn, Base
<1>6. PICK f : f = F(f) /\ EvaluateOn(m, s, window) = f[N]
  <2> HIDE DEF h, F
  <2> QED BY <1>4, <1>5
<1>7. f[0] = base /\ \A n \in 1..N : f[n] = Turning(m, s, window, n, f[n - 1])
  <2>1. 0 \in 0..N /\ \A n \in 1..N : n \in 0..N /\ n # 0
    OBVIOUS
  <2> QED BY <1>6, <2>1 DEF Turning
<1>8. f \in [0..N -> SnapshotType]
  <2> DEFINE S == {n \in 0..N : f[n] \in SnapshotType}
  <2>1. 0 \in S
    BY <1>7
  <2>2. ASSUME NEW n \in 0..(N - 1), n \in S PROVE n + 1 \in S
    <3>1. n + 1 \in 1..N /\ f[n] \in SnapshotType /\ n + 1 - 1 = n
      BY <2>2
    <3>2. f[n + 1] = Turning(m, s, window, n + 1, f[n])
      BY <1>7, <3>1
    <3>3. f[n + 1] \in SnapshotType
      BY <1>0, <3>1, <3>2, TurnType DEF Turning
    <3> QED BY <3>1, <3>3
  <2>3. 0..N \subseteq S
    <3> HIDE DEF S
    <3> QED BY <2>1, <2>2, BoundedInduction
  <2>4. f = [n \in 0..N |-> f[n]]
    BY <1>6
  <2> QED BY <2>3, <2>4
<1> HIDE DEF F
<1> QED BY <1>0, <1>1, <1>6, <1>7, <1>8 DEF Evaluation

\* An evaluation never goes back.
LEMMA EvaluateForward ==
  ASSUME NEW m, NEW s \in SnapshotType, NEW window
  PROVE  /\ EvaluateOn(m, s, window) \in SnapshotType
         /\ EvaluateOn(m, s, window).ts >= s.ts
<1>1. PICK f : Evaluation(f, m, s, window)
  BY EvaluationExists
<1>2. /\ f \in [0..NumCandles -> SnapshotType] /\ f[0] = Base(s)
      /\ \A n \in 1..NumCandles : f[n] = Turning(m, s, window, n, f[n - 1])
      /\ EvaluateOn(m, s, window) = f[NumCandles]
  BY <1>1 DEF Evaluation
<1>3. NumCandles \in Nat
  BY ConstantsAssumption
<1> DEFINE S == {n \in 0..NumCandles : f[n].ts >= s.ts}
<1>4. 0 \in S
  <2>1. f[0].ts = s.ts
    BY <1>2, BaseType
  <2>2. s.ts \in Nat
    BY <1>3 DEF SnapshotType
  <2> QED BY <1>3, <2>1, <2>2
<1>5. ASSUME NEW n \in 0..(NumCandles - 1), n \in S PROVE n + 1 \in S
  <2>1. n + 1 \in 1..NumCandles /\ n + 1 - 1 = n /\ f[n] \in SnapshotType /\ n \in 0..NumCandles
    BY <1>2, <1>3
  <2>2. f[n + 1] = Turning(m, s, window, n + 1, f[n])
    BY <1>2, <2>1
  <2>3. CASE n + 1 \in window /\ n + 1 > s.ts
    <3>1. f[n + 1].ts = n + 1
      BY <2>1, <2>2, <2>3, TurnType DEF Turning
    <3>2. s.ts \in Nat
      BY <1>3 DEF SnapshotType
    <3> QED BY <2>1, <2>3, <3>1, <3>2
  <2>4. CASE ~(n + 1 \in window /\ n + 1 > s.ts)
    BY <1>5, <2>1, <2>2, <2>4 DEF Turning
  <2> QED BY <2>3, <2>4
<1>6. 0..NumCandles \subseteq S
  <2> HIDE DEF S
  <2> QED BY <1>3, <1>4, <1>5, BoundedInduction
<1>7. NumCandles \in 0..NumCandles
  BY <1>3
<1> QED BY <1>2, <1>6, <1>7

-----------------------------------------------------------------------------
(***************************************************************************)
(* Types, and the order of the writes.                                     *)
(***************************************************************************)

Stages == {"idle", "buffer", "window", "load", "snapshot", "signal", "event", "done"}

Calls == [pc : Stages, ts : 0..NumCandles, window : SUBSET Candles,
          before : SnapshotType \cup {None}, after : SnapshotType \cup {None},
          out : SUBSET SignalType]

Typed ==
    /\ market \in Seq(Kinds) /\ clock <= NumCandles
    /\ stream \in Seq(Candles)
    /\ read \in 0..Len(stream) /\ missed \in BOOLEAN
    /\ batch \cup empty \subseteq unacked /\ unacked \subseteq 1..read
    /\ buffer \subseteq Candles /\ fill \in {"full", "short", "bootstrapped"}
    /\ run \in [Tasks -> Calls]
    /\ snapshot \in SnapshotType
    /\ stored \subseteq SignalType
    /\ triggers \in 0..MaxTriggers /\ faults \in 0..MaxFaults

\* A call in hand is about a candle, what it evaluated is no older than what it
\* read, and it only returns what is stored.
Sound(r, signals) ==
    /\ r.pc # "idle" => r.ts \in Candles
    /\ r.pc \in {"snapshot", "signal", "event"} =>
          r.before \in SnapshotType /\ r.after \in SnapshotType /\ r.after.ts >= r.before.ts
    /\ r.out \subseteq signals

\* Without calls of the route the worker's call is the only one that stores a
\* snapshot.
Alone ==
    triggers = 0 =>
        /\ run["route"] = Idle
        /\ run["shard"].pc = "snapshot" => run["shard"].before = snapshot
        /\ run["shard"].pc = "signal" => snapshot.ts >= run["shard"].after.ts
        /\ \A x \in stored : snapshot.ts >= x.ts

Inv ==
    /\ Typed
    /\ \A p \in Tasks : Sound(run[p], stored)
    /\ published \subseteq stored
    /\ Alone

LEMMA IdleType == Idle \in Calls /\ \A signals : Sound(Idle, signals)
<1>1. Idle \in Calls
  BY ConstantsAssumption DEF Idle, Calls, Stages
<1>2. Idle.pc = "idle" /\ Idle.out = {}
  BY DEF Idle
<1> QED BY <1>1, <1>2 DEF Sound

CallAt(n, pc) == [pc |-> pc, ts |-> n, window |-> {}, before |-> None, after |-> None, out |-> {}]

LEMMA CalledType ==
  ASSUME NEW n \in Candles, NEW pc \in {"buffer", "window"}
  PROVE  /\ CallAt(n, pc) \in Calls
         /\ CallAt(n, pc).pc = pc /\ CallAt(n, pc).ts = n /\ CallAt(n, pc).out = {}
<1>1. n \in 0..NumCandles /\ pc \in Stages
  BY ConstantsAssumption DEF Candles, Stages
<1>2. PICK x : x \in SnapshotType \cup {None} /\ x = None
  OBVIOUS
<1>3. [pc |-> pc, ts |-> n, window |-> {}, before |-> x, after |-> x, out |-> {}] \in Calls
  BY <1>1, <1>2 DEF Calls
<1> QED BY <1>2, <1>3 DEF CallAt

LEMMA CalledIs ==
  ASSUME NEW p, NEW n, NEW pc
  PROVE  Called(p, n, pc) = [run EXCEPT ![p] = CallAt(n, pc)]
<1>1. PICK r : r = [Idle EXCEPT !.pc = pc, !.ts = n]
  OBVIOUS
<1>2. r = [pc |-> pc, ts |-> n, window |-> {}, before |-> None, after |-> None, out |-> {}]
  BY <1>1 DEF Idle
<1> QED BY <1>1, <1>2 DEF Called, CallAt

LEMMA LenType == Typed => /\ Len(market) \in Nat /\ Len(stream) \in Nat
                          /\ \A i \in 1..Len(stream) : stream[i] \in Candles
                          /\ read \in Nat
  BY DEF Typed

\* A batch is the next entries, up to read_count.
LEMMA FirstOfFresh ==
  ASSUME NEW a \in Nat, NEW b \in Nat, a < b
  PROVE  \E c \in (a + 1)..b : /\ FirstOf((a + 1)..b) = (a + 1)..c
                               /\ Cardinality((a + 1)..c) = c - a
<1> DEFINE c == IF a + ReadCount <= b THEN a + ReadCount ELSE b
           S == (a + 1)..b
<1>1. c \in (a + 1)..b /\ ReadCount \in Nat \ {0}
  BY ConstantsAssumption
<1>2. ASSUME NEW i \in S PROVE Cardinality({j \in S : j < i}) = i - 1 - a
  <2>1. {j \in S : j < i} = (a + 1)..(i - 1)
    OBVIOUS
  <2>2. PICK x, y \in Int : x = a + 1 /\ y = i - 1 /\ x <= y + 1
    BY <1>2
  <2>3. Cardinality(x..y) = IF x > y THEN 0 ELSE y - x + 1
    BY FS_Interval
  <2>4. Cardinality(x..y) = i - 1 - a
    BY <1>2, <2>2, <2>3
  <2> QED BY <2>1, <2>2, <2>4
<1>3. FirstOf(S) = {i \in S : i - 1 - a < ReadCount}
  BY <1>2 DEF FirstOf
<1>4. {i \in S : i - 1 - a < ReadCount} = (a + 1)..c
  BY <1>1
<1>5. Cardinality((a + 1)..c) = c - a
  <2>1. Cardinality((a + 1)..c) = IF a + 1 > c THEN 0 ELSE c - (a + 1) + 1
    BY <1>1, FS_Interval
  <2> QED BY <1>1, <2>1
<1> HIDE DEF c
<1> QED BY <1>1, <1>3, <1>4, <1>5

\* A call of task p becomes r; the signals stored only grow.
LEMMA CallStep ==
  ASSUME Inv, NEW p \in Tasks, NEW r \in Calls, run' = [run EXCEPT ![p] = r],
         stored \subseteq stored', Sound(r, stored')
  PROVE  /\ run' \in [Tasks -> Calls] /\ \A q \in Tasks : Sound(run'[q], stored')
         /\ run'[p] = r /\ \A q \in Tasks \ {p} : run'[q] = run[q]
<1>1. run \in [Tasks -> Calls]
  BY DEF Inv, Typed
<1>2. run'[p] = r /\ \A q \in Tasks \ {p} : run'[q] = run[q]
  BY <1>1
<1>3. \A q \in Tasks \ {p} : Sound(run'[q], stored')
  BY <1>2 DEF Inv, Sound
<1> QED BY <1>1, <1>2, <1>3

LEMMA TaskNames == Tasks = {"shard", "route"} /\ "shard" \in Tasks /\ "route" \in Tasks
  BY DEF Tasks

\* Steps that only take or leave work.
LEMMA WorkInv ==
  ASSUME Inv,
         \/ CandleCloses \/ (\E n \in Candles : Dispatch(n) \/ Trigger(n))
         \/ ReadEntries \/ HandleEntry \/ PublishAndAck \/ LeaveEntry \/ EndTrigger
         \/ (\E p \in Tasks : ProcessorFault(p)) \/ Crash
  PROVE  Inv'
<1>0. /\ market \in Seq(Kinds) /\ Len(market) \in Nat /\ stream \in Seq(Candles)
      /\ Len(stream) \in Nat /\ read \in Nat /\ NumCandles \in Nat
      /\ run \in [Tasks -> Calls] /\ MaxFaults \in Nat /\ MaxTriggers \in Nat
  BY ConstantsAssumption DEF Inv, Typed
<1>1. CASE CandleCloses
  <2>1. PICK k \in Kinds : market' = Append(market, k)
    BY <1>1 DEF CandleCloses
  <2>2. market' \in Seq(Kinds) /\ Len(market') = Len(market) + 1
    BY <1>0, <2>1
  <2>3. Len(market') <= NumCandles
    BY <1>0, <1>1, <2>2 DEF CandleCloses, clock
  <2> QED BY <1>1, <2>2, <2>3 DEF CandleCloses, Inv, Typed, Alone, clock, entries, cache, documents, budgets
<1>2. ASSUME NEW n \in Candles, Dispatch(n) PROVE Inv'
  <2>1. stream' \in Seq(Candles) /\ Len(stream') = Len(stream) + 1
    BY <1>0, <1>2 DEF Dispatch, Publish
  <2>2. PICK k \in 0..Len(stream) :
           /\ empty' = empty \cup (unacked \cap 1..k)
           /\ read' = IF k > read THEN k ELSE read
           /\ missed' = (missed \/ k > read)
    BY <1>2 DEF Dispatch, Publish
  <2>3. /\ read' \in 0..Len(stream') /\ read' >= read /\ missed' \in BOOLEAN
        /\ empty' \subseteq unacked
    BY <1>0, <2>1, <2>2 DEF Inv, Typed
  <2>4. faults' \in 0..MaxFaults
    BY <1>0, <1>2 DEF Dispatch, Fault, Inv, Typed
  <2>5. batch' \cup empty' \subseteq unacked' /\ unacked' \subseteq 1..read'
    <3>1. unacked' = unacked /\ batch' = batch /\ batch \subseteq unacked /\ unacked \subseteq 1..read
      BY <1>2 DEF Dispatch, Inv, Typed
    <3>2. 1..read \subseteq 1..read'
      BY <1>0, <2>3
    <3> QED BY <2>3, <3>1, <3>2
  <2> QED BY <1>2, <2>1, <2>3, <2>4, <2>5 DEF Dispatch, Inv, Typed, Alone, clock, cache, documents
<1>3. ASSUME NEW n \in Candles, Trigger(n) PROVE Inv'
  <2>1. PICK pc \in {"buffer", "window"} : run' = [run EXCEPT !["route"] = CallAt(n, pc)]
    BY <1>3, CalledIs DEF Trigger
  <2>2. PICK r : r = CallAt(n, pc)
    OBVIOUS
  <2>3. r \in Calls /\ r.pc \in {"buffer", "window"} /\ r.ts = n /\ r.out = {}
    BY <2>2, CalledType
  <2>4. Sound(r, stored') /\ stored' = stored
    BY <1>3, <2>3 DEF Sound, Trigger, documents
  <2>5. run' \in [Tasks -> Calls] /\ \A q \in Tasks : Sound(run'[q], stored')
    BY <2>1, <2>2, <2>3, <2>4, TaskNames, CallStep
  <2>6. triggers' \in 0..MaxTriggers /\ triggers' # 0
    BY <1>0, <1>3 DEF Trigger, Inv, Typed
  <2> QED BY <1>3, <2>5, <2>6 DEF Trigger, Inv, Typed, Alone, clock, entries, cache, documents
<1>4. CASE ReadEntries
  <2>1. /\ batch' \cup empty' \subseteq unacked' /\ unacked' \subseteq 1..read'
        /\ read' \in 0..Len(stream)
    <3>1. CASE unacked # {}
      BY <1>4, <3>1 DEF ReadEntries, FirstOf, Inv, Typed
    <3>2. CASE unacked = {}
      <4>1. read < Len(stream)
        BY <1>0, <1>4, <3>2 DEF ReadEntries, Inv, Typed
      <4>2. PICK c \in (read + 1)..Len(stream) :
               /\ FirstOf((read + 1)..Len(stream)) = (read + 1)..c
               /\ Cardinality((read + 1)..c) = c - read
        BY <1>0, <4>1, FirstOfFresh
      <4>3. batch' = (read + 1)..c /\ unacked' = batch' /\ read' = read + (c - read)
        BY <1>4, <3>2, <4>2 DEF ReadEntries
      <4>4. empty' = {}
        BY <1>4, <3>2 DEF ReadEntries, Inv, Typed
      <4> QED BY <1>0, <4>2, <4>3, <4>4
    <3> QED BY <3>1, <3>2
  <2> QED BY <1>4, <2>1 DEF ReadEntries, Inv, Typed, Alone, clock, cache, documents, budgets
<1>5. CASE HandleEntry
  <2>1. MinOf(batch) \in batch
    <3>0. batch \subseteq unacked /\ unacked \subseteq 1..read /\ 1..read \subseteq 0..read
      BY <1>0 DEF Inv, Typed
    <3>1. batch \in SUBSET (0..read) /\ batch # {}
      BY <1>5, <3>0 DEF HandleEntry
    <3>2. \E x \in batch : \A y \in batch : x <= y
      BY <1>0, <3>1, LeastExists
    <3> QED BY <3>2 DEF MinOf
  <2>2. MinOf(batch) \in 1..Len(stream)
    <3>1. PICK x : x = MinOf(batch)
      OBVIOUS
    <3>2. x \in 1..read /\ read \in 0..Len(stream)
      BY <2>1, <3>1 DEF Inv, Typed
    <3> QED BY <1>0, <3>1, <3>2
  <2>3. PICK n \in Candles : n = stream[MinOf(batch)]
    BY <1>0, <2>2
  <2>4. PICK r : r = CallAt(n, "buffer")
    OBVIOUS
  <2>5. r \in Calls /\ r.pc = "buffer" /\ r.ts = n /\ r.out = {}
    BY <2>4, CalledType
  <2>6. run' = [run EXCEPT !["shard"] = r] /\ stored' = stored
    BY <1>5, <2>3, <2>4, CalledIs DEF HandleEntry, documents
  <2>7. Sound(r, stored')
    BY <2>5 DEF Sound
  <2>8. /\ run' \in [Tasks -> Calls] /\ \A q \in Tasks : Sound(run'[q], stored')
        /\ run'["shard"] = r /\ run'["route"] = run["route"]
    BY <2>5, <2>6, <2>7, TaskNames, CallStep
  <2> QED BY <1>5, <2>5, <2>8 DEF HandleEntry, Inv, Typed, Alone, clock, entries, cache, documents, budgets
<1>6. CASE PublishAndAck \/ LeaveEntry
  <2>1. run' = [run EXCEPT !["shard"] = Idle] /\ stored' = stored /\ snapshot' = snapshot
    BY <1>6 DEF PublishAndAck, LeaveEntry, documents
  <2>2. /\ run' \in [Tasks -> Calls] /\ \A q \in Tasks : Sound(run'[q], stored')
        /\ run'["shard"] = Idle /\ run'["route"] = run["route"]
    BY <2>1, IdleType, TaskNames, CallStep
  <2>3. run["shard"].out \subseteq stored
    BY TaskNames DEF Inv, Sound
  <2>4. published' \subseteq stored
    BY <1>6, <2>3 DEF PublishAndAck, LeaveEntry, Inv
  <2>5. batch' \cup empty' \subseteq unacked' /\ unacked' \subseteq 1..read
    BY <1>6 DEF PublishAndAck, LeaveEntry, Inv, Typed
  <2>6. faults' \in 0..MaxFaults
    BY <1>0, <1>6 DEF PublishAndAck, LeaveEntry, Fault, Inv, Typed, budgets
  <2>7. Idle.pc = "idle"
    BY DEF Idle
  <2> QED BY <1>6, <2>1, <2>2, <2>4, <2>5, <2>6, <2>7
          DEF PublishAndAck, LeaveEntry, Inv, Typed, Alone, clock, cache, documents, budgets
<1>7. CASE EndTrigger
  <2>1. run' = [run EXCEPT !["route"] = Idle] /\ stored' = stored
    BY <1>7 DEF EndTrigger, documents
  <2>2. /\ run' \in [Tasks -> Calls] /\ \A q \in Tasks : Sound(run'[q], stored')
        /\ run'["route"] = Idle /\ run'["shard"] = run["shard"]
    BY <2>1, IdleType, TaskNames, CallStep
  <2> QED BY <1>7, <2>2 DEF EndTrigger, Inv, Typed, Alone, clock, entries, cache, documents, budgets
<1>8. ASSUME NEW p \in Tasks, ProcessorFault(p) PROVE Inv'
  <2>1. run' = [run EXCEPT ![p] = Idle] /\ stored' = stored /\ snapshot' = snapshot
    BY <1>8 DEF ProcessorFault, documents
  <2>2. /\ run' \in [Tasks -> Calls] /\ \A q \in Tasks : Sound(run'[q], stored')
        /\ run'[p] = Idle /\ \A q \in Tasks \ {p} : run'[q] = run[q]
    BY <2>1, IdleType, CallStep
  <2>3. batch' \subseteq unacked
    BY <1>8 DEF ProcessorFault, Inv, Typed
  <2>4. faults' \in 0..MaxFaults
    BY <1>0, <1>8 DEF ProcessorFault, Fault, Inv, Typed
  <2>5. Idle.pc = "idle"
    BY DEF Idle
  <2>6. Alone'
    BY <1>8, <2>1, <2>2, <2>5, TaskNames DEF ProcessorFault, Alone, Inv
  <2>7. buffer' \subseteq Candles /\ fill' \in {"full", "short", "bootstrapped"}
    <3>1. CASE UNCHANGED cache
      BY <3>1 DEF cache, Inv, Typed
    <3>2. CASE run[p].pc = "buffer" /\ buffer' = buffer \cup {run[p].ts} /\ UNCHANGED fill
      <4>1. run[p].ts \in Candles
        BY <3>2 DEF Inv, Sound
      <4> QED BY <3>2, <4>1 DEF Inv, Typed
    <3>3. CASE fill = "short" /\ buffer' = 1..clock /\ fill' = "bootstrapped"
      <4>1. 1..clock \subseteq Candles
        BY <1>0 DEF Candles, clock, Inv, Typed
      <4> QED BY <3>3, <4>1
    <3> QED BY <1>8, <3>1, <3>2, <3>3 DEF ProcessorFault
  <2> QED BY <1>8, <2>1, <2>2, <2>3, <2>4, <2>6, <2>7 DEF ProcessorFault, Inv, Typed, clock, documents
<1>9. CASE Crash
  <2>1. \A p \in Tasks : run'[p] = Idle
    BY <1>9 DEF Crash
  <2>2. faults' \in 0..MaxFaults
    BY <1>0, <1>9 DEF Crash, Fault, Inv, Typed
  <2>3. run' \in [Tasks -> Calls] /\ \A p \in Tasks : Sound(run'[p], stored)
    BY <1>9, <2>1, IdleType DEF Crash
  <2>4. Idle.pc = "idle"
    BY DEF Idle
  <2> QED BY <1>9, <2>1, <2>2, <2>3, <2>4, TaskNames DEF Crash, Inv, Typed, Alone, clock, cache, documents
<1> QED BY <1>1, <1>2, <1>3, <1>4, <1>5, <1>6, <1>7, <1>8, <1>9

\* What the calls of the processor do to the call they are in.
LEMMA GotoIs ==
  ASSUME Inv, NEW p \in Tasks, NEW pc \in Stages, Goto(p, pc)
  PROVE  /\ run' = [run EXCEPT ![p] = [run[p] EXCEPT !.pc = pc]]
         /\ [run[p] EXCEPT !.pc = pc] \in Calls
         /\ [run[p] EXCEPT !.pc = pc].pc = pc
         /\ [run[p] EXCEPT !.pc = pc].ts = run[p].ts
         /\ [run[p] EXCEPT !.pc = pc].window = run[p].window
         /\ [run[p] EXCEPT !.pc = pc].before = run[p].before
         /\ [run[p] EXCEPT !.pc = pc].after = run[p].after
         /\ [run[p] EXCEPT !.pc = pc].out = run[p].out
<1>1. run[p] \in Calls
  BY DEF Inv, Typed
<1>2. PICK r \in Calls : r = run[p]
  BY <1>1
<1>3. run' = [run EXCEPT ![p] = [r EXCEPT !.pc = pc]]
  BY <1>2 DEF Goto
<1>4. [r EXCEPT !.pc = pc] = [pc |-> pc, ts |-> r.ts, window |-> r.window, before |-> r.before,
                              after |-> r.after, out |-> r.out]
  BY DEF Calls
<1> QED BY <1>2, <1>3, <1>4 DEF Calls

LEMMA ReturnIs ==
  ASSUME Inv, NEW p \in Tasks, Return(p)
  PROVE  \E r \in Calls : /\ run' = [run EXCEPT ![p] = r]
                          /\ r.pc = "done" /\ r.ts = run[p].ts /\ r.out = run[p].out
<1>1. run[p] \in Calls /\ "done" \in Stages
  BY DEF Inv, Typed, Stages
<1>2. PICK x : x \in SnapshotType \cup {None} /\ x = None
  OBVIOUS
<1>3. PICK t \in 0..NumCandles, o \in SUBSET SignalType : t = run[p].ts /\ o = run[p].out
  BY <1>1 DEF Calls
<1>4. PICK r : r = [pc |-> "done", ts |-> t, window |-> {}, before |-> x, after |-> x, out |-> o]
  OBVIOUS
<1>5. run' = [run EXCEPT ![p] = r]
  <2>1. run' = [run EXCEPT ![p] = [Idle EXCEPT !.pc = "done", !.ts = t, !.out = o]]
    BY <1>3 DEF Return
  <2>2. PICK c : c = [Idle EXCEPT !.pc = "done", !.ts = t, !.out = o]
    OBVIOUS
  <2>3. c = [pc |-> "done", ts |-> t, window |-> {}, before |-> None, after |-> None, out |-> o]
    BY <2>2 DEF Idle
  <2> QED BY <1>2, <1>4, <2>1, <2>2, <2>3
<1>6. r \in Calls
  BY <1>1, <1>2, <1>4 DEF Calls
<1> QED BY <1>3, <1>4, <1>5, <1>6

LEMMA EmittedType ==
  ASSUME Inv, NEW p \in Tasks, run[p].pc \in {"snapshot", "signal", "event"}
  PROVE  /\ Emitted(p) \subseteq SignalType
         /\ \A x \in Emitted(p) : x.ts = run[p].after.ts
<1>1. run[p].after \in SnapshotType /\ run[p].ts \in Candles
  BY DEF Inv, Sound
<1>2. run[p].after.signal # None => run[p].after.signal \in {"OPEN_LONG", "CLOSE_LONG"}
  BY <1>1 DEF SnapshotType
<1> QED BY <1>1, <1>2 DEF Emitted, SignalType

\* A step of a call that stores neither snapshot nor signal.
LEMMA AloneKept ==
  ASSUME Inv, NEW p \in Tasks, run[p].pc # "idle",
         run'[p].pc = "snapshot" => run'[p].before = snapshot, run'[p].pc # "signal",
         \A q \in Tasks \ {p} : run'[q] = run[q],
         snapshot' = snapshot, stored' = stored, triggers' = triggers
  PROVE  Alone'
<1>1. SUFFICES ASSUME triggers = 0 PROVE Alone'
  BY DEF Alone
<1>2. run["route"] = Idle /\ \A x \in stored : snapshot.ts >= x.ts
  BY <1>1 DEF Inv, Alone
<1>3. p = "shard"
  BY <1>2, TaskNames DEF Idle
<1>4. run'["route"] = Idle
  BY <1>2, <1>3, TaskNames
<1> QED BY <1>2, <1>3, <1>4 DEF Alone

\* The steps of a call.
LEMMA CallInv ==
  ASSUME Inv, NEW p \in Tasks, ProcessorStep(p) \/ StrategyFault(p)
  PROVE  Inv'
<1>0. run[p] \in Calls /\ Sound(run[p], stored) /\ MaxFaults \in Nat /\ NumCandles \in Nat
  BY ConstantsAssumption DEF Inv, Typed
<1>1. CASE BufferCandle(p)
  <2>1. run[p].ts \in Candles
    BY <1>0, <1>1 DEF BufferCandle, Sound
  <2>2. PICK r : r = [run[p] EXCEPT !.pc = "window"]
    OBVIOUS
  <2>3. run' = [run EXCEPT ![p] = r] /\ r \in Calls /\ r.pc = "window" /\ r.ts = run[p].ts
        /\ r.out = run[p].out
    BY <1>1, <2>2, GotoIs DEF BufferCandle, Stages
  <2>4. Sound(r, stored') /\ stored' = stored
    BY <1>0, <1>1, <2>1, <2>3 DEF Sound, BufferCandle, documents
  <2>5. /\ run' \in [Tasks -> Calls] /\ \A q \in Tasks : Sound(run'[q], stored')
        /\ run'[p] = r /\ \A q \in Tasks \ {p} : run'[q] = run[q]
    BY <2>3, <2>4, CallStep
  <2>6. Alone'
    BY <1>1, <2>3, <2>5, AloneKept DEF BufferCandle, documents, budgets
  <2>7. buffer' \subseteq Candles
    BY <1>1, <2>1 DEF BufferCandle, Inv, Typed
  <2> QED BY <1>1, <2>4, <2>5, <2>6, <2>7 DEF BufferCandle, Inv, Typed, clock, entries, documents, budgets
<1>2. CASE ListWindow(p)
  <2>1. PICK known : known = IF fill = "short" THEN 1..clock ELSE buffer
    OBVIOUS
  <2>2. known \subseteq Candles
    <3>1. buffer \subseteq Candles /\ Len(market) \in Nat /\ Len(market) <= NumCandles
      BY DEF Inv, Typed, clock
    <3>2. PICK n \in Nat : n = Len(market) /\ n <= NumCandles
      BY <3>1
    <3>3. 1..n \subseteq Candles
      BY <1>0, <3>2 DEF Candles
    <3> QED BY <2>1, <3>1, <3>2, <3>3 DEF clock
  <2>3. PICK r : r = [run[p] EXCEPT !.window = known, !.pc = "load"]
    OBVIOUS
  <2>4. run' = [run EXCEPT ![p] = r] /\ buffer' = known
    BY <1>2, <2>1, <2>3 DEF ListWindow
  <2>5. r \in Calls /\ r.pc = "load" /\ r.ts = run[p].ts /\ r.out = run[p].out
    <3>1. r = [pc |-> "load", ts |-> run[p].ts, window |-> known, before |-> run[p].before,
               after |-> run[p].after, out |-> run[p].out]
      BY <1>0, <2>3 DEF Calls
    <3>2. "load" \in Stages
      BY DEF Stages
    <3> QED BY <1>0, <2>2, <3>1, <3>2 DEF Calls
  <2>6. Sound(r, stored') /\ stored' = stored
    BY <1>0, <1>2, <2>5 DEF Sound, ListWindow, documents
  <2>7. /\ run' \in [Tasks -> Calls] /\ \A q \in Tasks : Sound(run'[q], stored')
        /\ run'[p] = r /\ \A q \in Tasks \ {p} : run'[q] = run[q]
    BY <2>4, <2>5, <2>6, CallStep
  <2>8. Alone'
    BY <1>2, <2>5, <2>7, AloneKept DEF ListWindow, documents, budgets
  <2>9. fill' \in {"full", "short", "bootstrapped"}
    BY <1>2 DEF ListWindow, Inv, Typed
  <2> QED BY <1>2, <2>2, <2>4, <2>6, <2>7, <2>8, <2>9 DEF ListWindow, Inv, Typed, clock, entries, documents, budgets
<1>3. CASE Evaluate(p)
  <2>1. PICK b \in SnapshotType : b = snapshot
    BY DEF Inv, Typed
  <2>2. PICK a \in SnapshotType : a = EvaluateLatest(snapshot, run[p].window) /\ a.ts >= b.ts
    BY <2>1, EvaluateIsOn, EvaluateForward
  <2>3. PICK r : r = [run[p] EXCEPT !.before = b, !.after = a, !.window = {}, !.pc = "snapshot"]
    OBVIOUS
  <2>4. run' = [run EXCEPT ![p] = r]
    BY <1>3, <2>1, <2>2, <2>3 DEF Evaluate
  <2>5. /\ r \in Calls /\ r.pc = "snapshot" /\ r.ts = run[p].ts /\ r.out = run[p].out
        /\ r.before = b /\ r.after = a
    <3>1. r = [pc |-> "snapshot", ts |-> run[p].ts, window |-> {}, before |-> b,
               after |-> a, out |-> run[p].out]
      BY <1>0, <2>3 DEF Calls
    <3>2. "snapshot" \in Stages
      BY DEF Stages
    <3> QED BY <1>0, <3>1, <3>2 DEF Calls
  <2>6. Sound(r, stored') /\ stored' = stored /\ snapshot' = snapshot
    BY <1>0, <1>3, <2>2, <2>5 DEF Sound, Evaluate, documents
  <2>7. /\ run' \in [Tasks -> Calls] /\ \A q \in Tasks : Sound(run'[q], stored')
        /\ run'[p] = r /\ \A q \in Tasks \ {p} : run'[q] = run[q]
    BY <2>4, <2>5, <2>6, CallStep
  <2>8. Alone'
    BY <1>3, <2>1, <2>5, <2>6, <2>7, AloneKept DEF Evaluate, budgets
  <2> QED BY <1>3, <2>6, <2>7, <2>8 DEF Evaluate, Inv, Typed, clock, entries, cache, documents, budgets
<1>4. CASE StoreSnapshot(p)
  <2>1. /\ run[p].after \in SnapshotType /\ run[p].before \in SnapshotType
        /\ run[p].after.ts >= run[p].before.ts
    BY <1>0, <1>4 DEF StoreSnapshot, Sound
  <2>2. snapshot' \in SnapshotType /\ snapshot'.ts = run[p].after.ts
    BY <1>4, <2>1 DEF StoreSnapshot, SnapshotType
  <2>3. PICK r : r = [run[p] EXCEPT !.pc = "signal"]
    OBVIOUS
  <2>4. run' = [run EXCEPT ![p] = r] /\ r \in Calls /\ r.pc = "signal" /\ r.ts = run[p].ts
        /\ r.out = run[p].out /\ r.before = run[p].before /\ r.after = run[p].after
    BY <1>4, <2>3, GotoIs DEF StoreSnapshot, Stages
  <2>5. Sound(r, stored') /\ stored' = stored
    BY <1>0, <1>4, <2>4 DEF Sound, StoreSnapshot
  <2>6. /\ run' \in [Tasks -> Calls] /\ \A q \in Tasks : Sound(run'[q], stored')
        /\ run'[p] = r /\ \A q \in Tasks \ {p} : run'[q] = run[q]
    BY <2>4, <2>5, CallStep
  <2>7. Alone'
    <3>1. SUFFICES ASSUME triggers = 0 PROVE Alone'
      BY <1>4 DEF StoreSnapshot, Alone, budgets
    <3>2. p = "shard" /\ run["route"] = Idle /\ run[p].before = snapshot
      BY <1>4, <3>1, TaskNames DEF Alone, Inv, StoreSnapshot, Idle
    <3>3. snapshot.ts \in Nat /\ snapshot'.ts \in Nat /\ snapshot'.ts >= snapshot.ts
      BY <1>0, <2>1, <2>2, <3>2 DEF SnapshotType
    <3>4. \A x \in stored : snapshot'.ts >= x.ts
      BY <1>0, <3>1, <3>3 DEF Inv, Typed, Alone, SignalType, Candles
    <3>5. run'["shard"] = r /\ run'["route"] = Idle /\ snapshot'.ts >= r.after.ts
      BY <2>2, <2>4, <2>6, <3>2, <3>3, TaskNames
    <3> QED BY <2>4, <2>5, <3>4, <3>5 DEF Alone
  <2> QED BY <1>4, <2>2, <2>5, <2>6, <2>7 DEF StoreSnapshot, Inv, Typed, clock, entries, cache, budgets
<1>5. CASE StoreSignal(p)
  <2>1. PICK e \in SUBSET SignalType : e = Emitted(p) /\ \A x \in e : x.ts = run[p].after.ts
    BY <1>5, EmittedType DEF StoreSignal
  <2>2. PICK r : r = [run[p] EXCEPT !.out = e, !.pc = "event"]
    OBVIOUS
  <2>3. run' = [run EXCEPT ![p] = r] /\ stored' = stored \cup e
    BY <1>5, <2>1, <2>2 DEF StoreSignal
  <2>4. /\ r \in Calls /\ r.pc = "event" /\ r.ts = run[p].ts /\ r.out = e
        /\ r.before = run[p].before /\ r.after = run[p].after
    <3>1. r = [pc |-> "event", ts |-> run[p].ts, window |-> run[p].window,
               before |-> run[p].before, after |-> run[p].after, out |-> e]
      BY <1>0, <2>2 DEF Calls
    <3>2. "event" \in Stages
      BY DEF Stages
    <3> QED BY <1>0, <3>1, <3>2 DEF Calls
  <2>5. Sound(r, stored')
    BY <1>0, <1>5, <2>3, <2>4 DEF Sound, StoreSignal
  <2>6. /\ run' \in [Tasks -> Calls] /\ \A q \in Tasks : Sound(run'[q], stored')
        /\ run'[p] = r /\ \A q \in Tasks \ {p} : run'[q] = run[q]
    BY <2>3, <2>4, <2>5, CallStep
  <2>7. Alone'
    <3>1. SUFFICES ASSUME triggers = 0 PROVE Alone'
      BY <1>5 DEF StoreSignal, Alone, budgets
    <3>2. p = "shard" /\ run["route"] = Idle /\ snapshot.ts >= run[p].after.ts
      BY <1>5, <3>1, TaskNames DEF Alone, Inv, StoreSignal, Idle
    <3>3. \A x \in stored' : snapshot.ts >= x.ts
      BY <2>1, <2>3, <3>1, <3>2 DEF Inv, Alone
    <3> QED BY <1>5, <2>4, <2>6, <3>2, <3>3, TaskNames DEF Alone, StoreSignal
  <2> QED BY <1>5, <2>3, <2>6, <2>7 DEF StoreSignal, Inv, Typed, clock, entries, cache, budgets
<1>6. CASE StoreEvent(p)
  <2>2. PICK r \in Calls : /\ run' = [run EXCEPT ![p] = r]
                           /\ r.pc = "done" /\ r.ts = run[p].ts /\ r.out = run[p].out
    BY <1>6, ReturnIs DEF StoreEvent
  <2>3. Sound(r, stored') /\ stored' = stored
    BY <1>0, <1>6, <2>2 DEF Sound, StoreEvent
  <2>4. /\ run' \in [Tasks -> Calls] /\ \A q \in Tasks : Sound(run'[q], stored')
        /\ run'[p] = r /\ \A q \in Tasks \ {p} : run'[q] = run[q]
    BY <2>2, <2>3, CallStep
  <2>5. Alone'
    BY <1>6, <2>2, <2>3, <2>4, AloneKept DEF StoreEvent, budgets
  <2> QED BY <1>6, <2>3, <2>4, <2>5 DEF StoreEvent, Inv, Typed, clock, entries, cache, budgets
<1>7. CASE StrategyFault(p)
  <2>2. PICK r \in Calls : /\ run' = [run EXCEPT ![p] = r]
                           /\ r.pc = "done" /\ r.ts = run[p].ts /\ r.out = run[p].out
    BY <1>7, ReturnIs DEF StrategyFault
  <2>3. \/ stored' = stored
        \/ run[p].pc = "signal" /\ stored' = stored \cup Emitted(p) /\ snapshot' = snapshot
    BY <1>7 DEF StrategyFault, documents
  <2>4. stored' \subseteq SignalType /\ stored \subseteq stored'
    BY <2>3, EmittedType DEF Inv, Typed
  <2>5. Sound(r, stored')
    BY <1>0, <1>7, <2>2, <2>4 DEF Sound, StrategyFault
  <2>6. /\ run' \in [Tasks -> Calls] /\ \A q \in Tasks : Sound(run'[q], stored')
        /\ run'[p] = r /\ \A q \in Tasks \ {p} : run'[q] = run[q]
    BY <2>2, <2>4, <2>5, CallStep
  <2>7. \/ snapshot' = snapshot
        \/ run[p].pc = "snapshot" /\ snapshot' = [run[p].after EXCEPT !.signal = None] /\ stored' = stored
    BY <1>7 DEF StrategyFault, documents
  <2>8. /\ snapshot' \in SnapshotType
        /\ snapshot' = snapshot \/ snapshot'.ts = run[p].after.ts
    BY <1>0, <2>7 DEF Sound, SnapshotType, Inv, Typed
  <2>9. Alone'
    <3>1. SUFFICES ASSUME triggers = 0 PROVE Alone'
      BY <1>7 DEF StrategyFault, Alone
    <3>2. p = "shard" /\ run["route"] = Idle
      BY <1>7, <3>1, TaskNames DEF Alone, Inv, StrategyFault, Idle
    <3>3. snapshot.ts \in Nat /\ snapshot'.ts \in Nat /\ snapshot'.ts >= snapshot.ts
      <4>1. CASE snapshot' = snapshot
        BY <1>0, <2>8, <4>1 DEF SnapshotType
      <4>2. CASE run[p].pc = "snapshot" /\ snapshot' = [run[p].after EXCEPT !.signal = None]
        <5>1. run[p].before = snapshot /\ run[p].after \in SnapshotType
              /\ run[p].after.ts >= run[p].before.ts /\ snapshot \in SnapshotType
          BY <1>0, <3>1, <3>2, <4>2 DEF Sound, Alone, Inv, Typed
        <5> QED BY <1>0, <2>8, <4>2, <5>1 DEF SnapshotType
      <4> QED BY <2>7, <4>1, <4>2
    <3>4. \A x \in stored' : snapshot'.ts >= x.ts
      <4>1. \A x \in stored : snapshot'.ts >= x.ts
        BY <1>0, <3>1, <3>3 DEF Inv, Typed, Alone, SignalType, Candles
      <4>2. CASE run[p].pc = "signal" /\ stored' = stored \cup Emitted(p) /\ snapshot' = snapshot
        <5>1. snapshot.ts >= run[p].after.ts
          BY <3>1, <3>2, <4>2 DEF Inv, Alone
        <5>2. \A x \in Emitted(p) : x.ts = run[p].after.ts
          BY <4>2, EmittedType
        <5> QED BY <4>1, <4>2, <5>1, <5>2
      <4> QED BY <2>3, <4>1, <4>2
    <3>5. run'["shard"] = r /\ run'["route"] = Idle
      BY <2>6, <3>2, TaskNames
    <3> QED BY <2>2, <3>4, <3>5 DEF Alone
  <2>10. faults' \in 0..MaxFaults
    BY <1>0, <1>7 DEF StrategyFault, Fault, Inv, Typed
  <2> QED BY <1>7, <2>4, <2>6, <2>8, <2>9, <2>10 DEF StrategyFault, Inv, Typed, clock, entries, cache
<1> QED BY <1>1, <1>2, <1>3, <1>4, <1>5, <1>6, <1>7 DEF ProcessorStep

LEMMA InitInv == Init => Inv
<1> SUFFICES ASSUME Init PROVE Inv
  OBVIOUS
<1>1. market \in Seq(Kinds) /\ stream \in Seq(Candles) /\ Len(market) = 0 /\ Len(stream) = 0
  BY DEF Init
<1>2. run \in [Tasks -> Calls] /\ (\A p \in Tasks : run[p] = Idle) /\ Idle.pc = "idle"
  BY IdleType DEF Init, Idle
<1>3. snapshot \in SnapshotType
  BY ConstantsAssumption DEF Init, Start, SnapshotType
<1>6. read = 0 /\ missed \in BOOLEAN /\ batch \cup empty \subseteq unacked /\ unacked \subseteq 1..read
  BY DEF Init
<1>4. Typed
  BY <1>1, <1>2, <1>3, <1>6, ConstantsAssumption DEF Init, Typed, clock
<1>5. Alone
  BY <1>2, TaskNames DEF Init, Alone
<1> QED BY <1>2, <1>4, <1>5, IdleType DEF Inv, Init

LEMMA StepInv == Inv /\ [Next]_vars => Inv'
<1> SUFFICES ASSUME Inv, [Next]_vars PROVE Inv'
  OBVIOUS
<1>1. CASE UNCHANGED vars
  BY <1>1 DEF vars, Inv, Typed, Alone, clock
<1>2. CASE Next
  <2>1. \/ CandleCloses \/ (\E n \in Candles : Dispatch(n) \/ Trigger(n))
        \/ ReadEntries \/ HandleEntry \/ PublishAndAck \/ LeaveEntry \/ EndTrigger
        \/ (\E p \in Tasks : ProcessorFault(p)) \/ Crash
        \/ (\E p \in Tasks : ProcessorStep(p) \/ StrategyFault(p))
    BY <1>2, TaskNames DEF Next, WorkerStep
  <2> QED BY <2>1, WorkInv, CallInv
<1> QED BY <1>1, <1>2

LEMMA SpecInv == Spec => []Inv
  BY InitInv, StepInv, PTL DEF Spec

\* Every variable keeps the values the code can give it, whatever fails: the
\* documents and the call in hand of the worker and of the manual route.
THEOREM TradeEvaluationTypeCorrect == Spec => []TypeOK
<1>1. Inv => TypeOK
  <2> SUFFICES ASSUME Inv PROVE TypeOK
    OBVIOUS
  <2>1. ASSUME NEW p \in Tasks
        PROVE  /\ run[p].pc \in {"idle", "buffer", "window", "load", "snapshot", "signal",
                                  "event", "done"}
               /\ run[p].window \subseteq Candles /\ run[p].out \subseteq SignalType
               /\ {run[p].before, run[p].after} \subseteq SnapshotType \cup {None}
    <3>1. run[p] \in Calls
      BY DEF Inv, Typed
    <3> QED BY <3>1 DEF Calls, Stages
  <2> QED BY <2>1 DEF Inv, Typed, TypeOK
<1> QED BY <1>1, SpecInv, PTL

\* Over faults, replays and crashes a signal is never published before it is stored;
\* and, as long as the manual route is not called, never stored before the position it
\* tells of is in the snapshot.
THEOREM SnapshotThenSignalThenPublish == Spec => []SignalWritesInOrder
<1>1. Inv => SignalWritesInOrder
  BY DEF Inv, Alone, SignalWritesInOrder
<1> QED BY <1>1, SpecInv, PTL

\* Over replayed, repeated and overtaking entries the snapshot only goes back
\* when a call stores over a snapshot it did not read.
THEOREM SnapshotOnlyLosesUpdates == Spec => SnapshotMovesForward
<1> DEFINE Forward == snapshot'.ts < snapshot.ts =>
                         \E p \in Tasks : run[p].pc = "snapshot" /\ run[p].before # snapshot
<1>1. ASSUME Inv, Next PROVE Forward
  <2>1. \/ snapshot' = snapshot
        \/ \E p \in Tasks : run[p].pc = "snapshot" /\ snapshot' = [run[p].after EXCEPT !.signal = None]
    <3>1. ASSUME NEW p \in Tasks, ProcessorStep(p) \/ StrategyFault(p)
          PROVE  \/ snapshot' = snapshot
                 \/ run[p].pc = "snapshot" /\ snapshot' = [run[p].after EXCEPT !.signal = None]
      <4>1. CASE StoreSnapshot(p) \/ StrategyFault(p)
        BY <4>1 DEF StoreSnapshot, StrategyFault, documents
      <4>2. CASE \/ BufferCandle(p) \/ ListWindow(p) \/ Evaluate(p)
                 \/ StoreSignal(p) \/ StoreEvent(p)
        BY <4>2 DEF BufferCandle, ListWindow, Evaluate, StoreSignal, StoreEvent, documents
      <4> QED BY <3>1, <4>1, <4>2 DEF ProcessorStep
    <3>2. CASE \/ CandleCloses \/ (\E n \in Candles : Dispatch(n) \/ Trigger(n))
               \/ ReadEntries \/ HandleEntry \/ PublishAndAck \/ LeaveEntry \/ EndTrigger
               \/ (\E p \in Tasks : ProcessorFault(p)) \/ Crash
      BY <3>2 DEF CandleCloses, Dispatch, Trigger, ReadEntries, HandleEntry, PublishAndAck,
                  LeaveEntry, EndTrigger, ProcessorFault, Crash, documents
    <3> QED BY <1>1, <3>1, <3>2, TaskNames DEF Next, WorkerStep
  <2>2. ASSUME NEW p \in Tasks, run[p].pc = "snapshot",
               snapshot' = [run[p].after EXCEPT !.signal = None]
        PROVE  Forward
    <3>1. run[p].after \in SnapshotType /\ run[p].after.ts >= run[p].before.ts
      BY <1>1, <2>2 DEF Inv, Sound
    <3>2. snapshot'.ts = run[p].after.ts
      BY <2>2, <3>1 DEF SnapshotType
    <3>3. snapshot \in SnapshotType /\ NumCandles \in Nat
      BY <1>1, ConstantsAssumption DEF Inv, Typed
    <3>4. CASE run[p].before = snapshot
      BY <3>1, <3>2, <3>3, <3>4 DEF SnapshotType
    <3>5. CASE run[p].before # snapshot
      BY <2>2, <3>5
    <3> QED BY <3>4, <3>5
  <2>3. CASE snapshot' = snapshot
    BY <1>1, <2>3, ConstantsAssumption DEF Inv, Typed, SnapshotType
  <2> QED BY <2>1, <2>2, <2>3
<1>2. Inv /\ [Next]_vars => [Forward]_vars
  BY <1>1
<1> QED BY <1>2, SpecInv, PTL DEF Spec, SnapshotMovesForward

-----------------------------------------------------------------------------
(***************************************************************************)
(* What the strategy should do, as a function of the candle.               *)
(***************************************************************************)

Strip(s) == [s EXCEPT !.signal = None]

Ideal(f, m) ==
    /\ f \in [0..NumCandles -> SnapshotType]
    /\ f[0] = Base(Start)
    /\ \A n \in 1..NumCandles : f[n] = TurnOn(m, f[n - 1], n)
    /\ \A n \in 0..NumCandles : f[n].position # None

\* The snapshot that is stored when h candles have been handled.
Held(f, h) == IF h = 0 THEN Start ELSE Strip(f[h])

LEMMA StartType ==
  /\ Start \in SnapshotType /\ Start.ts = 0 /\ Start.position = None
  /\ Base(Start).ts = 0 /\ Strip(Base(Start)) = Base(Start)
<1>1. Start \in SnapshotType /\ Start.ts = 0 /\ Start.position = None
  BY ConstantsAssumption DEF Start, SnapshotType
<1>2. PICK b : b = Base(Start)
  OBVIOUS
<1>3. b = [ts |-> 0, position |-> "FLAT", event |-> None, signal |-> None]
  BY <1>2 DEF Base, Start
<1>4. Strip(b) = b /\ b.ts = 0
  BY <1>3 DEF Strip
<1> QED BY <1>1, <1>2, <1>4

LEMMA IdealExists ==
  ASSUME NEW m
  PROVE  \E f : Ideal(f, m)
<1>1. PICK f : Evaluation(f, m, Start, 1..NumCandles)
  BY StartType, EvaluationExists
<1>2. ASSUME NEW n \in 1..NumCandles PROVE f[n] = TurnOn(m, f[n - 1], n)
  <2>1. f[n] = Turning(m, Start, 1..NumCandles, n, f[n - 1]) /\ Start.ts = 0 /\ n > 0
    BY <1>1, ConstantsAssumption DEF Evaluation, Start
  <2> QED BY <2>1 DEF Turning
<1>3. /\ f \in [0..NumCandles -> SnapshotType] /\ f[0] = Base(Start) /\ NumCandles \in Nat
  BY <1>1, ConstantsAssumption DEF Evaluation
<1>4. ASSUME NEW n \in 1..NumCandles, NEW s \in SnapshotType, s.position # None
      PROVE  TurnOn(m, s, n).position # None
  <2>1. s.position \in {"FLAT", "LONG"} /\ None \notin {"FLAT", "LONG"}
    BY <1>4, NoneAssumption DEF SnapshotType
  <2> QED BY <2>1 DEF TurnOn
<1> DEFINE S == {n \in 0..NumCandles : f[n].position # None}
<1>5. 0 \in S
  <2>1. Base(Start).position \in {"FLAT", "LONG"}
    BY StartType, BaseType
  <2> QED BY <1>3, <2>1, NoneAssumption
<1>6. ASSUME NEW n \in 0..(NumCandles - 1), n \in S PROVE n + 1 \in S
  <2>1. n + 1 \in 1..NumCandles /\ n + 1 - 1 = n /\ n \in 0..NumCandles
    BY <1>3
  <2>2. f[n] \in SnapshotType /\ f[n].position # None /\ f[n + 1] = TurnOn(m, f[n], n + 1)
    BY <1>2, <1>3, <1>6, <2>1
  <2> QED BY <1>4, <2>1, <2>2
<1>7. 0..NumCandles \subseteq S
  <2> HIDE DEF S
  <2> QED BY <1>3, <1>5, <1>6, BoundedInduction
<1>8. Ideal(f, m)
  BY <1>2, <1>3, <1>7 DEF Ideal
<1> QED BY <1>8

\* A signal, and a change of position, come with an event.
LEMMA IdealTurn ==
  ASSUME NEW m, NEW f, Ideal(f, m), NEW n \in 1..NumCandles
  PROVE  /\ f[n] \in SnapshotType /\ f[n - 1] \in SnapshotType
         /\ f[n].ts = n
         /\ f[n].signal # None => f[n].event # None
         /\ f[n].position # f[n - 1].position => f[n].event # None
<1>1. f[n - 1] \in SnapshotType /\ f[n] \in SnapshotType /\ f[n] = TurnOn(m, f[n - 1], n)
  BY ConstantsAssumption DEF Ideal
<1>2. PICK s \in SnapshotType : s = f[n - 1]
  BY <1>1
<1>3. /\ TurnOn(m, s, n).ts = n
      /\ TurnOn(m, s, n).signal # None => TurnOn(m, s, n).event # None
      /\ TurnOn(m, s, n).position # s.position => TurnOn(m, s, n).event # None
  <2>1. CASE m[n] = "entry" /\ s.position = "FLAT"
    BY <2>1, NoneAssumption DEF TurnOn
  <2>2. CASE m[n] = "exit" /\ s.position = "LONG"
    BY <2>2, NoneAssumption DEF TurnOn
  <2>3. CASE m[n] = "arm" /\ s.position = "FLAT"
    BY <2>3, NoneAssumption DEF TurnOn
  <2>4. CASE ~(m[n] = "entry" /\ s.position = "FLAT") /\ ~(m[n] = "exit" /\ s.position = "LONG")
             /\ ~(m[n] = "arm" /\ s.position = "FLAT")
    BY <2>4 DEF TurnOn
  <2> QED BY <2>1, <2>2, <2>3, <2>4
<1> QED BY <1>1, <1>2, <1>3

\* What the strategy does up to a candle depends on the candles up to it.
LEMMA IdealAgrees ==
  ASSUME NEW m, NEW f, Ideal(f, m), NEW m2, NEW g, Ideal(g, m2), NEW k \in 0..NumCandles,
         \A n \in 1..k : m2[n] = m[n]
  PROVE  \A n \in 0..k : g[n] = f[n]
<1>0. NumCandles \in Nat /\ k \in Nat
  BY ConstantsAssumption
<1> DEFINE S == {n \in 0..k : g[n] = f[n]}
<1>1. 0 \in S
  BY <1>0 DEF Ideal
<1>2. ASSUME NEW n \in 0..(k - 1), n \in S PROVE n + 1 \in S
  <2>1. n + 1 \in 1..k /\ n + 1 \in 1..NumCandles /\ n + 1 - 1 = n
    BY <1>0
  <2>2. f[n + 1] = TurnOn(m, f[n], n + 1) /\ g[n + 1] = TurnOn(m2, g[n], n + 1)
    BY <2>1 DEF Ideal
  <2>3. m2[n + 1] = m[n + 1] /\ g[n] = f[n]
    BY <1>2, <2>1
  <2>4. TurnOn(m, f[n], n + 1) = TurnOn(m2, g[n], n + 1)
    BY <2>3 DEF TurnOn
  <2> QED BY <2>1, <2>2, <2>4
<1>3. 0..k \subseteq S
  <2> HIDE DEF S
  <2> QED BY <1>0, <1>1, <1>2, BoundedInduction
<1> QED BY <1>3

\* Evaluating what is new on a stored snapshot is what seeing every candle gives.
LEMMA EvaluateIdeal ==
  ASSUME NEW m, NEW f, Ideal(f, m), NEW h \in 0..NumCandles, NEW k \in h..NumCandles
  PROVE  EvaluateOn(m, Held(f, h), 1..k) = IF k = h THEN Strip(f[h]) ELSE f[k]
<1>0. NumCandles \in Nat /\ h \in Nat /\ k \in Nat /\ h <= k /\ k <= NumCandles
  BY ConstantsAssumption
<1>1. PICK s \in SnapshotType : s = Strip(f[h]) /\ s.ts = h /\ s.position = f[h].position
                               /\ [s EXCEPT !.signal = None] = s
  <2>1. f[h] \in SnapshotType /\ f[h].ts = h
    <3>1. CASE h = 0
      BY <3>1, StartType, BaseType DEF Ideal
    <3>2. CASE h # 0
      BY <1>0, <3>2, IdealTurn
    <3> QED BY <3>1, <3>2
  <2>2. PICK b \in SnapshotType : b = f[h]
    BY <2>1
  <2>3. PICK s : s = [b EXCEPT !.signal = None]
    OBVIOUS
  <2>4. s = [ts |-> b.ts, position |-> b.position, event |-> b.event, signal |-> None]
    BY <2>3 DEF SnapshotType
  <2>5. s \in SnapshotType /\ s.ts = b.ts /\ s.position = b.position
    BY <2>4 DEF SnapshotType
  <2>6. [s EXCEPT !.signal = None] = s
    BY <2>4
  <2> QED BY <2>1, <2>2, <2>3, <2>5, <2>6 DEF Strip
<1>9. PICK q \in SnapshotType : q = Held(f, h) /\ q.ts = h /\ Base(q) = s
  <2>1. CASE h = 0
    <3>1. f[0] = Base(Start) /\ Held(f, 0) = Start
      BY DEF Ideal, Held
    <3> QED BY <1>1, <2>1, <3>1, StartType
  <2>2. CASE h # 0
    <3>1. Held(f, h) = s /\ s.position # None
      BY <1>1, <2>2 DEF Held, Ideal
    <3>2. s = [ts |-> s.ts, position |-> s.position, event |-> s.event, signal |-> s.signal]
          /\ s.signal = None
      <4>1. [s EXCEPT !.signal = None].signal = None
        BY DEF SnapshotType
      <4> QED BY <1>1, <4>1 DEF SnapshotType
    <3>3. Base(s) = s
      BY <3>1, <3>2 DEF Base
    <3> QED BY <1>1, <3>1, <3>3
  <2> QED BY <2>1, <2>2
<1>2. PICK g : Evaluation(g, m, q, 1..k)
  BY EvaluationExists
<1>3. /\ g[0] = s /\ EvaluateOn(m, Held(f, h), 1..k) = g[NumCandles]
      /\ \A n \in 1..NumCandles : g[n] = Turning(m, s, 1..k, n, g[n - 1])
  <2>1. \A n, v : Turning(m, q, 1..k, n, v) = Turning(m, s, 1..k, n, v)
    BY <1>1, <1>9 DEF Turning
  <2> QED BY <1>2, <1>9, <2>1 DEF Evaluation
<1> DEFINE Want(n) == IF n <= h THEN s ELSE IF n <= k THEN f[n] ELSE IF k = h THEN s ELSE f[k]
           S == {n \in 0..NumCandles : g[n] = Want(n)}
<1>4. 0 \in S
  BY <1>0, <1>3
<1>5. ASSUME NEW n \in 0..(NumCandles - 1), n \in S PROVE n + 1 \in S
  <2>1. n + 1 \in 1..NumCandles /\ n + 1 - 1 = n /\ n \in Nat
    BY <1>0
  <2>2. g[n + 1] = Turning(m, s, 1..k, n + 1, g[n]) /\ g[n] = Want(n)
    BY <1>3, <1>5, <2>1
  <2>3. CASE n + 1 <= h
    <3>1. g[n + 1] = g[n] /\ g[n] = s
      BY <1>0, <1>1, <2>1, <2>2, <2>3 DEF Turning
    <3> QED BY <2>1, <2>3, <3>1
  <2>4. CASE n + 1 > h /\ n + 1 <= k
    <3>1. g[n + 1] = TurnOn(m, g[n], n + 1)
      BY <1>0, <1>1, <2>1, <2>2, <2>4 DEF Turning
    <3>2. g[n].position = f[n].position
      BY <1>0, <1>1, <2>1, <2>2, <2>4
    <3>3. f[n + 1] = TurnOn(m, f[n], n + 1)
      BY <2>1 DEF Ideal
    <3>4. TurnOn(m, g[n], n + 1) = TurnOn(m, f[n], n + 1)
      BY <3>2 DEF TurnOn
    <3> QED BY <1>0, <2>1, <2>4, <3>1, <3>3, <3>4
  <2>5. CASE n + 1 > k
    <3>1. g[n + 1] = g[n]
      BY <1>0, <2>1, <2>2, <2>5 DEF Turning
    <3>2. Want(n + 1) = Want(n)
      BY <1>0, <2>1, <2>5
    <3> QED BY <2>1, <2>2, <3>1, <3>2
  <2> QED BY <1>0, <2>1, <2>3, <2>4, <2>5
<1>6. 0..NumCandles \subseteq S
  <2> HIDE DEF S
  <2> QED BY <1>0, <1>4, <1>5, BoundedInduction
<1>7. g[NumCandles] = Want(NumCandles)
  BY <1>0, <1>6
<1>8. Want(NumCandles) = IF k = h THEN s ELSE f[k]
  BY <1>0
<1> QED BY <1>1, <1>3, <1>7, <1>8

LEMMA ExpectedIs ==
  ASSUME NEW f, Ideal(f, market), NEW k \in 0..NumCandles
  PROVE  Expected(k) = f[k]
<1>1. 0 \in 0..NumCandles /\ f[0] = Base(Start) /\ Strip(f[0]) = f[0] /\ Held(f, 0) = Start
  BY ConstantsAssumption, StartType DEF Ideal, Held
<1>2. EvaluateOn(market, Start, 1..k) = IF k = 0 THEN f[0] ELSE f[k]
  <2>1. k \in 0..NumCandles /\ EvaluateOn(market, Held(f, 0), 1..k) = IF k = 0 THEN Strip(f[0]) ELSE f[k]
    BY <1>1, EvaluateIdeal
  <2> QED BY <1>1, <2>1
<1>3. Expected(k) = EvaluateOn(market, Start, 1..k)
  BY EvaluateIsOn DEF Expected
<1> QED BY <1>1, <1>2, <1>3

-----------------------------------------------------------------------------
(***************************************************************************)
(* An undisturbed run stays on the track of the strategy: h candles have   *)
(* been handled for good, the call in hand is about the next one, and each *)
(* of its steps carries what the strategy should do with that candle.      *)
(***************************************************************************)

TellSignal(f, n) == IF f[n].signal = None THEN {} ELSE {[ts |-> n, type |-> f[n].signal]}

\* The first candle also tells of the first position.
TellEvent(f, n) ==
    IF f[n].event = None /\ n # 1 THEN {}
    ELSE {[ts |-> n, event |-> f[n].event, signal |-> f[n].signal, position |-> f[n].position]}

SignalsTo(f, k) == UNION {TellSignal(f, n) : n \in 1..k}
EventsTo(f, k) == UNION {TellEvent(f, n) : n \in 1..k}

\* The candle the call in hand has got to, once it is past the stages.
Reached(h, stages) == IF run["shard"].pc \in stages THEN h + 1 ELSE h

Buffered == {"window", "load", "snapshot", "signal", "event", "done"}

Track(f, h) ==
    /\ h \in 0..read /\ unacked = (h + 1)..read /\ batch = unacked
    /\ \A i \in 1..Len(stream) : stream[i] = i
    /\ Len(stream) <= clock
    /\ run["route"] = Idle

\* What the call in hand carries, h candles being handled.
Carries(f, h, r) ==
    /\ r.pc # "idle" => r.ts = h + 1
    /\ r.pc = "load" => r.window = 1..(h + 1)
    /\ r.pc \in {"snapshot", "signal", "event"} => r.before = Held(f, h) /\ r.after = f[h + 1]
    /\ r.pc \in {"event", "done"} => r.out = TellSignal(f, h + 1)

Done(f, h) ==
    /\ buffer = 1..Reached(h, Buffered)
    /\ snapshot = Held(f, Reached(h, {"signal", "event", "done"}))
    /\ stored = SignalsTo(f, Reached(h, {"event", "done"}))
    /\ published = SignalsTo(f, h)
    /\ history = EventsTo(f, Reached(h, {"done"}))

OnTrack(f, h) ==
    /\ Ideal(f, market)
    /\ Track(f, h)
    /\ run["shard"].pc # "idle" => h < read
    /\ Carries(f, h, run["shard"])
    /\ Done(f, h)

TrackInv == Undisturbed => \E f : \E h \in Nat : OnTrack(f, h)

LEMMA ToNext ==
  ASSUME NEW f, NEW h \in Nat
  PROVE  /\ SignalsTo(f, h) \cup TellSignal(f, h + 1) = SignalsTo(f, h + 1)
         /\ EventsTo(f, h) \cup TellEvent(f, h + 1) = EventsTo(f, h + 1)
<1>1. 1..(h + 1) = (1..h) \cup {h + 1}
  OBVIOUS
<1> QED BY <1>1 DEF SignalsTo, EventsTo

LEMMA ToAgrees ==
  ASSUME NEW f, NEW g, NEW k \in Nat, \A n \in 0..k : g[n] = f[n]
  PROVE  /\ \A n \in 0..k : SignalsTo(g, n) = SignalsTo(f, n) /\ EventsTo(g, n) = EventsTo(f, n)
         /\ \A n \in 0..k : TellSignal(g, n) = TellSignal(f, n)
<1>1. \A n \in 0..k : TellSignal(g, n) = TellSignal(f, n) /\ TellEvent(g, n) = TellEvent(f, n)
  BY DEF TellSignal, TellEvent
<1>2. ASSUME NEW n \in 0..k PROVE SignalsTo(g, n) = SignalsTo(f, n) /\ EventsTo(g, n) = EventsTo(f, n)
  <2>1. \A i \in 1..n : TellSignal(g, i) = TellSignal(f, i) /\ TellEvent(g, i) = TellEvent(f, i)
    BY <1>1
  <2> QED BY <2>1 DEF SignalsTo, EventsTo
<1> QED BY <1>1, <1>2

LEMMA LeastOf ==
  ASSUME NEW h \in Nat, NEW k \in Nat, h < k
  PROVE  MinOf((h + 1)..k) = h + 1
<1>1. h + 1 \in (h + 1)..k /\ \A y \in (h + 1)..k : h + 1 <= y
  OBVIOUS
<1>2. \A x \in (h + 1)..k : (\A y \in (h + 1)..k : x <= y) => x = h + 1
  BY <1>1
<1> QED BY <1>1, <1>2 DEF MinOf

\* Where an undisturbed run is.
LEMMA TrackType ==
  ASSUME Inv, NEW f, NEW h \in Nat, OnTrack(f, h)
  PROVE  /\ NumCandles \in Nat /\ read \in Nat /\ Len(stream) \in Nat
         /\ h <= read /\ read <= Len(stream) /\ Len(stream) <= NumCandles
         /\ h \in 0..NumCandles
         /\ run["shard"].pc # "idle" => h + 1 \in 1..NumCandles
         /\ run["shard"] \in Calls /\ run["shard"].pc \in Stages
<1>1. NumCandles \in Nat /\ read \in 0..Len(stream) /\ Len(market) <= NumCandles
      /\ Len(stream) \in Nat /\ Len(market) \in Nat
  BY ConstantsAssumption DEF Inv, Typed, clock
<1>2. h \in 0..read /\ Len(stream) <= Len(market) /\ (run["shard"].pc # "idle" => h < read)
  BY DEF OnTrack, Track, clock
<1>3. run["shard"] \in Calls
  BY TaskNames DEF Inv, Typed
<1>4. run["shard"].pc \in Stages
  BY <1>3 DEF Calls
<1> QED BY <1>1, <1>2, <1>3, <1>4

\* A step of the worker's call that keeps what it should carry stays on track.
LEMMA TrackCall ==
  ASSUME Inv, NEW f, NEW h \in Nat, OnTrack(f, h), run["shard"].pc # "idle",
         NEW r, run' = [run EXCEPT !["shard"] = r], Carries(f, h, r), Done(f, h)',
         UNCHANGED <<market, entries>>
  PROVE  OnTrack(f, h)'
<1>1. run'["shard"] = r /\ run'["route"] = run["route"]
  BY TaskNames DEF Inv, Typed
<1>2. h < read /\ Track(f, h)'
  BY <1>1 DEF OnTrack, Track, entries, clock
<1>3. Ideal(f, market)'
  BY DEF OnTrack
<1> QED BY <1>1, <1>2, <1>3 DEF OnTrack, entries

LEMMA TrackProcessor ==
  ASSUME Inv, fill = "full", NEW f, NEW h \in Nat, OnTrack(f, h), ProcessorStep("shard")
  PROVE  OnTrack(f, h)'
<1>0. /\ NumCandles \in Nat /\ run["shard"] \in Calls /\ run \in [Tasks -> Calls]
      /\ Carries(f, h, run["shard"]) /\ Done(f, h) /\ h \in 0..NumCandles
      /\ Ideal(f, market)
  BY TrackType DEF OnTrack, Inv, Typed
<1>1. CASE BufferCandle("shard")
  <2>1. PICK r : r = [run["shard"] EXCEPT !.pc = "window"]
    OBVIOUS
  <2>2. run' = [run EXCEPT !["shard"] = r] /\ r.pc = "window" /\ r.ts = run["shard"].ts
    BY <1>1, <2>1, GotoIs, TaskNames DEF BufferCandle, Stages
  <2>3. Carries(f, h, r) /\ run["shard"].ts = h + 1
    BY <1>0, <1>1, <2>2 DEF Carries, BufferCandle
  <2>4. run'["shard"].pc = "window"
    BY <1>0, <2>2, TaskNames
  <2>5. buffer' = 1..(h + 1)
    <3>1. buffer = 1..h
      BY <1>0, <1>1 DEF Done, Reached, Buffered, BufferCandle
    <3> QED BY <1>1, <2>3, <3>1 DEF BufferCandle
  <2>6. Done(f, h)'
    BY <1>0, <1>1, <2>4, <2>5 DEF BufferCandle, Done, Reached, Buffered, documents
  <2> QED BY <1>1, <2>2, <2>3, <2>6, TrackCall DEF BufferCandle
<1>2. CASE ListWindow("shard")
  <2>0. buffer = 1..(h + 1)
    BY <1>0, <1>2 DEF Done, Reached, Buffered, ListWindow
  <2>1. PICK r : r = [run["shard"] EXCEPT !.window = buffer, !.pc = "load"]
    OBVIOUS
  <2>2. r = [pc |-> "load", ts |-> run["shard"].ts, window |-> buffer,
             before |-> run["shard"].before, after |-> run["shard"].after,
             out |-> run["shard"].out]
    BY <1>0, <2>1 DEF Calls
  <2>3. run' = [run EXCEPT !["shard"] = r] /\ buffer' = buffer
    BY <1>2, <2>1 DEF ListWindow
  <2>4. Carries(f, h, r)
    BY <1>0, <1>2, <2>0, <2>2 DEF Carries, ListWindow
  <2>5. run'["shard"].pc = "load"
    BY <1>0, <2>2, <2>3, TaskNames
  <2>6. Done(f, h)'
    BY <1>0, <1>2, <2>3, <2>5 DEF ListWindow, Done, Reached, Buffered, documents
  <2> QED BY <1>2, <2>3, <2>4, <2>6, TrackCall DEF ListWindow
<1>3. CASE Evaluate("shard")
  <2>1. PICK b : b = Held(f, h)
    OBVIOUS
  <2>2. PICK a : a = f[h + 1]
    OBVIOUS
  <2>3. snapshot = b
    BY <1>0, <1>3, <2>1 DEF Done, Reached, Evaluate
  <2>4. EvaluateLatest(snapshot, run["shard"].window) = a
    <3>1. run["shard"].window = 1..(h + 1) /\ h + 1 \in h..NumCandles /\ h + 1 # h
      BY <1>0, <1>3, TrackType DEF Carries, Evaluate
    <3>2. EvaluateOn(market, Held(f, h), 1..(h + 1)) = f[h + 1]
      BY <1>0, <3>1, EvaluateIdeal
    <3> QED BY <2>1, <2>2, <2>3, <3>1, <3>2, EvaluateIsOn
  <2>5. PICK r : r = [run["shard"] EXCEPT !.before = b, !.after = a, !.window = {},
                                          !.pc = "snapshot"]
    OBVIOUS
  <2>6. r = [pc |-> "snapshot", ts |-> run["shard"].ts, window |-> {},
             before |-> b, after |-> a, out |-> run["shard"].out]
    BY <1>0, <2>5 DEF Calls
  <2>7. run' = [run EXCEPT !["shard"] = r]
    BY <1>3, <2>3, <2>4, <2>5 DEF Evaluate
  <2>8. Carries(f, h, r)
    BY <1>0, <1>3, <2>1, <2>2, <2>6 DEF Carries, Evaluate
  <2>9. run'["shard"].pc = "snapshot"
    BY <1>0, <2>6, <2>7, TaskNames
  <2>10. Done(f, h)'
    BY <1>0, <1>3, <2>9 DEF Evaluate, Done, Reached, Buffered, documents, cache
  <2> QED BY <1>3, <2>7, <2>8, <2>10, TrackCall DEF Evaluate
<1>4. CASE StoreSnapshot("shard")
  <2>1. PICK r : r = [run["shard"] EXCEPT !.pc = "signal"]
    OBVIOUS
  <2>2. run' = [run EXCEPT !["shard"] = r] /\ r.pc = "signal" /\ r.ts = run["shard"].ts
        /\ r.before = run["shard"].before /\ r.after = run["shard"].after
    BY <1>4, <2>1, GotoIs, TaskNames DEF StoreSnapshot, Stages
  <2>3. Carries(f, h, r) /\ run["shard"].after = f[h + 1]
    BY <1>0, <1>4, <2>2 DEF Carries, StoreSnapshot
  <2>4. run'["shard"].pc = "signal"
    BY <1>0, <2>2, TaskNames
  <2>5. snapshot' = Held(f, h + 1)
    BY <1>0, <1>4, <2>3 DEF StoreSnapshot, Strip, Held
  <2>6. Done(f, h)'
    BY <1>0, <1>4, <2>4, <2>5 DEF StoreSnapshot, Done, Reached, Buffered, cache
  <2> QED BY <1>4, <2>2, <2>3, <2>6, TrackCall DEF StoreSnapshot
<1>5. CASE StoreSignal("shard")
  <2>1. PICK e : e = TellSignal(f, h + 1)
    OBVIOUS
  <2>2. Emitted("shard") = e
    <3>1. run["shard"].after = f[h + 1] /\ run["shard"].ts = h + 1 /\ h + 1 \in 1..NumCandles
      BY <1>0, <1>5, TrackType DEF Carries, StoreSignal
    <3>2. f[h + 1].ts = h + 1
      BY <1>0, <3>1, IdealTurn
    <3> QED BY <2>1, <3>1, <3>2 DEF Emitted, TellSignal
  <2>3. PICK r : r = [run["shard"] EXCEPT !.out = e, !.pc = "event"]
    OBVIOUS
  <2>4. r = [pc |-> "event", ts |-> run["shard"].ts, window |-> run["shard"].window,
             before |-> run["shard"].before, after |-> run["shard"].after, out |-> e]
    BY <1>0, <2>3 DEF Calls
  <2>5. run' = [run EXCEPT !["shard"] = r]
    BY <1>5, <2>2, <2>3 DEF StoreSignal
  <2>6. Carries(f, h, r)
    BY <1>0, <1>5, <2>1, <2>4 DEF Carries, StoreSignal
  <2>7. run'["shard"].pc = "event"
    BY <1>0, <2>4, <2>5, TaskNames
  <2>8. stored' = SignalsTo(f, h + 1)
    <3>1. stored = SignalsTo(f, h)
      BY <1>0, <1>5 DEF Done, Reached, StoreSignal
    <3> QED BY <1>5, <2>1, <2>2, <3>1, ToNext DEF StoreSignal
  <2>9. Done(f, h)'
    BY <1>0, <1>5, <2>7, <2>8 DEF StoreSignal, Done, Reached, Buffered, cache
  <2> QED BY <1>5, <2>5, <2>6, <2>9, TrackCall DEF StoreSignal
<1>6. CASE StoreEvent("shard")
  <2>2. PICK r \in Calls :
           /\ run' = [run EXCEPT !["shard"] = r]
           /\ r.pc = "done" /\ r.ts = run["shard"].ts /\ r.out = run["shard"].out
    BY <1>6, ReturnIs, TaskNames DEF StoreEvent
  <2>3. /\ Carries(f, h, r) /\ run["shard"].after = f[h + 1] /\ run["shard"].before = Held(f, h)
        /\ run["shard"].out = TellSignal(f, h + 1) /\ h + 1 \in 1..NumCandles
    BY <1>0, <1>6, <2>2, TrackType DEF Carries, StoreEvent
  <2>4. run'["shard"].pc = "done"
    BY <1>0, <2>2, TaskNames
  <2>5. EventOf("shard") = TellEvent(f, h + 1)
    <3>1. /\ f[h + 1].ts = h + 1 /\ h + 1 - 1 = h
          /\ f[h + 1].signal # None => f[h + 1].event # None
          /\ f[h + 1].position # f[h].position => f[h + 1].event # None
          /\ f[h] \in SnapshotType
      BY <1>0, <2>3, IdealTurn
    <3>2. f[h + 1].position # Held(f, h).position
             => f[h + 1].event # None \/ h + 1 = 1
      <4>1. h # 0 => Held(f, h).position = f[h].position
        BY <3>1 DEF Held, Strip, SnapshotType
      <4> QED BY <1>0, <3>1, <4>1
    <3>3. h + 1 = 1 => f[h + 1].position # Held(f, h).position
      <4>1. h + 1 = 1 => Held(f, h).position = None
        BY <1>0, StartType DEF Held
      <4>2. f[h + 1].position # None
        BY <1>0, <2>3 DEF Ideal
      <4> QED BY <4>1, <4>2
    <3>4. (IF run["shard"].out = {} THEN None ELSE run["shard"].after.signal) = f[h + 1].signal
      BY <2>3 DEF TellSignal
    <3>5. EventOf("shard") = RuntimeEvents(Held(f, h), f[h + 1], f[h + 1].signal)
      BY <2>3, <3>4 DEF EventOf
    <3> QED BY <3>1, <3>2, <3>3, <3>5 DEF RuntimeEvents, TellEvent
  <2>6. history' = EventsTo(f, h + 1)
    <3>1. history = EventsTo(f, h)
      BY <1>0, <1>6 DEF Done, Reached, StoreEvent
    <3> QED BY <1>6, <2>5, <3>1, ToNext DEF StoreEvent
  <2>7. Done(f, h)'
    BY <1>0, <1>6, <2>4, <2>6 DEF StoreEvent, Done, Reached, Buffered, cache
  <2> QED BY <1>6, <2>2, <2>3, <2>7, TrackCall DEF StoreEvent
<1> QED BY <1>1, <1>2, <1>3, <1>4, <1>5, <1>6 DEF ProcessorStep

\* The steps of the market, the dispatcher and the worker between the calls.
LEMMA TrackWorker ==
  ASSUME Inv, NEW f, NEW h \in Nat, OnTrack(f, h), UNCHANGED faults, ~missed',
         \/ CandleCloses \/ (\E n \in Candles : Dispatch(n))
         \/ ReadEntries \/ HandleEntry \/ PublishAndAck
  PROVE  \E g : \E k \in Nat : OnTrack(g, k)'
<1>0. /\ NumCandles \in Nat /\ Len(stream) \in Nat /\ Len(market) \in Nat /\ read \in Nat
      /\ run \in [Tasks -> Calls] /\ Ideal(f, market) /\ faults \in Nat
      /\ h <= read /\ read <= Len(stream) /\ Len(stream) <= Len(market)
      /\ Len(market) <= NumCandles /\ h \in 0..NumCandles
  BY TrackType DEF Inv, Typed, OnTrack, Track, clock
<1>1. CASE CandleCloses
  <2>1. PICK k \in Kinds : market' = Append(market, k)
    BY <1>1 DEF CandleCloses
  <2>2. /\ Len(market') = Len(market) + 1
        /\ \A n \in 1..Len(market) : market'[n] = market[n]
    BY <2>1 DEF Inv, Typed
  <2>3. PICK g : Ideal(g, market')
    BY IdealExists
  <2>4. PICK c \in Nat : c = Len(market)
    BY <1>0
  <2>5. c \in 0..NumCandles /\ \A n \in 1..c : market'[n] = market[n]
    BY <1>0, <2>2, <2>4
  <2>6. \A n \in 0..c : g[n] = f[n]
    BY <1>0, <2>3, <2>5, IdealAgrees, SMTT(30)
  <2>7. /\ \A n \in 0..c : SignalsTo(g, n) = SignalsTo(f, n) /\ EventsTo(g, n) = EventsTo(f, n)
        /\ \A n \in 0..c : TellSignal(g, n) = TellSignal(f, n)
    BY <2>6, ToAgrees
  <2>8. h \in 0..c /\ (run["shard"].pc # "idle" => h + 1 \in 0..c)
    BY <1>0, <2>4 DEF OnTrack
  <2>9. \A stages \in SUBSET Buffered : Reached(h, stages) \in 0..c
    BY <2>8 DEF Reached, Buffered
  <2>10. Carries(g, h, run["shard"])
    BY <2>6, <2>7, <2>8 DEF OnTrack, Carries, Held
  <2>11. Done(g, h)
    <3>1. /\ Reached(h, {"signal", "event", "done"}) \in 0..c
          /\ Reached(h, {"event", "done"}) \in 0..c /\ Reached(h, {"done"}) \in 0..c
      BY <2>9 DEF Buffered
    <3> QED BY <2>6, <2>7, <2>8, <3>1 DEF OnTrack, Done, Held
  <2>12. Len(stream) <= Len(market')
    BY <1>0, <2>2
  <2>13. Track(g, h)'
    BY <1>1, <2>12 DEF CandleCloses, OnTrack, Track, entries, clock
  <2>14. Done(g, h)'
    BY <1>1, <2>11 DEF CandleCloses, Done, Reached, cache, documents
  <2>15. OnTrack(g, h)'
    BY <1>1, <2>3, <2>10, <2>13, <2>14 DEF CandleCloses, OnTrack, entries
  <2> QED BY <2>15
<1>2. ASSUME NEW n \in Candles, Dispatch(n) PROVE OnTrack(f, h)'
  <2>1. n \notin Dispatched /\ 1..(n - 1) \subseteq Dispatched /\ n <= Len(market)
    BY <1>0, <1>2 DEF Dispatch, Fault, clock
  <2>2. Dispatched = 1..Len(stream)
    <3>1. DOMAIN stream = 1..Len(stream) /\ \A i \in 1..Len(stream) : stream[i] = i
      BY DEF Inv, Typed, OnTrack, Track
    <3> QED BY <3>1 DEF Dispatched
  <2>3. n = Len(stream) + 1
    <3>1. n \in Nat /\ n >= 1
      BY <1>0 DEF Candles
    <3>2. n > Len(stream)
      BY <1>0, <2>1, <2>2, <3>1
    <3>3. CASE n > Len(stream) + 1
      <4>1. Len(stream) + 1 \in 1..(n - 1)
        BY <1>0, <3>1, <3>3
      <4> QED BY <1>0, <2>1, <2>2, <4>1
    <3> QED BY <1>0, <3>1, <3>2, <3>3
  <2>4. stream' = Append(stream, n) /\ stream \in Seq(Candles) /\ read' = read
    BY <1>2 DEF Dispatch, Publish, Inv, Typed
  <2>5. Len(stream') = Len(stream) + 1 /\ \A i \in 1..Len(stream') : stream'[i] = i
    <3>1. Len(stream') = Len(stream) + 1 /\ stream'[Len(stream) + 1] = n
          /\ \A i \in 1..Len(stream) : stream'[i] = stream[i]
      BY <2>4
    <3>2. \A i \in 1..Len(stream) : stream[i] = i
      BY DEF OnTrack, Track
    <3>3. \A i \in 1..(Len(stream) + 1) : i = Len(stream) + 1 \/ i \in 1..Len(stream)
      BY <1>0
    <3> QED BY <2>3, <3>1, <3>2, <3>3
  <2>6. Len(stream') <= Len(market)
    BY <2>1, <2>3, <2>5
  <2>7. Track(f, h)'
    BY <1>2, <2>4, <2>5, <2>6 DEF Dispatch, OnTrack, Track, clock
  <2>8. Done(f, h)'
    BY <1>2 DEF Dispatch, OnTrack, Done, Reached, cache, documents
  <2> QED BY <1>2, <2>4, <2>7, <2>8 DEF Dispatch, OnTrack
<1>3. CASE ReadEntries
  <2>1. unacked = {} /\ batch = {} /\ run["shard"].pc = "idle"
    BY <1>3 DEF ReadEntries, OnTrack, Track
  <2>2. h = read
    <3>1. (h + 1)..read = {}
      BY <2>1 DEF OnTrack, Track
    <3>2. h < read => h + 1 \in (h + 1)..read
      BY <1>0
    <3> QED BY <1>0, <3>1, <3>2
  <2>3. read < Len(stream)
    <3>1. (read + 1)..Len(stream) # {}
      BY <1>3, <2>1 DEF ReadEntries
    <3> QED BY <1>0, <3>1
  <2>4. PICK c \in (read + 1)..Len(stream) :
           /\ FirstOf((read + 1)..Len(stream)) = (read + 1)..c
           /\ Cardinality((read + 1)..c) = c - read
    BY <1>0, <2>3, FirstOfFresh
  <2>5. batch' = (h + 1)..c /\ unacked' = batch' /\ read' = c
    BY <1>0, <1>3, <2>1, <2>2, <2>4 DEF ReadEntries
  <2>6. h \in 0..read'
    BY <1>0, <2>2, <2>4, <2>5
  <2>7. Track(f, h)'
    BY <1>3, <2>5, <2>6 DEF ReadEntries, OnTrack, Track, clock
  <2>8. Done(f, h)'
    BY <1>3 DEF ReadEntries, OnTrack, Done, Reached, cache, documents
  <2>9. OnTrack(f, h)'
    BY <1>3, <2>1, <2>7, <2>8 DEF ReadEntries, OnTrack
  <2> QED BY <2>9
<1>4. CASE HandleEntry
  <2>1. batch = (h + 1)..read /\ batch # {} /\ run["shard"].pc = "idle"
    BY <1>4 DEF HandleEntry, OnTrack, Track
  <2>2. h < read
    <3>1. \A x \in (h + 1)..read : h < read
      BY <1>0
    <3> QED BY <2>1, <3>1
  <2>3. MinOf(batch) = h + 1 /\ h + 1 \in 1..Len(stream)
    BY <1>0, <2>1, <2>2, LeastOf
  <2>4. stream[MinOf(batch)] = h + 1
    BY <2>3 DEF OnTrack, Track
  <2>5. PICK r : r = CallAt(h + 1, "buffer")
    OBVIOUS
  <2>6. run' = [run EXCEPT !["shard"] = r] /\ r.pc = "buffer" /\ r.ts = h + 1
    BY <1>4, <2>4, <2>5, CalledIs DEF HandleEntry, CallAt
  <2>7. run'["shard"] = r /\ run'["route"] = run["route"]
    BY <1>0, <2>6, TaskNames
  <2>8. Carries(f, h, r)
    BY <2>6 DEF Carries
  <2>9. Track(f, h)'
    BY <1>4, <2>7 DEF HandleEntry, OnTrack, Track, entries, clock
  <2>10. Done(f, h)'
    BY <1>4, <2>1, <2>6, <2>7 DEF HandleEntry, OnTrack, Done, Reached, Buffered, cache, documents
  <2>11. OnTrack(f, h)'
    BY <1>4, <2>2, <2>7, <2>8, <2>9, <2>10 DEF HandleEntry, OnTrack, entries
  <2> QED BY <2>11
<1>5. CASE PublishAndAck
  <2>1. run["shard"].pc = "done" /\ h < read /\ batch = (h + 1)..read /\ unacked = batch
    BY <1>5 DEF PublishAndAck, OnTrack, Track
  <2>2. MinOf(batch) = h + 1
    BY <1>0, <2>1, LeastOf
  <2>3. batch' = (h + 2)..read /\ unacked' = batch'
    BY <1>0, <1>5, <2>1, <2>2 DEF PublishAndAck
  <2>4. run'["shard"] = Idle /\ run'["route"] = run["route"] /\ Idle.pc = "idle"
    BY <1>0, <1>5, TaskNames DEF PublishAndAck, Idle
  <2>5. PICK k \in Nat : k = h + 1
    OBVIOUS
  <2>6. k \in 0..read /\ k + 1 = h + 2
    BY <1>0, <2>1, <2>5
  <2>7. Track(f, k)'
    BY <1>5, <2>3, <2>4, <2>6 DEF PublishAndAck, OnTrack, Track, clock
  <2>8. Carries(f, k, Idle)
    BY <2>4 DEF Carries
  <2>9. published' = SignalsTo(f, k)
    <3>1. run["shard"].out = TellSignal(f, h + 1) /\ published = SignalsTo(f, h)
      BY <2>1 DEF OnTrack, Carries, Done
    <3> QED BY <1>5, <2>5, <3>1, ToNext DEF PublishAndAck
  <2>10. Done(f, k)'
    BY <1>5, <2>1, <2>4, <2>5, <2>9 DEF PublishAndAck, OnTrack, Done, Reached, Buffered, cache, documents
  <2>11. OnTrack(f, k)'
    BY <1>5, <2>4, <2>7, <2>8, <2>10 DEF PublishAndAck, OnTrack
  <2> QED BY <2>11
<1> QED BY <1>1, <1>2, <1>3, <1>4, <1>5

LEMMA TrackInit == Init => TrackInv
<1> SUFFICES ASSUME Init PROVE TrackInv
  OBVIOUS
<1>1. PICK f : Ideal(f, market)
  BY IdealExists
<1>2. run["route"] = Idle /\ run["shard"] = Idle /\ Idle.pc = "idle"
  BY TaskNames DEF Init, Idle
<1>3. \A stages \in SUBSET Buffered : Reached(0, stages) = 0
  BY <1>2 DEF Reached, Buffered
<1>4. /\ Reached(0, Buffered) = 0 /\ Reached(0, {"signal", "event", "done"}) = 0
      /\ Reached(0, {"event", "done"}) = 0 /\ Reached(0, {"done"}) = 0
  BY <1>3 DEF Buffered
<1>5. SignalsTo(f, 0) = {} /\ EventsTo(f, 0) = {}
  BY DEF SignalsTo, EventsTo
<1>6. Done(f, 0)
  BY <1>1, <1>4, <1>5, StartType DEF Init, Done, Ideal, Held
<1>7. Track(f, 0)
  BY <1>2 DEF Init, Track, clock
<1>8. OnTrack(f, 0)
  BY <1>1, <1>2, <1>6, <1>7 DEF OnTrack, Carries
<1> QED BY <1>8 DEF TrackInv

LEMMA TrackStep == Inv /\ TrackInv /\ [Next]_vars => TrackInv'
<1> SUFFICES ASSUME Inv, TrackInv, [Next]_vars, Undisturbed' PROVE (\E f : \E h \in Nat : OnTrack(f, h))'
  BY DEF TrackInv
<1>1. CASE UNCHANGED vars
  <2>0. PICK f : \E k \in Nat : OnTrack(f, k)
    BY <1>1 DEF vars, TrackInv, Undisturbed
  <2>1. PICK h \in Nat : OnTrack(f, h)
    BY <2>0
  <2>2. OnTrack(f, h)'
    BY <1>1, <2>1 DEF vars, OnTrack, Track, Carries, Done, Reached, clock
  <2> QED BY <2>2
<1>2. CASE Next
  <2>1. faults \in Nat /\ triggers \in Nat
    BY ConstantsAssumption DEF Inv, Typed
  <2>2. ~Fault
    BY <2>1 DEF Fault, Undisturbed
  <2>3. ~\E n \in Candles : Trigger(n)
    BY <2>1 DEF Trigger, Undisturbed
  <2>4. \/ CandleCloses \/ (\E n \in Candles : Dispatch(n))
        \/ ReadEntries \/ HandleEntry \/ PublishAndAck \/ EndTrigger
        \/ (\E p \in Tasks : ProcessorStep(p))
    BY <1>2, <2>2, <2>3, TaskNames
       DEF Next, WorkerStep, LeaveEntry, StrategyFault, ProcessorFault, Crash
  <2>12. ~missed' /\ ~missed
    <3>1. ASSUME NEW n \in Candles, Dispatch(n) PROVE missed => missed'
      BY <3>1 DEF Dispatch, Publish
    <3>2. ASSUME CandleCloses \/ ReadEntries \/ HandleEntry \/ PublishAndAck \/ EndTrigger
          PROVE  missed' = missed
      BY <3>2 DEF CandleCloses, ReadEntries, HandleEntry, PublishAndAck, EndTrigger, entries
    <3>3. ASSUME NEW p \in Tasks, ProcessorStep(p) PROVE missed' = missed
      BY <3>3 DEF ProcessorStep, BufferCandle, ListWindow, Evaluate, StoreSnapshot, StoreSignal,
                  StoreEvent, entries
    <3>4. ~missed'
      BY DEF Undisturbed
    <3> QED BY <2>4, <3>1, <3>2, <3>3, <3>4
  <2>5. UNCHANGED <<faults, triggers>>
    BY <2>2, <2>4 DEF CandleCloses, Dispatch, ReadEntries, HandleEntry, PublishAndAck, EndTrigger,
          ProcessorStep, BufferCandle, ListWindow, Evaluate, StoreSnapshot, StoreSignal, StoreEvent, budgets
  <2>6. fill = "full"
    BY <2>4 DEF CandleCloses, Dispatch, ReadEntries, HandleEntry, PublishAndAck, EndTrigger,
          ProcessorStep, BufferCandle, ListWindow, Evaluate, StoreSnapshot, StoreSignal, StoreEvent,
          cache, Undisturbed
  <2>0. PICK f : \E k \in Nat : OnTrack(f, k)
    BY <2>5, <2>6, <2>12 DEF TrackInv, Undisturbed
  <2>7. PICK h \in Nat : OnTrack(f, h)
    BY <2>0
  <2>8. run["route"] = Idle /\ Idle.pc = "idle"
    BY <2>7 DEF OnTrack, Track, Idle
  <2>9. ~EndTrigger /\ ~ProcessorStep("route")
    BY <2>8 DEF EndTrigger, ProcessorStep, BufferCandle, ListWindow, Evaluate, StoreSnapshot,
          StoreSignal, StoreEvent
  <2>10. CASE ProcessorStep("shard")
    BY <2>6, <2>7, <2>10, TrackProcessor
  <2>11. CASE \/ CandleCloses \/ (\E n \in Candles : Dispatch(n))
              \/ ReadEntries \/ HandleEntry \/ PublishAndAck
    BY <2>5, <2>7, <2>11, <2>12, TrackWorker
  <2> QED BY <2>4, <2>9, <2>10, <2>11, TaskNames
<1> QED BY <1>1, <1>2

\* When nothing disturbs it, the signals in the collection are those of a
\* strategy that saw every candle once and in order, and when the entry of a
\* candle is acknowledged its signal is stored and published and the history has
\* exactly its event.
THEOREM UndisturbedSignalsAreExact == Spec => []SignalsAreExact
<1>1. Inv /\ TrackInv => SignalsAreExact
  <2> SUFFICES ASSUME Inv, TrackInv, Undisturbed
               PROVE  /\ \A x \in stored : x \in ExpectedSignal(x.ts)
                      /\ \A n \in Candles : Acked(n) =>
                            /\ ExpectedSignal(n) \subseteq stored \cap published
                            /\ {e.event : e \in {x \in history : x.ts = n}} \ {None}
                                = {Expected(n).event} \ {None}
    BY DEF SignalsAreExact
  <2>0. PICK f : \E k \in Nat : OnTrack(f, k)
    BY DEF TrackInv
  <2>1. PICK h \in Nat : OnTrack(f, h)
    BY <2>0
  <2>2. NumCandles \in Nat /\ read \in Nat /\ h \in 0..NumCandles /\ h <= read /\ Ideal(f, market)
        /\ read <= Len(stream) /\ Len(stream) \in Nat
    BY <2>1, TrackType DEF OnTrack
  <2>3. \A n \in 0..NumCandles : Expected(n) = f[n] /\ ExpectedSignal(n) = TellSignal(f, n)
    BY <2>2, ExpectedIs DEF ExpectedSignal, TellSignal
  <2>4. \A stages \in SUBSET Buffered : Reached(h, stages) \in h..NumCandles
    <3>1. run["shard"].pc # "idle" => h + 1 \in 1..NumCandles
      BY <2>1, TrackType
    <3> QED BY <2>2, <3>1 DEF Reached, Buffered
  <2>5. PICK k \in h..NumCandles : stored = SignalsTo(f, k)
    <3>1. Reached(h, {"event", "done"}) \in h..NumCandles
      BY <2>4 DEF Buffered
    <3> QED BY <2>1, <3>1 DEF OnTrack, Done
  <2>6. PICK t \in h..NumCandles : history = EventsTo(f, t)
    <3>1. Reached(h, {"done"}) \in h..NumCandles
      BY <2>4 DEF Buffered
    <3> QED BY <2>1, <3>1 DEF OnTrack, Done
  <2>7. published = SignalsTo(f, h)
    BY <2>1 DEF OnTrack, Done
  <2>8. ASSUME NEW x \in stored PROVE x \in ExpectedSignal(x.ts)
    <3>1. PICK n \in 1..k : x \in TellSignal(f, n)
      BY <2>5 DEF SignalsTo
    <3>2. x.ts = n /\ n \in 0..NumCandles
      BY <2>2, <3>1 DEF TellSignal
    <3> QED BY <2>3, <3>1, <3>2
  <2>9. ASSUME NEW n \in Candles, Acked(n)
        PROVE  /\ ExpectedSignal(n) \subseteq stored \cap published
               /\ {e.event : e \in {x \in history : x.ts = n}} \ {None}
                                = {Expected(n).event} \ {None}
    <3>1. n \in 1..h
      <4>1. PICK i \in 1..read : stream[i] = n /\ i \notin unacked
        BY <2>9 DEF Acked
      <4>2. i = n
        BY <2>1, <2>2, <4>1 DEF OnTrack, Track
      <4>3. i \notin (h + 1)..read
        BY <2>1, <4>1 DEF OnTrack, Track
      <4> QED BY <2>2, <4>1, <4>2, <4>3
    <3>2. n \in 0..NumCandles /\ n \in 1..k /\ n \in 1..t
      BY <2>2, <3>1
    <3>3. TellSignal(f, n) \subseteq stored \cap published
      BY <2>5, <2>7, <3>1, <3>2 DEF SignalsTo
    <3>4. {x \in history : x.ts = n} = TellEvent(f, n)
      <4>1. \A i \in 1..t : \A x \in TellEvent(f, i) : x.ts = i
        BY DEF TellEvent
      <4> QED BY <2>6, <3>2, <4>1 DEF EventsTo
    <3>5. {e.event : e \in TellEvent(f, n)} \ {None} = {f[n].event} \ {None}
      <4>1. CASE f[n].event = None /\ n # 1
        BY <4>1 DEF TellEvent
      <4>2. CASE ~(f[n].event = None /\ n # 1)
        <5>1. PICK x : TellEvent(f, n) = {x} /\ x.event = f[n].event
          <6>1. PICK x : x = [ts |-> n, event |-> f[n].event, signal |-> f[n].signal,
                              position |-> f[n].position]
            OBVIOUS
          <6>2. x.event = f[n].event
            BY <6>1
          <6>3. TellEvent(f, n) = {x}
            BY <4>2, <6>1 DEF TellEvent
          <6> QED BY <6>2, <6>3
        <5>2. {e.event : e \in TellEvent(f, n)} = {f[n].event}
          BY <5>1
        <5> QED BY <5>2
      <4> QED BY <4>1, <4>2
    <3> QED BY <2>3, <3>2, <3>3, <3>4, <3>5
  <2> QED BY <2>8, <2>9
<1>2. Spec => []TrackInv
  BY TrackInit, TrackStep, SpecInv, PTL DEF Spec
<1> QED BY <1>1, <1>2, SpecInv, PTL
=============================================================================
