------------------------ MODULE AtrTwoStage_proofs ------------------------
(***************************************************************************)
(* For every parameter set of the ATR two-stage strategy, every market and *)
(* every division of the candles over evaluations; and, for two runs over  *)
(* the same candles, what a restart between them changes.                  *)
(***************************************************************************)
EXTENDS AtrRestart, SequenceTheorems, TLAPS

-----------------------------------------------------------------------------
(* The operational state between two candles.                              *)

\* StateConsistent of an arbitrary operational state.
Shape(s) ==
    /\ ~(s.armed /\ s.side # None)
    /\ s.armed <=> s.refPrice # None
    /\ s.armed <=> s.refAtr # None
    /\ s.side # None <=> s.entry # None
    /\ s.side # None <=> s.entryAtr # None
    /\ s.side # None <=> s.best # None
    /\ s.side # None <=> s.worst # None

Sound(s) == s \in State /\ Shape(s)

\* SetupNotStale of an arbitrary operational state.
NotStale(s) == s.armed /\ MaxSetupBars # None => s.age <= MaxSetupBars

\* The extremes of s bracket the price p, if s is in a position.
Brackets(s, p) == s.side # None => Gain(s, s.worst, p) >= 0 /\ Gain(s, s.best, p) <= 0

\* What a candle needs to know of the state it starts from.
Held(s) == Sound(s) /\ Brackets(s, s.entry)

\* The counters keep the shape, and expiry leaves no stale setup.
LEMMA TickSound ==
  ASSUME NEW s, Sound(s)
  PROVE  /\ Sound(Tick(s))
         /\ Tick(s).side = s.side /\ Tick(s).entry = s.entry
         /\ Tick(s).best = s.best /\ Tick(s).worst = s.worst
         /\ Tick(s).since >= 1
<1> USE ParamsAssumption DEF Sound, Shape, State, Tick, Optional
<1>1. s.since + 1 \in Nat /\ s.bars + 1 \in Nat /\ s.age + 1 \in Nat
  OBVIOUS
<1>2. Tick(s) \in State
  BY <1>1, ZenonT(30)
<1>3. Shape(Tick(s))
  OBVIOUS
<1> QED BY <1>2, <1>3

\* Clearing the setup keeps the shape and the position.
LEMMA DisarmSound ==
  ASSUME NEW s, Sound(s)
  PROVE  /\ Sound(Disarm(s)) /\ ~Disarm(s).armed
         /\ Disarm(s).side = s.side /\ Disarm(s).entry = s.entry
         /\ Disarm(s).best = s.best /\ Disarm(s).worst = s.worst
         /\ Disarm(s).since = s.since
  BY ParamsAssumption DEF Sound, Shape, State, Disarm, Optional

\* None is neither a number nor a side.
LEMMA NoneApart == None \notin Nat /\ None # "LONG" /\ None # "SHORT"
  BY ParamsAssumption DEF Sides

\* The position s with other extremes.
Moved(s, b, w) == [s EXCEPT !.best = b, !.worst = w]

\* Moving the extremes of an open position keeps the shape.
LEMMA MovedSound ==
  ASSUME NEW s, Sound(s), s.side # None, NEW b \in Nat, NEW w \in Nat
  PROVE  /\ Sound(Moved(s, b, w))
         /\ Moved(s, b, w).best = b /\ Moved(s, b, w).worst = w
         /\ Moved(s, b, w).side = s.side /\ Moved(s, b, w).entry = s.entry
         /\ Moved(s, b, w).armed = s.armed /\ Moved(s, b, w).age = s.age
         /\ Moved(s, b, w).since = s.since
<1> USE DEF Moved
<1>1. Moved(s, b, w) \in State
  BY DEF Sound, State, Optional
<1>2. Shape(Moved(s, b, w))
  BY NoneApart DEF Sound, Shape, State
<1> QED BY <1>1, <1>2 DEF Sound, State

\* An open position has natural numbers where a flat one has None.
LEMMA PositionType ==
  ASSUME NEW s, Sound(s), s.side # None
  PROVE  /\ s.entry \in Nat /\ s.entryAtr \in Nat
         /\ s.best \in Nat /\ s.worst \in Nat /\ s.bars \in Nat
         /\ s.side \in {"LONG", "SHORT"}
  BY DEF Sound, Shape, State, Optional, Sides

\* Taking in a price keeps the shape, and the extremes bracket both the entry
\* and that price afterwards.
LEMMA ExtremesSound ==
  ASSUME NEW s, Held(s), NEW p \in Nat
  PROVE  /\ Sound(Extremes(s, p))
         /\ Brackets(Extremes(s, p), s.entry) /\ Brackets(Extremes(s, p), p)
         /\ Extremes(s, p).side = s.side /\ Extremes(s, p).entry = s.entry
         /\ Extremes(s, p).armed = s.armed /\ Extremes(s, p).age = s.age
         /\ Extremes(s, p).since = s.since
<1>1. CASE s.side = None
  BY <1>1, NoneApart DEF Held, Extremes, Brackets
<1>2. CASE s.side # None
  <2>1. /\ s.best \in Nat /\ s.worst \in Nat /\ s.entry \in Nat
        /\ s.side \in {"LONG", "SHORT"} /\ Sound(s)
    BY <1>2, PositionType DEF Held
  <2>2. Gain(s, s.worst, s.entry) >= 0 /\ Gain(s, s.best, s.entry) <= 0
    BY <1>2 DEF Held, Brackets
  <2>3. PICK b \in Nat, w \in Nat :
          /\ Extremes(s, p) = Moved(s, b, w)
          /\ IF s.side = "LONG" THEN b >= s.best /\ b >= p /\ w <= s.worst /\ w <= p
                                ELSE b <= s.best /\ b <= p /\ w >= s.worst /\ w >= p
    <3>1. CASE s.side = "LONG"
      <4>1. Extremes(s, p) = Moved(s, Larger(s.best, p), Smaller(s.worst, p))
        BY <3>1 DEF Extremes, Moved
      <4>2. Larger(s.best, p) \in Nat /\ Smaller(s.worst, p) \in Nat
        BY <2>1 DEF Larger, Smaller
      <4>3. /\ Larger(s.best, p) >= s.best /\ Larger(s.best, p) >= p
            /\ Smaller(s.worst, p) <= s.worst /\ Smaller(s.worst, p) <= p
        BY <2>1 DEF Larger, Smaller
      <4> QED BY <3>1, <4>1, <4>2, <4>3
    <3>2. CASE s.side = "SHORT"
      <4>1. Extremes(s, p) = Moved(s, Smaller(s.best, p), Larger(s.worst, p))
        BY <3>2 DEF Extremes, Moved
      <4>2. Smaller(s.best, p) \in Nat /\ Larger(s.worst, p) \in Nat
        BY <2>1 DEF Larger, Smaller
      <4>3. /\ Smaller(s.best, p) <= s.best /\ Smaller(s.best, p) <= p
            /\ Larger(s.worst, p) >= s.worst /\ Larger(s.worst, p) >= p
        BY <2>1 DEF Larger, Smaller
      <4> QED BY <3>2, <4>1, <4>2, <4>3
    <3> QED BY <2>1, <3>1, <3>2
  <2> DEFINE x == Extremes(s, p)
  <2>4. /\ Sound(x) /\ x.best = b /\ x.worst = w /\ x.side = s.side /\ x.entry = s.entry
        /\ x.armed = s.armed /\ x.age = s.age /\ x.since = s.since
    BY <1>2, <2>1, <2>3, MovedSound
  <2> HIDE DEF x
  <2>5. Brackets(x, s.entry) /\ Brackets(x, p)
    BY <2>1, <2>2, <2>3, <2>4 DEF Brackets, Gain
  <2> QED BY <2>4, <2>5 DEF x
<1> QED BY <1>1, <1>2

\* The state every branch starts from.
LEMMA JudgedSound ==
  ASSUME NEW s, Held(s), NEW c \in CandleType
  PROVE  /\ Sound(Judged(s, c)) /\ NotStale(Judged(s, c))
         /\ Brackets(Judged(s, c), Judged(s, c).entry)
         /\ Brackets(Judged(s, c), c.close)
         /\ Judged(s, c).since >= 1
<1> DEFINE t == Tick(s)
           u == IF Expired(t) THEN Disarm(t) ELSE t
<1>1. c.close \in Nat
  BY DEF CandleType
<1>2. /\ Sound(t) /\ t.side = s.side /\ t.entry = s.entry
      /\ t.best = s.best /\ t.worst = s.worst /\ t.since >= 1
  BY TickSound DEF Held
<1>3. /\ Sound(u) /\ u.side = s.side /\ u.entry = s.entry
      /\ u.best = s.best /\ u.worst = s.worst /\ u.since >= 1
  BY <1>2, DisarmSound
<1>4. NotStale(u)
  <2>1. CASE Expired(t)
    BY <1>2, <2>1, DisarmSound DEF NotStale
  <2>2. CASE ~Expired(t)
    <3>1. u = t
      BY <2>2
    <3>2. t.armed => t.side = None
      BY <1>2 DEF Sound, Shape, State
    <3>3. t.age \in Nat
      BY <1>2 DEF Sound, State
    <3>4. MaxSetupBars # None => MaxSetupBars \in Nat
      BY ParamsAssumption DEF Optional
    <3> QED BY <2>2, <3>1, <3>2, <3>3, <3>4 DEF Expired, NotStale
  <2> QED BY <2>1, <2>2
<1>5. Held(u)
  BY <1>3 DEF Held, Brackets, Gain
<1>6. Judged(s, c) = Extremes(u, c.close)
  BY DEF Judged
<1> HIDE DEF u
<1> QED BY <1>1, <1>3, <1>4, <1>5, <1>6, ExtremesSound DEF NotStale

\* Loading the snapshot keeps everything but the age of the last event.
LEMMA RestoredHeld ==
  ASSUME NEW s, Held(s)
  PROVE  Held(Restored(s))
<1>1. Restored(s) \in State
  BY ParamsAssumption DEF Held, Sound, State, Restored
<1>2. Shape(Restored(s))
  BY DEF Held, Sound, Shape, State, Restored
<1>3. Brackets(Restored(s), Restored(s).entry)
  BY DEF Held, Sound, State, Brackets, Gain, Restored
<1> QED BY <1>1, <1>2, <1>3 DEF Held, Sound

-----------------------------------------------------------------------------
(* One candle. *)

\* Closing a position leaves a flat state, ready to be armed.
LEMMA CloseSound ==
  ASSUME NEW s, Sound(s), s.side # None
  PROVE  Sound(Close(s)) /\ Close(s).side = None /\ Close(s).since = 0
<1>1. Close(s) \in State
  BY DEF Sound, State, Close, Optional
<1>2. Shape(Close(s))
  BY DEF Sound, Shape, State, Close
<1> QED BY <1>1, <1>2 DEF Sound, State, Close

\* Arming a flat state.
LEMMA ArmSound ==
  ASSUME NEW s, Sound(s), s.side = None, NEW c \in CandleType
  PROVE  /\ Sound(Arm(s, c)) /\ Arm(s, c).side = None
         /\ Arm(s, c).age = 0 /\ Arm(s, c).since = s.since
<1>1. c.close \in Nat /\ c.atr \in Nat
  BY DEF CandleType
<1>2. Arm(s, c) \in State
  BY <1>1 DEF Sound, State, Arm, Optional
<1>3. Shape(Arm(s, c))
  BY <1>1, NoneApart DEF Sound, Shape, State, Arm
<1> QED BY <1>2, <1>3 DEF Sound, State, Arm

\* Opening a position ends the setup, and starts its extremes at the entry.
LEMMA OpenSound ==
  ASSUME NEW s, Sound(s), NEW d \in {"LONG", "SHORT"}, NEW c \in CandleType
  PROVE  /\ Sound(Disarm(Open(s, d, c))) /\ ~Disarm(Open(s, d, c)).armed
         /\ Disarm(Open(s, d, c)).since = 0
         /\ Disarm(Open(s, d, c)).entry = c.close
         /\ Brackets(Disarm(Open(s, d, c)), c.close)
<1> DEFINE x == Disarm(Open(s, d, c))
<1>1. c.close \in Nat /\ c.atr \in Nat
  BY DEF CandleType
<1>2. x \in State
  BY <1>1 DEF Sound, State, Open, Disarm, Optional, Sides
<1>3. /\ ~x.armed /\ x.refPrice = None /\ x.refAtr = None /\ x.side = d
      /\ x.entry = c.close /\ x.entryAtr = c.atr /\ x.best = c.close
      /\ x.worst = c.close /\ x.since = 0
  BY DEF Sound, State, Open, Disarm
<1> HIDE DEF x
<1>4. Shape(x)
  BY <1>1, <1>3, NoneApart DEF Shape
<1>5. Brackets(x, c.close)
  BY <1>1, <1>3 DEF Brackets, Gain
<1> QED BY <1>2, <1>3, <1>4, <1>5 DEF Sound, x

\* The window ends with the candle's close.
LEMMA WindowSound ==
  ASSUME closes \in Seq(Nat), NEW c \in CandleType
  PROVE  Window(c) \in Seq(Nat) /\ Window(c)[Len(Window(c))] = c.close
<1> DEFINE all == Append(closes, c.close)
<1>1. c.close \in Nat
  BY DEF CandleType
<1>2. /\ all \in Seq(Nat) /\ all # <<>> /\ Len(all) = Len(closes) + 1
      /\ all[Len(all)] = c.close /\ Len(closes) \in Nat
  BY <1>1, AppendProperties
<1>3. Keep \in Nat \ {0}
  BY ParamsAssumption DEF Keep, Optional
<1>4. CASE Len(all) > Keep
  <2>1. /\ Tail(all) \in Seq(Nat) /\ Len(Tail(all)) = Len(all) - 1
        /\ \A i \in 1..Len(Tail(all)) : Tail(all)[i] = all[i + 1]
    BY <1>2, HeadTailProperties
  <2>2. Len(Tail(all)) \in 1..Len(Tail(all))
    BY <1>2, <1>3, <1>4, <2>1
  <2>3. Tail(all)[Len(Tail(all))] = all[Len(all)]
    BY <1>2, <2>1, <2>2
  <2> QED BY <1>2, <1>4, <2>1, <2>3 DEF Window
<1>5. CASE ~(Len(all) > Keep)
  BY <1>2, <1>5 DEF Window
<1> QED BY <1>4, <1>5

\* RiskLimits of an arbitrary operational state and close.
WithinRisk(s, p) == s.side # None /\ CanFire(s) => ~MaxLossHit(s, p) /\ ~TimeoutHit(s)

\* What a candle that closed at p leaves behind.
Left(s, p) ==
    /\ Sound(s) /\ NotStale(s) /\ WithinRisk(s, p)
    /\ Brackets(s, s.entry) /\ Brackets(s, p)

\* A flat state meets every condition on positions.
LEMMA FlatLeft ==
  ASSUME NEW s, Sound(s), NotStale(s), s.side = None, NEW p
  PROVE  Left(s, p)
  BY DEF Left, WithinRisk, Brackets

\* When no exit is hit, the loss and the age of the position are in bounds.
LEMMA NoExitWithinRisk ==
  ASSUME NEW s, NEW c, ExitHits(s, c) = {}
  PROVE  ~MaxLossHit(s, c.close) /\ ~TimeoutHit(s)
<1>1. 1 \in DOMAIN ExitOrder /\ ExitOrder[1] = "MAX_LOSS_STOP"
  BY DEF ExitOrder
<1>2. 5 \in DOMAIN ExitOrder /\ ExitOrder[5] = "MAX_BARS_EXIT"
  BY DEF ExitOrder
<1> QED BY <1>1, <1>2 DEF ExitHits

\* The position an entry opens is on a side the trade mode takes.
LEMMA DesiredSideType ==
  ASSUME NEW s, NEW p, DesiredSide(s, p) # None
  PROVE  DesiredSide(s, p) \in {"LONG", "SHORT"}
  BY DEF DesiredSide

\* One turn of the loop, in whichever branch, leaves a sound state that is in
\* its bounds, and a typed event and signal.
LEMMA CandleLeaves ==
  ASSUME NEW p, Held(p), NEW c \in CandleType, Candle(p, c)
  PROVE  /\ Left(rt', c.close)
         /\ event' \in Optional(Events)
         /\ signal' \in Optional({"OPEN_LONG", "OPEN_SHORT", "CLOSE_LONG", "CLOSE_SHORT"})
<1> DEFINE s == Judged(p, c)
           w == Window(c)
           Signals == Optional({"OPEN_LONG", "OPEN_SHORT", "CLOSE_LONG", "CLOSE_SHORT"})
<1>1. /\ Sound(s) /\ NotStale(s) /\ Brackets(s, s.entry) /\ Brackets(s, c.close)
      /\ s.since >= 1
  BY JudgedSound
<1>2. \/ ExitPosition(s, c) \/ LowAtrExit(s, c) \/ KeepPosition(s, c) \/ ArmSetup(s, c)
      \/ BlockEntry(s, c, w) \/ OpenPosition(s, c, w) \/ StayFlat(s, c, Expired(Tick(p)))
  BY DEF Candle
<1> HIDE DEF s, w
<1>3. CASE ExitPosition(s, c)
  <2>1. rt' = Disarm(Close(s)) /\ s.side # None
    BY <1>3 DEF ExitPosition
  <2>2. Sound(rt') /\ NotStale(rt') /\ rt'.side = None
    BY <1>1, <2>1, CloseSound, DisarmSound DEF NotStale
  <2>3. event' \in Optional(Events) /\ signal' \in Signals
    BY <1>3 DEF ExitPosition, CloseSignal, Optional, Events
  <2> QED BY <2>2, <2>3, FlatLeft
<1>4. CASE LowAtrExit(s, c)
  <2>1. rt' = Arm(Close(s), c) /\ s.side # None
    BY <1>4 DEF LowAtrExit
  <2>2. Sound(rt') /\ rt'.side = None /\ rt'.age = 0
    BY <1>1, <2>1, CloseSound, ArmSound
  <2>3. NotStale(rt')
    BY <2>2, ParamsAssumption DEF NotStale, Optional
  <2>4. event' \in Optional(Events) /\ signal' \in Signals
    BY <1>4 DEF LowAtrExit, CloseSignal, Optional, Events
  <2> QED BY <2>2, <2>3, <2>4, FlatLeft
<1>5. CASE KeepPosition(s, c)
  <2>1. rt' = s /\ s.side # None /\ (CanFire(s) => ExitHits(s, c) = {})
    BY <1>5 DEF KeepPosition
  <2>2. WithinRisk(s, c.close)
    BY <2>1, NoExitWithinRisk DEF WithinRisk
  <2>3. event' \in Optional(Events) /\ signal' \in Signals
    BY <1>5 DEF KeepPosition, Optional
  <2> QED BY <1>1, <2>1, <2>2, <2>3 DEF Left
<1>6. CASE ArmSetup(s, c)
  <2>1. rt' = Arm(s, c) /\ s.side = None
    BY <1>6 DEF ArmSetup
  <2>2. Sound(rt') /\ rt'.side = None /\ rt'.age = 0
    BY <1>1, <2>1, ArmSound
  <2>3. NotStale(rt')
    BY <2>2, ParamsAssumption DEF NotStale, Optional
  <2>4. event' \in Optional(Events) /\ signal' \in Signals
    BY <1>6 DEF ArmSetup, Optional, Events
  <2> QED BY <2>2, <2>3, <2>4, FlatLeft
<1>7. CASE BlockEntry(s, c, w)
  <2>1. rt' = s /\ s.side = None
    BY <1>7 DEF BlockEntry, MayEnter
  <2>2. event' \in Optional(Events) /\ signal' \in Signals
    BY <1>7 DEF BlockEntry, Optional, Events
  <2> QED BY <1>1, <2>1, <2>2, FlatLeft
<1>8. CASE OpenPosition(s, c, w)
  <2> DEFINE d == DesiredSide(s, c.close)
  <2>1. rt' = Disarm(Open(s, d, c)) /\ d # None
    BY <1>8 DEF OpenPosition, MayEnter
  <2>2. d \in {"LONG", "SHORT"}
    BY <2>1, DesiredSideType
  <2> HIDE DEF d
  <2>3. /\ Sound(rt') /\ ~rt'.armed /\ rt'.since = 0 /\ rt'.entry = c.close
        /\ Brackets(rt', c.close)
    BY <1>1, <2>1, <2>2, OpenSound
  <2>4. ~CanFire(rt')
    BY <2>3, ParamsAssumption DEF CanFire
  <2>5. event' \in Optional(Events) /\ signal' \in Signals
    BY <1>8 DEF OpenPosition, Optional, Events
  <2> QED BY <2>3, <2>4, <2>5 DEF Left, NotStale, WithinRisk
<1>9. CASE StayFlat(s, c, Expired(Tick(p)))
  <2>1. rt' = s /\ s.side = None
    BY <1>9 DEF StayFlat
  <2>2. event' \in Optional(Events) /\ signal' \in Signals
    BY <1>9 DEF StayFlat, Optional, Events
  <2> QED BY <1>1, <2>1, <2>2, FlatLeft
<1> QED BY <1>2, <1>3, <1>4, <1>5, <1>6, <1>7, <1>8, <1>9

-----------------------------------------------------------------------------
(* The strategy. *)

\* The invariant that carries all the others.
Inv ==
    /\ TypeOK
    /\ Held(rt) /\ NotStale(rt)
    /\ rt.side # None =>
          WithinRisk(rt, closes[Len(closes)]) /\ Brackets(rt, closes[Len(closes)])

\* Every step of the loop preserves it.
LEMMA Invariance == Spec => []Inv
<1>1. Init => Inv
  <2> SUFFICES ASSUME Init PROVE Inv
    OBVIOUS
  <2> USE ParamsAssumption DEF Init
  <2>1. rt \in State /\ Shape(rt)
    BY DEF Fresh, State, Shape, Optional
  <2>2. rt.side = None /\ ~rt.armed
    BY DEF Fresh
  <2>3. TypeOK
    BY <2>1 DEF TypeOK, Optional
  <2> QED BY <2>1, <2>2, <2>3 DEF Inv, Held, Sound, NotStale, Brackets
<1>2. Inv /\ [Next]_vars => Inv'
  <2> SUFFICES ASSUME Inv, [Next]_vars PROVE Inv'
    OBVIOUS
  <2>1. CASE UNCHANGED vars
    BY <2>1 DEF vars, Inv, TypeOK, Held, NotStale, WithinRisk, Brackets, Sound, Shape,
                Gain, CanFire, MaxLossHit, TimeoutHit
  <2>2. ASSUME NEW c \in Candles, NEW p, Held(p), Candle(p, c), evals' \in 0..MaxEvaluations
        PROVE  Inv'
    <3>1. c \in CandleType
      BY ParamsAssumption
    <3>2. /\ Left(rt', c.close)
          /\ event' \in Optional(Events)
          /\ signal' \in Optional({"OPEN_LONG", "OPEN_SHORT", "CLOSE_LONG", "CLOSE_SHORT"})
      BY <2>2, <3>1, CandleLeaves
    <3>3. closes' \in Seq(Nat) /\ closes'[Len(closes')] = c.close
      BY <2>2, <3>1, WindowSound DEF Candle, Inv, TypeOK
    <3>4. bar' \in 0..Horizon /\ fired' \in Optional(0..Horizon)
      BY <2>2, ParamsAssumption DEF Candle, Inv, TypeOK, Optional
    <3>5. TypeOK'
      BY <2>2, <3>2, <3>3, <3>4 DEF TypeOK, Left, Sound
    <3>6. /\ Sound(rt)' /\ NotStale(rt)' /\ Brackets(rt, rt.entry)'
          /\ WithinRisk(rt, closes[Len(closes)])' /\ Brackets(rt, closes[Len(closes)])'
      BY <3>2, <3>3 DEF Left
    <3> QED BY <3>5, <3>6 DEF Inv, Held
  <2>3. ASSUME NEW c \in Candles, FirstCandle(c) PROVE Inv'
    <3>1. Held(Restored(rt))
      BY RestoredHeld DEF Inv
    <3>2. evals' \in 0..MaxEvaluations
      BY <2>3, ParamsAssumption DEF FirstCandle, Inv, TypeOK
    <3> QED BY <2>2, <2>3, <3>1, <3>2 DEF FirstCandle
  <2>4. ASSUME NEW c \in Candles, NextCandle(c) PROVE Inv'
    <3>1. Held(rt) /\ evals' \in 0..MaxEvaluations
      BY <2>4 DEF NextCandle, Inv, TypeOK
    <3> QED BY <2>2, <2>4, <3>1 DEF NextCandle
  <2> QED BY <2>1, <2>3, <2>4 DEF Next
<1> QED BY <1>1, <1>2, PTL DEF Spec

\* Every variable keeps the values the code can give it.
THEOREM TypeCorrect == Spec => []TypeOK
<1>1. Inv => TypeOK
  BY DEF Inv
<1> QED BY <1>1, Invariance, PTL

\* Flat, armed or in a position, always with exactly the locals that go with it.
THEOREM StateIsConsistent == Spec => []StateConsistent
<1>1. Inv => StateConsistent
  BY DEF Inv, Held, Sound, Shape, StateConsistent
<1> QED BY <1>1, Invariance, PTL

\* No setup outlives max_setup_bars.
THEOREM SetupsExpire == Spec => []SetupNotStale
<1>1. Inv => SetupNotStale
  BY DEF Inv, NotStale, SetupNotStale
<1> QED BY <1>1, Invariance, PTL

\* The extremes bracket the entry and the last close.
THEOREM ExtremesAreRight == Spec => []ExtremesBracket
<1>1. Inv => ExtremesBracket
  BY DEF Inv, Held, Brackets, ExtremesBracket
<1> QED BY <1>1, Invariance, PTL

\* No position out of its cool-off survives a close beyond max_loss_pct or
\* grows older than max_bars_in_trade.
THEOREM RiskIsLimited == Spec => []RiskLimits
<1>1. Inv => RiskLimits
  BY DEF Inv, WithinRisk, RiskLimits
<1> QED BY <1>1, Invariance, PTL

-----------------------------------------------------------------------------
(***************************************************************************)
(* The cool-off.  Within the first evaluation the counter of the           *)
(* operational state tells how long ago the last event was.                *)
(***************************************************************************)

\* A candle makes the last event one candle older, or fires one, and then the
\* cool-off was over.
LEMMA SinceMoves ==
  ASSUME NEW p, Held(p), NEW c \in CandleType, Candle(p, c)
  PROVE  /\ p.since \in Nat
         /\ \/ rt'.since = p.since + 1
            \/ rt'.since = 0 /\ p.since + 1 > CooloffBars
<1> DEFINE s == Judged(p, c)
           w == Window(c)
<1>1. p.since \in Nat /\ Sound(s)
  BY JudgedSound DEF Held, Sound, State
<1>2. s.since = p.since + 1
  <2> DEFINE t == Tick(p)
             u == IF Expired(t) THEN Disarm(t) ELSE t
  <2>1. Sound(t) /\ t.side = p.side /\ t.entry = p.entry /\ t.best = p.best /\ t.worst = p.worst
    BY TickSound DEF Held
  <2>2. t.since = p.since + 1
    BY DEF Tick, Held, Sound, State
  <2>3. /\ Sound(u) /\ u.side = p.side /\ u.entry = p.entry /\ u.best = p.best
        /\ u.worst = p.worst /\ u.since = p.since + 1
    BY <2>1, <2>2, DisarmSound
  <2>4. Held(u)
    BY <2>3 DEF Held, Brackets, Gain
  <2>5. s = Extremes(u, c.close) /\ c.close \in Nat
    BY DEF Judged, CandleType
  <2> HIDE DEF s, u
  <2> QED BY <2>3, <2>4, <2>5, ExtremesSound
<1>3. \/ ExitPosition(s, c) \/ LowAtrExit(s, c) \/ KeepPosition(s, c) \/ ArmSetup(s, c)
      \/ BlockEntry(s, c, w) \/ OpenPosition(s, c, w) \/ StayFlat(s, c, Expired(Tick(p)))
  BY DEF Candle
<1> HIDE DEF s, w
<1>4. CASE ExitPosition(s, c) \/ LowAtrExit(s, c)
  <2>1. (rt' = Disarm(Close(s)) \/ rt' = Arm(Close(s), c)) /\ s.side # None /\ CanFire(s)
    BY <1>4 DEF ExitPosition, LowAtrExit
  <2>2. rt'.since = 0
    BY <1>1, <2>1, CloseSound, DisarmSound, ArmSound
  <2> QED BY <1>1, <1>2, <2>1, <2>2 DEF CanFire
<1>5. CASE OpenPosition(s, c, w)
  <2> DEFINE d == DesiredSide(s, c.close)
  <2>1. rt' = Disarm(Open(s, d, c)) /\ d # None /\ CanFire(s)
    BY <1>5 DEF OpenPosition, MayEnter
  <2>2. d \in {"LONG", "SHORT"}
    BY <2>1, DesiredSideType
  <2> HIDE DEF d
  <2>3. rt'.since = 0
    BY <1>1, <2>1, <2>2, OpenSound
  <2> QED BY <1>1, <1>2, <2>1, <2>3 DEF CanFire
<1>6. CASE ArmSetup(s, c)
  BY <1>1, <1>2, <1>6, ArmSound DEF ArmSetup
<1>7. CASE KeepPosition(s, c) \/ BlockEntry(s, c, w) \/ StayFlat(s, c, Expired(Tick(p)))
  BY <1>1, <1>2, <1>7 DEF KeepPosition, BlockEntry, StayFlat
<1> QED BY <1>3, <1>4, <1>5, <1>6, <1>7

CooloffInv ==
    /\ evals = 0 => fired = None
    /\ evals = 1 /\ fired # None => fired \in 0..bar /\ rt.since = bar - fired

LEMMA CooloffStep ==
  Inv /\ CooloffInv /\ [Next]_vars =>
      /\ CooloffInv'
      /\ evals' = 1 /\ fired' # fired /\ fired # None => fired' - fired > CooloffBars
<1> SUFFICES ASSUME Inv, CooloffInv, [Next]_vars
             PROVE  /\ CooloffInv'
                    /\ evals' = 1 /\ fired' # fired /\ fired # None => fired' - fired > CooloffBars
  OBVIOUS
<1>0. bar \in Nat /\ evals \in Nat /\ CooloffBars \in Nat
  BY ParamsAssumption DEF Inv, TypeOK
<1>1. CASE UNCHANGED vars
  BY <1>1 DEF vars, CooloffInv
<1>2. ASSUME NEW c \in Candles, FirstCandle(c)
      PROVE  /\ CooloffInv'
             /\ evals' = 1 /\ fired' # fired /\ fired # None => fired' - fired > CooloffBars
  <2>1. evals' = evals + 1 /\ bar' = bar + 1 /\ fired' = IF rt'.since = 0 THEN bar' ELSE fired
    BY <1>2 DEF FirstCandle, Candle
  <2>2. CASE evals = 0
    <3>1. fired = None
      BY <2>2 DEF CooloffInv
    <3>2. bar' # None /\ bar' \in 0..bar' /\ bar' - bar' = 0
      BY <1>0, <2>1, ParamsAssumption
    <3>3. evals' = 1 /\ (fired' = None \/ (rt'.since = 0 /\ fired' = bar'))
      BY <2>1, <2>2, <3>1
    <3>4. CooloffInv'
      BY <3>2, <3>3 DEF CooloffInv
    <3> QED BY <3>1, <3>4
  <2>3. CASE evals # 0
    <3>1. evals' # 0 /\ evals' # 1
      BY <1>0, <2>1, <2>3
    <3> QED BY <3>1 DEF CooloffInv
  <2> QED BY <2>2, <2>3
<1>3. ASSUME NEW c \in Candles, NextCandle(c)
      PROVE  /\ CooloffInv'
             /\ evals' = 1 /\ fired' # fired /\ fired # None => fired' - fired > CooloffBars
  <2>1. /\ evals' = evals /\ evals > 0 /\ bar' = bar + 1
        /\ fired' = IF rt'.since = 0 THEN bar' ELSE fired
    BY <1>3 DEF NextCandle, Candle
  <2>2. /\ rt.since \in Nat
        /\ rt'.since = rt.since + 1 \/ (rt'.since = 0 /\ rt.since + 1 > CooloffBars)
    BY <1>3, SinceMoves, ParamsAssumption DEF NextCandle, Inv
  <2>3. CASE rt'.since = 0 /\ rt.since + 1 > CooloffBars
    <3>1. fired' = bar' /\ bar' \in 0..bar' /\ bar' - bar' = 0
      BY <1>0, <2>1, <2>3
    <3>2. CooloffInv'
      BY <1>0, <2>1, <2>3, <3>1 DEF CooloffInv
    <3>3. evals = 1 /\ fired # None => fired \in 0..bar /\ rt.since = bar - fired
      BY DEF CooloffInv
    <3> QED BY <1>0, <2>1, <2>2, <2>3, <3>1, <3>2, <3>3
  <2>4. CASE rt'.since = rt.since + 1
    <3>1. fired' = fired
      BY <2>1, <2>2, <2>4
    <3>2. evals' = 1 /\ fired' # None => fired' \in 0..bar' /\ rt'.since = bar' - fired'
      BY <1>0, <2>1, <2>2, <2>4, <3>1 DEF CooloffInv
    <3> QED BY <1>0, <2>1, <3>1, <3>2 DEF CooloffInv
  <2> QED BY <2>2, <2>3, <2>4
<1> QED BY <1>1, <1>2, <1>3 DEF Next

\* Between two events that open or close a position more than cooloff_bars
\* candles pass, within one evaluation.
THEOREM CooloffHolds == Spec => CooloffRespected
<1>1. Init => CooloffInv
  BY DEF Init, CooloffInv
<1>2. CooloffInv /\ Inv /\ [Next]_vars =>
        [evals' = 1 /\ fired' # fired /\ fired # None => fired' - fired > CooloffBars]_vars
  BY CooloffStep
<1> QED BY <1>1, <1>2, CooloffStep, Invariance, PTL DEF Spec, CooloffRespected

-----------------------------------------------------------------------------
(***************************************************************************)
(* Restarts.  A turn of the loop is determined by the operational state it *)
(* starts from, the candle and the window; loading a snapshot gives that   *)
(* state back unless it was stored right after an event.                   *)
(***************************************************************************)

\* What a branch may leave of the judged state s: operational state, event, signal.
Outcome(s, c, w, expired, r, e, g) ==
    \/ /\ s.side # None /\ CanFire(s)
       /\ \E i \in DOMAIN ExitOrder : First(i, ExitHits(s, c)) /\ e = ExitOrder[i]
       /\ g = CloseSignal(s) /\ r = Disarm(Close(s))
    \/ /\ s.side # None /\ CanFire(s) /\ ExitHits(s, c) = {} /\ c.low
       /\ e = "ATR_LOW_EXIT" /\ g = CloseSignal(s) /\ r = Arm(Close(s), c)
    \/ /\ s.side # None /\ (CanFire(s) => ExitHits(s, c) = {} /\ ~c.low)
       /\ e = None /\ g = None /\ r = s
    \/ /\ s.side = None /\ c.low
       /\ e = "ARM_ON_LOW_ATR" /\ g = None /\ r = Arm(s, c)
    \/ /\ MayEnter(s, c)
       /\ \E b \in DOMAIN BlockOrder :
             First(b, Blocks(s, DesiredSide(s, c.close), c, w)) /\ e = BlockOrder[b]
       /\ g = None /\ r = s
    \/ /\ MayEnter(s, c) /\ Blocks(s, DesiredSide(s, c.close), c, w) = {}
       /\ e = IF DesiredSide(s, c.close) = "LONG" THEN "OPEN_LONG" ELSE "OPEN_SHORT"
       /\ g = e /\ r = Disarm(Open(s, DesiredSide(s, c.close), c))
    \/ /\ s.side = None /\ ~c.low /\ ~MayEnter(s, c)
       /\ e = (IF expired THEN "SETUP_EXPIRED" ELSE None) /\ g = None /\ r = s

\* The first alternative is one only.
LEMMA FirstIsOne ==
  ASSUME NEW H \in SUBSET Int, NEW i, NEW j, First(i, H), First(j, H)
  PROVE  i = j
<1>1. i \in Int /\ j \in Int /\ i <= j /\ j <= i
  BY DEF First
<1> QED BY <1>1

LEMMA OutcomeIsOne ==
  ASSUME NEW s, NEW c, NEW w, NEW x, NEW r1, NEW e1, NEW g1, NEW r2, NEW e2, NEW g2,
         Outcome(s, c, w, x, r1, e1, g1), Outcome(s, c, w, x, r2, e2, g2)
  PROVE  r1 = r2 /\ e1 = e2 /\ g1 = g2
<1> DEFINE H == ExitHits(s, c)
           B == Blocks(s, DesiredSide(s, c.close), c, w)
<1>1. H \in SUBSET Int /\ B \in SUBSET Int
  BY DEF ExitHits, Blocks, ExitOrder, BlockOrder
<1>2. \A i : First(i, H) => H # {}
  BY DEF First
<1>3. \A i : First(i, B) => B # {}
  BY DEF First
<1>4. \A i, j : First(i, H) /\ First(j, H) => i = j
  BY <1>1, FirstIsOne
<1>5. \A i, j : First(i, B) /\ First(j, B) => i = j
  BY <1>1, FirstIsOne
<1>6. MayEnter(s, c) => s.side = None /\ ~c.low
  BY DEF MayEnter
<1> HIDE DEF H, B
<1>7. CASE s.side # None /\ CanFire(s) /\ H # {}
  <2>1. \A r, e, g : Outcome(s, c, w, x, r, e, g) =>
           /\ \E i \in DOMAIN ExitOrder : First(i, H) /\ e = ExitOrder[i]
           /\ g = CloseSignal(s) /\ r = Disarm(Close(s))
    BY <1>6, <1>7 DEF Outcome, H
  <2> QED BY <1>4, <2>1
<1>8. CASE s.side # None /\ CanFire(s) /\ H = {} /\ c.low
  <2>1. \A r, e, g : Outcome(s, c, w, x, r, e, g) =>
           e = "ATR_LOW_EXIT" /\ g = CloseSignal(s) /\ r = Arm(Close(s), c)
    BY <1>2, <1>6, <1>8 DEF Outcome, H
  <2> QED BY <2>1
<1>9. CASE s.side # None /\ (CanFire(s) => H = {} /\ ~c.low)
  <2>1. \A r, e, g : Outcome(s, c, w, x, r, e, g) => e = None /\ g = None /\ r = s
    BY <1>2, <1>6, <1>9 DEF Outcome, H
  <2> QED BY <2>1
<1>10. CASE s.side = None /\ c.low
  <2>1. \A r, e, g : Outcome(s, c, w, x, r, e, g) =>
           e = "ARM_ON_LOW_ATR" /\ g = None /\ r = Arm(s, c)
    BY <1>6, <1>10 DEF Outcome
  <2> QED BY <2>1
<1>11. CASE MayEnter(s, c) /\ B # {}
  <2>1. \A r, e, g : Outcome(s, c, w, x, r, e, g) =>
           /\ \E b \in DOMAIN BlockOrder : First(b, B) /\ e = BlockOrder[b]
           /\ g = None /\ r = s
    BY <1>6, <1>11 DEF Outcome, B
  <2> QED BY <1>5, <2>1
<1>12. CASE MayEnter(s, c) /\ B = {}
  <2>1. \A r, e, g : Outcome(s, c, w, x, r, e, g) =>
           /\ e = IF DesiredSide(s, c.close) = "LONG" THEN "OPEN_LONG" ELSE "OPEN_SHORT"
           /\ g = e /\ r = Disarm(Open(s, DesiredSide(s, c.close), c))
    BY <1>3, <1>6, <1>12 DEF Outcome, B
  <2> QED BY <2>1
<1>13. CASE s.side = None /\ ~c.low /\ ~MayEnter(s, c)
  <2>1. \A r, e, g : Outcome(s, c, w, x, r, e, g) =>
           e = (IF x THEN "SETUP_EXPIRED" ELSE None) /\ g = None /\ r = s
    BY <1>13 DEF Outcome
  <2> QED BY <2>1
<1> QED BY <1>6, <1>7, <1>8, <1>9, <1>10, <1>11, <1>12, <1>13

\* One turn of the split run and one of the whole run are such outcomes.
LEMMA CandleOutcome ==
  ASSUME NEW p, NEW c, Candle(p, c)
  PROVE  Outcome(Judged(p, c), c, Window(c), Expired(Tick(p)), rt', event', signal')
<1> DEFINE s == Judged(p, c)
           w == Window(c)
           x == Expired(Tick(p))
<1>1. \/ ExitPosition(s, c) \/ LowAtrExit(s, c) \/ KeepPosition(s, c) \/ ArmSetup(s, c)
      \/ BlockEntry(s, c, w) \/ OpenPosition(s, c, w) \/ StayFlat(s, c, x)
  BY DEF Candle
<1> HIDE DEF s, w, x
<1>2. Outcome(s, c, w, x, rt', event', signal')
  BY <1>1 DEF Outcome, ExitPosition, LowAtrExit, KeepPosition, ArmSetup, BlockEntry,
              OpenPosition, StayFlat
<1> QED BY <1>2 DEF s, w, x

LEMMA WholeOperators ==
  /\ \A s : Whole!Disarm(s) = Disarm(s) /\ Whole!Close(s) = Close(s)
  /\ \A s, c : Whole!Arm(s, c) = Arm(s, c)
  /\ \A s, d, c : Whole!Open(s, d, c) = Open(s, d, c)
  /\ \A s : Whole!CloseSignal(s) = CloseSignal(s) /\ (Whole!CanFire(s) <=> CanFire(s))
  /\ Whole!ExitOrder = ExitOrder /\ Whole!BlockOrder = BlockOrder
  /\ \A i, H : Whole!First(i, H) <=> First(i, H)
  /\ \A s, p : Whole!DesiredSide(s, p) = DesiredSide(s, p)
  /\ \A s, c : Whole!MayEnter(s, c) <=> MayEnter(s, c)
  /\ \A s, c : Whole!ExitHits(s, c) = ExitHits(s, c)
  /\ \A s, d, c, w : Whole!Blocks(s, d, c, w) = Blocks(s, d, c, w)
<1>1. /\ \A s : Whole!Disarm(s) = Disarm(s) /\ Whole!Close(s) = Close(s)
      /\ \A s, c : Whole!Arm(s, c) = Arm(s, c)
      /\ \A s, d, c : Whole!Open(s, d, c) = Open(s, d, c)
      /\ \A s : Whole!CloseSignal(s) = CloseSignal(s) /\ (Whole!CanFire(s) <=> CanFire(s))
  BY DEF Whole!Disarm, Disarm, Whole!Close, Close, Whole!Arm, Arm, Whole!Open, Open,
         Whole!CloseSignal, CloseSignal, Whole!CanFire, CanFire
<1>2. /\ Whole!ExitOrder = ExitOrder /\ Whole!BlockOrder = BlockOrder
      /\ \A i, H : Whole!First(i, H) <=> First(i, H)
      /\ \A s, p : Whole!DesiredSide(s, p) = DesiredSide(s, p)
  BY DEF Whole!ExitOrder, ExitOrder, Whole!BlockOrder, BlockOrder, Whole!First, First,
         Whole!DesiredSide, DesiredSide
<1>3. \A s, c : Whole!MayEnter(s, c) <=> MayEnter(s, c)
  BY <1>1, <1>2 DEF Whole!MayEnter, MayEnter
<1>4. \A s, c : Whole!ExitHits(s, c) = ExitHits(s, c)
  BY <1>2 DEF Whole!ExitHits, ExitHits, Whole!MaxLossHit, MaxLossHit, Whole!StopLossHit,
     StopLossHit, Whole!TakeProfitHit, TakeProfitHit, Whole!TrailingStopHit, TrailingStopHit,
     Whole!TrailingActive, TrailingActive, Whole!TimeoutHit, TimeoutHit,
     Whole!RegimeFlipHit, RegimeFlipHit, Whole!Gain, Gain, Whole!Larger, Larger
<1>5. \A s, d, c, w : Whole!Blocks(s, d, c, w) = Blocks(s, d, c, w)
  BY <1>2 DEF Whole!Blocks, Blocks, Whole!RefMoveOk, RefMoveOk, Whole!ConfirmOk, ConfirmOk,
     Whole!ExpansionOk, ExpansionOk, Whole!Distance, Distance
<1> QED BY <1>1, <1>2, <1>3, <1>4, <1>5

LEMMA WholeOutcome ==
  ASSUME NEW p, NEW c, Whole!Candle(p, c)
  PROVE  Outcome(Judged(p, c), c, Window(c), Expired(Tick(p)), wholeRt', wholeEvent', wholeSignal')
<1> DEFINE s == Judged(p, c)
           w == Window(c)
           x == Expired(Tick(p))
<1>1. /\ Whole!Judged(p, c) = s /\ Whole!Window(c) = w /\ Whole!Expired(Whole!Tick(p)) = x
  <2> USE DEF Whole!Tick, Tick, Whole!Expired, Expired
  <2>1. Whole!Window(c) = w
    BY DEF Whole!Window, Window, Whole!Keep, Keep
  <2>2. Whole!Expired(Whole!Tick(p)) = x
    OBVIOUS
  <2>3. Whole!Judged(p, c) = s
    BY DEF Whole!Judged, Judged, Whole!Extremes, Extremes, Whole!Disarm, Disarm,
           Whole!Larger, Larger, Whole!Smaller, Smaller
  <2> QED BY <2>1, <2>2, <2>3
<1>2. \/ Whole!ExitPosition(s, c) \/ Whole!LowAtrExit(s, c) \/ Whole!KeepPosition(s, c)
      \/ Whole!ArmSetup(s, c) \/ Whole!BlockEntry(s, c, w) \/ Whole!OpenPosition(s, c, w)
      \/ Whole!StayFlat(s, c, x)
  BY <1>1 DEF Whole!Candle
<1> HIDE DEF s, w, x
<1>3. Outcome(s, c, w, x, wholeRt', wholeEvent', wholeSignal')
  BY <1>2, WholeOperators
     DEF Outcome, Whole!ExitPosition, Whole!LowAtrExit, Whole!KeepPosition, Whole!ArmSetup,
         Whole!BlockEntry, Whole!OpenPosition, Whole!StayFlat
<1> QED BY <1>3 DEF s, w, x

RestartInv ==
    /\ evals \in Nat /\ wholeEvals \in {0, 1}
    /\ evals = 0 <=> wholeEvals = 0
    /\ evals = 0 => rt = Fresh /\ wholeRt = Fresh
    /\ RestartChangesNothing

LEMMA RestartStep == Inv /\ RestartInv /\ [BothNext]_<<vars, wholeVars>> => RestartInv'
<1> SUFFICES ASSUME Inv, RestartInv, [BothNext]_<<vars, wholeVars>> PROVE RestartInv'
  OBVIOUS
<1>1. CASE UNCHANGED <<vars, wholeVars>>
  BY <1>1 DEF vars, wholeVars, RestartInv, RestartChangesNothing
<1>2. ASSUME NEW c, NEW p, Candle(p, c), Whole!Candle(p, c)
      PROVE  event' = wholeEvent' /\ signal' = wholeSignal' /\ rt' = wholeRt'
  BY <1>2, CandleOutcome, WholeOutcome, OutcomeIsOne
<1>3. ASSUME NEW c \in Candles,
             \/ FirstCandle(c) /\ forgot' = (forgot \/ rt.since = 0)
             \/ NextCandle(c) /\ UNCHANGED forgot,
             Whole!FirstCandle(c) \/ (wholeEvals = 1 /\ Whole!NextCandle(c))
      PROVE  RestartInv'
  <2>1. evals' \in Nat /\ evals' # 0 /\ wholeEvals' = 1
    BY <1>3 DEF RestartInv, FirstCandle, NextCandle, Whole!FirstCandle, Whole!NextCandle
  <2>2. CASE evals = 0
    <3>1. Candle(Restored(Fresh), c) /\ Whole!Candle(Restored(Fresh), c)
      BY <1>3, <2>2 DEF RestartInv, FirstCandle, NextCandle, Whole!FirstCandle,
                        Whole!NextCandle, Whole!Restored, Restored
    <3> QED BY <1>2, <2>1, <3>1 DEF RestartInv, RestartChangesNothing
  <2>3. CASE evals # 0
    <3>1. wholeEvals = 1 /\ Whole!Candle(wholeRt, c)
      BY <1>3, <2>3 DEF RestartInv, Whole!FirstCandle, Whole!NextCandle
    <3>2. ~forgot' => Candle(rt, c) /\ ~forgot
      <4> SUFFICES ASSUME ~forgot', FirstCandle(c), forgot' = (forgot \/ rt.since = 0)
                   PROVE  Candle(rt, c) /\ ~forgot
        BY <1>3 DEF NextCandle
      <4>1. ~forgot /\ rt.since # 0
        OBVIOUS
      <4>2. rt \in State
        BY DEF Inv, TypeOK
      <4>3. Restored(rt) = rt
        BY <4>1, <4>2 DEF Restored, State
      <4> QED BY <4>1, <4>3 DEF FirstCandle
    <3>3. ~forgot => rt = wholeRt
      BY DEF RestartInv, RestartChangesNothing
    <3>4. ~forgot' => event' = wholeEvent' /\ signal' = wholeSignal' /\ rt' = wholeRt'
      BY <1>2, <3>1, <3>2, <3>3
    <3> QED BY <2>1, <3>4 DEF RestartInv, RestartChangesNothing
  <2> QED BY <2>2, <2>3
<1> QED BY <1>1, <1>3 DEF BothNext

\* The split run is a run of the strategy: what is proved of one holds of it.
LEMMA BothIsSpec == BothSpec => Spec
<1>1. BothInit => Init
  BY DEF BothInit
<1>2. [BothNext]_<<vars, wholeVars>> => [Next]_vars
  BY DEF BothNext, Next
<1> QED BY <1>1, <1>2, PTL DEF BothSpec, Spec

\* Storing and loading the snapshot between candles changes no state, event or
\* signal, unless it was stored right after an event.
THEOREM RestartsChangeNothing == BothSpec => []RestartChangesNothing
<1>1. BothInit => RestartInv
  BY DEF BothInit, Init, Whole!Init, Whole!Fresh, Fresh, RestartInv, RestartChangesNothing
<1>2. RestartInv => RestartChangesNothing
  BY DEF RestartInv
<1> QED BY <1>1, <1>2, RestartStep, BothIsSpec, Invariance, PTL DEF BothSpec
=============================================================================
