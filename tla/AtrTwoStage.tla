---------------------------- MODULE AtrTwoStage ----------------------------
(***************************************************************************)
(* The ATR two-stage strategy: the state machine evaluate_latest runs over *)
(* the closed candles of a stream.  A candle with a low ATR arms a setup   *)
(* at its close, a later candle with a high ATR opens a position on the    *)
(* side the price moved to, and a list of exits closes it.                 *)
(*                                                                         *)
(* One evaluation loads the stored snapshot, runs the candles that closed  *)
(* since, and stores the snapshot of the last one.  A step is one candle:  *)
(* the first one of an evaluation, which starts from the loaded snapshot,  *)
(* or one more of the same evaluation.  An evaluation without new candles  *)
(* returns the snapshot it was given.                                      *)
(*                                                                         *)
(* The indicators of a candle are part of the input: which ATR thresholds  *)
(* it hits, the sides the moving averages allow and the sides that break a *)
(* recent extreme.  Prices, ATRs and multipliers are natural numbers, a    *)
(* loss ratio is in percent, atr_threshold_mode is ATR.                    *)
(***************************************************************************)
EXTENDS Integers, Sequences

CONSTANTS None,                \* Python's None
          Candles,             \* the candles the market may produce
          Never,               \* 1000000, "no event so far"
          CooloffBars, MaxSetupBars, MaxBarsInTrade, MaxLossPct,
          StopLossMult, TakeProfitMult, TrailingMult, TrailingActivationMult,
          MinRefMoveMult, ConfirmBars, MinExpansion,
          ReverseSignal, TradeMode, ExitOnRegimeFlip,
          Horizon,             \* bound on the candles of a behaviour
          MaxEvaluations       \* bound on the evaluations of a behaviour

Sides == {"LONG", "SHORT"}

Optional(S) == S \cup {None}

CandleType == [close : Nat, atr : Nat, low : BOOLEAN, high : BOOLEAN,
               allows : SUBSET Sides, breaks : SUBSET Sides, day : BOOLEAN]

ASSUME ParamsAssumption ==
    /\ None \notin Int /\ None \notin Sides
    /\ Candles \subseteq CandleType
    /\ Never \in Nat /\ CooloffBars \in Nat
    /\ {MaxSetupBars, MaxBarsInTrade, MaxLossPct, StopLossMult, TakeProfitMult,
        TrailingMult, TrailingActivationMult, MinRefMoveMult, ConfirmBars,
        MinExpansion} \subseteq Optional(Nat \ {0})
    /\ ReverseSignal \in BOOLEAN /\ ExitOnRegimeFlip \in BOOLEAN
    /\ TradeMode \in {"FLIP", "LONG_ONLY", "SHORT_ONLY", "FLAT_ON_DOWN"}
    /\ Horizon \in Nat /\ MaxEvaluations \in Nat

VARIABLES rt,       \* the operational state, one field per local of the loop
          event,    \* event of the last candle
          signal,   \* signal of the last candle, None if there was none
          closes,   \* the last closes of the window, as many as the code looks at
          bar,      \* number of candles evaluated
          fired,    \* bar of the last event that restarted the cool-off
          evals     \* evaluations that had new candles

vars == <<rt, event, signal, closes, bar, fired, evals>>

State == [armed : BOOLEAN, refPrice : Optional(Nat), refAtr : Optional(Nat), age : Nat,
          side : Optional(Sides), entry : Optional(Nat), entryAtr : Optional(Nat),
          bars : Nat, best : Optional(Nat), worst : Optional(Nat), since : Nat]

Fresh == [armed |-> FALSE, refPrice |-> None, refAtr |-> None, age |-> 0,
          side |-> None, entry |-> None, entryAtr |-> None, bars |-> 0,
          best |-> None, worst |-> None, since |-> Never]

Init ==
    /\ rt = Fresh
    /\ event = None /\ signal = None
    /\ closes = <<>>
    /\ bar = 0 /\ fired = None /\ evals = 0

-----------------------------------------------------------------------------
(* What an event does to the operational state. *)

\* Mutant of Disarm: only the flag is reset.
DisarmFlagOnly(s) == [s EXCEPT !.armed = FALSE, !.age = 0]

Disarm(s) == [s EXCEPT !.armed = FALSE, !.refPrice = None, !.refAtr = None, !.age = 0]

Arm(s, c) == [s EXCEPT !.armed = TRUE, !.refPrice = c.close, !.refAtr = c.atr, !.age = 0]

\* Mutant of Close: the counter of bars is set to None with the other locals.
CloseUnset(s) == [s EXCEPT !.side = None, !.entry = None, !.entryAtr = None, !.bars = None,
                           !.best = None, !.worst = None, !.since = 0]

Close(s) == [s EXCEPT !.side = None, !.entry = None, !.entryAtr = None, !.bars = 0,
                      !.best = None, !.worst = None, !.since = 0]

Open(s, d, c) == [s EXCEPT !.side = d, !.entry = c.close, !.entryAtr = c.atr, !.bars = 0,
                           !.best = c.close, !.worst = c.close, !.since = 0]

-----------------------------------------------------------------------------
(* The state a candle is judged in. *)

Larger(a, b) == IF a >= b THEN a ELSE b
Smaller(a, b) == IF a <= b THEN a ELSE b

\* The counters advance first.
Tick(s) ==
    [s EXCEPT !.since = @ + 1,
              !.bars  = IF s.side # None THEN @ + 1 ELSE 0,
              !.age   = IF s.armed THEN @ + 1 ELSE 0]

\* Mutant of Expired: the setup lives one candle longer.
ExpiredLate(s) ==
    s.side = None /\ s.armed /\ MaxSetupBars # None /\ s.age > MaxSetupBars + 1

Expired(s) ==
    s.side = None /\ s.armed /\ MaxSetupBars # None /\ s.age > MaxSetupBars

\* Mutant of Extremes: a SHORT is tracked like a LONG.
ExtremesOfLong(s, p) ==
    IF s.side # None THEN [s EXCEPT !.best = Larger(@, p), !.worst = Smaller(@, p)] ELSE s

\* _update_trade_extremes
Extremes(s, p) ==
    IF s.side = "LONG" THEN [s EXCEPT !.best = Larger(@, p), !.worst = Smaller(@, p)]
    ELSE IF s.side = "SHORT" THEN [s EXCEPT !.best = Smaller(@, p), !.worst = Larger(@, p)]
    ELSE s

\* Counters, setup expiry and extremes: what every branch starts from.
Judged(s, c) ==
    LET t == Tick(s)
    IN  Extremes(IF Expired(t) THEN Disarm(t) ELSE t, c.close)

\* Mutant of CanFire: the cool-off is one candle short.
CanFireEarly(s) == s.since >= CooloffBars

CanFire(s) == s.since > CooloffBars

-----------------------------------------------------------------------------
(* Exits. *)

\* How far the price p is above (LONG) or below (SHORT) the price q.
Gain(s, q, p) == IF s.side = "LONG" THEN p - q ELSE q - p

MaxLossHit(s, p) ==
    /\ MaxLossPct # None
    /\ s.entry > 0
    /\ 100 * Larger(0, -Gain(s, s.entry, p)) >= MaxLossPct * s.entry

StopLossHit(s, p) ==
    StopLossMult # None /\ Gain(s, s.entry, p) <= -(StopLossMult * s.entryAtr)

TakeProfitHit(s, p) ==
    TakeProfitMult # None /\ Gain(s, s.entry, p) >= TakeProfitMult * s.entryAtr

TrailingActive(s) ==
    /\ TrailingMult # None
    /\ TrailingActivationMult # None =>
          Gain(s, s.entry, s.best) >= TrailingActivationMult * s.entryAtr

TrailingStopHit(s, p) ==
    TrailingActive(s) /\ Gain(s, s.best, p) <= -(TrailingMult * s.entryAtr)

TimeoutHit(s) == MaxBarsInTrade # None /\ s.bars >= MaxBarsInTrade

RegimeFlipHit(s, c) == ExitOnRegimeFlip /\ s.side \notin c.allows

\* The exits that end the trade and disarm, in the order the code tries them.
ExitOrder == <<"MAX_LOSS_STOP", "ATR_STOP_LOSS", "ATR_TAKE_PROFIT",
               "ATR_TRAILING_STOP", "MAX_BARS_EXIT", "REGIME_FLIP_EXIT">>

\* Mutant of ExitHits: only the first two exits on the ATR are tried.
ExitHitsOnAtr(s, c) ==
    {e \in {2, 3} : (e = 2 /\ StopLossHit(s, c.close)) \/ (e = 3 /\ TakeProfitHit(s, c.close))}

ExitHits(s, c) ==
    {e \in DOMAIN ExitOrder :
        \/ ExitOrder[e] = "MAX_LOSS_STOP" /\ MaxLossHit(s, c.close)
        \/ ExitOrder[e] = "ATR_STOP_LOSS" /\ StopLossHit(s, c.close)
        \/ ExitOrder[e] = "ATR_TAKE_PROFIT" /\ TakeProfitHit(s, c.close)
        \/ ExitOrder[e] = "ATR_TRAILING_STOP" /\ TrailingStopHit(s, c.close)
        \/ ExitOrder[e] = "MAX_BARS_EXIT" /\ TimeoutHit(s)
        \/ ExitOrder[e] = "REGIME_FLIP_EXIT" /\ RegimeFlipHit(s, c)}

\* i is the first alternative of the chain whose condition holds.
First(i, H) == i \in H /\ \A j \in H : i <= j

CloseSignal(s) == IF s.side = "LONG" THEN "CLOSE_LONG" ELSE "CLOSE_SHORT"

\* A position out of its cool-off ends on the first exit that is hit.
ExitPosition(s, c) ==
    /\ s.side # None /\ CanFire(s)
    /\ \E e \in DOMAIN ExitOrder :
          First(e, ExitHits(s, c)) /\ event' = ExitOrder[e]
    /\ signal' = CloseSignal(s)
    /\ rt' = Disarm(Close(s))

\* A low ATR closes the position too, and arms the next setup at once.
LowAtrExit(s, c) ==
    /\ s.side # None /\ CanFire(s) /\ ExitHits(s, c) = {} /\ c.low
    /\ event' = "ATR_LOW_EXIT"
    /\ signal' = CloseSignal(s)
    /\ rt' = Arm(Close(s), c)

KeepPosition(s, c) ==
    /\ s.side # None
    /\ CanFire(s) => ExitHits(s, c) = {} /\ ~c.low
    /\ event' = None /\ signal' = None
    /\ rt' = s

-----------------------------------------------------------------------------
(* Entries. *)

\* _resolve_desired_side: the side the price moved to since the setup, if the
\* trade mode takes it.
DesiredSide(s, p) ==
    IF p = s.refPrice THEN None
    ELSE IF (p > s.refPrice) # ReverseSignal
         THEN IF TradeMode = "SHORT_ONLY" THEN None ELSE "LONG"
         ELSE IF TradeMode \in {"FLIP", "SHORT_ONLY"} THEN "SHORT" ELSE None

Distance(p, q) == IF p >= q THEN p - q ELSE q - p

RefMoveOk(s, c) ==
    MinRefMoveMult # None =>
        c.atr > 0 /\ Distance(c.close, s.refPrice) >= MinRefMoveMult * c.atr

\* Every one of the last ConfirmBars closes lies beyond the reference.
ConfirmOk(s, d, w) ==
    ConfirmBars # None /\ ConfirmBars > 1 =>
        /\ s.age >= ConfirmBars
        /\ Len(w) >= ConfirmBars
        /\ \A i \in DOMAIN w : IF d = "LONG" THEN w[i] > s.refPrice ELSE w[i] < s.refPrice

ExpansionOk(s, c) ==
    MinExpansion # None => s.refAtr > 0 /\ c.atr >= MinExpansion * s.refAtr

\* The filters an entry passes, in the order the code tries them.
BlockOrder == <<"REGIME_BLOCKED", "REF_MOVE_BLOCKED", "ENTRY_CONFIRM_BLOCKED",
                "ENTRY_BREAKOUT_BLOCKED", "ATR_EXPANSION_BLOCKED">>

Blocks(s, d, c, w) ==
    {b \in DOMAIN BlockOrder :
        \/ BlockOrder[b] = "REGIME_BLOCKED" /\ d \notin c.allows
        \/ BlockOrder[b] = "REF_MOVE_BLOCKED" /\ ~RefMoveOk(s, c)
        \/ BlockOrder[b] = "ENTRY_CONFIRM_BLOCKED" /\ ~ConfirmOk(s, d, w)
        \/ BlockOrder[b] = "ENTRY_BREAKOUT_BLOCKED" /\ d \notin c.breaks
        \/ BlockOrder[b] = "ATR_EXPANSION_BLOCKED" /\ ~ExpansionOk(s, c)}

\* A low ATR arms the setup, or moves the reference of the one already armed;
\* it does not restart the cool-off.
ArmSetup(s, c) ==
    /\ s.side = None /\ c.low
    /\ event' = "ARM_ON_LOW_ATR" /\ signal' = None
    /\ rt' = Arm(s, c)

MayEnter(s, c) ==
    /\ s.side = None /\ ~c.low /\ s.armed /\ c.high
    /\ DesiredSide(s, c.close) # None
    /\ c.day /\ CanFire(s)

BlockEntry(s, c, w) ==
    /\ MayEnter(s, c)
    /\ \E b \in DOMAIN BlockOrder :
          First(b, Blocks(s, DesiredSide(s, c.close), c, w)) /\ event' = BlockOrder[b]
    /\ signal' = None
    /\ rt' = s

OpenPosition(s, c, w) ==
    LET d == DesiredSide(s, c.close)
    IN  /\ MayEnter(s, c) /\ Blocks(s, d, c, w) = {}
        /\ event' = IF d = "LONG" THEN "OPEN_LONG" ELSE "OPEN_SHORT"
        /\ signal' = event'
        /\ rt' = Disarm(Open(s, d, c))

\* expired: the setup ran out on this candle.
StayFlat(s, c, expired) ==
    /\ s.side = None /\ ~c.low /\ ~MayEnter(s, c)
    /\ event' = IF expired THEN "SETUP_EXPIRED" ELSE None
    /\ signal' = None
    /\ rt' = s

-----------------------------------------------------------------------------
(* Evaluations. *)

Keep == IF ConfirmBars = None THEN 1 ELSE ConfirmBars

Window(c) ==
    LET all == Append(closes, c.close)
    IN  IF Len(all) > Keep THEN Tail(all) ELSE all

\* One turn of the loop, from the operational state p.
Candle(p, c) ==
    LET s == Judged(p, c)
        w == Window(c)
    IN  /\ bar < Horizon
        /\ \/ ExitPosition(s, c)
           \/ LowAtrExit(s, c)
           \/ KeepPosition(s, c)
           \/ ArmSetup(s, c)
           \/ BlockEntry(s, c, w)
           \/ OpenPosition(s, c, w)
           \/ StayFlat(s, c, Expired(Tick(p)))
        /\ closes' = w
        /\ bar' = bar + 1
        /\ fired' = IF rt'.since = 0 THEN bar' ELSE fired

\* Mutant of Restored: the age of the setup is not in the snapshot.
RestoredWithoutAge(s) == [s EXCEPT !.age = 0]

\* Loading the snapshot: a falsy bars_since_last_event, 0 included, is taken
\* for a missing one.
Restored(s) == [s EXCEPT !.since = IF @ = 0 THEN Never ELSE @]

FirstCandle(c) ==
    /\ evals < MaxEvaluations
    /\ Candle(Restored(rt), c)
    /\ evals' = evals + 1

NextCandle(c) ==
    /\ evals > 0
    /\ Candle(rt, c)
    /\ UNCHANGED evals

Next == \E c \in Candles : FirstCandle(c) \/ NextCandle(c)

Spec == Init /\ [][Next]_vars

-----------------------------------------------------------------------------
(* Properties. *)

Events ==
    {ExitOrder[e] : e \in DOMAIN ExitOrder} \cup {BlockOrder[b] : b \in DOMAIN BlockOrder}
    \cup {"ATR_LOW_EXIT", "ARM_ON_LOW_ATR", "SETUP_EXPIRED", "OPEN_LONG", "OPEN_SHORT"}

\* Every variable keeps the values the code can give it.
TypeOK ==
    /\ rt \in State
    /\ event \in Optional(Events)
    /\ signal \in Optional({"OPEN_LONG", "OPEN_SHORT", "CLOSE_LONG", "CLOSE_SHORT"})
    /\ closes \in Seq(Nat)
    /\ bar \in 0..Horizon
    /\ fired \in Optional(0..Horizon)
    /\ evals \in 0..MaxEvaluations

\* The operational state is always in one of the three shapes the branches
\* count on: flat, armed with a full reference, or in a position with a full
\* entry, whatever events, expiries and restarts led there.  A branch that
\* forgets to set or clear one local breaks it candles later.
StateConsistent ==
    /\ ~(rt.armed /\ rt.side # None)
    /\ rt.armed <=> rt.refPrice # None
    /\ rt.armed <=> rt.refAtr # None
    /\ rt.side # None <=> rt.entry # None
    /\ rt.side # None <=> rt.entryAtr # None
    /\ rt.side # None <=> rt.best # None
    /\ rt.side # None <=> rt.worst # None

\* A setup is never older than max_setup_bars, so no entry is judged against a
\* reference that should have expired.
SetupNotStale == rt.armed /\ MaxSetupBars # None => rt.age <= MaxSetupBars

\* The extremes kept for the trailing stop bracket the entry and the last
\* close, over restarts and any number of candles.
ExtremesBracket ==
    LET last == closes[Len(closes)] IN
    rt.side # None =>
        \A p \in {rt.entry, last} :
            Gain(rt, rt.worst, p) >= 0 /\ Gain(rt, rt.best, p) <= 0

\* A position that outlives a candle out of its cool-off has lost less than
\* max_loss_pct at that close and is younger than max_bars_in_trade.
RiskLimits ==
    rt.side # None /\ CanFire(rt) =>
        ~MaxLossHit(rt, closes[Len(closes)]) /\ ~TimeoutHit(rt)

\* Between two events that open or close a position more than cooloff_bars
\* candles pass, within one evaluation.
CooloffRespected ==
    [][evals' = 1 /\ fired' # fired /\ fired # None => fired' - fired > CooloffBars]_vars
=============================================================================
