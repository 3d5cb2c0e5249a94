---------------------------- MODULE MCAtrRestart ----------------------------
(* Candles for the ATR two-stage strategy: quiet ones (ATR 1) hit the low   *)
(* threshold, loud ones (ATR 3) the high threshold, the others (ATR 2) none.*)
(* Thresholds can be dynamic, so the last two hit the high one below that.  *)
EXTENDS AtrRestart

Bar(p, a, allowed) ==
    [close |-> p, atr |-> a, low |-> a = 1, high |-> a = 3,
     allows |-> allowed, breaks |-> Sides, day |-> TRUE]

\* Prices around 100, all sides allowed; a candle that the moving averages allow
\* for SHORT only and a loud one for LONG only, a loud one that breaks no recent
\* extreme, one to enter on with an ATR of 2, and one whose ATR has not expanded.
MarketCandles ==
    {Bar(p, a, Sides) : p \in {96, 100, 104}, a \in {1, 2, 3}}
        \cup {Bar(104, 2, {"SHORT"}), Bar(96, 3, {"LONG"}),
              [Bar(104, 3, Sides) EXCEPT !.breaks = {}],
              [Bar(100, 2, Sides) EXCEPT !.high = TRUE],
              [Bar(104, 1, Sides) EXCEPT !.low = FALSE, !.high = TRUE]}
=============================================================================
