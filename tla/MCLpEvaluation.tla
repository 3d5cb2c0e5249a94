--------------------------- MODULE MCLpEvaluation ---------------------------
(* Two tiers, the tighter one slower to confirm, for the LP evaluation.      *)
(* The tiers of an "edge" candle are never looked at, nor those of "none".   *)
EXTENDS LpEvaluation

TwoTiers == <<[name |-> "mid", bars |-> 1, from |-> {"high_vol"}],
              [name |-> "tight", bars |-> 2, from |-> {"high_vol", "mid"}]>>

EveryRequest == [place : {"in", "above", "below"}, low : SUBSET {"mid", "tight"}]
                \cup [place : {"edge", "none"}, low : {{}}]
=============================================================================
