--------------------------- MODULE RollingWindow ---------------------------
(***************************************************************************)
(* What the Redis candle buffer of a stream promises: the newest candles,  *)
(* one for each open_time, in ascending order.  A candle is put in, or the *)
(* window is filled again from the history of api-market-data.             *)
(***************************************************************************)
EXTENDS Naturals, Sequences, SequencesExt

CONSTANTS NumCandles,  \* candles are numbered by open_time
          Sizes        \* lengths the window may be cut down to

VARIABLE held          \* the window

Candles == 1..NumCandles

\* S in ascending order: the i-th candle is the one with i candles up to it.
Sorted(S) ==
    [i \in 1..Cardinality(S) |-> CHOOSE c \in S : Cardinality({d \in S : d <= c}) = i]

\* The k newest candles of S, in ascending order.
Newest(S, k) ==
    LET all == Sorted(S)
    IN  IF Len(all) <= k THEN all ELSE SubSeq(all, Len(all) - k + 1, Len(all))

Put(c) == \E k \in Sizes : held' = Newest(ToSet(held) \cup {c}, k)

\* The history up to candle h, with or without the latest candle.
Fill(h, latest) == \E k \in Sizes : held' = Newest((1..h) \cup latest, k)

Step ==
    \/ \E c \in Candles : Put(c)
    \/ \E h \in 0..NumCandles, c \in Candles : Fill(h, {}) \/ Fill(h, {c})
=============================================================================
