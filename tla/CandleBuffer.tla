---------------------------- MODULE CandleBuffer ----------------------------
(***************************************************************************)
(* The Redis list that holds the last candles of one stream, and its three *)
(* writers: the shard worker and the manual route, which both run the      *)
(* candle processor, and the route that bootstraps a buffer.  The          *)
(* processor upserts its candle by one read of the list and one write that *)
(* rests on it, lists the candles it needs, and fills the buffer from      *)
(* api-market-data when it holds too few.                                  *)
(*                                                                         *)
(* A candle is its open_time, numbered from 1.  What the evaluator makes   *)
(* of the window is in TradeEvaluation.                                    *)
(***************************************************************************)
EXTENDS Naturals, Sequences, SequencesExt

CONSTANTS NumCandles,   \* candles of a behaviour
          NumClosed,    \* of these, closed at the start
          Maxlen,       \* buffer_maxlen
          Required,     \* _resolve_required_limit: what the strategies need
          Limits,       \* limits the bootstrap route is called with
          MaxCalls,     \* bound on calls of the two routes
          MaxFaults     \* bound on failed calls and on repeated, late or early entries

ASSUME ConstantsAssumption ==
    /\ NumCandles \in Nat
    /\ NumClosed \in 0..NumCandles
    /\ Maxlen \in Nat \ {0}
    /\ Required \in Nat \ {0}
    /\ Limits \subseteq Nat \ {0}
    /\ MaxCalls \in Nat
    /\ MaxFaults \in Nat

Target == IF Required > Maxlen THEN Required ELSE Maxlen

Processors == {"shard", "route"}
Tasks == Processors \cup {"bootstrap"}

VARIABLES closed,   \* candles closed so far
          handed,   \* candles the evaluation stream has handed to the worker
          list,     \* the Redis list
          run,      \* run[p]: the call task p is in
          calls,    \* calls of the routes so far
          faults,   \* faults that happened so far
          torn,     \* history: a list was written while another task, which had
                    \* read it, was about to write it too
          skipped   \* history: a call failed, an entry overtook another, or a fill
                    \* lacked a candle handed before

vars == <<closed, handed, list, run, calls, faults, torn, skipped>>

Idle == [pc |-> "idle", ts |-> 0, own |-> FALSE, at |-> 0, seen |-> <<>>, window |-> <<>>]

Fault == faults < MaxFaults /\ faults' = faults + 1

W == INSTANCE RollingWindow WITH held <- list,
                                 Sizes <- {1, Maxlen, Target} \cup Limits

\* The last k of a list: LRANGE and LTRIM with -k, -1, and [-k:].
Suffix(s, k) == IF Len(s) <= k THEN s ELSE SubSeq(s, Len(s) - k + 1, Len(s))

\* Mutant of Merge: candles are kept as they are when the latest is not newer than
\* all of them.
MergeNewer(s, c, k) == IF s # <<>> /\ Last(s) >= c THEN Suffix(s, k) ELSE Suffix(Append(s, c), k)

\* A dictionary by open_time, sorted, and of it the last k.
Merge(s, c, k) == W!Newest(ToSet(s) \cup {c}, k)

Init ==
    /\ closed = NumClosed /\ handed = NumClosed
    /\ list \in {<<>>, W!Newest(1..NumClosed, Maxlen)}
    /\ run = [p \in Tasks |-> Idle]
    /\ calls = 0 /\ faults = 0 /\ torn = FALSE /\ skipped = FALSE

-----------------------------------------------------------------------------
(* Calls. *)

CandleCloses ==
    /\ closed < NumCandles
    /\ closed' = closed + 1
    /\ UNCHANGED <<handed, list, run, calls, faults, torn, skipped>>

\* An upsert comes first if the message has a candle the processor accepts.
Called(p, n, candle) ==
    /\ run[p].pc = "idle"
    /\ run' = [run EXCEPT ![p] = [Idle EXCEPT !.pc = IF candle THEN "tail" ELSE "window",
                                              !.ts = n, !.own = candle]]

\* The worker handles one entry at a time, in the order of the stream.
HandleEntry ==
    /\ handed < closed
    /\ handed' = handed + 1
    /\ Called("shard", handed', TRUE)
    /\ UNCHANGED <<closed, list, calls, faults, torn, skipped>>

\* An entry that comes again, late or early.
HandleOther(n) ==
    /\ n <= closed
    /\ Fault
    /\ Called("shard", n, TRUE)
    /\ skipped' = (skipped \/ n > handed + 1)
    /\ UNCHANGED <<closed, handed, list, calls, torn>>

Trigger(n) ==
    /\ n <= closed
    /\ calls < MaxCalls
    /\ calls' = calls + 1
    /\ \E candle \in BOOLEAN : Called("route", n, candle)
    /\ UNCHANGED <<closed, handed, list, faults, torn, skipped>>

-----------------------------------------------------------------------------
(* Steps of a task, one call of Redis or of api-market-data each. *)

At(p, pc) == run[p].pc = pc

Goto(p, pc) == run' = [run EXCEPT ![p].pc = pc]

\* p has read what its next write rests on.
Holds(p) == run[p].pc \in {"push", "length", "only", "set", "rebuild", "refill", "reset"}

WriteList(p, s) ==
    /\ list' = s
    /\ torn' = (torn \/ \E q \in Tasks \ {p} : Holds(q))
    /\ UNCHANGED <<closed, handed, calls, faults, skipped>>

Reading == UNCHANGED <<closed, handed, list, calls, faults, torn, skipped>>

\* Mutant of ReadTail: the tail is not compared for equality.
ReadTailNotEqual(p) ==
    /\ At(p, "tail")
    /\ Goto(p, IF list = <<>> \/ run[p].ts >= Last(list) THEN "push" ELSE "range")
    /\ Reading

\* upsert_candle: LINDEX -1.
ReadTail(p) ==
    /\ At(p, "tail")
    /\ Goto(p, IF list = <<>> \/ run[p].ts > Last(list) THEN "push"
               ELSE IF run[p].ts = Last(list) THEN "length" ELSE "range")
    /\ Reading

\* Mutant of Push: no LTRIM.
PushOnly(p) ==
    /\ At(p, "push")
    /\ WriteList(p, Append(list, run[p].ts))
    /\ Goto(p, "window")

\* RPUSH and LTRIM in one transaction.
Push(p) ==
    /\ At(p, "push")
    /\ WriteList(p, Suffix(Append(list, run[p].ts), Maxlen))
    /\ Goto(p, "window")

ReadLength(p) ==
    /\ At(p, "length")
    /\ run' = [run EXCEPT ![p].pc = IF list = <<>> THEN "only" ELSE "set", ![p].at = Len(list)]
    /\ Reading

ReplaceByOwn(p) ==
    /\ At(p, "only")
    /\ WriteList(p, <<run[p].ts>>)
    /\ Goto(p, "window")

\* LSET at the length that was read.
SetTail(p) ==
    /\ At(p, "set")
    /\ run[p].at <= Len(list)
    /\ WriteList(p, [list EXCEPT ![run[p].at] = run[p].ts])
    /\ Goto(p, "window")

\* LSET beyond the end is an error of Redis, and the processor raises.
SetTailError(p) ==
    /\ At(p, "set")
    /\ run[p].at > Len(list)
    /\ run' = [run EXCEPT ![p] = Idle]
    /\ Reading

\* _upsert_out_of_order.
ReadRange(p) ==
    /\ At(p, "range")
    /\ run' = [run EXCEPT ![p].pc = "rebuild",
                          ![p].seen = Merge(Suffix(list, Maxlen), run[p].ts, Maxlen)]
    /\ Reading

Rebuild(p) ==
    /\ At(p, "rebuild")
    /\ WriteList(p, run[p].seen)
    /\ Goto(p, "window")

\* list_last, and the merge of the latest candle; too few are filled up.
ReadWindow(p) ==
    LET last == Suffix(list, Required)
        all  == IF run[p].own THEN Merge(last, run[p].ts, Required) ELSE last
    IN  /\ At(p, "window")
        /\ run' = [run EXCEPT ![p].pc = IF Len(last) < Required THEN "history" ELSE "evaluate",
                              ![p].window = IF Len(last) < Required THEN <<>> ELSE all]
        /\ Reading

\* api-market-data: all that closed, or not yet the last, or no candle at all.
Known == {closed, closed - 1, 0} \cap Nat

History(h) == W!Newest(1..h, NumCandles)

\* The task's own candle, if any, is put into what was fetched; nothing to
\* evaluate ends the call.
Fetched(p, h, merged) ==
    /\ run' = [run EXCEPT ![p].pc = IF merged = <<>> THEN "idle" ELSE "refill",
                          ![p].seen = merged]
    /\ skipped' = (skipped \/ ~((1..handed) \subseteq (1..h) \cup {run[p].ts}))
    /\ UNCHANGED <<closed, handed, list, calls, faults, torn>>

\* Mutant of ReadHistory: the latest candle is not merged into it.
ReadHistoryOnly(p) ==
    /\ At(p, "history")
    /\ \E h \in Known : Fetched(p, h, History(h))

\* _bootstrap_candles.
ReadHistory(p) ==
    /\ At(p, "history")
    /\ \E h \in Known :
          Fetched(p, h, IF run[p].own THEN Merge(History(h), run[p].ts, Target) ELSE History(h))

Refill(p) ==
    /\ At(p, "refill")
    /\ WriteList(p, Suffix(run[p].seen, Target))
    /\ run' = [run EXCEPT ![p].pc = "evaluate", ![p].window = Suffix(run[p].seen, Required)]

\* execute_for_stream, and the end of the call.
Evaluate(p) ==
    /\ At(p, "evaluate")
    /\ run' = [run EXCEPT ![p] = Idle]
    /\ Reading

\* bootstrap_stream of the use case of the buffer.
StartBootstrap ==
    /\ At("bootstrap", "idle")
    /\ calls < MaxCalls
    /\ calls' = calls + 1
    /\ \E h \in Known, k \in Limits :
          run' = [run EXCEPT !["bootstrap"].pc = "reset",
                             !["bootstrap"].seen = Suffix(History(h), k)]
    /\ UNCHANGED <<closed, handed, list, faults, torn, skipped>>

\* replace, with its limit.
Reset ==
    /\ At("bootstrap", "reset")
    /\ WriteList("bootstrap", run["bootstrap"].seen)
    /\ run' = [run EXCEPT !["bootstrap"] = Idle]

\* A call of Redis or api-market-data fails and the task's call ends.  The write
\* may have been carried out: then the fault is as if it came at the next step.
CallFault(p) ==
    /\ ~At(p, "idle")
    /\ Fault
    /\ run' = [run EXCEPT ![p] = Idle]
    /\ skipped' = TRUE
    /\ UNCHANGED <<closed, handed, list, calls, torn>>

-----------------------------------------------------------------------------

Upsert(p) ==
    \/ ReadTail(p) \/ Push(p)
    \/ ReadLength(p) \/ ReplaceByOwn(p) \/ SetTail(p) \/ SetTailError(p)
    \/ ReadRange(p) \/ Rebuild(p)

Next ==
    \/ CandleCloses
    \/ HandleEntry
    \/ \E n \in 1..NumCandles : HandleOther(n) \/ Trigger(n)
    \/ \E p \in Processors :
          Upsert(p) \/ ReadWindow(p) \/ ReadHistory(p) \/ Refill(p) \/ Evaluate(p)
    \/ StartBootstrap \/ Reset
    \/ \E p \in Tasks : CallFault(p)

Spec == Init /\ [][Next]_vars

-----------------------------------------------------------------------------
(* Properties. *)

Ascending(s) == \A i, j \in DOMAIN s : i < j => s[i] < s[j]

\* Every variable keeps the values the code can give it, and the buffer stays
\* within the limits of its writers.
TypeOK ==
    /\ closed \in 0..NumCandles /\ handed \in 0..closed
    /\ list \in Seq(1..closed)
    /\ Len(list) <= Target \/ \E k \in Limits : Len(list) <= k
    /\ \A p \in Tasks : run[p].window \in Seq(1..closed) /\ run[p].seen \in Seq(1..closed)
    /\ calls \in 0..MaxCalls /\ faults \in 0..MaxFaults /\ {torn, skipped} \subseteq BOOLEAN

\* The evaluator gets its candles in ascending order, one for each open_time and
\* at most as many as are required, and among them the message's own unless all
\* of them are newer: whatever other writers did to the list.
WindowSound ==
    \A p \in Processors :
        At(p, "evaluate") /\ run[p].own =>
            LET w == run[p].window
            IN  /\ Ascending(w) /\ Len(w) <= Required
                /\ run[p].ts \in ToSet(w) \/ (Len(w) = Required /\ Head(w) > run[p].ts)

\* "The candle buffer upsert is idempotent by open_time": as long as no call
\* fails, no entry overtakes another, no fill lacks a candle the worker had and the
\* routes are not called, replayed entries open no gap in the evaluator's window.
ReplaysLeaveNoGap ==
    calls = 0 /\ ~skipped /\ At("shard", "evaluate") =>
        LET w == run["shard"].window
        IN  /\ \A i \in 1..(Len(w) - 1) : w[i + 1] = w[i] + 1
            /\ Len(w) = Required \/ Head(w) = 1

\* While no write falls between another task's read of the list and its write,
\* upserts and bootstraps are those of a rolling window: the list stays
\* ascending, with one candle for each open_time, and keeps the newest.
BufferIsRollingWindow ==
    [][torn' \/ W!Step]_list
=============================================================================
