-------------------------- MODULE TradeEvaluation --------------------------
(***************************************************************************)
(* The evaluation stage of the trade pipeline, for one stream and one      *)
(* strategy: the shard worker takes candle entries from its Redis stream   *)
(* and runs the candle processor on them, the manual route                 *)
(* /triggers/trade-candle-closed runs the same processor in a task of its  *)
(* own.  The processor puts the candle in the Redis buffer, lists the      *)
(* candle window, loads the runtime snapshot, evaluates the candles that   *)
(* are newer, and stores snapshot, signal and history event one after the  *)
(* other; the worker then publishes the signals and acknowledges.          *)
(*                                                                         *)
(* What the strategy does with a candle is cut down to its kind: an entry  *)
(* opens a position, an exit closes it, an arming candle is an event       *)
(* without a signal.  AtrTwoStage has the real machine.                    *)
(***************************************************************************)
EXTENDS Naturals, Sequences, FiniteSets

CONSTANTS None,
          NumCandles,   \* candles of a behaviour, numbered by close time
          ReadCount,    \* the worker's read_count
          StreamMaxlen, \* the publisher's stream_maxlen
          Kinds,        \* what a candle can make the strategy do
          MaxTriggers,  \* bound on calls of the manual route
          MaxFaults     \* bound on failed calls, repeated entries and crashes

ASSUME ConstantsAssumption ==
    /\ NumCandles \in Nat
    /\ ReadCount \in Nat \ {0}
    /\ StreamMaxlen \in Nat \ {0}
    /\ Kinds \subseteq {"quiet", "arm", "entry", "exit"}
    /\ MaxTriggers \in Nat
    /\ MaxFaults \in Nat

ASSUME NoneAssumption == None \notin {"OPEN_LONG", "CLOSE_LONG", "EXIT", "ARM_ON_LOW_ATR",
                                         "FLAT", "LONG"}

Candles == 1..NumCandles
Tasks == {"shard", "route"}

VARIABLES market,     \* the candles closed so far, each by what it makes the
                      \* strategy do; api-market-data knows them all
          stream,     \* the candle of each entry ever put in the evaluation stream
          read,       \* the group's position: the entries the worker was given,
                      \* or that were removed before
          missed,     \* whether one was removed before the worker was given it
          unacked,    \* delivered entries that are not acknowledged
          empty,      \* those of them that were removed from the stream
          batch,      \* entries of the batch in hand that are not handled yet
          buffer,     \* candles in the Redis buffer, of those of this behaviour
          fill,       \* "full" when the buffer holds required_limit candles from
                      \* the start, "short" when not, "bootstrapped" once filled
          run,        \* run[p]: the processor call task p is in
          snapshot,   \* the stored runtime snapshot
          stored,     \* signals in trade_signals, by (ts, type)
          history,    \* documents in trade_strategy_runtime_events, by key
          published,  \* signals published for execution
          triggers,   \* calls of the manual route so far
          faults      \* faults that happened so far

vars == <<market, stream, read, missed, unacked, empty, batch, buffer, fill, run, snapshot,
          stored, history, published, triggers, faults>>

entries == <<stream, read, missed, unacked, empty, batch>>
cache == <<buffer, fill>>
documents == <<snapshot, stored, history>>
budgets == <<triggers, faults>>

Idle == [pc |-> "idle", ts |-> 0, window |-> {}, before |-> None, after |-> None, out |-> {}]

Fault == faults < MaxFaults /\ faults' = faults + 1

clock == Len(market)

MinOf(S) == CHOOSE x \in S : \A y \in S : x <= y

-----------------------------------------------------------------------------
(* The strategy. *)

\* One turn of evaluate_latest: position, event and signal after candle n.
Turn(s, n) ==
    CASE market[n] = "entry" /\ s.position = "FLAT" ->
            [ts |-> n, position |-> "LONG", event |-> "OPEN_LONG", signal |-> "OPEN_LONG"]
      [] market[n] = "exit" /\ s.position = "LONG" ->
            [ts |-> n, position |-> "FLAT", event |-> "EXIT", signal |-> "CLOSE_LONG"]
      [] market[n] = "arm" /\ s.position = "FLAT" ->
            [ts |-> n, position |-> "FLAT", event |-> "ARM_ON_LOW_ATR", signal |-> None]
      [] OTHER -> [ts |-> n, position |-> s.position, event |-> None, signal |-> None]

\* evaluate_latest: the candles of the window newer than the snapshot, in order.
\* Without one the snapshot comes back as it was, its old event included.
EvaluateLatest(s, window) ==
    LET f[n \in 0..NumCandles] ==
            IF n = 0 THEN [s EXCEPT !.signal = None,
                                    !.position = IF @ = None THEN "FLAT" ELSE @]
            ELSE IF n \in window /\ n > s.ts THEN Turn(f[n - 1], n)
            ELSE f[n - 1]
    IN  f[NumCandles]

\* What get_latest_by_strategy_id gives before the strategy's first evaluation,
\* which starts at FLAT.
Start == [ts |-> 0, position |-> None, event |-> None, signal |-> None]

\* _build_runtime_event: nothing to tell, or the key of the history document.
\* (A setup is armed and given up, and a runtime_state taken, with an event only.)
RuntimeEvents(before, after, signal) ==
    IF after.event # None \/ signal # None \/ after.position # before.position
    THEN {[ts |-> after.ts, event |-> after.event, signal |-> signal,
           position |-> after.position]}
    ELSE {}

Init ==
    /\ market = <<>>
    /\ stream = <<>> /\ read = 0 /\ missed = FALSE
    /\ unacked = {} /\ empty = {} /\ batch = {}
    /\ buffer = {} /\ fill \in {"full", "short"}
    /\ run = [p \in Tasks |-> Idle]
    /\ snapshot = Start
    /\ stored = {} /\ history = {} /\ published = {}
    /\ triggers = 0 /\ faults = 0

-----------------------------------------------------------------------------
(* The market and the ingress dispatcher. *)

CandleCloses ==
    /\ clock < NumCandles
    /\ \E k \in Kinds : market' = Append(market, k)
    /\ UNCHANGED <<entries, cache, run, documents, published, budgets>>

Dispatched == {stream[i] : i \in DOMAIN stream}

\* XADD with maxlen: the new entry, and the k oldest are removed or were before, of
\* which StreamMaxlen are left.  It is approximate, so it may also leave more.
Publish(n) ==
    /\ stream' = Append(stream, n)
    /\ \E k \in 0..Len(stream) :
          /\ k = 0 \/ Len(stream) + 1 - k >= StreamMaxlen
          /\ empty' = empty \cup (unacked \cap 1..k)
          /\ read' = IF k > read THEN k ELSE read
          /\ missed' = (missed \/ k > read)

\* The dispatcher publishes the candles in order.  When one of its calls fails
\* a later candle of the batch overtakes, or a candle is published again.
Dispatch(n) ==
    /\ n <= clock
    /\ \/ n \notin Dispatched /\ 1..(n - 1) \subseteq Dispatched /\ UNCHANGED faults
       \/ Fault
    /\ Publish(n)
    /\ UNCHANGED <<market, unacked, batch, cache, run, documents, published, triggers>>

-----------------------------------------------------------------------------
(* The shard worker. *)

FirstOf(S) == {i \in S : Cardinality({j \in S : j < i}) < ReadCount}

\* Mutant of ReadEntries: the read position advances by read_count.
ReadEntriesByCount ==
    LET fresh == (read + 1)..Len(stream)
    IN  /\ batch = {} /\ run["shard"].pc = "idle" /\ unacked = {} /\ fresh # {}
        /\ batch' = FirstOf(fresh)
        /\ unacked' = batch'
        /\ read' = read + ReadCount
        /\ UNCHANGED <<market, stream, missed, empty, cache, run, documents, published, budgets>>

\* Delivered entries come again, in order, until they are acknowledged.  One that
\* was removed comes without its fields: _parse_event raises, and it stays.
ReadEntries ==
    LET fresh == (read + 1)..Len(stream)
    IN  /\ batch = {} /\ run["shard"].pc = "idle"
        /\ IF unacked # {}
           THEN batch' = FirstOf(unacked) \ empty /\ UNCHANGED <<read, unacked>>
           ELSE /\ fresh # {}
                /\ batch' = FirstOf(fresh)
                /\ unacked' = batch'
                /\ read' = read + Cardinality(batch')
        /\ UNCHANGED <<market, stream, missed, empty, cache, run, documents, published, budgets>>

Called(p, n, pc) == [run EXCEPT ![p] = [Idle EXCEPT !.pc = pc, !.ts = n]]

HandleEntry ==
    /\ batch # {} /\ run["shard"].pc = "idle"
    /\ run' = Called("shard", stream[MinOf(batch)], "buffer")
    /\ UNCHANGED <<market, entries, cache, documents, published, budgets>>

\* Mutants of PublishAndAck: the whole batch is acknowledged at once; the entry
\* of a call without signals is skipped.
PublishAndAckBatch ==
    /\ run["shard"].pc = "done"
    /\ published' = published \cup run["shard"].out
    /\ unacked' = unacked \ batch /\ empty' = empty \ batch
    /\ batch' = {}
    /\ run' = [run EXCEPT !["shard"] = Idle]
    /\ UNCHANGED <<market, stream, read, missed, cache, documents, budgets>>
PublishAndAckSignals ==
    /\ run["shard"].pc = "done"
    /\ published' = published \cup run["shard"].out
    /\ LET acked == IF run["shard"].out = {} THEN {} ELSE {MinOf(batch)}
       IN  unacked' = unacked \ acked /\ empty' = empty \ acked
    /\ batch' = batch \ {MinOf(batch)}
    /\ run' = [run EXCEPT !["shard"] = Idle]
    /\ UNCHANGED <<market, stream, read, missed, cache, documents, budgets>>

\* The signals the call returned, then XACK.
PublishAndAck ==
    /\ run["shard"].pc = "done"
    /\ published' = published \cup run["shard"].out
    /\ unacked' = unacked \ {MinOf(batch)} /\ empty' = empty \ {MinOf(batch)}
    /\ batch' = batch \ {MinOf(batch)}
    /\ run' = [run EXCEPT !["shard"] = Idle]
    /\ UNCHANGED <<market, stream, read, missed, cache, documents, budgets>>

\* XADD or XACK fails, or the call raised: the entry stays unacknowledged.
LeaveEntry ==
    /\ run["shard"].pc = "done"
    /\ Fault
    /\ published' \in {published, published \cup run["shard"].out}
    /\ batch' = batch \ {MinOf(batch)}
    /\ run' = [run EXCEPT !["shard"] = Idle]
    /\ UNCHANGED <<market, stream, read, missed, unacked, empty, cache, documents, triggers>>

-----------------------------------------------------------------------------
(* The manual route: a task that runs the processor, with the candle or only *)
(* its time, and drops the result.                                          *)

Trigger(n) ==
    /\ triggers < MaxTriggers
    /\ n <= clock
    /\ run["route"].pc = "idle"
    /\ triggers' = triggers + 1
    /\ \E pc \in {"buffer", "window"} : run' = Called("route", n, pc)
    /\ UNCHANGED <<market, entries, cache, documents, published, faults>>

EndTrigger ==
    /\ run["route"].pc = "done"
    /\ run' = [run EXCEPT !["route"] = Idle]
    /\ UNCHANGED <<market, entries, cache, documents, published, budgets>>

-----------------------------------------------------------------------------
(* The processor, one await per step. *)

Goto(p, pc) == run' = [run EXCEPT ![p].pc = pc]

Return(p) ==
    run' = [run EXCEPT ![p] = [Idle EXCEPT !.pc = "done", !.ts = run[p].ts,
                                           !.out = run[p].out]]

\* upsert_candle.
BufferCandle(p) ==
    /\ run[p].pc = "buffer"
    /\ buffer' = buffer \cup {run[p].ts}
    /\ Goto(p, "window")
    /\ UNCHANGED <<market, entries, fill, documents, published, budgets>>

\* list_last, or _bootstrap_candles when the buffer is too short: then every
\* candle that closed so far is in the window, those after run[p].ts included.
\* (Merging the latest candle adds nothing: it is in the buffer, or closed.)
ListWindow(p) ==
    LET known == IF fill = "short" THEN 1..clock ELSE buffer
    IN  /\ run[p].pc = "window"
        /\ run' = [run EXCEPT ![p].window = known, ![p].pc = "load"]
        /\ buffer' = known
        /\ fill' = IF fill = "short" THEN "bootstrapped" ELSE fill
        /\ UNCHANGED <<market, entries, documents, published, budgets>>

\* get_latest_by_strategy_id, and the evaluation.
Evaluate(p) ==
    /\ run[p].pc = "load"
    /\ run' = [run EXCEPT ![p].before = snapshot,
                          ![p].after = EvaluateLatest(snapshot, run[p].window),
                          ![p].window = {},
                          ![p].pc = "snapshot"]
    /\ UNCHANGED <<market, entries, cache, documents, published, budgets>>

\* Mutant of StoreSnapshot: the time is that of the message, not of the last
\* candle evaluated.
StoreSnapshotOfMessage(p) ==
    /\ run[p].pc = "snapshot"
    /\ snapshot' = [run[p].after EXCEPT !.signal = None, !.ts = run[p].ts]
    /\ Goto(p, "signal")
    /\ UNCHANGED <<market, entries, cache, stored, history, published, budgets>>

\* upsert, unconditional.
StoreSnapshot(p) ==
    /\ run[p].pc = "snapshot"
    /\ snapshot' = [run[p].after EXCEPT !.signal = None]
    /\ Goto(p, "signal")
    /\ UNCHANGED <<market, entries, cache, stored, history, published, budgets>>

\* The signal of the last candle, if that is the candle the call is about.
Emitted(p) ==
    IF run[p].after.signal # None /\ run[p].after.ts = run[p].ts
    THEN {[ts |-> run[p].ts, type |-> run[p].after.signal]} ELSE {}

\* Mutant of StoreSignal: the signal is stored before the snapshot.
StoreSignalFirst(p) ==
    /\ run[p].pc \in {"snapshot", "signal"}
    /\ stored' = stored \cup Emitted(p)
    /\ run' = [run EXCEPT ![p].out = Emitted(p),
                          ![p].pc = IF @ = "signal" THEN "event" ELSE @]
    /\ UNCHANGED <<market, entries, cache, snapshot, history, published, budgets>>

StoreSignal(p) ==
    /\ run[p].pc = "signal"
    /\ stored' = stored \cup Emitted(p)
    /\ run' = [run EXCEPT ![p].out = Emitted(p), ![p].pc = "event"]
    /\ UNCHANGED <<market, entries, cache, snapshot, history, published, budgets>>

EventOf(p) ==
    RuntimeEvents(run[p].before, run[p].after,
                  IF run[p].out = {} THEN None ELSE run[p].after.signal)

StoreEvent(p) ==
    /\ run[p].pc = "event"
    /\ history' = history \cup EventOf(p)
    /\ Return(p)
    /\ UNCHANGED <<market, entries, cache, snapshot, stored, published, budgets>>

\* A call in the strategy loop fails: logged, and the loop returns what it has.
\* A failed write may have been carried out.
StrategyFault(p) ==
    /\ run[p].pc \in {"load", "snapshot", "signal", "event"}
    /\ Fault
    /\ \/ UNCHANGED documents
       \/ run[p].pc = "snapshot" /\ snapshot' = [run[p].after EXCEPT !.signal = None]
            /\ UNCHANGED <<stored, history>>
       \/ run[p].pc = "signal" /\ stored' = stored \cup Emitted(p)
            /\ UNCHANGED <<snapshot, history>>
       \/ run[p].pc = "event" /\ history' = history \cup EventOf(p)
            /\ UNCHANGED <<snapshot, stored>>
    /\ Return(p)
    /\ UNCHANGED <<market, entries, cache, published, triggers>>

\* A call before the loop fails, carried out or not, and the processor raises: the
\* worker leaves the entry unacknowledged, the task of the route just ends.
ProcessorFault(p) ==
    /\ run[p].pc \in {"buffer", "window"}
    /\ Fault
    /\ \/ UNCHANGED cache
       \/ run[p].pc = "buffer" /\ buffer' = buffer \cup {run[p].ts} /\ UNCHANGED fill
       \/ run[p].pc = "window" /\ fill = "short"
            /\ buffer' = 1..clock /\ fill' = "bootstrapped"
    /\ run' = [run EXCEPT ![p] = Idle]
    /\ batch' = IF p = "shard" THEN batch \ {MinOf(batch)} ELSE batch
    /\ UNCHANGED <<market, stream, read, missed, unacked, empty, documents, published, triggers>>

\* The process stops and starts again.
Crash ==
    /\ Fault
    /\ run' = [p \in Tasks |-> Idle]
    /\ batch' = {}
    /\ UNCHANGED <<market, stream, read, missed, unacked, empty, cache, documents, published, triggers>>

-----------------------------------------------------------------------------

ProcessorStep(p) ==
    \/ BufferCandle(p)
    \/ ListWindow(p)
    \/ Evaluate(p)
    \/ StoreSnapshot(p)
    \/ StoreSignal(p)
    \/ StoreEvent(p)

WorkerStep == ReadEntries \/ HandleEntry \/ PublishAndAck \/ ProcessorStep("shard")

Next ==
    \/ CandleCloses
    \/ \E n \in Candles : Dispatch(n) \/ Trigger(n)
    \/ WorkerStep
    \/ LeaveEntry
    \/ ProcessorStep("route") \/ EndTrigger
    \/ \E p \in Tasks : StrategyFault(p) \/ ProcessorFault(p)
    \/ Crash

Spec == Init /\ [][Next]_vars

\* The event loop runs the worker's coroutine on and its calls return or fail;
\* nothing is owed by the market, the dispatcher or the callers of the route.
FairSpec == Spec /\ WF_vars(WorkerStep)

-----------------------------------------------------------------------------
(* Properties. *)

SnapshotType == [ts : 0..NumCandles, position : {None, "FLAT", "LONG"},
                 event : {None, "OPEN_LONG", "EXIT", "ARM_ON_LOW_ATR"},
                 signal : {None, "OPEN_LONG", "CLOSE_LONG"}]

SignalType == [ts : Candles, type : {"OPEN_LONG", "CLOSE_LONG"}]

\* Every variable keeps the values the code can give it.
TypeOK ==
    /\ market \in Seq(Kinds) /\ clock <= NumCandles
    /\ stream \in Seq(Candles)
    /\ read \in 0..Len(stream) /\ missed \in BOOLEAN
    /\ batch \cup empty \subseteq unacked /\ unacked \subseteq 1..read
    /\ buffer \subseteq Candles /\ fill \in {"full", "short", "bootstrapped"}
    /\ \A p \in Tasks :
          /\ run[p].pc \in {"idle", "buffer", "window", "load", "snapshot", "signal",
                            "event", "done"}
          /\ run[p].window \subseteq Candles /\ run[p].out \subseteq SignalType
          /\ {run[p].before, run[p].after} \subseteq SnapshotType \cup {None}
    /\ snapshot \in SnapshotType
    /\ stored \subseteq SignalType /\ published \subseteq SignalType

\* What the strategy should do, seen all the candles.
Expected(n) == EvaluateLatest(Start, 1..n)

ExpectedSignal(n) ==
    IF Expected(n).signal = None THEN {} ELSE {[ts |-> n, type |-> Expected(n).signal]}

\* The entry of candle n has been handled for good.
Acked(n) == \E i \in 1..read : stream[i] = n /\ i \notin unacked

\* The run is undisturbed: nothing failed, no entry was removed unread, the manual
\* route was not called, and the buffer held the candle window from the start.
Undisturbed == faults = 0 /\ ~missed /\ triggers = 0 /\ fill = "full"

\* When nothing disturbs it, the signals in the collection are those of a
\* strategy that saw every candle once and in order, and when the entry of a
\* candle is acknowledged its signal is stored and published and the history
\* has exactly its event (a document without one tells of the first position).
SignalsAreExact ==
    Undisturbed =>
        /\ \A x \in stored : x \in ExpectedSignal(x.ts)
        /\ \A n \in Candles : Acked(n) =>
              /\ ExpectedSignal(n) \subseteq stored \cap published
              /\ {e.event : e \in {h \in history : h.ts = n}} \ {None}
                    = {Expected(n).event} \ {None}

\* Over faults, replays and crashes a signal is never published before it is
\* stored, and never stored before the position it tells of is in a snapshot, so
\* that execution never acts on a state the strategy does not hold.  (A call of
\* the manual route beside the worker's can undo the snapshot.)
SignalWritesInOrder ==
    /\ published \subseteq stored
    /\ triggers = 0 => \A x \in stored : snapshot.ts >= x.ts

\* Over replayed, repeated and overtaking entries the snapshot never goes back to
\* an earlier candle, unless by a lost update: the call that stores it read
\* another snapshot than the one it replaces.
SnapshotMovesForward ==
    [][snapshot'.ts < snapshot.ts =>
          \E p \in Tasks : run[p].pc = "snapshot" /\ run[p].before # snapshot]_vars

\* Whatever fails, the worker catches up with the dispatcher: again and again every
\* entry of the stream is acknowledged, unless it was removed before.  Entries removed
\* after the worker was given them may never be acknowledged: one of them keeps it
\* from every entry it was not given yet, a whole batch of them also from the
\* delivered ones behind them.
EntriesAreAcked ==
    []<>(\A i \in DOMAIN stream :
            \/ i <= read /\ i \notin unacked \ empty
            \/ i > read /\ empty # {}
            \/ Cardinality(empty) >= ReadCount)

\* The processor is "intentionally tolerant to replays because [...] signal
\* persistence is idempotent": when the signal step of a call about a candle is
\* over, first call or replay, the position that candle opened has its signal.
ReplayStoresSignal ==
    \A p \in Tasks :
        run[p].pc = "event" /\ snapshot.ts = run[p].ts /\ snapshot.event = "OPEN_LONG"
            => [ts |-> run[p].ts, type |-> "OPEN_LONG"] \in stored

=============================================================================
