---------------------------- MODULE LpEvaluation ----------------------------
(***************************************************************************)
(* The evaluation side of the liquidity pipeline, for one strategy: the    *)
(* route /triggers/candle-closed marks a candle as seen and starts a task  *)
(* for it, and the task runs execute_for_indicator_snapshot, which reads   *)
(* the strategy's open episode, counts the candles the price is out of its *)
(* range and the candles a tier's ATR threshold holds, and when a counter  *)
(* is full closes the episode, opens the next one and stores a signal for  *)
(* the executor.  Every call of Mongo is a step of its own.                *)
(*                                                                         *)
(* Where the price stands to the episode's range is part of the request:   *)
(* "edge" is within eps of a bound, neither in range nor out of it.  So    *)
(* are the tiers whose ATR threshold holds.  A request may also bring no   *)
(* usable indicator set or snapshot ("none"): its candle is marked and     *)
(* never evaluated.                                                        *)
(***************************************************************************)
EXTENDS Naturals, Sequences, FiniteSets

CONSTANTS None,
          NumCandles,   \* candles of a behaviour, numbered by ts
          Tiers,        \* params.tiers: records [name, bars, from]
          Cooloff,      \* params.cooloff_bars
          Confirm,      \* params.breakout_confirm_bars
          MaxConcurrency, \* TRIGGER_MAX_CONCURRENCY
          Requests,     \* what a request can bring: records [place, low]
          Overlap,      \* bound on evaluations under way at once
          MaxFaults     \* bound on failed calls and crashes

Candles == 1..NumCandles
TierNames == {Tiers[k].name : k \in DOMAIN Tiers}
Pools == TierNames \cup {"high_vol"}

Places == {"in", "edge", "above", "below", "none"}

ASSUME ConstantsAssumption ==
    /\ NumCandles \in Nat
    /\ Len(Tiers) \in Nat /\ DOMAIN Tiers = 1..Len(Tiers)
    /\ \A k \in DOMAIN Tiers : Tiers[k].bars \in Nat /\ Tiers[k].from \subseteq Pools
    /\ Cooloff \in Nat /\ Confirm \in Nat \ {0}
    /\ MaxConcurrency \in Nat \ {0}
    /\ Requests \subseteq [place : Places, low : SUBSET TierNames]
    /\ Overlap \in Nat \ {0} /\ MaxFaults \in Nat

VARIABLES marked,    \* candles with a document in trigger_events
          run,       \* run[n]: the evaluation of candle n
          episode,   \* episode[n]: the document ep_<strategy>_<n>, None before
          signals,   \* candles with a document in signals
          processed, \* candles whose evaluation came to its end
          overlapped, \* history: two evaluations have been under way at once
          faults     \* faults that happened so far

vars == <<marked, run, episode, signals, processed, overlapped, faults>>

NoRun == [pc |-> "off", of |-> None, copy |-> None, place |-> "in", low |-> {}, trigger |-> None]

NoStreak == [t \in TierNames |-> 0]

NewEpisode(pool) ==
    [status |-> "OPEN", pool |-> pool, bar |-> 0, above |-> 0, below |-> 0,
     aboveTotal |-> 0, belowTotal |-> 0, streak |-> NoStreak, reason |-> None]

Opened == {n \in Candles : episode[n] # None}
OpenEpisodes == {n \in Opened : episode[n].status = "OPEN"}
Active == {n \in Candles : run[n].pc # "off"}
Executing == {n \in Active : run[n].pc # "sem"}

Fault == faults < MaxFaults /\ faults' = faults + 1

Init ==
    /\ marked = {}
    /\ run = [n \in Candles |-> NoRun]
    /\ episode = [n \in Candles |-> None]
    /\ signals = {}
    /\ processed = {}
    /\ overlapped = FALSE
    /\ faults = 0

-----------------------------------------------------------------------------
(* The route. *)

\* mark_if_new inserts the marker, and the task starts.
Trigger(n) ==
    /\ n \notin marked
    /\ Cardinality(Active) < Overlap
    /\ \A m \in marked : m < n
    /\ marked' = marked \cup {n}
    /\ \E q \in Requests :
          run' = [run EXCEPT ![n] = [NoRun EXCEPT !.pc = "sem", !.place = q.place, !.low = q.low]]
    /\ overlapped' = (overlapped \/ Active # {})
    /\ UNCHANGED <<episode, signals, processed, faults>>

\* The requests whose tasks share the semaphore of candle n's task: every
\* request makes a use case, and with it a semaphore, of its own.
SharesSemaphore(n) == {n}

\* Without a usable indicator set and snapshot the task is over: the candle
\* keeps its marker.
AcquireSemaphore(n) ==
    /\ run[n].pc = "sem"
    /\ Cardinality(SharesSemaphore(n) \cap Executing) < MaxConcurrency
    /\ run' = [run EXCEPT ![n] = IF @.place = "none" THEN NoRun ELSE [@ EXCEPT !.pc = "read"]]
    /\ UNCHANGED <<marked, episode, signals, processed, overlapped, faults>>

\* The insertion raises, whatever the reason: the request is answered
\* "duplicate_event".
TriggerFault(n) ==
    /\ n \notin marked
    /\ \A m \in marked : m < n
    /\ Fault
    /\ marked' \in {marked, marked \cup {n}}
    /\ UNCHANGED <<run, episode, signals, processed, overlapped>>

-----------------------------------------------------------------------------
(* Gates. *)

\* As Counted, but a candle on one side leaves the run on the other side.
CountedBothSides(e, place) ==
    [e EXCEPT !.bar = @ + 1,
              !.above = IF place = "above" THEN @ + 1 ELSE IF place = "below" THEN @ ELSE 0,
              !.below = IF place = "below" THEN @ + 1 ELSE IF place = "above" THEN @ ELSE 0,
              !.aboveTotal = IF place = "above" THEN @ + 1 ELSE @,
              !.belowTotal = IF place = "below" THEN @ + 1 ELSE @]

\* _update_breakout_streaks, and the candle count.
Counted(e, place) ==
    [e EXCEPT !.bar = @ + 1,
              !.above = IF place = "above" THEN @ + 1 ELSE 0,
              !.below = IF place = "below" THEN @ + 1 ELSE 0,
              !.aboveTotal = IF place = "above" THEN @ + 1 ELSE @,
              !.belowTotal = IF place = "below" THEN @ + 1 ELSE @]

Breakout(e) ==
    IF e.above >= Confirm THEN "cross_max"
    ELSE IF e.below >= Confirm THEN "cross_min"
    ELSE None

\* _gate_tier_runtime: how long the threshold of tier t has held, this candle
\* included.
Held(streak, low, t) == IF t \in low THEN streak[t] + 1 ELSE 0

\* One turn of the search: tier k, with what the tiers after it left.  A tier
\* that is allowed from the pool is counted and chosen if it has held long enough.
JudgeTier(k, r, pool, low, stop) ==
    LET t == Tiers[k].name
        n == Held(r.streak, low, t)
    IN  IF r.over THEN r
        ELSE IF stop /\ pool = t THEN [r EXCEPT !.over = TRUE]
        ELSE IF pool \notin Tiers[k].from THEN r
        ELSE [streak |-> [r.streak EXCEPT ![t] = n],
              chosen |-> IF n >= Tiers[k].bars THEN t ELSE None,
              over |-> n >= Tiers[k].bars]

\* The last tier first, up to the first that passes.  The search for a trigger
\* also ends at the tier the episode is in (stop), the search for the next pool
\* does not.
Gate(pool, low, streak, stop) ==
    LET g[k \in 1..(Len(Tiers) + 1)] ==
            IF k = Len(Tiers) + 1 THEN [streak |-> streak, chosen |-> None, over |-> FALSE]
            ELSE JudgeTier(k, g[k + 1], pool, low, stop)
    IN  g[1]

-----------------------------------------------------------------------------
(* The evaluation of candle n. *)

Goto(n, pc) == run' = [run EXCEPT ![n].pc = pc]

End(n) ==
    /\ run' = [run EXCEPT ![n] = NoRun]
    /\ processed' = processed \cup {n}

\* The strategy is not active for the indicator set, or has no alias.
SkipStrategy(n) ==
    /\ run[n].pc = "read"
    /\ run' = [run EXCEPT ![n] = NoRun]
    /\ UNCHANGED <<marked, episode, signals, processed, overlapped, faults>>

\* As ReadEpisode, but a strategy is given an episode only once.
ReadEpisodeOpensOnce(n) ==
    /\ run[n].pc = "read"
    /\ \/ OpenEpisodes = {} /\ Opened = {} /\ Goto(n, "open") /\ UNCHANGED processed
       \/ OpenEpisodes = {} /\ Opened # {} /\ End(n)
       \/ /\ \E o \in OpenEpisodes :
                run' = [run EXCEPT ![n].of = o, ![n].copy = Counted(episode[o], run[n].place),
                                   ![n].pc = "count"]
          /\ UNCHANGED processed
    /\ UNCHANGED <<marked, episode, signals, overlapped, faults>>

\* get_open_by_strategy: one of the OPEN documents, if there is one.
ReadEpisode(n) ==
    /\ run[n].pc = "read"
    /\ \/ OpenEpisodes = {} /\ Goto(n, "open")
       \/ \E o \in OpenEpisodes :
             run' = [run EXCEPT ![n].of = o, ![n].copy = Counted(episode[o], run[n].place),
                                ![n].pc = "count"]
    /\ UNCHANGED <<marked, episode, signals, processed, overlapped, faults>>

\* update_partial of the counters, then the choice of a trigger.
StoreCounters(n) ==
    LET r == run[n]
        b == Breakout(r.copy)
        looks == b = None /\ r.place = "in" /\ r.copy.bar >= Cooloff
        g == Gate(r.copy.pool, r.low, r.copy.streak, TRUE)
    IN  /\ r.pc = "count"
        /\ episode' = [episode EXCEPT ![r.of] =
                          [@ EXCEPT !.bar = r.copy.bar, !.above = r.copy.above,
                                    !.below = r.copy.below, !.aboveTotal = r.copy.aboveTotal,
                                    !.belowTotal = r.copy.belowTotal]]
        /\ \/ /\ b # None
              /\ run' = [run EXCEPT ![n].pc = "close", ![n].trigger = b]
              /\ UNCHANGED processed
           \/ /\ looks
              /\ run' = [run EXCEPT ![n].pc = "streak", ![n].trigger = g.chosen,
                                    ![n].copy.streak = g.streak]
              /\ UNCHANGED processed
           \/ b = None /\ ~looks /\ End(n)
        /\ UNCHANGED <<marked, signals, overlapped, faults>>

\* update_partial of the streaks: without a trigger the evaluation is over.
StoreStreak(n) ==
    /\ run[n].pc = "streak"
    /\ episode' = [episode EXCEPT ![run[n].of].streak = run[n].copy.streak]
    /\ IF run[n].trigger # None THEN Goto(n, "close") /\ UNCHANGED processed ELSE End(n)
    /\ UNCHANGED <<marked, signals, overlapped, faults>>

\* As CloseEpisode, but the status is not among the fields written.
CloseEpisodeFieldsOnly(n) ==
    LET r == run[n]
        g == Gate(r.copy.pool, r.low, r.copy.streak, FALSE)
    IN  /\ r.pc = "close"
        /\ episode' = [episode EXCEPT ![r.of] = [@ EXCEPT !.reason = r.trigger]]
        /\ run' = [run EXCEPT ![n].pc = "restreak", ![n].trigger = g.chosen,
                              ![n].copy.streak = g.streak]
        /\ UNCHANGED <<marked, signals, processed, overlapped, faults>>

\* As CloseEpisode, but the next pool is judged on streaks started afresh.
CloseEpisodeFresh(n) ==
    LET r == run[n]
        g == Gate(r.copy.pool, r.low, NoStreak, FALSE)
    IN  /\ r.pc = "close"
        /\ episode' = [episode EXCEPT ![r.of] = [@ EXCEPT !.status = "CLOSED", !.reason = r.trigger]]
        /\ run' = [run EXCEPT ![n].pc = "restreak", ![n].trigger = g.chosen,
                              ![n].copy.streak = g.streak]
        /\ UNCHANGED <<marked, signals, processed, overlapped, faults>>

\* close_episode, unconditional, then the choice of the next pool.
CloseEpisode(n) ==
    LET r == run[n]
        g == Gate(r.copy.pool, r.low, r.copy.streak, FALSE)
    IN  /\ r.pc = "close"
        /\ episode' = [episode EXCEPT ![r.of] = [@ EXCEPT !.status = "CLOSED", !.reason = r.trigger]]
        /\ run' = [run EXCEPT ![n].pc = "restreak", ![n].trigger = g.chosen,
                              ![n].copy.streak = g.streak]
        /\ UNCHANGED <<marked, signals, processed, overlapped, faults>>

\* As StoreLastStreak, but no episode follows when no tier was chosen.
StoreLastStreakNoDefault(n) ==
    /\ run[n].pc = "restreak"
    /\ episode' = [episode EXCEPT ![run[n].of].streak = run[n].copy.streak]
    /\ IF run[n].trigger # None THEN Goto(n, "open") /\ UNCHANGED processed ELSE End(n)
    /\ UNCHANGED <<marked, signals, overlapped, faults>>

\* update_partial of the streaks the second choice counted.
StoreLastStreak(n) ==
    /\ run[n].pc = "restreak"
    /\ episode' = [episode EXCEPT ![run[n].of].streak = run[n].copy.streak]
    /\ Goto(n, "open")
    /\ UNCHANGED <<marked, signals, processed, overlapped, faults>>

\* As OpenEpisode, but without the default pool.
OpenEpisodeNoDefault(n) ==
    /\ run[n].pc = "open"
    /\ episode' = [episode EXCEPT ![n] = NewEpisode(run[n].trigger)]
    /\ Goto(n, "signal")
    /\ UNCHANGED <<marked, signals, processed, overlapped, faults>>

\* open_new: the first episode, and one no tier was chosen for, is high_vol.
OpenEpisode(n) ==
    /\ run[n].pc = "open"
    /\ episode' = [episode EXCEPT ![n] =
                      NewEpisode(IF run[n].trigger = None THEN "high_vol" ELSE run[n].trigger)]
    /\ Goto(n, "signal")
    /\ UNCHANGED <<marked, signals, processed, overlapped, faults>>

\* reconcile and upsert_signal.
StoreSignal(n) ==
    /\ run[n].pc = "signal"
    /\ signals' = signals \cup {n}
    /\ End(n)
    /\ UNCHANGED <<marked, episode, overlapped, faults>>

\* A call raises and is logged: the task is over, whatever it did so far.  The
\* write that raised may have been applied; before the last one this is that
\* write and a failure of the next call.
EvaluationFault(n) ==
    /\ n \in Active
    /\ Fault
    /\ run' = [run EXCEPT ![n] = NoRun]
    /\ \/ signals' = signals
       \/ run[n].pc = "signal" /\ signals' = signals \cup {n}
    /\ UNCHANGED <<marked, episode, processed, overlapped>>

\* The process stops: the tasks are gone, the markers stay.
Crash ==
    /\ Active # {}
    /\ Fault
    /\ run' = [n \in Candles |-> NoRun]
    /\ UNCHANGED <<marked, episode, signals, processed, overlapped>>

-----------------------------------------------------------------------------

Evaluation(n) ==
    \/ AcquireSemaphore(n)
    \/ SkipStrategy(n)
    \/ ReadEpisode(n)
    \/ StoreCounters(n)
    \/ StoreStreak(n)
    \/ CloseEpisode(n)
    \/ StoreLastStreak(n)
    \/ OpenEpisode(n)
    \/ StoreSignal(n)

Next ==
    \/ \E n \in Candles : Trigger(n) \/ TriggerFault(n) \/ Evaluation(n) \/ EvaluationFault(n)
    \/ Crash

Spec == Init /\ [][Next]_vars

-----------------------------------------------------------------------------
(* Properties. *)

EpisodeType ==
    [status : {"OPEN", "CLOSED"}, pool : Pools, bar : 0..NumCandles,
     above : 0..NumCandles, below : 0..NumCandles, aboveTotal : 0..NumCandles,
     belowTotal : 0..NumCandles, streak : [TierNames -> 0..(2 * NumCandles)],
     reason : {None, "cross_max", "cross_min"} \cup TierNames]

\* The reason of a tier is prefixed in the code, and None is a value of its own.
ASSUME TagsAssumption ==
    /\ TierNames \cap {"cross_max", "cross_min"} = {}
    /\ None \notin Candles /\ None \notin TierNames \cup {"cross_max", "cross_min"}
    /\ None \notin [status : {"OPEN", "CLOSED"}, pool : Pools, bar : Nat, above : Nat,
                    below : Nat, aboveTotal : Nat, belowTotal : Nat,
                    streak : [TierNames -> Nat], reason : {None, "cross_max", "cross_min"} \cup TierNames]

\* Every variable keeps the values the code can give it.
TypeOK ==
    /\ marked \subseteq Candles /\ signals \subseteq Candles /\ processed \subseteq Candles
    /\ \A n \in Candles :
          /\ run[n].pc \in {"off", "sem", "read", "count", "streak", "close", "restreak", "open", "signal"}
          /\ run[n].of \in Candles \cup {None}
          /\ run[n].trigger \in Pools \cup {None, "cross_max", "cross_min"}
          /\ episode[n] \in EpisodeType \cup {None}
    /\ overlapped \in BOOLEAN
    /\ faults \in 0..MaxFaults

\* As long as evaluations never overlap, the candles leave the strategy at most
\* one open episode, whatever fails on the way.
OneOpenEpisode == ~overlapped => Cardinality(OpenEpisodes) <= 1

\* The counters of an episode stay consistent, also when evaluations overlap
\* and overwrite each other's updates: a run of candles out of the range is on
\* one side and lies within its total, and the totals lie within the candles
\* counted, each a candle other than the one that opened the episode.
CountersAddUp ==
    \A n \in Opened :
        /\ episode[n].above <= episode[n].aboveTotal
        /\ episode[n].below <= episode[n].belowTotal
        /\ episode[n].above = 0 \/ episode[n].below = 0
        /\ episode[n].aboveTotal + episode[n].belowTotal <= episode[n].bar
        /\ episode[n].bar <= Cardinality(marked \ {n})

\* No call failed and every evaluation ended before the next began.
Undisturbed == faults = 0 /\ ~overlapped

\* The episode opened when one was closed for tier x is on x or on a tier that
\* the code prefers to it, never back on a wider one, although the tiers are
\* judged a second time on counters that the first time changed.
TightenReachesTier ==
    Undisturbed =>
        \A n \in Opened, o \in Opened, k \in DOMAIN Tiers :
            o < n /\ (\A m \in (o + 1)..(n - 1) : m \notin Opened)
                  /\ episode[o].reason = Tiers[k].name
                => \E j \in k..Len(Tiers) : episode[n].pool = Tiers[j].name

\* Undisturbed evaluations leave no episode the executor does not hear of, and
\* a strategy that was evaluated has its one open episode.  A candle that was
\* marked may not have been: the request brought no snapshot, or the strategy
\* was skipped.
NothingLeftBehind ==
    Undisturbed /\ Active = {} =>
        /\ Opened = signals
        /\ processed # {} => Cardinality(OpenEpisodes) = 1

\* A strategy left without an open episode by a failure has one again when the
\* evaluation of a later candle comes to its end.
ReopensAfterFailure == [][processed' # processed /\ ~overlapped => OpenEpisodes' # {}]_vars

\* CandleClosedTriggerUseCase "runs with bounded concurrency (semaphore) for
\* safety": at most MaxConcurrency evaluations run at once.
BoundedConcurrency == Cardinality(Executing) <= MaxConcurrency
=============================================================================
