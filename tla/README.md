# Verification of api-signals

TLA+ models of the signal pipelines of `colab-api-signals`, model-checked with
TLC and, in part, proved with TLAPS. Paths are relative to `src/`. The
repository has no README, no docs directory and no tests: what it promises is
said in its docstrings, and everything here is read from the code.

## 1. The system

One process (`main.py`): a FastAPI application, background asyncio tasks (the LP
executor, the dispatcher, one worker per shard, the signal consumer), MongoDB for
documents, Redis for streams and caches, HTTP clients for api-market-data,
api-trade-execution and api-liquidity-provider. There are two pipelines that
share nothing but the process.

**Trade pipeline**

    market stream -> dispatcher -> N shard streams -> shard worker -> processor -> evaluator
        -> snapshot, signal, event (Mongo) -> "signal generated" stream -> consumer
        -> sweep of PENDING signals -> api-trade-execution -> SENT / FAILED

**Liquidity (LP) pipeline**

    POST /triggers/candle-closed -> marker -> evaluation task -> episode and signal (Mongo)
        -> wake -> supervisor loop -> sweep of PENDING signals
        -> api-liquidity-provider, step by step -> SENT / FAILED

| component | code | state | operations | what makes it hard |
|---|---|---|---|---|
| trade signal execution | `core/usecases/execute_trade_signal_pipeline_use_case.py`, `workers/trade_signal_stream_consumer_worker.py`, `trade_signal_repository_mongodb.py` | status of each signal document; stream entries and their acknowledgement; coroutines, semaphore, lock per account and symbol | read, sweep, lock, dispatch with retries, mark, acknowledge | `asyncio.gather` gives up at the first exception while its coroutines run on; lost answers; crashes; redelivery |
| ATR two-stage strategy | `core/services/atr_two_stage_trade_strategy_service.py` | a dozen locals, stored as a runtime snapshot between calls | one turn per closed candle: arm, enter, block, exit, expire | 1000 lines of branches that must set and clear the same locals; restart from the snapshot; counters in bars |
| trade candle evaluation | `trade_candle_ingress_dispatcher_worker.py`, `trade_candle_evaluation_shard_worker.py`, `process_trade_candle_closed_event_use_case.py`, `evaluate_active_trade_strategies_use_case.py` | streams, Redis candle buffer, snapshot, signals, history | dispatch, evaluate, store three documents, publish, acknowledge; manual route | replays, entries that overtake each other, three writes without a transaction, a second caller |
| candle buffer | `trade_candle_buffer_repository_redis.py`, `trade_candle_buffer_use_case.py` | one sorted Redis list per stream | upsert, list, fill, bootstrap | read, then write what was read, by three writers; late and repeated candles; a history that lags |
| LP signal execution | `signal_executor_supervisor.py`, `execute_signal_pipeline_use_case.py`, `strategy_reconciler_service.py` | status, plan, wake event, coroutines, vault locks | wake, sweep, lock, step, retry, mark | as above, and lost wake-ups; a plan restarted from its first step |
| LP evaluation | `trigger_router.py`, `candle_closed_trigger_use_case.py`, `evaluate_active_strategies_use_case.py`, `strategy_episode_repository_mongodb.py` | markers, episodes with their counters, signals | mark, count, judge tiers, close, open, store signal | overlapping requests, six writes without a transaction |
| trade strategy administration | `trade_strategy_use_case.py`, its Mongo and Redis repositories | strategy documents, cached lists of active ones | create, update, set status, refresh, expire | the cache is refreshed by a read and a write that others overtake; updates write whole documents |
| LP strategy administration | `strategy_use_case.py`, its repository | one document per strategy | upsert parameters, register, vault link, status | read, change, write back; upserts that must not clear fields |
| indicators, queries, clients, DTOs, authentication, wiring | the rest | none of their own | | not concurrent, no state |

`PROJECT.json` lists every component with what is modelled of it, and under
`hazards` the places, at their lines, where this code is exposed to what a test
would hardly reach.

What makes each correct:

* *Signal execution*: no two coroutines act on one account and symbol (or
  vault); SENT only after the order (or the whole plan) was carried out; an
  order is repeated only at the price of a fault; orders go out in signal order;
  what is pending is resolved.
* *Strategy*: the locals are always in one of three shapes; setups expire; a
  position never outlives a risk limit; the cool-off holds; a restart changes
  nothing.
* *Evaluation*: each candle's signal exists exactly when the strategy says so;
  nothing is published that is not stored; the snapshot does not go back;
  entries are acknowledged.
* *Candle buffer*: it holds the newest candles, ascending, one for each
  `open_time`; the evaluator's window is right even when the list is not.
* *Administration*: a cached list is what MongoDB holds, or about to be; no request
  undoes another's change.
* *LP evaluation*: one open episode; counters agree; an episode and its signal go
  together; failures are made good.

## 2. Modules

| module | models | composes |
|---|---|---|
| `SignalLedger` | abstract specification: a signal is recorded once, accepted any number of times, and resolved, SENT never before an acceptance | |
| `TradeSignalExecution` | consumer loop, sweep, coroutines, documents | implements `SignalLedger` (`LedgerSpec`) |
| `AtrTwoStage` | the state machine of `evaluate_latest`, one candle a step | |
| `AtrRestart` | two `AtrTwoStage` over the same candles, one with restarts | two instances of `AtrTwoStage` |
| `TradeEvaluation` | dispatcher, shard worker, manual route, processor and evaluator | a cut-down strategy with the interface of `AtrTwoStage` |
| `RollingWindow` | abstract specification: the newest candles, ascending, one for each `open_time` | |
| `CandleBuffer` | the Redis list with the steps of its three writers | implements `RollingWindow` (`BufferIsRollingWindow`) |
| `TradeStrategyCache` | trade strategies in MongoDB and the cache of the active ones | |
| `LpStrategyDocument` | the document of one LP strategy and the requests that write it | |
| `StrategyAdministration` | the two of them; they share no state, and a behaviour exercises one (`subject`) | `TradeStrategyCache`, `LpStrategyDocument` |
| `LpSignalExecution` | supervisor loop, sweep, plans and their steps | |
| `LpEvaluation` | trigger route and evaluation of one strategy | |
| `TradeSignalExecution_proofs`, `LpSignalExecution_proofs`, `AtrTwoStage_proofs`, `StrategyAdministration_proofs`, `TradeEvaluation_proofs`, `CandleBuffer_proofs`, `LpEvaluation_proofs` | theorems | each extends the module it is named after; `AtrTwoStage_proofs` extends `AtrRestart` |
| `BoundedRecursion` | lemmas about recursive functions with a bound | |

`MC*` modules only give values to constants a configuration file cannot write.

### How the models correspond to the code

**An action is the code between two awaits that matter.** asyncio is
cooperative, so what a coroutine does between two awaits is atomic; each call of
Mongo, Redis or HTTP is a step of its own. A write that raises may have been applied:
the fault actions of both executors (`MayWrite` in `MarkSuccessFault` and
`MarkFailureFault`, `MarkFault`), of `TradeEvaluation` (`StrategyFault`, `LeaveEntry`)
and of `LpEvaluation` (`TriggerFault`, `EvaluationFault`) take both cases. Where a
document is the only trace of the write, an applied write that raised is the write
followed by a failure of the next call, and has no case of its own.

*TradeSignalExecution.* A signal is its rank in `list_pending`'s order. A task
`<<sweep, signal>>` is one `_run_single_with_lock`; it goes
`sem -> lock -> call -> answered | giveup -> off`, through `unexpected` when
the handler's own write fails and `raised` when its exception is left for
`gather`. `asyncio.Semaphore` and `asyncio.Lock` of Python 3.11 serve waiters in arrival
order, which is the order of tasks (`Before`). A failing attempt counts against
`MaxRetries`; `mark_success` is inside the `try` of the attempt, so its failure
repeats the order (`MarkSuccessFault`), also when the document says SENT by then. `worker` is the position of
`_consume_once`; `batch` its messages; unacknowledged entries come first at
every read, as in `_run_loop`. `Crash` forgets tasks, locks and the batch.
An executor's rejection (`DispatchRejected`, retried) and a refusal that
is not retryable (`DispatchRefused`) are outcomes of the call, not faults;
a lost answer, a failed write and a crash are faults and bounded by `MaxFaults`.
`PublishSignal` is the XADD with its approximate `maxlen`: it may remove the
oldest entries (`Trimmable`). One that was not read yet is gone; one that is
pending comes back without its fields, which `_parse_event` cannot read, so
`ReadMessages` hands it over again and again and nobody acknowledges it.

*AtrTwoStage.* `rt` has one field for each local that survives a turn. One step
is one turn of the loop: `Tick`, `Expired`, `Extremes`, then the one branch of
`ExitPosition, LowAtrExit, KeepPosition, ArmSetup, BlockEntry, OpenPosition,
StayFlat` whose condition holds. `FirstCandle` begins a new call, from the
snapshot as it is loaded (`Restored`), `NextCandle` continues a call. What a
candle's indicators say (thresholds hit, sides the averages allow, extremes
broken) is input. Prices and multipliers are natural numbers and the loss
ratio is in percent: floats and their rounding are not modelled.
`atr_threshold_mode` is ATR. Rewriting the snapshot on a call without new
candles changes nothing that is modelled.

*AtrRestart.* The second run loads no snapshot after its first candle. `forgot`
remembers that a call loaded a snapshot stored right after an event, whose zero
bars are restored as a million (finding 1); from then on the runs may differ.

*TradeEvaluation.* One stream, one strategy, cut down to its reaction to the kind of a
candle (`Kinds`; `AtrTwoStage` has the real one). It starts without a snapshot
(`Start`): the first call stores one, and its event is the first position, if it has
one. `Publish` is the XADD with its approximate `maxlen`. An entry removed before the
worker was given it is `missed`; one removed while it is pending (`empty`) is handed out
again without its fields, `_parse_event` raises, and it stays. `run[p]` is the
processor call of the worker (`"shard"`) or of the manual route's task (`"route"`), with
a pc per await: `buffer, window, load, snapshot, signal, event, done`. `StrategyFault` is the `except` of the strategy loop, which
logs and returns what it has; `ProcessorFault` is an exception before that loop.
Publishing and acknowledging are one step, since what separates them is in
`LeaveEntry`. A dispatcher failure is a repeated or overtaking entry. The buffer
is a set of candles; `fill` says whether it held `required_limit` candles at
the start.

*CandleBuffer.* A candle is its `open_time`. `run[p]` is the call of the shard
worker, of the manual route or of the bootstrap route, with a pc for each call
of Redis or api-market-data: `tail`, then `push` | `length -> set` | `range ->
rebuild`, the four ways of `upsert_candle`; `window`; `history -> refill`, the
fill of a short buffer; `evaluate`, where the evaluator has its window. An LSET beyond the
end is an error of Redis (`SetTailError`). The stream is assumed to have
strategies: without one the processor ends before it lists the window.
api-market-data may not know the last candle yet, or no candle at all (`Known`).
`HandleOther` is an entry that is delivered again, late or early.
`torn` and `skipped` are history variables: a write fell between another task's read
and its write; a call failed, an entry overtook another or a fill lacked a candle.

*TradeStrategyCache.* A strategy is its stream, its status and its parameters,
which stand for every other field. `run[t]` is a request (`Asking`: the document
it read and what it was asked for) or a refresh (`Caching`: the stream, the
stream after it, the list it read). An update reads the strategy (`ReadStrategy`),
writes every field (`UpdateStrategy`), reads the result and
refreshes the old stream and the new one. `SetStatus` writes nothing
(finding 5). `raced` and `overtaken` are history variables for two races: an
update that writes from an older copy, and a list that is cached after a write it
does not show. `last` is the value last asked for of each field.

*LpStrategyDocument.* `link` is `dex` and `alias`, `registry` the fields a
registration may leave out. `UpsertParams` and `Register` are one upsert each, which
leaves out what is None (`Over`); registering writes the default
parameters over those a strategy had, since its request cannot name them (`Asked`), and
either request resets the status when it leaves it out (`Filled`). `last` is what a request
last *named* of each field, `reset` the default written over it since, `raced` the
fields written back from an older copy. The vault link and the status are
`ReadDocument` and, later, `WriteBack` of the whole document. A refusal by a
unique index is a `WriteFault`.

*LpSignalExecution.* As `TradeSignalExecution`, with `loop` and `wake` for
`SignalExecutorSupervisor._loop`, and `plan`, `step`, `applied`, `balanced` for
the steps of a plan. Plans are those of `StrategyReconcilerService`; `Calls` are
the steps the executor knows (`NOOP_LEGACY` aside), and every other step ends in
`unknown action` after its retries (`UnknownStep`). The arithmetic of swaps and
ranges, Telegram messages and execution logs are left out.

*LpEvaluation.* `run[n]` is the evaluation of candle n with the copy of the
episode it read. `place` and `low` (where the price stands to the range, which
tiers' ATR thresholds hold) are what a request brings (`Requests`); nothing is assumed of
the order of the thresholds. A request whose indicator set or snapshot is missing or
incomplete (`place = "none"`) ends in `AcquireSemaphore`: its candle keeps the marker and is
never evaluated. So does a candle that finds the strategy inactive (`SkipStrategy`).
`processed` has the candles whose evaluation came to its end; `overlapped` is a history
variable.
Assumption: the callers of the route send candles in the order of `ts`.

## 3. Runs

Bounds are constants in the `.cfg` files; each behaviour of the models ends when
they are used up, so deadlock is not checked. All the state spaces are explored
completely.

| run | bounds | shows |
|---|---|---|
| `trade_signal_execution` | 3 signals, 2 lock keys, one signal without account, 2 permits, 2 attempts, sweeps and batches of 2, a stream of 2 entries, 2 faults | `LockMutex`, `SentWasAccepted`, `OneOrderPerFault`, `OrdersInSignalOrder`, `LedgerSpec`, `PublishedIsResolved` |
| `atr_two_stage` | 9 candles from 14 kinds, up to 3 calls and the same candles in one call, every filter and exit on, cool-off of 1 | `StateConsistent`, `SetupNotStale`, `ExtremesBracket`, `RiskLimits`, `CooloffRespected`, `RestartChangesNothing` |
| `trade_evaluation` | 2 candles, a stream of 1 entry, batches of 2, one fault, one call of the manual route, warm or cold buffer | `SignalWritesInOrder`, `SignalsAreExact`, `SnapshotMovesForward`, `EntriesAreAcked` |
| `candle_buffer` | 4 candles, 2 of them closed before, an empty or a filled list of at most 3, windows of 2, bootstraps of 1 or 4, one call of a route, 2 faults or repeated, late or early entries | `WindowSound`, `ReplaysLeaveNoGap`, `BufferIsRollingWindow` |
| `strategy_administration` | 1 strategy, 2 streams, 3 payloads, 3 requests, 2 at once, 1 processor, 1 fault | `StaleHasCause`, `NoChangeIsLost`, `CacheConverges`, `LinkStays` |
| `lp_signal_execution` | 3 signals, 2 of one vault, 2 permits, 2 attempts, sweeps of 2, 2 faults | `VaultMutex`, `StatusTellsOutcome`, `OneCallPerFault`, `VaultMovesForward`, `PendingIsResolved` |
| `lp_evaluation` | 4 candles, every request (a usable snapshot or none, any tiers' thresholds), 2 tiers, 2 evaluations at once, 1 fault | `OneOpenEpisode`, `CountersAddUp`, `TightenReachesTier`, `NothingLeftBehind`, `ReopensAfterFailure` |
| `atr_restart_cooloff` | as `atr_two_stage`, 8 candles | finding 1 |
| `trade_replay_store` | 2 candles, 1 fault | finding 2 |
| `lp_plans_succeed` | 3 signals, no fault | finding 3 |
| `lp_evaluation_concurrency` | 3 candles, 2 requests at once | finding 4 |
| `trade_status_set` | as `strategy_administration`, one request at a time, no fault | finding 5 |

Every passing run also checks the type invariant of its module.

*Why the bounds are enough.* Three signals are the fewest with two of one lock
key, one of another, and a list longer than a sweep. Two faults are the fewest
with which `mark_failure` fails in the handler too, so that `gather` gives up
and a second sweep meets coroutines of the first: the situation the locks are
for. Two attempts tell a retry from the last attempt. Nine candles hold
arming, confirmation over two candles, an entry, the
timeout of the position after four candles and the next arming. With closes of 96, 100
and 104, multipliers of 1 (trailing) and 2 (stop, target, reference move, expansion) and a
maximal loss of 8 percent, every exit and every reason that blocks an entry occurs; each
was checked by asking TLC for a behaviour with that event. (The theorems hold for all
parameters.) Two candles are enough for an entry to overtake another and for the snapshot
to go back. A stream of two entries is trimmed by the third, one of a single entry by the
second, read or unread; a candle dispatched twice makes three entries for batches of two.
A list of three candles and windows of two make a list that is trimmed, one that
is too short and one whose candles are all newer than a late one; two closed
candles before the start let a history lag behind the list. Two requests race each
other, the third comes after the race; two streams are the fewest an update can
move a strategy between. (Two strategies without faults were explored once and
show nothing else: strategies meet only in the list of a stream.) Four LP candles open an episode, close it for a tier, count that tier's
bars and close it again, or leave one of them without a snapshot. The requests are
those in range or out of it with every set of tiers, and those at the edge or without a
snapshot, for which no tier is judged.

*What "carried out" counts.* `accepted` and `applied` count requests that reached
api-trade-execution or api-liquidity-provider and were executed. The code sends
an idempotency key with each of them (the signal's key, or signal and action),
so that the other side can refuse a repetition; whether it does is not in this
repository, and the models take the case that it does not.

*Conditions inside properties.* Some properties hold only while nothing disturbs
the component, and say so: `faults = 0`, `~missed` (a candle whose entry was removed
unread is not evaluated), `processed # {}` (a strategy none of whose candles was evaluated has
no episode), `triggers = 0` (the manual route can
undo a snapshot the worker stored: a lost update, which `SnapshotMovesForward`
names and `SignalWritesInOrder` excludes), `~overlapped` (two LP evaluations at once can
open two episodes), `Undisturbed` (a cold buffer is filled with every closed
candle, so a message about an earlier one yields no signal), `~torn`, `~skipped`,
`raced` and `~overtaken` (see the modules above). `NoChangeIsLost` for an LP strategy says
of each field outside `raced` which value it has: what a request last named, or the
default of a later request that did not name it. `raced` and `overtaken` of a trade
strategy are not only excuses either: `StaleHasCause` says that these two races and failed calls are the
only ways a stale list stays. In each case the
state space contains the other behaviours too.

*Fairness.* Weak fairness of the worker's or the loop's next step and of each
coroutine: the event loop runs every ready task, HTTP clients have timeouts, and
waiters are served in order. No fairness for the market, the stage before, the callers
of routes, or faults. `LpSignalExecution` takes the poll interval to end only
after a fault: without one, `PendingIsResolved` holds by the wake event alone,
so no wake-up is lost; after a crash wake-ups are lost, and the poll is needed.
`PublishedIsResolved` and `EntriesAreAcked` list their exceptions: a message is acknowledged after one
sweep of at most 50 signals, and the trade consumer has no poll, so a signal
behind a backlog longer than that waits for a later message; and a pending entry
that lost its fields stops the consumer, or the shard worker, which goes on with the
other delivered entries only as long as a batch has room for one. `EntriesAreAcked` says
that the worker catches up again and again, which it can as the candles of a behaviour
are bounded. `CacheConverges` rests on requests that go
on or fail, and on the expiry of entries (43200 s by default, `config/settings.py:70`,
"a safety net"): without the expiry an older list cached last stays for good,
as the mutant `ExpireNever` shows. A time to live of zero is excluded.

*Mutants.* A definition described as "Mutant of X" or "As X, but" is X with a
plausible bug. No specification uses it: with X replaced by it, the property that
`PROJECT.json` pairs it with is violated, which shows that the property can fail.

### Findings

1. **The cool-off is forgotten on restart.** `bars_since_last_event` of a stored
   snapshot is restored with `or 1000000`, so 0 (an event on the last candle)
   becomes a million, and the next call enters or exits within `cooloff_bars`.
   In production each candle is a call of its own. Where the cool-off does hold is
   within one call (`CooloffRespected`).
2. **A replay does not store the signal.** The snapshot is stored before the
   signal. After a crash in between, the replayed candle is not newer than the
   snapshot, nothing is evaluated, and the signal never exists, although the
   position is in the snapshot. Related, by the same steps: a crash after the
   signal is stored and before it is published leaves it unpublished, as the
   replay returns no signals, though the docstring of `execute_for_stream` says "generated or
   reused"; and the replay's history document has another idempotency key (the
   key contains the signal's type), so a candle can have two.
3. **Plans the executor cannot carry out.** COLLECT, WITHDRAW, SWAP_EXACT_IN and
   STAKE are planned by the reconciler and unknown to the executor. A rotation
   without the gauge flow always fails at its first step; a first opening with
   it opens the position and fails at STAKE.
4. **The trigger semaphore bounds nothing.** It belongs to a use case object the
   route makes for each request.
5. **Setting the status of a trade strategy has no effect.** The update filters by
   the identifier as a string and matches nothing, since `_id` is an ObjectId; the
   read after it has a fallback of its own and finds the document, so the update by
   ObjectId is never reached and the unchanged document is returned.

Seen on the way, without a run of their own:

* A consumer stalls for good when the stream is trimmed (`stream_maxlen`, 50000
  entries) while an entry is pending: the entry comes back empty, cannot be parsed, is
  never acknowledged, and pending entries are read before new ones. The same holds
  for an entry that was malformed from the start, as the dispatcher's source stream
  may contain. `PublishedIsResolved` has this as its exception, and so has `EntriesAreAcked`
  for the shard worker, which reads its stream the same way
  (`trade_candle_evaluation_shard_worker.py:119`).
* `upsert_params` says it "Keeps old fields and params untouched/compatible"
  (`strategy_use_case.py:38`). A request without parameters writes the default ones
  (:57), and one without a status makes the strategy ACTIVE (:56); registering a strategy
  that is in use also writes the default parameters (:124). `NoChangeIsLost` says
  that this is all that is overwritten, and `reset` has the fields it happened to.
* A candle is marked before its request is looked at. One whose snapshot is missing is
  never evaluated, and sent again with the snapshot it is refused as a duplicate
  (`trigger_router.py:111`).
* `reconcile` says it returns "None if LP is already aligned"
  (`strategy_reconciler_service.py:41`); it has no such case, so every episode that is opened has a
  signal (`NothingLeftBehind`).
* `list_last` promises ascending order
  (`trade_candle_buffer_repository_redis.py:89`). The list itself is not ascending
  when two writers interleave: the worker reads the tail, the bootstrap route replaces
  the list, the worker appends. The processor sorts what it lists when the message has a
  candle, so `WindowSound` holds for it.
* A cold buffer filled from a history that lacks a candle the worker had handled has
  a gap from then on (`skipped`).
* The vault link's request "updates only the vault link fields", but writes back the
  whole document: a status or parameters changed in between are undone (`raced`).

## 4. Proofs

Every safety invariant and every action property of the passing runs, and both
refinements, are proved for every value of the constants. The theorems are about
specifications without fairness (`Spec`, `AdminSpec`, `BothSpec`), hence about the fair
ones as well. They rest on the named assumptions (`ConstantsAssumption`,
`ParamsAssumption`, `CacheAssumption`, `AdminAssumption`, `TagsAssumption`,
`NoneAssumption`), which give each constant its type, say that a list of tiers is a
list, and keep None and the tags apart from the values. Invariants were checked by TLC
on small instances before they were proved.

*TradeSignalExecution_proofs.* `TypeCorrect`. `LockIsExclusive`: `LockMutex` is
inductive with `TypeOK`, since `AcquireLock` is the only way into the critical
stages and `MayLock` finds no other there. `SentImpliesAccepted`: by
itself not inductive; `DocumentInv` adds that a task in a critical or waiting
stage belongs to a stored signal (`TasksAreStored`, which rests on sweeps
listing PENDING documents only) and that a task at `answered` had its order
accepted (`AnsweredWasAccepted`). `RefinesLedger`: from the same invariant each
step of the code is a step of the ledger or leaves its variables alone;
`DispatchOk`, `DispatchLost` and `Crash` map to `Accept` (with one signal, or as many as
calls were cut short), `MarkSuccess` and `MarkFailure` to `Resolve`.
`FaultsPayForOrders` counts: `Afforded` adds to the orders carried out those that are
still owed (coroutines that could yet place one without a further fault, `Busy`) and
bounds the sum by the faults and an allowance: one for a signal that is SENT or that the
current sweep is at work on, and none otherwise. Two sweeps overlap only when a coroutine
raised (`SweepsInOrder`), and that costs a fault.
`ClosesNeverOvertakeOpens`: semaphore and locks serve in the order of arrival (`Turns`).

*LpSignalExecution_proofs.* `TypeCorrect`, `OutcomeIsTold` and `VaultIsExclusive`. What
a status says of its plan is known only if the coroutine that writes it knew it, so
`Inv` says of every coroutine (`TaskOK`) that it has carried out the steps before the one it is at,
all of them when it is `done`, and that a fault or an unknown step is to blame when
it gives up; of every document that its plan is one of `Reconcile`'s (`Planned`); and of
every coroutine that waits that it stands before its first step, which a crash, a failed write and a new sweep
all see to. Whatever a step does, plans stay and the counts of calls only rise
(`Grows`), so what one coroutine or document knows is not undone by another
(`TaskStays`, `ToldStays`, `OneMoves`): that is where overlapping sweeps on one signal are
covered. `VaultMutex` is inductive with `TypeOK`: `AcquireLock` alone admits
(`OnlyTheLockAdmits`). `FaultsPayForCalls` is the argument of `Afforded` again, for each
step of a plan. `VaultNeverMovesBack` needs the whole order of things while nothing
fails: signals are stored in order (`StoredInOrder`), only the current sweep has
coroutines and it leaves out no older pending signal (`OneSweep`), waiters are served
in order (`Turns`), so whoever is critical finds all older signals of its vault
resolved (`OldestFirst`).

*AtrTwoStage_proofs.* One invariant, `Inv`, carries the five theorems
`TypeCorrect`, `StateIsConsistent`, `SetupsExpire`, `ExtremesAreRight` and
`RiskIsLimited`. It says of the operational state what the next turn counts on:
`Held` (which fields are set), `NotStale`, and, for a position,
`WithinRisk` and `Brackets` at the last close. Lemmas say what `Tick`, `Disarm`,
`Extremes`, `Judged`, `Restored`, `Close`, `Arm` and `Open` do to these parts;
`CandleLeaves` puts them together for a turn, one case per branch; `Invariance` lifts it to
`Spec`. The restart is in the proof: `Restored` only touches the age of the last
event. `CooloffHolds`: in the first evaluation `since` is the number of candles
since `fired` (`CooloffInv`). `RestartsChangeNothing`: the outcome of a turn is
determined by the state it starts from, and both of the two strategies take
the same turn as long as what they restored is the same (`RestartInv`); a behaviour of
`BothSpec` is one of `Spec` on either side, so the invariants above can be used.

*TradeEvaluation_proofs.* `Inv` carries `TradeEvaluationTypeCorrect`,
`SnapshotThenSignalThenPublish` and `SnapshotOnlyLosesUpdates`: a call in hand has
evaluated forward from what it read (`Sound`), and without the manual route the worker's
is the only call that stores (`Alone`). `UndisturbedSignalsAreExact`
compares with a run nobody interferes with: `Ideal` is the state after each candle when
the strategy sees every candle once and in order. `TrackInv` says that in an
undisturbed behaviour the snapshot, the call in hand and every stored document are
those of `Ideal` at their candle, whatever part of the stream is read, and
`EvaluateIdeal` that one evaluation over a window, which skips what the snapshot has, moves
along it.

*CandleBuffer_proofs.* Sorting comes first: `Sorted` gives the i-th place to the candle
with i candles up to it; that this is a bijection onto the set, ascending, is
`SortedProperties`, and lemmas on `Newest`, `Suffix` and `Merge` follow (the newest k
depend only on the newest k: `NewestIgnoresOlder`, `MergeOfSuffix`). `TypeInv` also bounds
what a task is about to write. `WindowIsSound` and `BufferRolls` rest on `SharedInv`: of
each task, that what it merged has its own candle (`WindowOK`) and that what it fetched is
a stretch of history (`FetchedOK`); and, as long as no write was torn, that the list is
ascending and what each task has read of it is still so (`RollingInv`).
`RollingStep` then finds a step of `RollingWindow` for each write. `ReplaysOpenNoGap`
follows the worker through a call (`CalmInv`): at each stage the list covers successive candles
(`Covers`) up to the last handed out, or one less while that candle is on its way;
windows of one candle, which have no gaps, are a case of their own (`SingleOK`).

*LpEvaluation_proofs.* Four layers, each resting on the one before. `CountInv`, whatever
overlaps or fails: counters of an episode and of the copies in hand stay within
the candles marked so far (`CountersAlwaysAddUp`, `LpEvaluationTypeCorrect`). `SoloInv`, as long as
evaluations do not overlap: one evaluation at most, one open episode at most, and at
which stage of the evaluation there is none (`AtMostOneOpenEpisode`,
`FailuresAreReopened`). `QuietInv`, without faults too: episodes and signals agree
and a processed candle left an episode behind, while the candles that return early
(`ReturnsEarly`) change neither (`NothingIsLeftBehind`). `TierInv`: what the search for a tier chose at the time of the close
still holds when it is judged again, although the first search has moved the counters
(`TightenAlwaysReachesTier`); the search is a recursive function over the list of tiers
and is unfolded by the lemmas of `BoundedRecursion`. Two theorems have the hypothesis
`DistinctTiers`, since the code keeps one counter for each tier name: with two tiers
of one name a search would count the candle twice.

*BoundedRecursion.* A recursive function `f[n \in Nat]` is a CHOOSE; that a function with its
equations exists must be shown, by an induction that the library states for operators only.
Between bounds it follows from a count: a set of numbers that has 0 and with each number
below n the next one has n, since otherwise the successor would map it into itself
without 0, which is smaller (`ReachesBound`). `BoundedInduction`, `UpwardRecursion`,
`DownwardInduction`, `DownwardRecursion` and `LeastExists` are stated for sets and
functions.

*StrategyAdministration_proofs.* `TypeCorrect`, `StalenessHasCause`,
`ChangesAreKept` and `LinkIsKept`, all from `Inv`, which has a part for each
component. `StaleHasCause` alone is not inductive: it must be known what a list
that is about to be cached contains and who will repair a list that is stale.
`CacheInv` says, as long as nothing failed and neither race happened (`Clean`),
that every list about to be set is what MongoDB holds (`ListsAreActive`) and that every stale
stream has a request which still will read its list (`StaleIsCovered`). The second
rests on `Ready`: a request about to write has read a document, whose stream is
the one the stored document has unless there was a race, so it refreshes the stream
the strategy leaves. Lemmas follow a write (`WriteMove`, `WriteReaches`) and a move
that writes nothing (`QuietMove`) through both parts; `CacheStep` has one case per
action. For the LP strategy, `LpInv` keeps the three histories next to the document: outside
`raced` a field is as `last` or, where a default came later, as `reset` says. An upsert
brings its fields up to what it named or filled in (`Upserts`); writing back a copy changes one
field and moves those in which the copy was older to `raced`; and `Over` never clears a
link.

Only model-checked: the liveness properties `PublishedIsResolved`, `EntriesAreAcked`,
`PendingIsResolved` and `CacheConverges`, which need fairness and ENABLED, out of
the prover's reach; and the findings, which are counterexamples.

## 5. Plan

Done, in this order: 1 `SignalLedger` and `TradeSignalExecution` with proofs,
2 `AtrTwoStage` and `AtrRestart` with proofs, 3 `TradeEvaluation`,
4 `LpSignalExecution`, 5 `LpEvaluation`, 6 `CandleBuffer`, 7 `TradeStrategyCache` and
`LpStrategyDocument` with proofs, 8 entries without their fields in
`TradeSignalExecution`, 9 proofs of `LpSignalExecution`, 10 proofs of
`LpEvaluation`, `TradeEvaluation`, `CandleBuffer` and of the counting and ordering properties
of both executors and of `AtrTwoStage`.

Next:

11. The ingress dispatcher call by call, with entries that cannot be parsed, where
    `TradeEvaluation` has one step; several streams on one shard.
12. Pure algorithms against reference definitions: seconds in range from ticks,
    pagination of ticks, `required_bars`.

## 6. Not modelled

The numbers: indicators, swap amounts, ranges, sqrt prices (floats; the models take
outcomes as inputs). Telegram messages, logs, DTOs, read-only routes,
authentication, wiring. Shutdown: `stop()` ends tasks that a `Crash` ends as
well; that the LP supervisor's `stop` suppresses `Exception`, which the
`CancelledError` of its own task is not, leaves a client open in a process that ends.
Dead code: `TradeCandleClosedTriggerUseCase` and
`TradeTriggerEventRepositoryMongoDB` are constructed by nobody, `invalidate` of the
strategy cache is called by nobody. Redis and Mongo
are external and modelled by how the code uses them: single operations are
atomic and durable, streams deliver in order and keep what is not acknowledged.
