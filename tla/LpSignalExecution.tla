-------------------------- MODULE LpSignalExecution --------------------------
(***************************************************************************)
(* The executor of the liquidity pipeline: SignalExecutorSupervisor's loop *)
(* and the use case it calls, which lists the PENDING documents of the     *)
(* signals collection and runs the plan of each one, step by step, against *)
(* api-liquidity-provider, under a semaphore and a lock per vault.  The    *)
(* plans are those StrategyReconcilerService builds.                       *)
(*                                                                         *)
(* Signals are numbered by created_at, list_pending's order.  A task is    *)
(* one _run_single_with_locks coroutine, <<sweep, signal>>; asyncio serves *)
(* the waiters of a semaphore and of a lock in arrival order.  Telegram    *)
(* messages, execution logs and the arithmetic of a step are left out.     *)
(***************************************************************************)
EXTENDS Naturals, Sequences, FiniteSets

CONSTANTS NumSignals,   \* signals the evaluation creates
          VaultOf,      \* VaultOf[s]: the lock key "dex:alias" of s
          Wired,        \* the vaults of strategies that have a dex and an alias
          Gauge,        \* the vaults with gauge_flow_enabled
          MaxParallel,  \* the use case's max_parallel
          MaxRetries,   \* the use case's max_retries
          SweepLimit,   \* the limit execute_once gives to list_pending
          MaxFaults     \* bound on failed calls, lost answers and crashes

Signals == 1..NumSignals

\* A sweep without a fault resolves every signal it lists.
MaxSweeps == NumSignals + MaxFaults

Tasks == (1..MaxSweeps) \X Signals

ASSUME ConstantsAssumption ==
    /\ NumSignals \in Nat
    /\ DOMAIN VaultOf = Signals
    /\ MaxParallel \in Nat \ {0}
    /\ MaxRetries \in Nat \ {0}
    /\ SweepLimit \in Nat \ {0}
    /\ MaxFaults \in Nat

VARIABLES status,    \* status[s] of the Mongo document, "ABSENT" before insertion
          plan,      \* plan[s]: the actions of its steps
          applied,   \* applied[s][i]: how often step i of s was carried out
          balanced,  \* signals whose BATCH_REQUEST found nothing to swap
          owing,     \* signals inserted whose creator has not called wake yet
          wake,      \* the supervisor's event
          loop,      \* the loop's position: "sweep", "gather" or "wait"
          sweep,     \* number of sweeps that started tasks
          task,      \* task[t]: where the coroutine t stands, "off" when it is over
          step,      \* step[t]: the step it is at
          tries,     \* tries[t]: failed attempts of that step
          faults     \* faults that happened so far

vars == <<status, plan, applied, balanced, owing, wake, loop, sweep, task, step,
          tries, faults>>

documents == <<status, plan>>
vaults == <<applied, balanced>>
supervisor == <<owing, wake, loop, sweep>>
coroutines == <<task, step, tries>>

MaxSteps == 4
Waiting  == {"sem", "lock"}
Critical == {"run", "done", "giveup", "unexpected"}
Stages   == Waiting \cup Critical \cup {"off", "raised"}

SignalOf(t) == t[2]
Key(t) == VaultOf[SignalOf(t)]
Action(t) == plan[SignalOf(t)][step[t]]

Before(t, u) == t[1] < u[1] \/ (t[1] = u[1] /\ t[2] < u[2])

Pending == {s \in Signals : status[s] = "PENDING"}

\* As ListPending, but the youngest first.
ListPendingNewest == {s \in Pending : Cardinality({r \in Pending : r > s}) < SweepLimit}

\* list_pending: oldest first, at most SweepLimit of them.
ListPending == {s \in Pending : Cardinality({r \in Pending : r < s}) < SweepLimit}

Fault == faults < MaxFaults /\ faults' = faults + 1

Init ==
    /\ status = [s \in Signals |-> "ABSENT"]
    /\ plan = [s \in Signals |-> <<>>]
    /\ applied = [s \in Signals |-> [i \in 1..MaxSteps |-> 0]]
    /\ balanced = {}
    /\ owing = {} /\ wake = FALSE /\ loop = "sweep" /\ sweep = 0
    /\ task = [t \in Tasks |-> "off"]
    /\ step = [t \in Tasks |-> 1]
    /\ tries = [t \in Tasks |-> 0]
    /\ faults = 0

-----------------------------------------------------------------------------
(* Creation of a signal, the last steps of an evaluation. *)

\* reconcile: hasPool is what the vault's status said.
Reconcile(v, hasPool) ==
    CASE v \notin Wired -> <<"NOOP_LEGACY">>
      [] v \in Wired /\ ~hasPool -> IF v \in Gauge THEN <<"OPEN", "STAKE">> ELSE <<"OPEN">>
      [] v \in Wired /\ hasPool ->
            IF v \in Gauge THEN <<"BATCH_REQUEST">>
                           ELSE <<"COLLECT", "WITHDRAW", "SWAP_EXACT_IN", "OPEN">>

\* As StoreSignal, but without the callback that wakes the executor.
StoreSignalSilently(s) ==
    /\ status[s] = "ABSENT"
    /\ \A r \in 1..(s - 1) : status[r] # "ABSENT"
    /\ status' = [status EXCEPT ![s] = "PENDING"]
    /\ \E hasPool \in BOOLEAN : plan' = [plan EXCEPT ![s] = Reconcile(VaultOf[s], hasPool)]
    /\ UNCHANGED <<vaults, supervisor, coroutines, faults>>

\* upsert_signal of a new key.
StoreSignal(s) ==
    /\ status[s] = "ABSENT"
    /\ \A r \in 1..(s - 1) : status[r] # "ABSENT"
    /\ status' = [status EXCEPT ![s] = "PENDING"]
    /\ \E hasPool \in BOOLEAN : plan' = [plan EXCEPT ![s] = Reconcile(VaultOf[s], hasPool)]
    /\ owing' = owing \cup {s}
    /\ UNCHANGED <<vaults, wake, loop, sweep, coroutines, faults>>

\* _on_signal_created
Wake(s) ==
    /\ s \in owing
    /\ owing' = owing \ {s}
    /\ wake' = TRUE
    /\ UNCHANGED <<documents, vaults, loop, sweep, coroutines, faults>>

-----------------------------------------------------------------------------
(* The supervisor's loop. *)

\* execute_once: one coroutine per listed signal, in the order of the list.
StartSweep ==
    /\ loop = "sweep"
    /\ Pending # {}
    /\ sweep < MaxSweeps
    /\ sweep' = sweep + 1
    /\ task' = [t \in Tasks |->
                  IF t[1] = sweep + 1 /\ t[2] \in ListPending THEN "sem" ELSE task[t]]
    /\ loop' = "gather"
    /\ UNCHANGED <<documents, vaults, owing, wake, step, tries, faults>>

\* Nothing is pending.
IdleSweep ==
    /\ loop = "sweep"
    /\ Pending = {}
    /\ loop' = "wait"
    /\ UNCHANGED <<documents, vaults, owing, wake, sweep, coroutines, faults>>

\* list_pending raises, and the loop waits.
SweepFault ==
    /\ loop = "sweep"
    /\ Fault
    /\ loop' = "wait"
    /\ UNCHANGED <<documents, vaults, owing, wake, sweep, coroutines>>

\* As EndSweep, but the coroutines are not awaited.
EndSweepUnawaited ==
    /\ loop = "gather"
    /\ loop' = "sweep"
    /\ UNCHANGED <<documents, vaults, owing, wake, sweep, coroutines, faults>>

\* gather returned True: the loop goes round at once.
EndSweep ==
    /\ loop = "gather"
    /\ \A s \in Signals : task[<<sweep, s>>] = "off"
    /\ loop' = "sweep"
    /\ UNCHANGED <<documents, vaults, owing, wake, sweep, coroutines, faults>>

\* gather re-raises the first exception at once; its other coroutines go on.
SweepRaised ==
    /\ loop = "gather"
    /\ \E s \in Signals : task[<<sweep, s>>] = "raised"
    /\ task' = [t \in Tasks |-> IF task[t] = "raised" THEN "off" ELSE task[t]]
    /\ loop' = "wait"
    /\ UNCHANGED <<documents, vaults, owing, wake, sweep, step, tries, faults>>

\* The wait ends, and the event is cleared whichever way it ended.
StopWaiting ==
    /\ loop = "wait"
    /\ loop' = "sweep"
    /\ wake' = FALSE
    /\ UNCHANGED <<documents, vaults, owing, sweep, coroutines, faults>>

Woken == wake /\ StopWaiting

PollTimeout == StopWaiting

-----------------------------------------------------------------------------
(* One coroutine. *)

Permits == {t \in Tasks : task[t] \in Critical \cup {"lock"}}

AcquireSemaphore(t) ==
    /\ task[t] = "sem"
    /\ Cardinality(Permits) < MaxParallel
    /\ \A u \in Tasks : task[u] = "sem" => ~Before(u, t)
    /\ task' = [task EXCEPT ![t] = "lock"]
    /\ UNCHANGED <<documents, vaults, supervisor, step, tries, faults>>

\* As MayLock, but the vault's lock does not exclude.
MayLockAlways(t) == \A u \in Tasks : Key(u) = Key(t) /\ task[u] = "lock" => ~Before(u, t)

\* The lock is free and t is its oldest waiter.
MayLock(t) ==
    \A u \in Tasks : Key(u) = Key(t) =>
        /\ task[u] \notin Critical
        /\ task[u] = "lock" => ~Before(u, t)

AcquireLock(t) ==
    /\ task[t] = "lock"
    /\ MayLock(t)
    /\ task' = [task EXCEPT ![t] = "run"]
    /\ UNCHANGED <<documents, vaults, supervisor, step, tries, faults>>

\* The step succeeded: on to the next one, if there is one.
NextStep(t) ==
    /\ tries' = [tries EXCEPT ![t] = 0]
    /\ IF step[t] < Len(plan[SignalOf(t)])
       THEN step' = [step EXCEPT ![t] = @ + 1] /\ UNCHANGED task
       ELSE task' = [task EXCEPT ![t] = "done"] /\ UNCHANGED step

\* The except branch of an attempt: sleep and try again, or leave the loop.
FailAttempt(t) ==
    /\ tries' = [tries EXCEPT ![t] = @ + 1]
    /\ task' = [task EXCEPT ![t] = IF tries[t] + 1 < MaxRetries THEN "run" ELSE "giveup"]
    /\ UNCHANGED step

\* A step that calls nobody.
PassStep(t) ==
    /\ task[t] = "run"
    /\ Key(t) \notin Wired \/ Action(t) = "NOOP_LEGACY"
    /\ NextStep(t)
    /\ UNCHANGED <<documents, vaults, supervisor, faults>>

\* The status shows that nothing is to be swapped: the step succeeds at once.
SkipSmall(t) ==
    /\ task[t] = "run"
    /\ Action(t) = "BATCH_REQUEST"
    /\ balanced' = balanced \cup {SignalOf(t)}
    /\ NextStep(t)
    /\ UNCHANGED <<documents, applied, supervisor, faults>>

Calls == {"BATCH_REQUEST", "OPEN"}

CallsOut(t) == task[t] = "run" /\ Action(t) \in Calls

Carried(T) ==
    [s \in Signals |-> [i \in 1..MaxSteps |->
        applied[s][i] + Cardinality({t \in T : SignalOf(t) = s /\ step[t] = i})]]

\* Status read, range computed, request carried out and answered.
StepOk(t) ==
    /\ CallsOut(t)
    /\ applied' = Carried({t})
    /\ NextStep(t)
    /\ UNCHANGED <<documents, balanced, supervisor, faults>>

\* The status is not to be had, the range cannot be computed, or the request
\* is refused.
StepRefused(t) ==
    /\ CallsOut(t)
    /\ Fault
    /\ FailAttempt(t)
    /\ UNCHANGED <<documents, vaults, supervisor>>

\* The request is carried out but the answer never arrives.
StepLost(t) ==
    /\ CallsOut(t)
    /\ Fault
    /\ applied' = Carried({t})
    /\ FailAttempt(t)
    /\ UNCHANGED <<documents, balanced, supervisor>>

\* As UnknownStep, but a step the executor does not know is passed over.
UnknownStepPasses(t) ==
    /\ task[t] = "run"
    /\ Key(t) \in Wired
    /\ Action(t) \notin Calls \cup {"NOOP_LEGACY"}
    /\ NextStep(t)
    /\ UNCHANGED <<documents, vaults, supervisor, faults>>

\* "unknown action": what any other step comes to.
UnknownStep(t) ==
    /\ task[t] = "run"
    /\ Key(t) \in Wired
    /\ Action(t) \notin Calls \cup {"NOOP_LEGACY"}
    /\ FailAttempt(t)
    /\ UNCHANGED <<documents, vaults, supervisor, faults>>

\* A finished coroutine releases the lock and the semaphore.
Finish(t, r) ==
    /\ status' = [status EXCEPT ![SignalOf(t)] = r]
    /\ task' = [task EXCEPT ![t] = "off"]
    /\ step' = [step EXCEPT ![t] = 1]
    /\ tries' = [tries EXCEPT ![t] = 0]
    /\ UNCHANGED <<plan, vaults, supervisor, faults>>

\* As MarkSuccess, but with the trade pipeline's word for it.
MarkSuccessExecuted(t) == task[t] = "done" /\ Finish(t, "EXECUTED")

MarkSuccess(t) == task[t] = "done" /\ Finish(t, "SENT")

\* After the last attempt of a step, or in the handler of an exception.
MarkFailure(t) == task[t] \in {"giveup", "unexpected"} /\ Finish(t, "FAILED")

\* The write raises, carried out or not: in the handler the coroutine ends with
\* the exception, elsewhere the handler takes over.
MarkFault(t) ==
    /\ task[t] \in {"done", "giveup", "unexpected"}
    /\ Fault
    /\ status' \in {status, [status EXCEPT ![SignalOf(t)] =
                                 IF task[t] = "done" THEN "SENT" ELSE "FAILED"]}
    /\ task' = [task EXCEPT ![t] =
                  CASE task[t] # "unexpected" -> "unexpected"
                    [] task[t] = "unexpected" /\ t[1] = sweep /\ loop = "gather" -> "raised"
                    [] OTHER -> "off"]
    /\ step' = [step EXCEPT ![t] = 1]
    /\ tries' = [tries EXCEPT ![t] = 0]
    /\ UNCHANGED <<plan, vaults, supervisor>>

\* The process stops and starts again: tasks, locks and the event are gone,
\* a request under way may or may not have been carried out.
Crash ==
    /\ Fault
    /\ \E T \in SUBSET {t \in Tasks : CallsOut(t)} : applied' = Carried(T)
    /\ task' = [t \in Tasks |-> "off"]
    /\ step' = [t \in Tasks |-> 1]
    /\ tries' = [t \in Tasks |-> 0]
    /\ owing' = {} /\ wake' = FALSE /\ loop' = "sweep"
    /\ UNCHANGED <<documents, balanced, sweep>>

-----------------------------------------------------------------------------

LoopStep == StartSweep \/ IdleSweep \/ EndSweep \/ SweepRaised \/ Woken

TaskStep(t) ==
    \/ AcquireSemaphore(t)
    \/ AcquireLock(t)
    \/ PassStep(t)
    \/ SkipSmall(t)
    \/ StepOk(t)
    \/ UnknownStep(t)
    \/ MarkSuccess(t)
    \/ MarkFailure(t)

TaskFault(t) == StepRefused(t) \/ StepLost(t) \/ MarkFault(t)

Next ==
    \/ \E s \in Signals : StoreSignal(s) \/ Wake(s)
    \/ LoopStep
    \/ PollTimeout
    \/ \E t \in Tasks : TaskStep(t) \/ TaskFault(t)
    \/ SweepFault
    \/ Crash

Spec == Init /\ [][Next]_vars

\* The event loop runs every ready coroutine and every request ends (the HTTP
\* client has a timeout); a creator that has inserted its signal calls wake.
\* The poll interval always ends; it is relied on only after a fault.
FairSpec ==
    /\ Spec
    /\ WF_vars(LoopStep)
    /\ \A t \in Tasks : WF_vars(task[t] # "off" /\ TaskStep(t))
    /\ \A s \in Signals : WF_vars(Wake(s))
    /\ WF_vars(faults > 0 /\ PollTimeout)

-----------------------------------------------------------------------------
(* Properties. *)

\* Every variable keeps the values the code can give it.
TypeOK ==
    /\ status \in [Signals -> {"ABSENT", "PENDING", "SENT", "FAILED"}]
    /\ \A s \in Signals : Len(plan[s]) \in 0..MaxSteps
    /\ applied \in [Signals -> [1..MaxSteps -> Nat]]
    /\ balanced \subseteq Signals /\ owing \subseteq Signals
    /\ wake \in BOOLEAN /\ loop \in {"sweep", "gather", "wait"}
    /\ sweep \in 0..MaxSweeps
    /\ task \in [Tasks -> Stages]
    /\ \A t \in Tasks : step[t] \in 1..MaxSteps /\ tries[t] \in 0..MaxRetries
    /\ faults \in 0..MaxFaults

\* Two pipelines never run on one vault at once, not even when a sweep starts
\* while coroutines of an aborted one are still running.
VaultMutex ==
    \A t, u \in Tasks :
        t # u /\ Key(t) = Key(u) => ~(task[t] \in Critical /\ task[u] \in Critical)

\* SENT means that the whole plan was executed: whatever was retried, repeated
\* or restarted, every step that calls the vault was carried out, a batch
\* request at least found nothing to do.  FAILED means that a call failed, or
\* that the plan has a step the executor does not know.
StatusTellsOutcome ==
    \A s \in Signals :
        /\ status[s] = "SENT" =>
              \A i \in DOMAIN plan[s] :
                  \/ plan[s][i] = "NOOP_LEGACY"
                  \/ plan[s][i] \in Calls /\ applied[s][i] > 0
                  \/ plan[s][i] = "BATCH_REQUEST" /\ s \in balanced
        /\ status[s] = "FAILED" /\ faults = 0 =>
              \E i \in DOMAIN plan[s] : plan[s][i] \notin Calls \cup {"NOOP_LEGACY"}

\* Each fault costs at most one repeated call of a step: without faults no
\* position is opened or rebalanced twice for one signal.
OneCallPerFault == \A s \in Signals, i \in 1..MaxSteps : applied[s][i] <= 1 + faults

\* Without a fault a vault is never moved to an older range: when a signal is
\* carried out no younger signal of its vault has been.
VaultMovesForward ==
    [][\A s \in Signals : applied'[s] # applied[s] /\ faults' = 0 =>
          \A r \in Signals : r > s /\ VaultOf[r] = VaultOf[s] =>
              \A i \in 1..MaxSteps : applied[r][i] = 0]_vars

\* Every signal inserted is resolved in the end, whatever fails; and as long as
\* nothing has failed by the wake event alone, without the poll interval.
PendingIsResolved ==
    \A s \in Signals : status[s] = "PENDING" ~> status[s] \in {"SENT", "FAILED"}

\* "Consumes PENDING signals from Mongo and executes their steps IN ORDER [...]
\* On full success -> mark SENT": when no call fails, no signal fails.
PlansSucceed == faults = 0 => \A s \in Signals : status[s] # "FAILED"
=============================================================================
