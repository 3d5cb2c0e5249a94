------------------------ MODULE TradeSignalExecution ------------------------
(***************************************************************************)
(* The last stage of the trade pipeline: the worker that consumes the      *)
(* "signal generated" stream, and the use case it calls, which sweeps the  *)
(* PENDING documents of the trade_signals collection and calls             *)
(* api-trade-execution for each of them under a semaphore and a lock per   *)
(* account and symbol.                                                     *)
(*                                                                         *)
(* Signals are numbered by their rank in list_pending's order              *)
(* (ts, created_at).  A task is one _run_single_with_lock coroutine,       *)
(* <<sweep, signal>>; asyncio serves the waiters of a semaphore and of a   *)
(* lock in arrival order, which is the lexicographic order of the tasks.   *)
(***************************************************************************)
EXTENDS Naturals, FiniteSets

CONSTANTS NumSignals,   \* how many signals the evaluation stage generates
          KeyOf,        \* KeyOf[s]: the lock key "account:symbol" of s
          NoAccount,    \* the signals whose payload names no execution account
          MaxParallel,  \* the executor's max_parallel
          MaxRetries,   \* the executor's max_retries
          SweepLimit,   \* the limit execute_once gives to list_pending
          ReadCount,    \* the worker's read_count
          StreamMaxlen, \* the publisher's stream_maxlen
          MaxFaults     \* bound on failed writes, lost answers and crashes

Signals == 1..NumSignals

\* A sweep is started once per delivery of a message, and only a fault makes
\* a message be delivered again.
MaxSweeps == NumSignals + MaxFaults

Tasks == (1..MaxSweeps) \X Signals

ASSUME ConstantsAssumption ==
    /\ NumSignals \in Nat
    /\ DOMAIN KeyOf = Signals
    /\ NoAccount \subseteq Signals
    /\ MaxParallel \in Nat \ {0}
    /\ MaxRetries \in Nat \ {0}
    /\ SweepLimit \in Nat \ {0}
    /\ ReadCount \in Nat \ {0}
    /\ StreamMaxlen \in Nat \ {0}
    /\ MaxFaults \in Nat

VARIABLES status,     \* status[s] of the Mongo document, "ABSENT" before insertion
          accepted,   \* accepted[s]: orders api-trade-execution carried out for s
          msg,        \* msg[s]: where the stream entry published for s is
          worker,     \* the consumer's position: "idle", "handle" or "gather"
          batch,      \* entries of the batch in hand that are not handled yet
          sweep,      \* number of sweeps that started tasks
          task,       \* task[t]: where the coroutine t stands, "off" when it is over
          tries,      \* tries[t]: failed attempts of t so far
          faults      \* faults that happened so far

vars == <<status, accepted, msg, worker, batch, sweep, task, tries, faults>>

stored == <<status, accepted>>
stream == <<msg, worker, batch, sweep>>
coroutines == <<task, tries>>

Waiting  == {"sem", "lock"}
Critical == {"call", "answered", "giveup", "unexpected"}
Stages   == Waiting \cup Critical \cup {"off", "raised"}

SignalOf(t) == t[2]
Key(t) == KeyOf[SignalOf(t)]

Before(t, u) == t[1] < u[1] \/ (t[1] = u[1] /\ t[2] < u[2])

Pending == {s \in Signals : status[s] = "PENDING"}

\* list_pending: oldest first, at most SweepLimit of them.
ListPending == {s \in Pending : Cardinality({r \in Pending : r < s}) < SweepLimit}

Fault == faults < MaxFaults /\ faults' = faults + 1

Init ==
    /\ status = [s \in Signals |-> "ABSENT"]
    /\ accepted = [s \in Signals |-> 0]
    /\ msg = [s \in Signals |-> "none"]
    /\ worker = "idle"
    /\ batch = {}
    /\ sweep = 0
    /\ task = [t \in Tasks |-> "off"]
    /\ tries = [t \in Tasks |-> 0]
    /\ faults = 0

-----------------------------------------------------------------------------
(* The evaluation stage, as far as this one sees it. *)

\* Mutant of StoreSignal: the upsert sets the status, of a known key too.
StoreSignalAgain(s) ==
    /\ status' = [status EXCEPT ![s] = "PENDING"]
    /\ UNCHANGED <<accepted, stream, coroutines, faults>>

\* upsert_by_idempotency_key: inserts an unseen key, otherwise changes nothing.
StoreSignal(s) ==
    /\ status[s] = "ABSENT"
    /\ status' = [status EXCEPT ![s] = "PENDING"]
    /\ UNCHANGED <<accepted, stream, coroutines, faults>>

In(place) == {s \in Signals : msg[s] = place}

Read == In("delivered") \cup In("acked")

\* What XADD may remove: the oldest entries, those that were read first, as long
\* as stream_maxlen are left with the new one; being approximate it may remove
\* fewer.
Trimmable ==
    {X \in SUBSET (Read \cup In("new")) :
        /\ X = {} \/ Cardinality((Read \cup In("new")) \ X) + 1 >= StreamMaxlen
        /\ X \cap In("new") # {} => Read \subseteq X}

\* publish_generated_signal, after the insertion; it may also never happen.  An
\* entry that is removed while it is pending stays pending, without its fields.
PublishSignal(s) ==
    /\ status[s] # "ABSENT"
    /\ msg[s] = "none"
    /\ \E X \in Trimmable :
          msg' = [m \in Signals |->
                    CASE m = s -> "new"
                      [] m \in X -> IF msg[m] = "delivered" THEN "empty" ELSE "gone"
                      [] OTHER -> msg[m]]
    /\ UNCHANGED <<stored, worker, batch, sweep, coroutines, faults>>

-----------------------------------------------------------------------------
(* The consumer loop. *)

\* Mutant of ReadMessages: entries are read with NOACK.
ReadMessagesNoAck ==
    /\ worker = "idle"
    /\ In("new") # {}
    /\ batch' = In("new")
    /\ msg' = [s \in Signals |-> IF s \in In("new") THEN "acked" ELSE msg[s]]
    /\ worker' = "handle"
    /\ UNCHANGED <<stored, sweep, coroutines, faults>>

\* One XREADGROUP: entries delivered earlier and never acknowledged come first,
\* new ones are read only when there are none.  An entry without its fields
\* cannot be parsed and is left as it is; the others are handled.
ReadMessages ==
    LET unacked == In("delivered") \cup In("empty")
        ready == IF unacked # {} THEN unacked ELSE In("new")
        size  == IF Cardinality(ready) < ReadCount THEN Cardinality(ready) ELSE ReadCount
    IN  /\ worker = "idle"
        /\ ready # {}
        /\ \E b \in SUBSET ready :
              /\ Cardinality(b) = size
              /\ batch' = b \ In("empty")
              /\ msg' = [s \in Signals |-> IF s \in b /\ msg[s] = "new" THEN "delivered" ELSE msg[s]]
              /\ worker' = IF b \subseteq In("empty") THEN "idle" ELSE "handle"
        /\ UNCHANGED <<stored, sweep, coroutines, faults>>

\* The loop leaves message m behind and takes the next one of the batch.
NextMessage(m) ==
    /\ m \in batch
    /\ batch' = batch \ {m}
    /\ worker' = IF batch = {m} THEN "idle" ELSE "handle"

Acknowledge(m) ==
    /\ NextMessage(m)
    /\ msg' = [msg EXCEPT ![m] = IF @ = "empty" THEN "gone" ELSE "acked"]

\* Mutant of SweepIsOver: the worker does not await the coroutines.
SweepIsOverUnawaited == (worker = "handle" /\ Pending = {}) \/ worker = "gather"

\* execute_once found nothing, or gather returned: the message is acknowledged.
SweepIsOver ==
    \/ worker = "handle" /\ Pending = {}
    \/ worker = "gather" /\ \A s \in Signals : task[<<sweep, s>>] = "off"

SweepRaised == worker = "gather" /\ \E s \in Signals : task[<<sweep, s>>] = "raised"

HandleMessage(m) ==
    /\ SweepIsOver
    /\ Acknowledge(m)
    /\ UNCHANGED <<stored, sweep, coroutines, faults>>

\* execute_once: one coroutine per listed signal, in the order of the list.
StartSweep ==
    /\ worker = "handle"
    /\ Pending # {}
    /\ sweep < MaxSweeps
    /\ sweep' = sweep + 1
    /\ task' = [t \in Tasks |->
                  IF t[1] = sweep + 1 /\ t[2] \in ListPending THEN "sem" ELSE task[t]]
    /\ worker' = "gather"
    /\ UNCHANGED <<stored, msg, batch, tries, faults>>

\* gather re-raises the first exception at once; its other coroutines go on.
LeaveMessage(m) ==
    /\ SweepRaised
    /\ NextMessage(m)
    /\ task' = [t \in Tasks |-> IF task[t] = "raised" THEN "off" ELSE task[t]]
    /\ UNCHANGED <<stored, msg, sweep, tries, faults>>

\* list_pending or XACK fails: the message stays unacknowledged.
MessageFault(m) ==
    /\ worker = "handle" \/ SweepIsOver
    /\ Fault
    /\ NextMessage(m)
    /\ UNCHANGED <<stored, msg, sweep, coroutines>>

-----------------------------------------------------------------------------
(* One coroutine. *)

Permits == {t \in Tasks : task[t] \in Critical \cup {"lock"}}

AcquireSemaphore(t) ==
    /\ task[t] = "sem"
    /\ Cardinality(Permits) < MaxParallel
    /\ \A u \in Tasks : task[u] = "sem" => ~Before(u, t)
    /\ task' = [task EXCEPT ![t] = "lock"]
    /\ UNCHANGED <<stored, stream, tries, faults>>

\* Mutants of MayLock: the lock is not held across the call; the lock is given
\* to any of its waiters.
MayLockWhileHeld(t) == \A u \in Tasks : Key(u) = Key(t) /\ task[u] = "lock" => ~Before(u, t)
MayLockUnfair(t) == \A u \in Tasks : Key(u) = Key(t) => task[u] \notin Critical

\* The lock is free and t is its oldest waiter.
MayLock(t) ==
    \A u \in Tasks : Key(u) = Key(t) =>
        /\ task[u] \notin Critical
        /\ task[u] = "lock" => ~Before(u, t)

\* The lock, then _process_signal up to its first await: a signal without an
\* account goes straight to mark_failure.
AcquireLock(t) ==
    /\ task[t] = "lock"
    /\ MayLock(t)
    /\ task' = [task EXCEPT ![t] = IF SignalOf(t) \in NoAccount THEN "giveup" ELSE "call"]
    /\ UNCHANGED <<stored, stream, tries, faults>>

Carried(S) == [s \in Signals |-> IF s \in S THEN accepted[s] + 1 ELSE accepted[s]]

DispatchOk(t) ==
    /\ task[t] = "call"
    /\ accepted' = Carried({SignalOf(t)})
    /\ task' = [task EXCEPT ![t] = "answered"]
    /\ UNCHANGED <<status, stream, tries, faults>>

\* The except branch of an attempt: sleep and try again, or leave the loop.
FailAttempt(t) ==
    /\ tries' = [tries EXCEPT ![t] = @ + 1]
    /\ task' = [task EXCEPT ![t] = IF tries[t] + 1 < MaxRetries THEN "call" ELSE "giveup"]

DispatchRejected(t) ==
    /\ task[t] = "call"
    /\ FailAttempt(t)
    /\ UNCHANGED <<stored, stream, faults>>

\* A non-retryable error message breaks out of the loop.
DispatchRefused(t) ==
    /\ task[t] = "call"
    /\ task' = [task EXCEPT ![t] = "giveup"]
    /\ UNCHANGED <<stored, stream, tries, faults>>

\* The order is carried out but the answer never arrives.
DispatchLost(t) ==
    /\ task[t] = "call"
    /\ Fault
    /\ accepted' = Carried({SignalOf(t)})
    /\ FailAttempt(t)
    /\ UNCHANGED <<status, stream>>

\* A finished coroutine releases the lock and the semaphore.
Finish(t, r) ==
    /\ status' = [status EXCEPT ![SignalOf(t)] = r]
    /\ task' = [task EXCEPT ![t] = "off"]
    /\ tries' = [tries EXCEPT ![t] = 0]
    /\ UNCHANGED <<accepted, stream, faults>>

\* Mutant of MarkSuccess: the signal is marked before the call returns.
MarkSuccessEarly(t) == task[t] \in {"call", "answered"} /\ Finish(t, "SENT")

MarkSuccess(t) == task[t] = "answered" /\ Finish(t, "SENT")

\* A write of status r raises: it was carried out or it was not.
MayWrite(t, r) ==
    /\ Fault
    /\ status' \in {status, [status EXCEPT ![SignalOf(t)] = r]}
    /\ UNCHANGED <<accepted, stream>>

\* mark_success raises inside the try of the attempt.
MarkSuccessFault(t) ==
    /\ task[t] = "answered"
    /\ MayWrite(t, "SENT")
    /\ FailAttempt(t)

\* Mutant of MarkFailure: a status that the enum does not have.
MarkFailureError(t) == task[t] \in {"giveup", "unexpected"} /\ Finish(t, "ERROR")

\* mark_failure, in _process_signal or in the handler of its exception.
MarkFailure(t) == task[t] \in {"giveup", "unexpected"} /\ Finish(t, "FAILED")

MarkFailureFault(t) ==
    /\ task[t] \in {"giveup", "unexpected"}
    /\ MayWrite(t, "FAILED")
    /\ task' = [task EXCEPT ![t] =
                  CASE task[t] = "giveup" -> "unexpected"
                    [] task[t] = "unexpected" /\ t[1] = sweep /\ worker = "gather" -> "raised"
                    [] OTHER -> "off"]
    /\ tries' = [tries EXCEPT ![t] = 0]

\* The process stops and starts again: coroutines, locks and the batch are
\* gone, a request under way may or may not have been carried out.
Crash ==
    /\ Fault
    /\ \E C \in SUBSET {t \in Tasks : task[t] = "call"} :
          accepted' = Carried({SignalOf(t) : t \in C})
    /\ task' = [t \in Tasks |-> "off"]
    /\ tries' = [t \in Tasks |-> 0]
    /\ worker' = "idle"
    /\ batch' = {}
    /\ UNCHANGED <<status, msg, sweep>>

-----------------------------------------------------------------------------

WorkerStep ==
    \/ ReadMessages
    \/ StartSweep
    \/ \E m \in Signals : HandleMessage(m) \/ LeaveMessage(m)

TaskStep(t) ==
    \/ AcquireSemaphore(t)
    \/ AcquireLock(t)
    \/ DispatchOk(t)
    \/ DispatchRejected(t)
    \/ DispatchRefused(t)
    \/ MarkSuccess(t)
    \/ MarkFailure(t)

TaskFault(t) == DispatchLost(t) \/ MarkSuccessFault(t) \/ MarkFailureFault(t)

Next ==
    \/ \E s \in Signals : StoreSignal(s) \/ PublishSignal(s)
    \/ WorkerStep
    \/ \E t \in Tasks : TaskStep(t) \/ TaskFault(t)
    \/ \E m \in Signals : MessageFault(m)
    \/ Crash

Spec == Init /\ [][Next]_vars

\* The event loop runs every ready coroutine and every request ends (the HTTP
\* client has a timeout); the stage before owes nothing, faults need not happen.
FairSpec ==
    /\ Spec
    /\ WF_vars(WorkerStep)
    /\ \A t \in Tasks : WF_vars(TaskStep(t))

-----------------------------------------------------------------------------
(* Properties. *)

\* Every variable keeps the values the code can give it.
TypeOK ==
    /\ status \in [Signals -> {"ABSENT", "PENDING", "SENT", "FAILED"}]
    /\ accepted \in [Signals -> Nat]
    /\ msg \in [Signals -> {"none", "new", "delivered", "acked", "empty", "gone"}]
    /\ worker \in {"idle", "handle", "gather"}
    /\ batch \subseteq Signals
    /\ sweep \in 0..MaxSweeps
    /\ task \in [Tasks -> Stages]
    /\ tries \in [Tasks -> Nat]
    /\ faults \in 0..MaxFaults

\* Two coroutines never work on the same account and symbol at once, not even
\* when a sweep starts while those of an aborted one are still running.
LockMutex ==
    \A t, u \in Tasks :
        t # u /\ Key(t) = Key(u) => ~(task[t] \in Critical /\ task[u] \in Critical)

\* No signal is marked SENT unless api-trade-execution carried out its order.
SentWasAccepted == \A s \in Signals : status[s] = "SENT" => accepted[s] > 0

\* Each fault costs at most one order, over all sweeps, redeliveries and retries:
\* without faults a signal is carried out at most once, and a signal that ends
\* FAILED, whose status denies every order, only as often as something failed.
OneOrderPerFault ==
    \A s \in Signals : accepted[s] <= faults + (IF status[s] = "FAILED" THEN 0 ELSE 1)

\* An order goes out only when no earlier task waits for the same account and
\* symbol, so that the close of a position never overtakes its open.
OrdersInSignalOrder ==
    [][\A t \in Tasks :
          task[t] = "call" /\ task'[t] = "answered" =>
              \A u \in Tasks : Key(u) = Key(t) /\ task[u] \in Waiting /\ u[1] = t[1]
                                   => SignalOf(t) < SignalOf(u)]_vars

\* What the stored documents show refines the ledger of signals.
Ledger == INSTANCE SignalLedger
LedgerSpec == Ledger!Spec

\* A published signal is eventually resolved, whatever coroutines, messages and
\* processes are lost on the way, and also when its entry is trimmed before it is
\* read, with two exceptions.  A whole sweep of older signals is pending before
\* it: its entry is then acknowledged after a sweep that does not list it.  Or a
\* pending entry lost its fields: it is never acknowledged, pending entries come
\* first, and no new entry is read again.
PublishedIsResolved ==
    \A s \in Signals :
        msg[s] = "new" ~>
            \/ status[s] \in {"SENT", "FAILED"}
            \/ Cardinality({r \in Pending : r < s}) >= SweepLimit
            \/ In("empty") # {}
=============================================================================
