-------------------- MODULE TradeSignalExecution_proofs --------------------
(***************************************************************************)
(* For every number of signals, every assignment of lock keys, every       *)
(* degree of parallelism, retry limit and fault budget.                    *)
(***************************************************************************)
EXTENDS TradeSignalExecution, FiniteSetTheorems, TLAPS

-----------------------------------------------------------------------------
(* Type correctness. *)

\* The lists a sweep is made of contain stored signals only.
LEMMA ListPendingIsPending == ListPending \subseteq Pending
  BY DEF ListPending

\* Counting an acceptance leaves a table of natural numbers.
LEMMA CarriedType ==
  ASSUME accepted \in [Signals -> Nat], NEW S
  PROVE  Carried(S) \in [Signals -> Nat]
  BY DEF Carried

\* Every variable keeps the values the code can give it.
THEOREM TypeCorrect == Spec => []TypeOK
<1>1. Init => TypeOK
  BY ConstantsAssumption DEF Init, TypeOK, MaxSweeps, Stages
<1>2. TypeOK /\ [Next]_vars => TypeOK'
  <2> SUFFICES ASSUME TypeOK, [Next]_vars PROVE TypeOK'
    OBVIOUS
  <2> USE DEF TypeOK, stored, stream, coroutines
  <2>1. ASSUME NEW s \in Signals, StoreSignal(s) PROVE TypeOK'
    BY <2>1 DEF StoreSignal
  <2>2. ASSUME NEW s \in Signals, PublishSignal(s) PROVE TypeOK'
    <3>1. PICK X \in Trimmable :
             msg' = [m \in Signals |->
                       CASE m = s -> "new"
                         [] m \in X -> IF msg[m] = "delivered" THEN "empty" ELSE "gone"
                         [] OTHER -> msg[m]]
      BY <2>2 DEF PublishSignal
    <3>2. UNCHANGED <<stored, worker, batch, sweep, coroutines, faults>>
      BY <2>2 DEF PublishSignal
    <3> QED BY <3>1, <3>2
  <2>3. CASE ReadMessages
    <3>1. PICK b \in SUBSET Signals :
             /\ batch' = b \ In("empty")
             /\ msg' = [s \in Signals |->
                          IF s \in b /\ msg[s] = "new" THEN "delivered" ELSE msg[s]]
             /\ worker' = IF b \subseteq In("empty") THEN "idle" ELSE "handle"
      BY <2>3 DEF ReadMessages, In
    <3>2. UNCHANGED <<stored, sweep, coroutines, faults>>
      BY <2>3 DEF ReadMessages
    <3> QED BY <3>1, <3>2
  <2>4. CASE StartSweep
    <3>1. sweep' \in 0..MaxSweeps
      BY <2>4, ConstantsAssumption DEF StartSweep, MaxSweeps
    <3>2. task' \in [Tasks -> Stages]
      BY <2>4 DEF StartSweep, Stages, Waiting
    <3> QED BY <2>4, <3>1, <3>2 DEF StartSweep
  <2>5. ASSUME NEW m \in Signals, HandleMessage(m) PROVE TypeOK'
    BY <2>5 DEF HandleMessage, Acknowledge, NextMessage
  <2>6. ASSUME NEW m \in Signals, LeaveMessage(m) PROVE TypeOK'
    <3>1. task' \in [Tasks -> Stages]
      BY <2>6 DEF LeaveMessage, Stages
    <3> QED BY <2>6, <3>1 DEF LeaveMessage, NextMessage
  <2>7. ASSUME NEW t \in Tasks, TaskStep(t) PROVE TypeOK'
    <3> USE DEF Stages, Waiting, Critical
    <3>1. SignalOf(t) \in Signals
      BY DEF Tasks, SignalOf
    <3>2. CASE AcquireSemaphore(t)
      BY <3>2 DEF AcquireSemaphore
    <3>3. CASE AcquireLock(t)
      BY <3>3 DEF AcquireLock
    <3>4. CASE DispatchOk(t)
      BY <3>4, CarriedType DEF DispatchOk
    <3>5. CASE DispatchRejected(t)
      BY <3>5 DEF DispatchRejected, FailAttempt
    <3>6. CASE DispatchRefused(t)
      BY <3>6 DEF DispatchRefused
    <3>7. CASE MarkSuccess(t)
      BY <3>7, <3>1 DEF MarkSuccess, Finish
    <3>8. CASE MarkFailure(t)
      BY <3>8, <3>1 DEF MarkFailure, Finish
    <3> QED BY <2>7, <3>2, <3>3, <3>4, <3>5, <3>6, <3>7, <3>8 DEF TaskStep
  <2>8. ASSUME NEW t \in Tasks, TaskFault(t) PROVE TypeOK'
    <3> USE ConstantsAssumption DEF Stages, Waiting, Critical, Fault
    <3>1. CASE DispatchLost(t)
      BY <3>1, CarriedType DEF DispatchLost, FailAttempt
    <3>2. CASE MarkSuccessFault(t)
      <4>1. UNCHANGED <<accepted, stream>> /\ faults' \in 0..MaxFaults
            /\ status' \in [Signals -> {"ABSENT", "PENDING", "SENT", "FAILED"}]
        BY <3>2 DEF MarkSuccessFault, MayWrite
      <4>2. task' \in [Tasks -> Stages] /\ tries' \in [Tasks -> Nat]
        BY <3>2 DEF MarkSuccessFault, FailAttempt
      <4> QED BY <4>1, <4>2
    <3>3. CASE MarkFailureFault(t)
      <4>1. UNCHANGED <<accepted, stream>> /\ faults' \in 0..MaxFaults
            /\ status' \in [Signals -> {"ABSENT", "PENDING", "SENT", "FAILED"}]
        BY <3>3 DEF MarkFailureFault, MayWrite
      <4>2. task' \in [Tasks -> Stages] /\ tries' \in [Tasks -> Nat]
        BY <3>3 DEF MarkFailureFault
      <4> QED BY <4>1, <4>2
    <3> QED BY <2>8, <3>1, <3>2, <3>3 DEF TaskFault
  <2>9. ASSUME NEW m \in Signals, MessageFault(m) PROVE TypeOK'
    BY <2>9, ConstantsAssumption DEF MessageFault, NextMessage, Fault
  <2>10. CASE Crash
    <3>1. accepted' \in [Signals -> Nat]
      BY <2>10, CarriedType DEF Crash
    <3>2. faults' \in 0..MaxFaults
      BY <2>10, ConstantsAssumption DEF Crash, Fault
    <3> QED BY <2>10, <3>1, <3>2 DEF Crash, Stages
  <2>11. CASE UNCHANGED vars
    BY <2>11 DEF vars
  <2> QED
    BY <2>1, <2>2, <2>3, <2>4, <2>5, <2>6, <2>7, <2>8, <2>9, <2>10, <2>11
       DEF Next, WorkerStep
<1> QED BY <1>1, <1>2, PTL DEF Spec

-----------------------------------------------------------------------------
(***************************************************************************)
(* The lock.  Acquiring it looks at every other coroutine with the same    *)
(* key, and no other step enters the critical section.                     *)
(***************************************************************************)

\* Two coroutines never work on the same account and symbol at once.
THEOREM LockIsExclusive == Spec => []LockMutex
<1>1. Init => LockMutex
  BY DEF Init, LockMutex, Critical
<1>2. TypeOK /\ LockMutex /\ [Next]_vars => LockMutex'
  <2> SUFFICES ASSUME TypeOK, LockMutex, [Next]_vars PROVE LockMutex'
    OBVIOUS
  <2> USE DEF TypeOK, LockMutex, Critical, Key, stored, stream, coroutines
  <2>1. ASSUME NEW t \in Tasks, AcquireLock(t) PROVE LockMutex'
    BY <2>1 DEF AcquireLock, MayLock
  <2>2. CASE StartSweep
    BY <2>2 DEF StartSweep
  <2>3. ASSUME NEW m \in Signals, LeaveMessage(m) PROVE LockMutex'
    BY <2>3 DEF LeaveMessage
  <2>4. ASSUME NEW t \in Tasks, TaskStep(t), ~AcquireLock(t) PROVE LockMutex'
    BY <2>4 DEF TaskStep, AcquireSemaphore, DispatchOk, DispatchRejected,
                DispatchRefused, MarkSuccess, MarkFailure, FailAttempt, Finish
  <2>5. ASSUME NEW t \in Tasks, TaskFault(t) PROVE LockMutex'
    <3>1. CASE DispatchLost(t)
      BY <3>1 DEF DispatchLost, FailAttempt
    <3>2. CASE MarkSuccessFault(t)
      BY <3>2 DEF MarkSuccessFault, FailAttempt
    <3>3. CASE MarkFailureFault(t)
      BY <3>3 DEF MarkFailureFault
    <3> QED BY <2>5, <3>1, <3>2, <3>3 DEF TaskFault
  <2>6. CASE Crash
    BY <2>6 DEF Crash
  <2>7. ASSUME UNCHANGED task PROVE LockMutex'
    BY <2>7
  <2>8. CASE \E s \in Signals : StoreSignal(s) \/ PublishSignal(s) \/ MessageFault(s) \/ HandleMessage(s)
    BY <2>7, <2>8 DEF StoreSignal, PublishSignal, MessageFault, HandleMessage
  <2>9. CASE ReadMessages \/ UNCHANGED vars
    BY <2>7, <2>9 DEF ReadMessages, vars
  <2> QED
    BY <2>1, <2>2, <2>3, <2>4, <2>5, <2>6, <2>8, <2>9 DEF Next, WorkerStep
<1> QED BY <1>1, <1>2, TypeCorrect, PTL DEF Spec

-----------------------------------------------------------------------------
(***************************************************************************)
(* The stored documents.  A coroutine exists for stored signals only, and  *)
(* one that is about to call mark_success has seen its order carried out;  *)
(* both are needed to know what a status written by a coroutine means.     *)
(***************************************************************************)

TasksAreStored == \A t \in Tasks : task[t] # "off" => status[SignalOf(t)] # "ABSENT"

AnsweredWasAccepted == \A t \in Tasks : task[t] = "answered" => accepted[SignalOf(t)] > 0

DocumentInv == TypeOK /\ TasksAreStored /\ AnsweredWasAccepted /\ SentWasAccepted

\* The signal of a task is one of the signals.
LEMMA SignalOfType == \A t \in Tasks : SignalOf(t) \in Signals
  BY DEF Tasks, SignalOf

\* Counting acceptances never lowers the count of a signal, and raises that of S.
LEMMA CarriedGrows ==
  ASSUME accepted \in [Signals -> Nat], NEW S
  PROVE  \A s \in Signals : /\ Carried(S)[s] >= accepted[s]
                            /\ s \in S => Carried(S)[s] > 0
  BY DEF Carried

LEMMA DocumentInvStep == DocumentInv /\ TypeOK' /\ [Next]_vars => DocumentInv'
<1> SUFFICES ASSUME DocumentInv, TypeOK', [Next]_vars PROVE DocumentInv'
  OBVIOUS
<1> USE SignalOfType
    DEF DocumentInv, TypeOK, TasksAreStored, AnsweredWasAccepted, SentWasAccepted,
        stored, stream, coroutines
<1>1. CASE \E s \in Signals : StoreSignal(s) \/ PublishSignal(s) \/ MessageFault(s) \/ HandleMessage(s)
  BY <1>1 DEF StoreSignal, PublishSignal, MessageFault, HandleMessage
<1>2. CASE ReadMessages \/ UNCHANGED vars
  BY <1>2 DEF ReadMessages, vars
<1>3. CASE StartSweep
  BY <1>3, ListPendingIsPending DEF StartSweep, Pending, SignalOf
<1>4. ASSUME NEW m \in Signals, LeaveMessage(m) PROVE DocumentInv'
  BY <1>4 DEF LeaveMessage
<1>5. ASSUME NEW t \in Tasks, TaskStep(t) PROVE DocumentInv'
  <2>1. CASE AcquireSemaphore(t) \/ AcquireLock(t) \/ DispatchRefused(t)
    BY <2>1 DEF AcquireSemaphore, AcquireLock, DispatchRefused
  <2>2. CASE DispatchOk(t)
    <3>1. /\ \A s \in Signals : accepted'[s] >= accepted[s]
          /\ accepted'[SignalOf(t)] > 0
      BY <2>2, CarriedGrows DEF DispatchOk
    <3>2. \A s \in Signals : accepted[s] > 0 => accepted'[s] > 0
      BY <3>1
    <3>3. TasksAreStored'
      BY <2>2 DEF DispatchOk
    <3>4. AnsweredWasAccepted'
      BY <2>2, <3>1, <3>2 DEF DispatchOk
    <3>5. SentWasAccepted'
      BY <2>2, <3>2 DEF DispatchOk
    <3> QED BY <3>3, <3>4, <3>5
  <2>3. CASE DispatchRejected(t)
    BY <2>3 DEF DispatchRejected, FailAttempt
  <2>4. CASE MarkSuccess(t)
    BY <2>4 DEF MarkSuccess, Finish
  <2>5. CASE MarkFailure(t)
    BY <2>5 DEF MarkFailure, Finish
  <2> QED BY <1>5, <2>1, <2>2, <2>3, <2>4, <2>5 DEF TaskStep
<1>6. ASSUME NEW t \in Tasks, TaskFault(t) PROVE DocumentInv'
  <2>1. CASE DispatchLost(t)
    <3>1. /\ \A s \in Signals : accepted'[s] >= accepted[s]
          /\ accepted'[SignalOf(t)] > 0
      BY <2>1, CarriedGrows DEF DispatchLost
    <3>2. \A s \in Signals : accepted[s] > 0 => accepted'[s] > 0
      BY <3>1
    <3>3. TasksAreStored'
      BY <2>1 DEF DispatchLost, FailAttempt
    <3>4. AnsweredWasAccepted'
      BY <2>1, <3>1, <3>2 DEF DispatchLost, FailAttempt
    <3>5. SentWasAccepted'
      BY <2>1, <3>2 DEF DispatchLost
    <3> QED BY <3>3, <3>4, <3>5
  <2>2. CASE MarkSuccessFault(t)
    <3>1. /\ task[t] = "answered" /\ UNCHANGED accepted
          /\ \A s \in Signals : status'[s] = status[s] \/ (s = SignalOf(t) /\ status'[s] = "SENT")
      BY <2>2 DEF MarkSuccessFault, MayWrite
    <3>2. task'[t] \in {"call", "giveup"} /\ \A u \in Tasks \ {t} : task'[u] = task[u]
      BY <2>2 DEF MarkSuccessFault, FailAttempt
    <3> QED BY <3>1, <3>2
  <2>3. CASE MarkFailureFault(t)
    <3>1. /\ task[t] \in {"giveup", "unexpected"} /\ UNCHANGED accepted
          /\ \A s \in Signals : status'[s] = status[s] \/ (s = SignalOf(t) /\ status'[s] = "FAILED")
      BY <2>3 DEF MarkFailureFault, MayWrite
    <3>2. task'[t] \in {"unexpected", "raised", "off"} /\ \A u \in Tasks \ {t} : task'[u] = task[u]
      BY <2>3 DEF MarkFailureFault
    <3> QED BY <3>1, <3>2
  <2> QED BY <1>6, <2>1, <2>2, <2>3 DEF TaskFault
<1>7. CASE Crash
  <2>1. \A s \in Signals : accepted'[s] >= accepted[s]
    BY <1>7, CarriedGrows DEF Crash
  <2>2. \A s \in Signals : accepted[s] > 0 => accepted'[s] > 0
    BY <2>1
  <2>3. SentWasAccepted'
    BY <1>7, <2>2 DEF Crash
  <2>4. \A t \in Tasks : task'[t] = "off"
    BY <1>7 DEF Crash
  <2>5. TasksAreStored' /\ AnsweredWasAccepted'
    BY <2>4
  <2> QED BY <2>3, <2>5
<1> QED BY <1>1, <1>2, <1>3, <1>4, <1>5, <1>6, <1>7 DEF Next, WorkerStep

LEMMA DocumentInvariant == Spec => []DocumentInv
<1>1. Init => TasksAreStored /\ AnsweredWasAccepted /\ SentWasAccepted
  BY DEF Init, TasksAreStored, AnsweredWasAccepted, SentWasAccepted, SignalOf, Tasks
<1>2. TypeOK /\ TasksAreStored /\ AnsweredWasAccepted /\ SentWasAccepted <=> DocumentInv
  BY DEF DocumentInv
<1> QED BY <1>1, <1>2, DocumentInvStep, TypeCorrect, PTL DEF Spec

\* No signal is marked SENT unless api-trade-execution carried out its order.
THEOREM SentImpliesAccepted == Spec => []SentWasAccepted
<1>1. DocumentInv => SentWasAccepted
  BY DEF DocumentInv
<1> QED BY <1>1, DocumentInvariant, PTL

-----------------------------------------------------------------------------
(***************************************************************************)
(* The refinement.  Only five kinds of step touch the two variables of the *)
(* ledger; every other step is a stutter of it.                            *)
(***************************************************************************)

\* Every step of the stage is a step of the ledger of signals or leaves it alone.
LEMMA StepRefinesLedger ==
  DocumentInv /\ [Next]_vars => [Ledger!Next]_(Ledger!ledgerVars)
<1> SUFFICES ASSUME DocumentInv, [Next]_vars
             PROVE  Ledger!Next \/ UNCHANGED Ledger!ledgerVars
  OBVIOUS
<1> USE SignalOfType
    DEF DocumentInv, TypeOK, TasksAreStored, stored, stream, coroutines, Ledger!ledgerVars
<1>1. ASSUME NEW s \in Signals, StoreSignal(s) PROVE Ledger!Next
  <2>1. Ledger!Record(s)
    BY <1>1 DEF StoreSignal, Ledger!Record
  <2> QED BY <2>1 DEF Ledger!Next
<1>2. ASSUME NEW A \in SUBSET Signals, \A s \in A : status[s] # "ABSENT",
             accepted' = Carried(A), UNCHANGED status
      PROVE  Ledger!Next
  <2>1. Ledger!Accept(A)
    BY <1>2 DEF Ledger!Accept, Carried
  <2> QED BY <2>1 DEF Ledger!Next
<1>3. ASSUME NEW t \in Tasks, task[t] = "call", accepted' = Carried({SignalOf(t)}),
             UNCHANGED status
      PROVE  Ledger!Next
  <2>1. {SignalOf(t)} \in SUBSET Signals /\ \A s \in {SignalOf(t)} : status[s] # "ABSENT"
    BY <1>3
  <2> QED BY <1>2, <1>3, <2>1
<1>4. ASSUME NEW t \in Tasks, NEW r \in {"SENT", "FAILED"}, task[t] # "off",
             status' = [status EXCEPT ![SignalOf(t)] = r], UNCHANGED accepted,
             r = "SENT" => task[t] = "answered"
      PROVE  Ledger!Next
  <2>1. Ledger!Resolve(SignalOf(t), r)
    BY <1>4 DEF Ledger!Resolve, AnsweredWasAccepted
  <2> QED BY <2>1 DEF Ledger!Next, Ledger!Resolutions
<1>5. ASSUME NEW t \in Tasks, TaskStep(t) PROVE Ledger!Next \/ UNCHANGED stored
  <2>1. CASE DispatchOk(t)
    BY <1>3, <2>1 DEF DispatchOk
  <2>2. CASE MarkSuccess(t)
    BY <1>4, <2>2 DEF MarkSuccess, Finish
  <2>3. CASE MarkFailure(t)
    BY <1>4, <2>3 DEF MarkFailure, Finish
  <2>4. CASE AcquireSemaphore(t) \/ AcquireLock(t) \/ DispatchRejected(t) \/ DispatchRefused(t)
    BY <2>4 DEF AcquireSemaphore, AcquireLock, DispatchRejected, DispatchRefused
  <2> QED BY <1>5, <2>1, <2>2, <2>3, <2>4 DEF TaskStep
<1>6. ASSUME NEW t \in Tasks, TaskFault(t) PROVE Ledger!Next \/ UNCHANGED stored
  <2>1. CASE DispatchLost(t)
    BY <1>3, <2>1 DEF DispatchLost
  <2>2. CASE MarkSuccessFault(t)
    <3>1. PICK r \in {"SENT", "FAILED"} : r = "SENT"
      OBVIOUS
    <3>2. task[t] = "answered" /\ UNCHANGED accepted
          /\ status' \in {status, [status EXCEPT ![SignalOf(t)] = r]}
      BY <2>2, <3>1 DEF MarkSuccessFault, MayWrite
    <3> QED BY <1>4, <3>1, <3>2
  <2>3. CASE MarkFailureFault(t)
    <3>1. PICK r \in {"SENT", "FAILED"} : r = "FAILED"
      OBVIOUS
    <3>2. task[t] \in {"giveup", "unexpected"} /\ UNCHANGED accepted
          /\ status' \in {status, [status EXCEPT ![SignalOf(t)] = r]}
      BY <2>3, <3>1 DEF MarkFailureFault, MayWrite
    <3> QED BY <1>4, <3>1, <3>2
  <2> QED BY <1>6, <2>1, <2>2, <2>3 DEF TaskFault
<1>7. CASE Crash
  <2>1. PICK C \in SUBSET {t \in Tasks : task[t] = "call"} :
          accepted' = Carried({SignalOf(t) : t \in C})
    BY <1>7 DEF Crash
  <2>2. /\ {SignalOf(t) : t \in C} \in SUBSET Signals
        /\ \A s \in {SignalOf(t) : t \in C} : status[s] # "ABSENT"
    OBVIOUS
  <2>3. UNCHANGED status
    BY <1>7 DEF Crash
  <2> QED BY <1>2, <2>1, <2>2, <2>3
<1>8. CASE \E m \in Signals : PublishSignal(m) \/ MessageFault(m) \/ HandleMessage(m) \/ LeaveMessage(m)
  BY <1>8 DEF PublishSignal, MessageFault, HandleMessage, LeaveMessage
<1>9. CASE ReadMessages \/ StartSweep \/ UNCHANGED vars
  BY <1>9 DEF ReadMessages, StartSweep, vars
<1> QED
  BY <1>1, <1>5, <1>6, <1>7, <1>8, <1>9 DEF Next, WorkerStep

\* What the stored documents show refines the ledger of signals: a status never
\* returns to PENDING and SENT never precedes an acceptance, whatever fails.
THEOREM RefinesLedger == Spec => LedgerSpec
<1>1. Init => Ledger!Init
  BY DEF Init, Ledger!Init
<1> QED
  BY <1>1, StepRefinesLedger, DocumentInvariant, PTL DEF Spec, LedgerSpec, Ledger!Spec

-----------------------------------------------------------------------------
(***************************************************************************)
(* Counting orders.  A coroutine on a signal may bring one more order      *)
(* without another fault, unless its order has been answered.  Orders and  *)
(* such coroutines together stay within the faults and what the status     *)
(* allows: a sweep starts another coroutine on a pending signal only after *)
(* a fault took the one before it.                                         *)
(***************************************************************************)

Weight(stage) == IF stage \in {"off", "answered"} THEN 0 ELSE 1

Busy(s) == {k \in 1..MaxSweeps : Weight(task[<<k, s>>]) = 1}
Owed(s) == Cardinality(Busy(s))

\* The sweep the worker waits for has a coroutine on s, and none has raised.
OwnSweep(s) ==
    /\ worker = "gather" /\ task[<<sweep, s>>] # "off"
    /\ \A r \in Signals : task[<<sweep, r>>] # "raised"

Allowance(s) ==
    IF status[s] = "SENT" \/ (status[s] # "FAILED" /\ OwnSweep(s)) THEN 1 ELSE 0

Afforded == \A s \in Signals : accepted[s] + Owed(s) <= faults + Allowance(s)

SweepsInOrder ==
    /\ worker = "gather" => sweep \in 1..MaxSweeps
    /\ \A t \in Tasks : /\ task[t] # "off" => t[1] <= sweep
                        /\ task[t] = "raised" => worker = "gather" /\ t[1] = sweep

LEMMA TaskParts ==
  /\ \A t \in Tasks : t[1] \in 1..MaxSweeps /\ t[2] \in Signals /\ t = <<t[1], t[2]>>
                     /\ SignalOf(t) = t[2]
  /\ \A k \in 1..MaxSweeps, s \in Signals : <<k, s>> \in Tasks
  /\ MaxSweeps \in Nat /\ MaxFaults \in Nat
  BY ConstantsAssumption DEF Tasks, SignalOf, MaxSweeps

LEMMA BusyIsFinite ==
  /\ \A s : IsFiniteSet(Busy(s)) /\ Owed(s) \in Nat
  /\ \A s : IsFiniteSet(Busy(s)') /\ Owed(s)' \in Nat
<1>1. IsFiniteSet(1..MaxSweeps)
  BY TaskParts, FS_Interval
<1>2. \A s : Busy(s) \subseteq 1..MaxSweeps /\ Busy(s)' \subseteq 1..MaxSweeps
  BY DEF Busy
<1>3. \A s : IsFiniteSet(Busy(s)) /\ IsFiniteSet(Busy(s)')
  BY <1>1, <1>2, FS_Subset
<1> QED BY <1>3, FS_CardinalityType DEF Owed

\* One coroutine moves: what is owed on its signal changes by its weight.
LEMMA OwedMoves ==
  ASSUME task \in [Tasks -> Stages], NEW t \in Tasks, NEW stage, task' = [task EXCEPT ![t] = stage]
  PROVE  /\ \A s \in Signals : s # t[2] => Owed(s)' = Owed(s)
         /\ Owed(t[2])' + Weight(task[t]) = Owed(t[2]) + Weight(stage)
<1>1. ASSUME NEW s \in Signals, s # t[2] PROVE Owed(s)' = Owed(s)
  <2>1. \A k \in 1..MaxSweeps : <<k, s>> \in Tasks /\ <<k, s>> # t
    BY <1>1, TaskParts
  <2>2. Busy(s)' = Busy(s)
    BY <2>1 DEF Busy
  <2> QED BY <2>2 DEF Owed
<1>2. Owed(t[2])' + Weight(task[t]) = Owed(t[2]) + Weight(stage)
  <2>1. PICK k \in 1..MaxSweeps, s \in Signals : t = <<k, s>> /\ t[1] = k /\ t[2] = s
    BY TaskParts
  <2> DEFINE rest == Busy(s) \ {k}
  <2>2. task'[<<k, s>>] = stage /\ \A j \in 1..MaxSweeps \ {k} : task'[<<j, s>>] = task[<<j, s>>]
    BY <2>1, TaskParts
  <2>3. Weight(task[t]) \in {0, 1} /\ Weight(stage) \in {0, 1}
    BY DEF Weight
  <2>4. Busy(s) = IF Weight(task[t]) = 1 THEN rest \cup {k} ELSE rest
    BY <2>1 DEF Busy
  <2>5. Busy(s)' = IF Weight(stage) = 1 THEN rest \cup {k} ELSE rest
    BY <2>1, <2>2 DEF Busy
  <2>6. IsFiniteSet(rest) /\ Cardinality(rest) \in Nat
    BY BusyIsFinite, FS_Subset, FS_CardinalityType
  <2>7. Cardinality(rest \cup {k}) = Cardinality(rest) + 1
    BY <2>6, FS_AddElement
  <2> HIDE DEF rest
  <2>8. Owed(s) = Cardinality(rest) + Weight(task[t])
    BY <2>3, <2>4, <2>6, <2>7 DEF Owed
  <2>9. Owed(s)' = Cardinality(rest) + Weight(stage)
    BY <2>3, <2>5, <2>6, <2>7 DEF Owed
  <2> QED BY <2>1, <2>3, <2>6, <2>8, <2>9
<1> QED BY <1>1, <1>2

\* A coroutine moves without ending, and what it costs is paid for by a fault.
LEMMA AffordedMove ==
  ASSUME TypeOK, SweepsInOrder, Afforded, NEW t \in Tasks, NEW stage \in Stages \ {"off", "raised"},
         task[t] \notin {"off", "raised"}, task' = [task EXCEPT ![t] = stage],
         UNCHANGED <<worker, sweep>>, accepted' \in [Signals -> Nat],
         \A s \in Signals : status'[s] = status[s] \/ status'[s] = "SENT",
         faults' \in Nat, faults' >= faults,
         \A s \in Signals \ {t[2]} : accepted'[s] = accepted[s],
         accepted'[t[2]] + Weight(stage) + faults <= accepted[t[2]] + Weight(task[t]) + faults'
  PROVE  Afforded'
<1>1. task \in [Tasks -> Stages] /\ faults \in Nat /\ accepted \in [Signals -> Nat]
  BY TaskParts DEF TypeOK
<1>2. \A s \in Signals : OwnSweep(s) => OwnSweep(s)'
  <2>1. ASSUME NEW s \in Signals, OwnSweep(s) PROVE OwnSweep(s)'
    <3>1. worker = "gather" /\ sweep \in 1..MaxSweeps
      BY <2>1 DEF OwnSweep, SweepsInOrder
    <3>2. \A r \in Signals : <<sweep, r>> \in Tasks
      BY <3>1, TaskParts
    <3>3. task'[<<sweep, s>>] # "off" /\ \A r \in Signals : task'[<<sweep, r>>] # "raised"
      BY <1>1, <2>1, <3>2 DEF OwnSweep
    <3> QED BY <3>1, <3>3 DEF OwnSweep
  <2> QED BY <2>1
<1>3. \A s \in Signals : Allowance(s) \in {0, 1} /\ Allowance(s)' \in {0, 1} /\ Allowance(s) <= Allowance(s)'
  BY <1>2 DEF Allowance
<1>4. /\ \A s \in Signals : s # t[2] => Owed(s)' = Owed(s)
      /\ Owed(t[2])' + Weight(task[t]) = Owed(t[2]) + Weight(stage)
  BY <1>1, OwedMoves
<1>5. Weight(stage) \in {0, 1} /\ Weight(task[t]) \in {0, 1}
  BY DEF Weight
<1>6. ASSUME NEW s \in Signals PROVE accepted'[s] + Owed(s)' <= faults' + Allowance(s)'
  <2>1. Owed(s) \in Nat /\ Owed(s)' \in Nat /\ accepted[s] \in Nat /\ accepted'[s] \in Nat
        /\ accepted[s] + Owed(s) <= faults + Allowance(s)
    BY <1>1, BusyIsFinite DEF Afforded
  <2>2. CASE s # t[2]
    <3>1. accepted'[s] = accepted[s] /\ Owed(s)' = Owed(s)
      BY <1>4, <2>2
    <3> QED BY <1>1, <1>3, <2>1, <3>1
  <2>3. CASE s = t[2]
    BY <1>1, <1>3, <1>4, <1>5, <2>1, <2>3
  <2> QED BY <2>2, <2>3
<1> QED BY <1>6 DEF Afforded

\* Nothing is ordered, no coroutine moves, and the worker leaves a sweep only when
\* its coroutines are over or one has raised.
LEMMA AffordedStill ==
  ASSUME TypeOK, Afforded, UNCHANGED <<accepted, task>>, faults' \in Nat, faults' >= faults,
         \A s \in Signals : status'[s] = status[s] \/ (status[s] = "ABSENT" /\ status'[s] = "PENDING"),
         \A s \in Signals : OwnSweep(s) => OwnSweep(s)'
  PROVE  Afforded'
<1>1. \A s \in Signals : Owed(s)' = Owed(s)
  BY DEF Owed, Busy
<1>2. \A s \in Signals : Allowance(s) \in {0, 1} /\ Allowance(s)' \in {0, 1} /\ Allowance(s) <= Allowance(s)'
  BY DEF Allowance
<1>3. ASSUME NEW s \in Signals PROVE accepted'[s] + Owed(s)' <= faults' + Allowance(s)'
  BY <1>1, <1>2, BusyIsFinite, TaskParts DEF Afforded, TypeOK
<1> QED BY <1>3 DEF Afforded

\* Where a coroutine goes whose last write fails.
LEMMA FailureStage ==
  ASSUME NEW t \in Tasks, MarkFailureFault(t)
  PROVE  \E x \in {"unexpected", "raised", "off"} :
            /\ task' = [task EXCEPT ![t] = x]
            /\ x = "raised" => worker = "gather" /\ t[1] = sweep
<1>1. PICK x : x = CASE task[t] = "giveup" -> "unexpected"
                     [] task[t] = "unexpected" /\ t[1] = sweep /\ worker = "gather" -> "raised"
                     [] OTHER -> "off"
  OBVIOUS
<1>2. task' = [task EXCEPT ![t] = x]
  BY <1>1 DEF MarkFailureFault
<1>3. task[t] \in {"giveup", "unexpected"}
  BY DEF MarkFailureFault
<1>4. x \in {"unexpected", "raised", "off"} /\ (x = "raised" => worker = "gather" /\ t[1] = sweep)
  <2>1. CASE task[t] = "giveup"
    BY <1>1, <2>1
  <2>2. CASE task[t] = "unexpected" /\ t[1] = sweep /\ worker = "gather"
    BY <1>1, <2>2
  <2>3. CASE task[t] = "unexpected" /\ ~(t[1] = sweep /\ worker = "gather")
    BY <1>1, <2>3
  <2> QED BY <1>3, <2>1, <2>2, <2>3
<1> QED BY <1>2, <1>4

LEMMA SweepsStep == TypeOK /\ SweepsInOrder /\ [Next]_vars => SweepsInOrder'
<1> SUFFICES ASSUME TypeOK, SweepsInOrder, [Next]_vars PROVE SweepsInOrder'
  OBVIOUS
<1> USE DEF SweepsInOrder, stored, stream, coroutines
<1>1. CASE UNCHANGED <<task, worker, sweep>>
  BY <1>1
<1>2. CASE StartSweep
  <2>1. sweep \in 0..MaxSweeps /\ sweep' = sweep + 1 /\ sweep' \in 1..MaxSweeps /\ worker # "gather"
    BY <1>2, TaskParts DEF StartSweep, TypeOK
  <2>2. ASSUME NEW t \in Tasks PROVE task'[t] # "raised" /\ (task'[t] # "off" => t[1] <= sweep')
    <3>1. t[1] \in Nat /\ (task[t] # "off" => t[1] <= sweep) /\ task[t] # "raised"
      BY <2>1, TaskParts
    <3>2. (task'[t] = "sem" /\ t[1] = sweep + 1) \/ task'[t] = task[t]
      BY <1>2 DEF StartSweep
    <3> QED BY <2>1, <3>1, <3>2
  <2> QED BY <2>1, <2>2
<1>3. ASSUME NEW m \in Signals, HandleMessage(m) \/ MessageFault(m) PROVE SweepsInOrder'
  <2>1. UNCHANGED <<task, sweep>> /\ worker' # "gather"
    BY <1>3 DEF HandleMessage, MessageFault, Acknowledge, NextMessage
  <2>2. \A s \in Signals : worker = "gather" => task[<<sweep, s>>] = "off"
    BY <1>3 DEF HandleMessage, MessageFault, SweepIsOver
  <2>3. \A t \in Tasks : task[t] # "raised"
    BY <2>2, TaskParts
  <2> QED BY <2>1, <2>3
<1>4. ASSUME NEW m \in Signals, LeaveMessage(m) PROVE SweepsInOrder'
  BY <1>4 DEF LeaveMessage, NextMessage
<1>5. ASSUME NEW t \in Tasks, NEW stage, UNCHANGED <<worker, sweep>>, task[t] # "off",
             task' = [task EXCEPT ![t] = stage],
             stage = "raised" => worker = "gather" /\ t[1] = sweep
      PROVE  SweepsInOrder'
  BY <1>5 DEF TypeOK
<1>6. ASSUME NEW t \in Tasks, TaskStep(t) \/ TaskFault(t) PROVE SweepsInOrder'
  <2>1. PICK stage : /\ task' = [task EXCEPT ![t] = stage] /\ UNCHANGED <<worker, sweep>>
                     /\ task[t] # "off" /\ (stage = "raised" => worker = "gather" /\ t[1] = sweep)
    <3>1. CASE AcquireSemaphore(t) \/ DispatchOk(t) \/ DispatchRefused(t)
               \/ MarkSuccess(t) \/ MarkFailure(t)
      BY <3>1 DEF AcquireSemaphore, DispatchOk, DispatchRefused, MarkSuccess, MarkFailure, Finish
    <3>2. CASE AcquireLock(t)
      <4>1. PICK x \in {"call", "giveup"} : task' = [task EXCEPT ![t] = x]
        BY <3>2 DEF AcquireLock
      <4> QED BY <3>2, <4>1 DEF AcquireLock
    <3>3. CASE DispatchRejected(t) \/ DispatchLost(t) \/ MarkSuccessFault(t)
      <4>1. PICK x \in {"call", "giveup"} : task' = [task EXCEPT ![t] = x]
        BY <3>3 DEF DispatchRejected, DispatchLost, MarkSuccessFault, FailAttempt
      <4> QED BY <3>3, <4>1 DEF DispatchRejected, DispatchLost, MarkSuccessFault, MayWrite
    <3>4. CASE MarkFailureFault(t)
      BY <3>4, FailureStage DEF MarkFailureFault, MayWrite
    <3> QED BY <1>6, <3>1, <3>2, <3>3, <3>4 DEF TaskStep, TaskFault
  <2> QED BY <1>5, <2>1
<1>7. CASE Crash
  BY <1>7 DEF Crash
<1>8. CASE ReadMessages
  <2>1. worker # "gather" /\ worker' # "gather" /\ UNCHANGED <<task, sweep>>
    BY <1>8 DEF ReadMessages
  <2> QED BY <2>1
<1>9. CASE \E s \in Signals : StoreSignal(s) \/ PublishSignal(s)
  BY <1>1, <1>9 DEF StoreSignal, PublishSignal
<1>10. CASE UNCHANGED vars
  BY <1>1, <1>10 DEF vars
<1> QED BY <1>2, <1>3, <1>4, <1>6, <1>7, <1>8, <1>9, <1>10 DEF Next, WorkerStep

LEMMA AffordedTask ==
  ASSUME TypeOK, TypeOK', SweepsInOrder, Afforded, NEW t \in Tasks, TaskStep(t) \/ TaskFault(t)
  PROVE  Afforded'
<1>0. /\ task \in [Tasks -> Stages] /\ accepted \in [Signals -> Nat] /\ faults \in Nat
      /\ faults' \in Nat /\ accepted' \in [Signals -> Nat] /\ SignalOf(t) = t[2] /\ t[2] \in Signals
      /\ status \in [Signals -> {"ABSENT", "PENDING", "SENT", "FAILED"}]
  BY TaskParts DEF TypeOK
<1>1. ASSUME NEW x \in {"lock", "call", "giveup", "unexpected"}, NEW y \in {"sem", "lock", "call", "giveup"},
             task[t] = y, task' = [task EXCEPT ![t] = x], UNCHANGED <<status, worker, sweep>>,
             faults' >= faults, UNCHANGED accepted
      PROVE  Afforded'
  <2>1. Weight(x) = 1 /\ Weight(task[t]) = 1 /\ x \in Stages \ {"off", "raised"}
        /\ task[t] \notin {"off", "raised"}
    BY <1>1 DEF Weight, Stages, Waiting, Critical
  <2>2. accepted'[t[2]] + Weight(x) + faults <= accepted[t[2]] + Weight(task[t]) + faults'
    BY <1>0, <1>1, <2>1
  <2>3. \A s \in Signals \ {t[2]} : accepted'[s] = accepted[s]
    BY <1>1
  <2> QED BY <1>0, <1>1, <2>1, <2>2, <2>3, AffordedMove
<1>2. CASE AcquireSemaphore(t)
  BY <1>0, <1>1, <1>2 DEF AcquireSemaphore, stored, stream
<1>3. CASE AcquireLock(t)
  <2>1. PICK x \in {"call", "giveup"} : task' = [task EXCEPT ![t] = x]
    BY <1>3 DEF AcquireLock
  <2>2. task[t] = "lock" /\ UNCHANGED <<status, accepted, worker, sweep, faults>>
    BY <1>3 DEF AcquireLock, stored, stream
  <2>3. faults' >= faults
    BY <1>0, <2>2
  <2> QED BY <1>1, <2>1, <2>2, <2>3
<1>4. CASE DispatchRejected(t) \/ DispatchRefused(t)
  BY <1>0, <1>1, <1>4 DEF DispatchRejected, DispatchRefused, FailAttempt, stored, stream
<1>5. CASE DispatchOk(t)
  <2>1. /\ \A s \in Signals \ {t[2]} : accepted'[s] = accepted[s]
        /\ accepted'[t[2]] = accepted[t[2]] + 1
    BY <1>0, <1>5 DEF DispatchOk, Carried
  <2>2. Weight("answered") = 0 /\ Weight(task[t]) = 1 /\ "answered" \in Stages \ {"off", "raised"}
        /\ task[t] \notin {"off", "raised"}
    BY <1>5 DEF DispatchOk, Weight, Stages, Critical
  <2>3. task' = [task EXCEPT ![t] = "answered"] /\ UNCHANGED <<status, worker, sweep, faults>>
    BY <1>5 DEF DispatchOk, stream
  <2>4. /\ accepted'[t[2]] + Weight("answered") + faults <= accepted[t[2]] + Weight(task[t]) + faults'
        /\ faults' >= faults
    BY <1>0, <2>1, <2>2, <2>3
  <2> QED BY <1>0, <2>1, <2>2, <2>3, <2>4, AffordedMove
<1>6. CASE DispatchLost(t)
  <2>1. /\ \A s \in Signals \ {t[2]} : accepted'[s] = accepted[s]
        /\ accepted'[t[2]] = accepted[t[2]] + 1
    BY <1>0, <1>6 DEF DispatchLost, Carried
  <2>2. PICK x \in {"call", "giveup"} : task' = [task EXCEPT ![t] = x]
    BY <1>6 DEF DispatchLost, FailAttempt
  <2>3. Weight(x) = 1 /\ Weight(task[t]) = 1 /\ x \in Stages \ {"off", "raised"}
        /\ task[t] \notin {"off", "raised"}
    BY <1>6, <2>2 DEF DispatchLost, Weight, Stages, Critical
  <2>4. faults' = faults + 1 /\ UNCHANGED <<status, worker, sweep>>
    BY <1>6 DEF DispatchLost, Fault, stream
  <2>5. /\ accepted'[t[2]] + Weight(x) + faults <= accepted[t[2]] + Weight(task[t]) + faults'
        /\ faults' >= faults
    BY <1>0, <2>1, <2>3, <2>4
  <2> QED BY <1>0, <2>1, <2>2, <2>3, <2>4, <2>5, AffordedMove
<1>7. CASE MarkSuccessFault(t)
  <2>1. PICK x \in {"call", "giveup"} : task' = [task EXCEPT ![t] = x]
    BY <1>7 DEF MarkSuccessFault, FailAttempt
  <2>2. Weight(x) = 1 /\ Weight(task[t]) = 0 /\ x \in Stages \ {"off", "raised"}
        /\ task[t] \notin {"off", "raised"}
    BY <1>7, <2>1 DEF MarkSuccessFault, Weight, Stages, Critical
  <2>3. /\ faults' = faults + 1 /\ UNCHANGED <<worker, sweep, accepted>>
        /\ \A s \in Signals : status'[s] = status[s] \/ status'[s] = "SENT"
    BY <1>0, <1>7 DEF MarkSuccessFault, MayWrite, Fault, stream
  <2>4. /\ accepted'[t[2]] + Weight(x) + faults <= accepted[t[2]] + Weight(task[t]) + faults'
        /\ faults' >= faults
    BY <1>0, <2>2, <2>3
  <2>5. \A s \in Signals \ {t[2]} : accepted'[s] = accepted[s]
    BY <2>3
  <2> QED BY <1>0, <2>1, <2>2, <2>3, <2>4, <2>5, AffordedMove
<1>8. ASSUME NEW r \in {"SENT", "FAILED"}, Finish(t, r),
             \/ task[t] = "answered" /\ r = "SENT"
             \/ task[t] \in {"giveup", "unexpected"} /\ r = "FAILED"
      PROVE  Afforded'
  <2>1. /\ task' = [task EXCEPT ![t] = "off"] /\ UNCHANGED <<accepted, faults, worker, sweep>>
        /\ status'[t[2]] = r /\ \A s \in Signals \ {t[2]} : status'[s] = status[s]
    BY <1>0, <1>8 DEF Finish, stream
  <2>2. /\ \A s \in Signals : s # t[2] => Owed(s)' = Owed(s)
        /\ Owed(t[2])' + Weight(task[t]) = Owed(t[2]) + Weight("off")
    BY <1>0, <2>1, OwedMoves
  <2>3. Weight("off") = 0 /\ Weight(task[t]) = IF r = "SENT" THEN 0 ELSE 1
    BY <1>8 DEF Weight
  <2>4. Allowance(t[2])' = (IF r = "SENT" THEN 1 ELSE 0) /\ Allowance(t[2]) \in {0, 1}
    BY <2>1 DEF Allowance
  <2>5. accepted'[t[2]] + Owed(t[2])' <= faults' + Allowance(t[2])'
    BY <1>0, <2>1, <2>2, <2>3, <2>4, BusyIsFinite DEF Afforded
  <2>6. ASSUME NEW s \in Signals, s # t[2] PROVE accepted'[s] + Owed(s)' <= faults' + Allowance(s)'
    <3>1. OwnSweep(s) => OwnSweep(s)'
      <4>1. SUFFICES ASSUME OwnSweep(s) PROVE OwnSweep(s)'
        OBVIOUS
      <4>2. worker = "gather" /\ sweep \in 1..MaxSweeps
        BY <4>1 DEF OwnSweep, SweepsInOrder
      <4>3. <<sweep, s>> # t /\ \A q \in Signals : <<sweep, q>> \in Tasks
        BY <2>6, <4>2, TaskParts
      <4>4. task'[<<sweep, s>>] # "off" /\ \A q \in Signals : task'[<<sweep, q>>] # "raised"
        BY <1>0, <2>1, <4>1, <4>3 DEF OwnSweep
      <4> QED BY <2>1, <4>1, <4>4 DEF OwnSweep
    <3>2. Allowance(s) \in {0, 1} /\ Allowance(s)' \in {0, 1} /\ Allowance(s) <= Allowance(s)'
      BY <2>1, <2>6, <3>1 DEF Allowance
    <3> QED BY <1>0, <2>1, <2>2, <2>6, <3>2, BusyIsFinite DEF Afforded
  <2> QED BY <2>5, <2>6 DEF Afforded
<1>9. CASE MarkSuccess(t) \/ MarkFailure(t)
  <2>1. CASE MarkSuccess(t)
    <3>1. PICK r \in {"SENT", "FAILED"} : r = "SENT"
      OBVIOUS
    <3>2. Finish(t, r) /\ task[t] = "answered"
      BY <2>1, <3>1 DEF MarkSuccess
    <3>3. \/ task[t] = "answered" /\ r = "SENT"
          \/ task[t] \in {"giveup", "unexpected"} /\ r = "FAILED"
      BY <3>1, <3>2
    <3> QED BY <1>8, <3>2, <3>3
  <2>2. CASE MarkFailure(t)
    <3>1. PICK r \in {"SENT", "FAILED"} : r = "FAILED"
      OBVIOUS
    <3>2. Finish(t, r) /\ task[t] \in {"giveup", "unexpected"}
      BY <2>2, <3>1 DEF MarkFailure
    <3> QED BY <1>8, <3>1, <3>2
  <2> QED BY <1>9, <2>1, <2>2
<1>10. CASE MarkFailureFault(t)
  <2>1. PICK x \in {"unexpected", "raised", "off"} : task' = [task EXCEPT ![t] = x]
    BY <1>10, FailureStage
  <2>2. Weight(x) \in {0, 1} /\ Weight(task[t]) = 1
    BY <1>10 DEF Weight, MarkFailureFault
  <2>3. /\ \A s \in Signals : s # t[2] => Owed(s)' = Owed(s)
        /\ Owed(t[2])' + Weight(task[t]) = Owed(t[2]) + Weight(x)
    BY <1>0, <2>1, OwedMoves
  <2>4. faults' = faults + 1 /\ UNCHANGED accepted
    BY <1>10 DEF MarkFailureFault, MayWrite, Fault
  <2>5. ASSUME NEW s \in Signals PROVE accepted'[s] + Owed(s)' <= faults' + Allowance(s)'
    <3>1. Allowance(s) \in {0, 1} /\ Allowance(s)' \in {0, 1}
      BY DEF Allowance
    <3>2. Owed(s) \in Nat /\ Owed(s)' \in Nat /\ Owed(s)' <= Owed(s)
      <4>1. CASE s = t[2]
        BY <2>2, <2>3, <4>1, BusyIsFinite
      <4>2. CASE s # t[2]
        BY <2>3, <4>2, BusyIsFinite
      <4> QED BY <4>1, <4>2
    <3>3. accepted[s] \in Nat /\ accepted[s] + Owed(s) <= faults + Allowance(s)
      BY <1>0 DEF Afforded
    <3> QED BY <1>0, <2>4, <3>1, <3>2, <3>3
  <2> QED BY <2>5 DEF Afforded
<1> QED BY <1>2, <1>3, <1>4, <1>5, <1>6, <1>7, <1>9, <1>10 DEF TaskStep, TaskFault

LEMMA AffordedWorker ==
  ASSUME TypeOK, TypeOK', SweepsInOrder, Afforded,
         \/ (\E s \in Signals : StoreSignal(s) \/ PublishSignal(s) \/ HandleMessage(s)
                                \/ LeaveMessage(s) \/ MessageFault(s))
         \/ ReadMessages \/ StartSweep \/ Crash
  PROVE  Afforded'
<1>0. /\ task \in [Tasks -> Stages] /\ accepted \in [Signals -> Nat] /\ faults \in Nat
      /\ faults' \in Nat /\ accepted' \in [Signals -> Nat]
      /\ status \in [Signals -> {"ABSENT", "PENDING", "SENT", "FAILED"}]
      /\ sweep \in Nat
  BY TaskParts DEF TypeOK
<1>1. ASSUME NEW s \in Signals, StoreSignal(s) \/ PublishSignal(s) PROVE Afforded'
  <2>1. /\ UNCHANGED <<accepted, task, faults, worker, sweep>>
        /\ \A r \in Signals : status'[r] = status[r] \/ (status[r] = "ABSENT" /\ status'[r] = "PENDING")
    BY <1>0, <1>1 DEF StoreSignal, PublishSignal, stored, stream, coroutines
  <2>2. faults' >= faults /\ \A r \in Signals : OwnSweep(r) => OwnSweep(r)'
    BY <1>0, <2>1 DEF OwnSweep
  <2> QED BY <1>0, <2>1, <2>2, AffordedStill
<1>2. CASE ReadMessages
  BY <1>0, <1>2, AffordedStill DEF ReadMessages, stored, coroutines, OwnSweep
<1>3. ASSUME NEW m \in Signals, HandleMessage(m) \/ MessageFault(m) PROVE Afforded'
  <2>1. \A s \in Signals : ~OwnSweep(s)
    BY <1>3 DEF HandleMessage, MessageFault, SweepIsOver, OwnSweep
  <2>2. faults' >= faults /\ UNCHANGED <<accepted, status, task>>
    BY <1>0, <1>3 DEF HandleMessage, MessageFault, Fault, stored, coroutines
  <2> QED BY <1>0, <2>1, <2>2, AffordedStill
<1>4. ASSUME NEW m \in Signals, LeaveMessage(m) PROVE Afforded'
  <2>1. \A s \in Signals : ~OwnSweep(s)
    BY <1>4 DEF LeaveMessage, SweepRaised, OwnSweep
  <2>2. UNCHANGED <<accepted, status, faults>>
    BY <1>4 DEF LeaveMessage, stored
  <2>3. \A s \in Signals : Busy(s)' \subseteq Busy(s)
    <3>1. \A t \in Tasks : task'[t] = IF task[t] = "raised" THEN "off" ELSE task[t]
      BY <1>4 DEF LeaveMessage
    <3>2. \A t \in Tasks : Weight(task'[t]) = 1 => Weight(task[t]) = 1
      BY <3>1 DEF Weight
    <3> QED BY <3>2, TaskParts DEF Busy
  <2>4. \A s \in Signals : Owed(s)' <= Owed(s) /\ Owed(s) \in Nat /\ Owed(s)' \in Nat
    BY <2>3, BusyIsFinite, FS_Subset DEF Owed
  <2>5. \A s \in Signals : Allowance(s) <= Allowance(s)' /\ {Allowance(s), Allowance(s)'} \subseteq {0, 1}
    BY <2>1, <2>2 DEF Allowance
  <2>6. ASSUME NEW s \in Signals PROVE accepted'[s] + Owed(s)' <= faults' + Allowance(s)'
    BY <1>0, <2>2, <2>4, <2>5 DEF Afforded
  <2> QED BY <2>6 DEF Afforded
<1>5. CASE StartSweep
  <2>1. \A s \in Signals : ~OwnSweep(s)
    BY <1>5 DEF StartSweep, OwnSweep
  <2>2. /\ UNCHANGED <<accepted, status, faults>> /\ sweep' = sweep + 1 /\ worker' = "gather"
        /\ sweep' \in 1..MaxSweeps
        /\ \A t \in Tasks : task'[t] = IF t[1] = sweep' /\ t[2] \in ListPending THEN "sem" ELSE task[t]
    BY <1>0, <1>5, TaskParts DEF StartSweep, stored, TypeOK
  <2>3. \A s \in Signals : task[<<sweep', s>>] = "off"
    BY <1>0, <2>2, TaskParts DEF SweepsInOrder
  <2>4. ASSUME NEW s \in Signals PROVE accepted'[s] + Owed(s)' <= faults' + Allowance(s)'
    <3>1. Allowance(s) \in {0, 1} /\ Allowance(s)' \in {0, 1} /\ Allowance(s) <= Allowance(s)'
      BY <2>1, <2>2 DEF Allowance
    <3>2. <<sweep', s>> \in Tasks
      BY <2>2, TaskParts
    <3>3. CASE s \in ListPending
      <4>1. task' = [t \in Tasks |-> task'[t]]
        BY DEF TypeOK
      <4>2. \A r \in Signals : task'[<<sweep', r>>] # "raised"
        BY <2>2, <2>3, TaskParts
      <4>3. task'[<<sweep', s>>] = "sem"
        BY <2>2, <3>2, <3>3
      <4>4. OwnSweep(s)'
        BY <2>2, <4>2, <4>3 DEF OwnSweep
      <4>5. status[s] = "PENDING"
        BY <3>3 DEF ListPending, Pending
      <4>6. Allowance(s)' = 1 /\ Allowance(s) = 0
        BY <2>1, <2>2, <4>4, <4>5 DEF Allowance
      <4>7. Busy(s)' = Busy(s) \cup {sweep'}
        <5>1. \A k \in 1..MaxSweeps \ {sweep'} : task'[<<k, s>>] = task[<<k, s>>]
          BY <2>2, TaskParts
        <5> QED BY <2>2, <4>3, <5>1 DEF Busy, Weight
      <4>8. sweep' \notin Busy(s)
        BY <2>3 DEF Busy, Weight
      <4>9. Owed(s)' = Owed(s) + 1
        <5>1. PICK k : k = sweep'
          OBVIOUS
        <5>2. Cardinality(Busy(s) \cup {k}) = Cardinality(Busy(s)) + 1
          BY <4>8, <5>1, BusyIsFinite, FS_AddElement
        <5> QED BY <4>7, <5>1, <5>2 DEF Owed
      <4> QED BY <1>0, <2>2, <4>6, <4>9, BusyIsFinite DEF Afforded
    <3>4. CASE s \notin ListPending
      <4>1. \A k \in 1..MaxSweeps : task'[<<k, s>>] = task[<<k, s>>]
        BY <2>2, <3>4, TaskParts
      <4>2. Owed(s)' = Owed(s)
        BY <4>1 DEF Owed, Busy
      <4> QED BY <1>0, <2>2, <3>1, <4>2, BusyIsFinite DEF Afforded
    <3> QED BY <3>3, <3>4
  <2> QED BY <2>4 DEF Afforded
<1>6. CASE Crash
  <2>1. PICK C \in SUBSET {t \in Tasks : task[t] = "call"} : accepted' = Carried({SignalOf(t) : t \in C})
    BY <1>6 DEF Crash
  <2>2. faults' = faults + 1 /\ UNCHANGED status /\ \A t \in Tasks : task'[t] = "off"
    BY <1>6 DEF Crash, Fault
  <2>3. ASSUME NEW s \in Signals PROVE accepted'[s] + Owed(s)' <= faults' + Allowance(s)'
    <3>1. Owed(s)' = 0
      <4>1. Busy(s)' = {}
        BY <2>2, TaskParts DEF Busy, Weight
      <4> QED BY <4>1, FS_EmptySet DEF Owed
    <3>2. Allowance(s) \in {0, 1} /\ Allowance(s)' \in {0, 1}
      BY DEF Allowance
    <3>3. CASE s \notin {SignalOf(t) : t \in C}
      <4>1. accepted'[s] = accepted[s]
        BY <2>1, <3>3 DEF Carried
      <4> QED BY <1>0, <2>2, <3>1, <3>2, <4>1, BusyIsFinite DEF Afforded
    <3>4. CASE s \in {SignalOf(t) : t \in C}
      <4>1. accepted'[s] = accepted[s] + 1
        BY <2>1, <3>4 DEF Carried
      <4>2. PICK t \in Tasks : task[t] = "call" /\ SignalOf(t) = s
        BY <3>4
      <4>3. t[1] \in Busy(s)
        BY <4>2, TaskParts DEF Busy, Weight
      <4>4. Owed(s) # 0
        BY <4>3, BusyIsFinite, FS_EmptySet DEF Owed
      <4> QED BY <1>0, <2>2, <3>1, <3>2, <4>1, <4>4, BusyIsFinite DEF Afforded
    <3> QED BY <3>3, <3>4
  <2> QED BY <2>3 DEF Afforded
<1> QED BY <1>1, <1>2, <1>3, <1>4, <1>5, <1>6

LEMMA OrdersAreAfforded == Spec => [](SweepsInOrder /\ Afforded)
<1>1. Init => SweepsInOrder /\ Afforded
  <2> SUFFICES ASSUME Init PROVE SweepsInOrder /\ Afforded
    OBVIOUS
  <2>1. \A s \in Signals : Busy(s) = {}
    BY TaskParts DEF Init, Busy, Weight
  <2>2. \A s \in Signals : Owed(s) = 0 /\ Allowance(s) = 0
    BY <2>1, FS_EmptySet DEF Owed, Allowance, Init, OwnSweep
  <2> QED BY <2>2 DEF Init, SweepsInOrder, Afforded
<1>2. TypeOK /\ TypeOK' /\ SweepsInOrder /\ Afforded /\ [Next]_vars => Afforded'
  <2> SUFFICES ASSUME TypeOK, TypeOK', SweepsInOrder, Afforded, [Next]_vars PROVE Afforded'
    OBVIOUS
  <2>1. CASE UNCHANGED vars
    <3>1. \A s \in Signals : Owed(s)' = Owed(s) /\ Allowance(s)' = Allowance(s)
      BY <2>1 DEF vars, Owed, Busy, Allowance, OwnSweep
    <3> QED BY <2>1, <3>1 DEF vars, Afforded
  <2>2. CASE Next
    BY <2>2, AffordedTask, AffordedWorker DEF Next, WorkerStep
  <2> QED BY <2>1, <2>2
<1> QED BY <1>1, <1>2, SweepsStep, TypeCorrect, PTL DEF Spec

\* Each fault costs at most one order, over all sweeps, redeliveries and retries:
\* without faults a signal is carried out at most once, and one that ends FAILED
\* only as often as something failed.
THEOREM FaultsPayForOrders == Spec => []OneOrderPerFault
<1>1. TypeOK /\ Afforded => OneOrderPerFault
  <2> SUFFICES ASSUME TypeOK, Afforded, NEW s \in Signals
               PROVE  accepted[s] <= faults + (IF status[s] = "FAILED" THEN 0 ELSE 1)
    BY DEF OneOrderPerFault
  <2>1. Allowance(s) \in {0, 1} /\ (status[s] = "FAILED" => Allowance(s) = 0)
    BY DEF Allowance
  <2>2. accepted[s] \in Nat /\ faults \in Nat /\ Owed(s) \in Nat
        /\ accepted[s] + Owed(s) <= faults + Allowance(s)
    BY BusyIsFinite, TaskParts DEF TypeOK, Afforded
  <2> QED BY <2>1, <2>2
<1> QED BY <1>1, OrdersAreAfforded, TypeCorrect, PTL

-----------------------------------------------------------------------------
(***************************************************************************)
(* Orders of one key.  Coroutines of one sweep leave the semaphore in the  *)
(* order of their signals, and those of one key leave the lock in it: who  *)
(* still waits has a later signal than whoever has passed.                 *)
(***************************************************************************)

Passed == Critical \cup {"lock"}

Turns ==
    \A t, u \in Tasks :
        t[1] = u[1] =>
            /\ task[t] \in Passed /\ task[u] = "sem" => t[2] < u[2]
            /\ task[t] \in Critical /\ task[u] = "lock" /\ Key(t) = Key(u) => t[2] < u[2]

\* No coroutine passes the semaphore or the lock, and none starts to wait.
LEMMA TurnsKept ==
  ASSUME Turns,
         \A t \in Tasks : /\ task'[t] = "sem" => task[t] = "sem"
                          /\ task'[t] = "lock" => task[t] = "lock"
                          /\ task'[t] \in Critical => task[t] \in Critical
  PROVE  Turns'
  BY DEF Turns, Passed, Key, SignalOf

LEMMA NotBefore ==
  ASSUME NEW t \in Tasks, NEW u \in Tasks, t # u, t[1] = u[1], ~Before(u, t)
  PROVE  t[2] < u[2]
<1>1. /\ t[1] \in Nat /\ t[2] \in Nat /\ u[2] \in Nat
      /\ t = <<t[1], t[2]>> /\ u = <<u[1], u[2]>>
  BY TaskParts, ConstantsAssumption DEF Signals
<1>2. ~(u[2] < t[2]) /\ u[2] # t[2]
  BY <1>1 DEF Before
<1> QED BY <1>1, <1>2

LEMMA TurnsStep == TypeOK /\ SweepsInOrder /\ Turns /\ [Next]_vars => Turns'
<1> SUFFICES ASSUME TypeOK, SweepsInOrder, Turns, [Next]_vars PROVE Turns'
  OBVIOUS
<1>0. task \in [Tasks -> Stages]
  BY DEF TypeOK
<1>1. CASE UNCHANGED task
  BY <1>1, TurnsKept
<1>2. CASE StartSweep
  <2>1. sweep \in Nat /\ \A t \in Tasks : /\ task'[t] = "sem" \/ task'[t] = task[t]
                                          /\ task'[t] = "sem" => t[1] = sweep + 1 \/ task[t] = "sem"
    BY <1>2, TaskParts DEF StartSweep, TypeOK
  <2>2. \A t \in Tasks : t[1] = sweep + 1 => task[t] = "off"
    BY <2>1, TaskParts DEF SweepsInOrder
  <2>3. \A t \in Tasks : task'[t] \in Passed => task[t] = task'[t] /\ t[1] # sweep + 1
    BY <2>1, <2>2 DEF Passed, Critical
  <2>4. \A t \in Tasks : task'[t] = "lock" => task[t] = "lock"
    BY <2>1
  <2> QED BY <2>1, <2>3, <2>4 DEF Turns, Passed, Key, SignalOf
<1>3. CASE Crash \/ \E m \in Signals : LeaveMessage(m)
  <2>1. \A t \in Tasks : task'[t] = "off" \/ task'[t] = task[t]
    BY <1>3 DEF Crash, LeaveMessage
  <2> QED BY <2>1, TurnsKept DEF Critical
<1>4. ASSUME NEW t \in Tasks, AcquireSemaphore(t) PROVE Turns'
  <2>1. /\ task[t] = "sem" /\ task'[t] = "lock"
        /\ \A u \in Tasks \ {t} : task'[u] = task[u]
        /\ \A u \in Tasks : task[u] = "sem" => ~Before(u, t)
    BY <1>0, <1>4 DEF AcquireSemaphore
  <2>2. ASSUME NEW u \in Tasks, task'[u] = "sem", t[1] = u[1] PROVE t[2] < u[2]
    BY <2>1, <2>2, NotBefore
  <2>3. ASSUME NEW u \in Tasks, task'[u] \in Critical, t[1] = u[1] PROVE u[2] < t[2]
    <3>1. u # t /\ task[u] \in Passed
      BY <2>1, <2>3 DEF Critical, Passed
    <3> QED BY <2>1, <2>3, <3>1 DEF Turns
  <2>4. ASSUME NEW v \in Tasks \ {t}, NEW u \in Tasks \ {t}, v[1] = u[1]
        PROVE  /\ task'[v] \in Passed /\ task'[u] = "sem" => v[2] < u[2]
               /\ task'[v] \in Critical /\ task'[u] = "lock" /\ Key(v) = Key(u) => v[2] < u[2]
    BY <2>1, <2>4 DEF Turns
  <2>5. task'[t] \notin Critical /\ task'[t] # "sem"
    BY <2>1 DEF Critical
  <2> QED BY <2>2, <2>3, <2>4, <2>5 DEF Turns, Key, SignalOf
<1>5. ASSUME NEW t \in Tasks, AcquireLock(t) PROVE Turns'
  <2>1. /\ task[t] = "lock" /\ task'[t] \in Critical
        /\ \A u \in Tasks \ {t} : task'[u] = task[u]
        /\ \A u \in Tasks : Key(u) = Key(t) /\ task[u] = "lock" => ~Before(u, t)
    BY <1>0, <1>5 DEF AcquireLock, MayLock, Critical
  <2>2. task'[t] \notin {"sem", "lock"}
    BY <2>1 DEF Critical
  <2>3. ASSUME NEW u \in Tasks, task'[u] = "sem", t[1] = u[1] PROVE t[2] < u[2]
    <3>1. task[u] = "sem" /\ task[t] \in Passed
      BY <2>1, <2>2, <2>3 DEF Passed
    <3> QED BY <2>3, <3>1 DEF Turns
  <2>4. ASSUME NEW u \in Tasks, task'[u] = "lock", t[1] = u[1], Key(t) = Key(u) PROVE t[2] < u[2]
    <3>1. u # t /\ task[u] = "lock" /\ ~Before(u, t)
      BY <2>1, <2>2, <2>4
    <3> QED BY <2>4, <3>1, NotBefore
  <2>5. ASSUME NEW v \in Tasks \ {t}, NEW u \in Tasks \ {t}, v[1] = u[1]
        PROVE  /\ task'[v] \in Passed /\ task'[u] = "sem" => v[2] < u[2]
               /\ task'[v] \in Critical /\ task'[u] = "lock" /\ Key(v) = Key(u) => v[2] < u[2]
    BY <2>1, <2>5 DEF Turns
  <2> QED BY <2>2, <2>3, <2>4, <2>5 DEF Turns, Key, SignalOf
<1>6. ASSUME NEW t \in Tasks, NEW stage, task[t] \in Critical, stage \notin {"sem", "lock"},
             task' = [task EXCEPT ![t] = stage]
      PROVE  Turns'
  BY <1>0, <1>6, TurnsKept
<1>7. ASSUME NEW t \in Tasks, TaskStep(t) \/ TaskFault(t) PROVE Turns'
  <2>1. CASE AcquireSemaphore(t) \/ AcquireLock(t)
    BY <1>4, <1>5, <2>1
  <2>2. CASE DispatchOk(t) \/ DispatchRefused(t) \/ MarkSuccess(t) \/ MarkFailure(t)
    BY <1>6, <2>2 DEF DispatchOk, DispatchRefused, MarkSuccess, MarkFailure, Finish, Critical
  <2>3. CASE DispatchRejected(t) \/ DispatchLost(t) \/ MarkSuccessFault(t)
    BY <1>6, <2>3 DEF DispatchRejected, DispatchLost, MarkSuccessFault, FailAttempt, Critical
  <2>4. CASE MarkFailureFault(t)
    <3>1. PICK x \in {"unexpected", "raised", "off"} : task' = [task EXCEPT ![t] = x]
      BY <2>4, FailureStage
    <3>2. task[t] \in Critical /\ x \notin {"sem", "lock"}
      BY <2>4 DEF MarkFailureFault, Critical
    <3> QED BY <1>6, <3>1, <3>2
  <2> QED BY <1>7, <2>1, <2>2, <2>3, <2>4 DEF TaskStep, TaskFault
<1>8. ASSUME NEW s \in Signals, \/ StoreSignal(s) \/ PublishSignal(s)
                                \/ HandleMessage(s) \/ MessageFault(s)
      PROVE  Turns'
  BY <1>1, <1>8 DEF StoreSignal, PublishSignal, HandleMessage, MessageFault, coroutines
<1>9. CASE ReadMessages \/ UNCHANGED vars
  BY <1>1, <1>9 DEF ReadMessages, vars, coroutines
<1> QED BY <1>2, <1>3, <1>7, <1>8, <1>9 DEF Next, WorkerStep

LEMMA TurnsAreKept == Spec => []Turns
<1>1. Init => Turns
  BY DEF Init, Turns, Passed, Critical
<1> QED BY <1>1, TurnsStep, OrdersAreAfforded, TypeCorrect, PTL DEF Spec

\* An order goes out only when no earlier task of its sweep waits for the same
\* account and symbol: the close of a position never overtakes its open.
THEOREM ClosesNeverOvertakeOpens == Spec => OrdersInSignalOrder
<1>1. Turns => \A t \in Tasks :
                 task[t] = "call" /\ task'[t] = "answered" =>
                     \A u \in Tasks : Key(u) = Key(t) /\ task[u] \in Waiting /\ u[1] = t[1]
                                          => SignalOf(t) < SignalOf(u)
  BY DEF Turns, Passed, Critical, Waiting, SignalOf
<1> QED BY <1>1, TurnsAreKept, PTL DEF Spec, OrdersInSignalOrder
=============================================================================
