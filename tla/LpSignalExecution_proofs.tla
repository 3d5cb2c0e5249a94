----------------------- MODULE LpSignalExecution_proofs -----------------------
(***************************************************************************)
(* For every number of signals, every assignment of vaults, every degree   *)
(* of parallelism, retry limit and fault budget.                           *)
(***************************************************************************)
EXTENDS LpSignalExecution, FiniteSetTheorems, TLAPS

-----------------------------------------------------------------------------
(***************************************************************************)
(* The invariant.  A plan is one the reconciler builds; a coroutine exists *)
(* for a stored signal only; it has carried out the steps before the one   *)
(* it is at, and when it gives up something is to blame.                   *)
(***************************************************************************)

Executed(s, i) ==
    \/ plan[s][i] = "NOOP_LEGACY"
    \/ plan[s][i] \in Calls /\ applied[s][i] > 0
    \/ plan[s][i] = "BATCH_REQUEST" /\ s \in balanced

AllExecuted(s) == \A i \in DOMAIN plan[s] : Executed(s, i)

Unknown(s) == \E i \in DOMAIN plan[s] : plan[s][i] \notin Calls \cup {"NOOP_LEGACY"}

Typed ==
    /\ TypeOK
    /\ plan = [s \in Signals |-> plan[s]]
    /\ step \in [Tasks -> 1..MaxSteps]
    /\ tries \in [Tasks -> 0..MaxRetries]

Planned(s) ==
    status[s] # "ABSENT" => \E hasPool \in BOOLEAN : plan[s] = Reconcile(VaultOf[s], hasPool)

Resting == Waiting \cup {"off", "raised"}

TaskOK(t) ==
    /\ task[t] # "off" => status[SignalOf(t)] # "ABSENT" /\ t[1] <= sweep
    /\ task[t] \in Resting => step[t] = 1 /\ tries[t] = 0
    /\ task[t] = "run" =>
          /\ tries[t] < MaxRetries
          /\ step[t] <= Len(plan[SignalOf(t)])
          /\ \A i \in 1..(step[t] - 1) : Executed(SignalOf(t), i)
    /\ task[t] = "done" => AllExecuted(SignalOf(t))
    /\ task[t] \in {"giveup", "unexpected"} => faults > 0 \/ Unknown(SignalOf(t))

Told(s) ==
    /\ status[s] = "SENT" => AllExecuted(s)
    /\ status[s] = "FAILED" => faults > 0 \/ Unknown(s)

Inv ==
    /\ Typed
    /\ \A s \in Signals : Planned(s) /\ Told(s)
    /\ \A t \in Tasks : TaskOK(t)

\* The signal of a task is one of the signals.
LEMMA SignalOfType == \A t \in Tasks : SignalOf(t) \in Signals
  BY DEF Tasks, SignalOf

\* The plans of the reconciler have one to four steps, and that of a vault that
\* is not wired calls nobody.
LEMMA PlanShape ==
  ASSUME NEW v, NEW hasPool \in BOOLEAN, NEW p, p = Reconcile(v, hasPool)
  PROVE  /\ DOMAIN p = 1..Len(p) /\ Len(p) \in 1..MaxSteps
         /\ v \notin Wired => p = <<"NOOP_LEGACY">>
<1>1. /\ v \notin Wired => p = <<"NOOP_LEGACY">>
      /\ \/ p = <<"NOOP_LEGACY">>
         \/ p = <<"OPEN", "STAKE">>
         \/ p = <<"OPEN">>
         \/ p = <<"BATCH_REQUEST">>
         \/ p = <<"COLLECT", "WITHDRAW", "SWAP_EXACT_IN", "OPEN">>
  BY DEF Reconcile
<1>2. DOMAIN p = 1..Len(p)
  BY <1>1
<1>3. Len(p) \in {1, 2, 4}
  BY <1>1
<1> QED BY <1>1, <1>2, <1>3 DEF MaxSteps

\* A plan of a stored signal has one to four steps.
LEMMA StoredPlan ==
  ASSUME Inv, NEW s \in Signals, status[s] # "ABSENT"
  PROVE  /\ DOMAIN plan[s] = 1..Len(plan[s]) /\ Len(plan[s]) \in 1..MaxSteps
         /\ VaultOf[s] \notin Wired => plan[s] = <<"NOOP_LEGACY">>
<1>1. PICK hasPool \in BOOLEAN : plan[s] = Reconcile(VaultOf[s], hasPool)
  BY DEF Inv, Planned
<1> QED BY <1>1, PlanShape

LEMMA TasksAreFinite == IsFiniteSet(Tasks)
<1>1. 1..MaxSweeps = {} \/ MaxSweeps \in Nat
  BY ConstantsAssumption DEF MaxSweeps
<1>2. IsFiniteSet(1..MaxSweeps) /\ IsFiniteSet(Signals)
  BY ConstantsAssumption, FS_Interval DEF MaxSweeps, Signals
<1> QED BY <1>2, FS_Product DEF Tasks

\* Counting calls leaves a table of natural numbers and lowers none of them.
LEMMA CarriedGrows ==
  ASSUME Typed, NEW T \in SUBSET Tasks
  PROVE  /\ Carried(T) \in [Signals -> [1..MaxSteps -> Nat]]
         /\ \A s \in Signals, i \in 1..MaxSteps : Carried(T)[s][i] >= applied[s][i]
<1>1. ASSUME NEW s \in Signals, NEW i \in 1..MaxSteps
      PROVE  Cardinality({t \in T : SignalOf(t) = s /\ step[t] = i}) \in Nat
  <2>1. {t \in T : SignalOf(t) = s /\ step[t] = i} \subseteq Tasks
    OBVIOUS
  <2> QED BY <2>1, TasksAreFinite, FS_Subset, FS_CardinalityType
<1>2. \A s \in Signals, i \in 1..MaxSteps : applied[s][i] \in Nat
  <2>1. applied \in [Signals -> [1..MaxSteps -> Nat]]
    BY DEF Typed, TypeOK
  <2> QED BY <2>1
<1> DEFINE more(s, i) == applied[s][i] + Cardinality({t \in T : SignalOf(t) = s /\ step[t] = i})
<1>3. \A s \in Signals, i \in 1..MaxSteps : more(s, i) \in Nat /\ more(s, i) >= applied[s][i]
  BY <1>1, <1>2
<1>4. Carried(T) = [s \in Signals |-> [i \in 1..MaxSteps |-> more(s, i)]]
  BY DEF Carried
<1> HIDE DEF more
<1> QED BY <1>3, <1>4

\* The call of one coroutine is counted for its signal and its step.
LEMMA CarriedCounts ==
  ASSUME Typed, NEW t \in Tasks
  PROVE  Carried({t})[SignalOf(t)][step[t]] > 0
<1>1. step[t] \in 1..MaxSteps /\ SignalOf(t) \in Signals
  BY SignalOfType DEF Typed
<1>2. {u \in {t} : SignalOf(u) = SignalOf(t) /\ step[u] = step[t]} = {t}
  OBVIOUS
<1>3. Cardinality({u \in {t} : SignalOf(u) = SignalOf(t) /\ step[u] = step[t]}) = 1
  BY <1>2, FS_Singleton
<1>4. applied[SignalOf(t)][step[t]] \in Nat
  BY <1>1 DEF Typed, TypeOK
<1>5. Carried({t})[SignalOf(t)][step[t]] = applied[SignalOf(t)][step[t]]
          + Cardinality({u \in {t} : SignalOf(u) = SignalOf(t) /\ step[u] = step[t]})
  BY <1>1 DEF Carried
<1> QED BY <1>3, <1>4, <1>5

-----------------------------------------------------------------------------
(***************************************************************************)
(* What a step leaves alone.  Documents keep their plans, the counts only  *)
(* grow.                                                                   *)
(***************************************************************************)

Grows ==
    /\ \A s \in Signals :
          status[s] # "ABSENT" => status'[s] # "ABSENT" /\ plan'[s] = plan[s]
    /\ \A s \in Signals, i \in 1..MaxSteps : applied'[s][i] >= applied[s][i]
    /\ balanced \subseteq balanced'
    /\ faults' >= faults /\ sweep' >= sweep

\* As long as no call is counted it is enough to look at the documents.
LEMMA QuietGrows ==
  ASSUME Inv, applied' = applied, balanced \subseteq balanced',
         faults' \in {faults, faults + 1}, sweep' \in {sweep, sweep + 1},
         \A s \in Signals :
            status[s] # "ABSENT" => status'[s] # "ABSENT" /\ plan'[s] = plan[s]
  PROVE  Grows
<1>1. \A s \in Signals, i \in 1..MaxSteps : applied[s][i] \in Nat
  BY DEF Inv, Typed, TypeOK
<1>2. \A s \in Signals, i \in 1..MaxSteps : applied'[s][i] >= applied[s][i]
  BY <1>1
<1>3. faults \in Nat /\ sweep \in Nat
  BY DEF Inv, Typed, TypeOK
<1> QED BY <1>2, <1>3 DEF Grows

\* A step that was carried out stays so.
LEMMA ExecutedStays ==
  ASSUME Inv, Typed', Grows, NEW s \in Signals, status[s] # "ABSENT"
  PROVE  /\ \A i \in DOMAIN plan[s] : Executed(s, i) => Executed(s, i)'
         /\ AllExecuted(s) => AllExecuted(s)'
         /\ Unknown(s) => Unknown(s)'
<1>1. plan'[s] = plan[s] /\ DOMAIN plan[s] \subseteq 1..MaxSteps
  BY StoredPlan DEF Grows, MaxSteps
<1>2. \A i \in 1..MaxSteps : applied[s][i] \in Nat /\ applied'[s][i] \in Nat
                              /\ applied'[s][i] >= applied[s][i]
  BY DEF Inv, Typed, TypeOK, Grows
<1>3. ASSUME NEW i \in DOMAIN plan[s], Executed(s, i) PROVE Executed(s, i)'
  <2>1. CASE plan[s][i] \in Calls /\ applied[s][i] > 0
    BY <1>1, <1>2, <2>1 DEF Executed, Calls
  <2>2. CASE plan[s][i] = "NOOP_LEGACY"
    BY <1>1, <2>2 DEF Executed
  <2>3. CASE plan[s][i] = "BATCH_REQUEST" /\ s \in balanced
    BY <1>1, <2>3 DEF Executed, Grows
  <2> QED BY <1>3, <2>1, <2>2, <2>3 DEF Executed
<1>4. AllExecuted(s) => AllExecuted(s)'
  BY <1>1, <1>3 DEF AllExecuted
<1>5. Unknown(s) => Unknown(s)'
  BY <1>1 DEF Unknown, Calls
<1> QED BY <1>3, <1>4, <1>5

\* A coroutine that does not move stays as it should be.
LEMMA TaskStays ==
  ASSUME Inv, Typed', Grows, NEW t \in Tasks,
         task'[t] = task[t], step'[t] = step[t], tries'[t] = tries[t]
  PROVE  TaskOK(t)'
<1> DEFINE s == SignalOf(t)
<1>1. s \in Signals /\ TaskOK(t)
  BY SignalOfType DEF Inv
<1>2. sweep' >= sweep /\ sweep \in Nat /\ sweep' \in Nat /\ t[1] \in Nat
      /\ faults' >= faults /\ faults \in Nat /\ faults' \in Nat
  BY DEF Inv, Typed, TypeOK, Grows, Tasks
<1>3. CASE task[t] = "off"
  BY <1>1, <1>3 DEF TaskOK, Resting, Waiting
<1>4. CASE task[t] # "off"
  <2>1. status[s] # "ABSENT"
    BY <1>1, <1>4 DEF TaskOK
  <2>2. status'[s] # "ABSENT" /\ plan'[s] = plan[s] /\ t[1] <= sweep'
    BY <1>1, <1>2, <1>4, <2>1 DEF TaskOK, Grows
  <2>3. task[t] = "run" => \A i \in 1..(step'[t] - 1) : Executed(s, i)'
    <3> SUFFICES ASSUME task[t] = "run", NEW i \in 1..(step[t] - 1) PROVE Executed(s, i)'
      OBVIOUS
    <3>1. Executed(s, i) /\ step[t] <= Len(plan[s]) /\ step[t] \in Nat
      BY <1>1, SMTT(20) DEF TaskOK, Inv, Typed, MaxSteps
    <3>2. i \in DOMAIN plan[s]
      BY <1>1, <2>1, <3>1, StoredPlan DEF MaxSteps
    <3> QED BY <1>1, <2>1, <3>1, <3>2, ExecutedStays
  <2>4. task[t] = "done" => AllExecuted(s)'
    BY <1>1, <2>1, ExecutedStays DEF TaskOK
  <2>5. task[t] \in {"giveup", "unexpected"} => faults' > 0 \/ Unknown(s)'
    BY <1>1, <1>2, <2>1, ExecutedStays DEF TaskOK
  <2> QED BY <1>1, <2>2, <2>3, <2>4, <2>5 DEF TaskOK
<1> QED BY <1>3, <1>4

\* A document whose status is not written stays as it should be.
LEMMA ToldStays ==
  ASSUME Inv, Typed', Grows, NEW s \in Signals, status'[s] = status[s]
  PROVE  Planned(s)' /\ Told(s)'
<1>1. faults' >= faults /\ faults \in Nat /\ faults' \in Nat
  BY DEF Inv, Typed, TypeOK, Grows
<1>2. CASE status[s] = "ABSENT"
  BY <1>2 DEF Planned, Told
<1>3. CASE status[s] # "ABSENT"
  <2>1. Planned(s)'
    BY <1>3 DEF Inv, Planned, Grows
  <2>2. Told(s)'
    BY <1>1, <1>3, ExecutedStays DEF Inv, Told
  <2> QED BY <2>1, <2>2
<1> QED BY <1>2, <1>3

-----------------------------------------------------------------------------
(***************************************************************************)
(* What the pieces of a coroutine's step do to that coroutine.             *)
(***************************************************************************)

Others(t) == \A u \in Tasks \ {t} :
    task'[u] = task[u] /\ step'[u] = step[u] /\ tries'[u] = tries[u]

\* Every coroutine keeps its types when only one of them moves.
LEMMA MoveTyped ==
  ASSUME Inv, NEW t \in Tasks,
         NextStep(t) \/ FailAttempt(t), task[t] = "run"
  PROVE  /\ task' \in [Tasks -> Stages]
         /\ step' \in [Tasks -> 1..MaxSteps] /\ tries' \in [Tasks -> 0..MaxRetries]
         /\ Others(t)
<1>1. /\ task \in [Tasks -> Stages] /\ step \in [Tasks -> 1..MaxSteps]
      /\ tries \in [Tasks -> 0..MaxRetries] /\ MaxRetries \in Nat \ {0}
  BY ConstantsAssumption DEF Inv, Typed, TypeOK
<1>2. status[SignalOf(t)] # "ABSENT" /\ tries[t] < MaxRetries
  BY DEF Inv, TaskOK
<1>3. Len(plan[SignalOf(t)]) \in 1..MaxSteps
  BY <1>2, SignalOfType, StoredPlan
<1>4. CASE NextStep(t)
  <2>1. CASE step[t] < Len(plan[SignalOf(t)])
    <3> DEFINE n == Len(plan[SignalOf(t)])
    <3>1. step[t] + 1 \in 1..MaxSteps
      <4>1. step[t] \in 1..MaxSteps /\ n \in 1..MaxSteps /\ step[t] < n
        BY <1>1, <1>3, <2>1
      <4> HIDE DEF n
      <4> QED BY <4>1 DEF MaxSteps
    <3>2. /\ step' = [step EXCEPT ![t] = step[t] + 1] /\ task' = task
          /\ tries' = [tries EXCEPT ![t] = 0]
      BY <1>4, <2>1 DEF NextStep
    <3> QED BY <1>1, <3>1, <3>2 DEF Others
  <2>2. CASE ~(step[t] < Len(plan[SignalOf(t)]))
    <3>1. /\ task' = [task EXCEPT ![t] = "done"] /\ step' = step
          /\ tries' = [tries EXCEPT ![t] = 0]
      BY <1>4, <2>2 DEF NextStep
    <3> QED BY <1>1, <3>1 DEF Others, Stages, Critical
  <2> QED BY <2>1, <2>2
<1>5. CASE FailAttempt(t)
  BY <1>1, <1>2, <1>5 DEF FailAttempt, Others, Stages, Critical
<1> QED BY <1>4, <1>5

\* A coroutine whose step was carried out goes on to the next, or is done.
LEMMA NextStepMove ==
  ASSUME Inv, Typed', Grows, NEW t \in Tasks, task[t] = "run", NextStep(t),
         NEW k, k = step[t], Executed(SignalOf(t), k)'
  PROVE  TaskOK(t)'
<1> DEFINE s == SignalOf(t)
<1>1. /\ s \in Signals /\ status[s] # "ABSENT" /\ t[1] <= sweep
      /\ step[t] <= Len(plan[s]) /\ step[t] \in 1..MaxSteps
      /\ \A i \in 1..(step[t] - 1) : Executed(s, i)
  BY SignalOfType DEF Inv, TaskOK, Typed
<1>2. /\ status'[s] # "ABSENT" /\ plan'[s] = plan[s]
      /\ DOMAIN plan[s] = 1..Len(plan[s]) /\ Len(plan[s]) \in 1..MaxSteps
  BY <1>1, StoredPlan DEF Grows
<1>3. t[1] <= sweep'
  BY <1>1 DEF Grows, Inv, Typed, TypeOK, Tasks
<1>4. \A i \in 1..step[t] : Executed(s, i)'
  <2> SUFFICES ASSUME NEW i \in 1..step[t] PROVE Executed(s, i)'
    OBVIOUS
  <2>1. CASE i = k
    BY <2>1
  <2>2. CASE i # k
    <3>1. i \in 1..(step[t] - 1) /\ i \in DOMAIN plan[s]
      BY <1>1, <1>2, <2>2 DEF MaxSteps
    <3> QED BY <1>1, <3>1, ExecutedStays
  <2> QED BY <2>1, <2>2
<1>5. /\ task \in [Tasks -> Stages] /\ step \in [Tasks -> 1..MaxSteps]
      /\ tries \in [Tasks -> 0..MaxRetries] /\ MaxRetries \in Nat \ {0}
  BY ConstantsAssumption DEF Inv, Typed, TypeOK
<1>6. CASE step[t] < Len(plan[s])
  <2>1. task'[t] = "run" /\ step'[t] = step[t] + 1 /\ tries'[t] = 0
    BY <1>5, <1>6 DEF NextStep
  <2>2. step'[t] <= Len(plan'[s]) /\ step'[t] - 1 = step[t]
    BY <1>1, <1>2, <1>6, <2>1 DEF MaxSteps
  <2> QED BY <1>2, <1>3, <1>4, <1>5, <2>1, <2>2 DEF TaskOK, Resting, Waiting
<1>7. CASE ~(step[t] < Len(plan[s]))
  <2>1. task'[t] = "done"
    BY <1>5, <1>7 DEF NextStep
  <2>2. step[t] = Len(plan[s])
    BY <1>1, <1>2, <1>7 DEF MaxSteps
  <2>3. AllExecuted(s)'
    BY <1>2, <1>4, <2>2 DEF AllExecuted
  <2> QED BY <1>2, <1>3, <2>1, <2>3 DEF TaskOK, Resting, Waiting
<1> QED BY <1>6, <1>7

\* A coroutine whose attempt failed tries again or gives up, with a reason.
LEMMA FailAttemptMove ==
  ASSUME Inv, Typed', Grows, NEW t \in Tasks, task[t] = "run", FailAttempt(t),
         faults' > 0 \/ Unknown(SignalOf(t))
  PROVE  TaskOK(t)'
<1> DEFINE s == SignalOf(t)
<1>1. /\ s \in Signals /\ status[s] # "ABSENT" /\ t[1] <= sweep
      /\ step[t] <= Len(plan[s]) /\ step[t] \in 1..MaxSteps
      /\ \A i \in 1..(step[t] - 1) : Executed(s, i)
  BY SignalOfType DEF Inv, TaskOK, Typed
<1>2. /\ status'[s] # "ABSENT" /\ plan'[s] = plan[s]
      /\ DOMAIN plan[s] = 1..Len(plan[s]) /\ Len(plan[s]) \in 1..MaxSteps
  BY <1>1, StoredPlan DEF Grows
<1>3. t[1] <= sweep'
  BY <1>1 DEF Grows, Inv, Typed, TypeOK, Tasks
<1>4. \A i \in 1..(step[t] - 1) : Executed(s, i)'
  <2> SUFFICES ASSUME NEW i \in 1..(step[t] - 1) PROVE Executed(s, i)'
    OBVIOUS
  <2>1. i \in DOMAIN plan[s]
    BY <1>1, <1>2 DEF MaxSteps
  <2> QED BY <1>1, <2>1, ExecutedStays
<1>5. /\ task \in [Tasks -> Stages] /\ step \in [Tasks -> 1..MaxSteps]
      /\ tries \in [Tasks -> 0..MaxRetries] /\ MaxRetries \in Nat \ {0}
  BY ConstantsAssumption DEF Inv, Typed, TypeOK
<1>6. step'[t] = step[t] /\ tries'[t] = tries[t] + 1
  BY <1>5 DEF FailAttempt
<1>7. CASE tries[t] + 1 < MaxRetries
  <2>1. task'[t] = "run"
    BY <1>5, <1>7 DEF FailAttempt
  <2> QED BY <1>1, <1>2, <1>3, <1>4, <1>6, <1>7, <2>1 DEF TaskOK, Resting, Waiting
<1>8. CASE ~(tries[t] + 1 < MaxRetries)
  <2>1. task'[t] = "giveup"
    BY <1>5, <1>8 DEF FailAttempt
  <2>2. faults' > 0 \/ Unknown(s)'
    BY <1>1, ExecutedStays
  <2> QED BY <1>2, <1>3, <2>1, <2>2 DEF TaskOK, Resting, Waiting
<1> QED BY <1>7, <1>8

\* A finished coroutine leaves its signal's document with a true status.
LEMMA FinishMove ==
  ASSUME Inv, NEW t \in Tasks, NEW r \in {"SENT", "FAILED"}, Finish(t, r),
         task[t] # "off",
         r = "SENT" => AllExecuted(SignalOf(t)),
         r = "FAILED" => faults > 0 \/ Unknown(SignalOf(t))
  PROVE  Inv'
<1> DEFINE s == SignalOf(t)
<1>1. s \in Signals /\ status[s] # "ABSENT"
  BY SignalOfType DEF Inv, TaskOK
<1>2. Typed'
  <2>1. /\ status' \in [Signals -> {"ABSENT", "PENDING", "SENT", "FAILED"}]
        /\ task' \in [Tasks -> Stages]
    BY <1>1 DEF Inv, Typed, TypeOK, Finish, Stages
  <2>2. step' \in [Tasks -> 1..MaxSteps] /\ tries' \in [Tasks -> 0..MaxRetries]
    BY ConstantsAssumption DEF Inv, Typed, Finish, MaxSteps
  <2>3. UNCHANGED <<plan, applied, balanced, owing, wake, loop, sweep, faults>>
    BY DEF Finish, vaults, supervisor
  <2> QED BY <2>1, <2>2, <2>3 DEF Inv, Typed, TypeOK
<1>3. status' = [status EXCEPT ![s] = r] /\ UNCHANGED <<plan, applied, balanced, sweep, faults>>
  BY DEF Finish, vaults, supervisor
<1>4. Grows
  <2>1. \A q \in Signals : status[q] # "ABSENT" => status'[q] # "ABSENT"
    BY <1>3 DEF Inv, Typed, TypeOK
  <2> QED BY <1>3, <2>1, QuietGrows
<1>5. Others(t) /\ task'[t] = "off" /\ step'[t] = 1 /\ tries'[t] = 0
  BY DEF Finish, Others, Inv, Typed, TypeOK
<1>6. ASSUME NEW u \in Tasks PROVE TaskOK(u)'
  <2>1. CASE u = t
    BY <1>5, <2>1 DEF TaskOK, Resting
  <2>2. CASE u # t
    BY <1>2, <1>4, <1>5, <2>2, TaskStays DEF Others
  <2> QED BY <2>1, <2>2
<1>7. ASSUME NEW q \in Signals PROVE Planned(q)' /\ Told(q)'
  <2>1. CASE q = s
    <3>1. status'[s] = r
      BY <1>1, <1>3 DEF Inv, Typed, TypeOK
    <3>2. Planned(s)'
      BY <1>1, <1>3 DEF Inv, Planned
    <3>3. Told(s)'
      BY <1>1, <1>2, <1>3, <1>4, <3>1, ExecutedStays DEF Told
    <3> QED BY <2>1, <3>2, <3>3
  <2>2. CASE q # s
    <3>1. status'[q] = status[q]
      BY <1>3, <2>2 DEF Inv, Typed, TypeOK
    <3> QED BY <1>2, <1>4, <3>1, ToldStays
  <2> QED BY <2>1, <2>2
<1> QED BY <1>2, <1>6, <1>7 DEF Inv

-----------------------------------------------------------------------------
(***************************************************************************)
(* One lemma per kind of action.                                           *)
(***************************************************************************)

\* Nothing is written but the event and who owes it, or the loop's position.
LEMMA QuietStep ==
  ASSUME Inv, UNCHANGED <<documents, vaults, sweep, coroutines, faults>>,
         owing' \subseteq Signals, wake' \in BOOLEAN, loop' \in {"sweep", "gather", "wait"}
  PROVE  Inv'
<1>1. UNCHANGED <<status, plan, applied, balanced, sweep, task, step, tries, faults>>
  BY DEF documents, vaults, coroutines
<1>2. Typed'
  BY <1>1 DEF Inv, Typed, TypeOK
<1>3. Grows
  BY <1>1, QuietGrows
<1>4. \A s \in Signals : Planned(s)' /\ Told(s)'
  BY <1>1, <1>2, <1>3, ToldStays
<1>5. \A t \in Tasks : TaskOK(t)'
  BY <1>1, <1>2, <1>3, TaskStays
<1> QED BY <1>2, <1>4, <1>5 DEF Inv

\* A call fails while the loop lists the signals: only the count of faults grows.
LEMMA SweepFaultStep == Inv /\ SweepFault => Inv'
<1> SUFFICES ASSUME Inv, SweepFault PROVE Inv'
  OBVIOUS
<1>1. /\ UNCHANGED <<status, plan, applied, balanced, owing, wake, sweep, task, step, tries>>
      /\ faults' = faults + 1 /\ faults' \in 0..MaxFaults /\ loop' = "wait"
  BY ConstantsAssumption
     DEF SweepFault, Fault, documents, vaults, coroutines, Inv, Typed, TypeOK
<1>2. Typed'
  BY <1>1 DEF Inv, Typed, TypeOK
<1>3. Grows
  BY <1>1, QuietGrows
<1>4. \A s \in Signals : Planned(s)' /\ Told(s)'
  BY <1>1, <1>2, <1>3, ToldStays
<1>5. \A t \in Tasks : TaskOK(t)'
  BY <1>1, <1>2, <1>3, TaskStays
<1> QED BY <1>2, <1>4, <1>5 DEF Inv

LEMMA StoreSignalStep == ASSUME Inv, NEW s \in Signals, StoreSignal(s) PROVE Inv'
<1>1. PICK hasPool \in BOOLEAN : plan' = [plan EXCEPT ![s] = Reconcile(VaultOf[s], hasPool)]
  BY DEF StoreSignal
<1>2. /\ status[s] = "ABSENT" /\ status' = [status EXCEPT ![s] = "PENDING"]
      /\ owing' = owing \cup {s}
      /\ UNCHANGED <<applied, balanced, wake, loop, sweep, task, step, tries, faults>>
  BY DEF StoreSignal, vaults, coroutines
<1>3. /\ plan'[s] = Reconcile(VaultOf[s], hasPool)
      /\ \A q \in Signals \ {s} : plan'[q] = plan[q] /\ status'[q] = status[q]
      /\ status'[s] = "PENDING"
  BY <1>1, <1>2 DEF Inv, Typed, TypeOK
<1>4. Typed'
  <2>1. \A q \in Signals : Len(plan'[q]) \in 0..MaxSteps
    <3>1. Len(plan'[s]) \in 0..MaxSteps
      BY <1>3, PlanShape DEF MaxSteps
    <3> QED BY <1>3, <3>1 DEF Inv, Typed, TypeOK
  <2>2. plan' = [q \in Signals |-> plan'[q]]
    BY <1>1 DEF Inv, Typed
  <2> QED BY <1>2, <2>1, <2>2 DEF Inv, Typed, TypeOK
<1>5. Grows
  BY <1>2, <1>3, QuietGrows
<1>6. ASSUME NEW q \in Signals PROVE Planned(q)' /\ Told(q)'
  <2>1. CASE q = s
    BY <1>3, <2>1 DEF Planned, Told
  <2>2. CASE q # s
    BY <1>3, <1>4, <1>5, <2>2, ToldStays
  <2> QED BY <2>1, <2>2
<1>7. \A t \in Tasks : TaskOK(t)'
  BY <1>2, <1>4, <1>5, TaskStays
<1> QED BY <1>4, <1>6, <1>7 DEF Inv

LEMMA StartSweepStep == Inv /\ StartSweep => Inv'
<1> SUFFICES ASSUME Inv, StartSweep PROVE Inv'
  OBVIOUS
<1>1. /\ UNCHANGED <<status, plan, applied, balanced, owing, wake, step, tries, faults>>
      /\ sweep' = sweep + 1 /\ sweep < MaxSweeps /\ loop' = "gather"
      /\ task' = [t \in Tasks |->
                    IF t[1] = sweep + 1 /\ t[2] \in ListPending THEN "sem" ELSE task[t]]
  BY DEF StartSweep, documents, vaults
<1>2. Typed'
  <2>1. sweep' \in 0..MaxSweeps
    BY <1>1, ConstantsAssumption DEF Inv, Typed, TypeOK, MaxSweeps
  <2>2. task' \in [Tasks -> Stages]
    BY <1>1 DEF Inv, Typed, TypeOK, Stages, Waiting
  <2> QED BY <1>1, <2>1, <2>2 DEF Inv, Typed, TypeOK
<1>3. Grows
  BY <1>1, QuietGrows
<1>4. \A s \in Signals : Planned(s)' /\ Told(s)'
  BY <1>1, <1>2, <1>3, ToldStays
<1>5. ASSUME NEW t \in Tasks PROVE TaskOK(t)'
  <2>1. CASE t[1] = sweep + 1 /\ t[2] \in ListPending
    <3>1. task[t] = "off"
      <4>1. sweep \in Nat /\ ~(t[1] <= sweep)
        BY <2>1 DEF Inv, Typed, TypeOK
      <4> QED BY <4>1 DEF Inv, TaskOK
    <3>2. step'[t] = 1 /\ tries'[t] = 0 /\ task'[t] = "sem"
      BY <1>1, <2>1, <3>1 DEF Inv, TaskOK, Resting
    <3>3. status'[SignalOf(t)] # "ABSENT"
      BY <1>1, <2>1 DEF ListPending, Pending, SignalOf
    <3> QED BY <1>1, <2>1, <3>2, <3>3 DEF TaskOK, Inv, Typed, TypeOK
  <2>2. CASE ~(t[1] = sweep + 1 /\ t[2] \in ListPending)
    BY <1>1, <1>2, <1>3, <2>2, TaskStays
  <2> QED BY <2>1, <2>2
<1> QED BY <1>2, <1>4, <1>5 DEF Inv

LEMMA SweepRaisedStep == Inv /\ SweepRaised => Inv'
<1> SUFFICES ASSUME Inv, SweepRaised PROVE Inv'
  OBVIOUS
<1>1. /\ UNCHANGED <<status, plan, applied, balanced, owing, wake, sweep, step, tries, faults>>
      /\ loop' = "wait"
      /\ task' = [t \in Tasks |-> IF task[t] = "raised" THEN "off" ELSE task[t]]
  BY DEF SweepRaised, documents, vaults
<1>2. Typed'
  <2>1. task' \in [Tasks -> Stages]
    BY <1>1 DEF Inv, Typed, TypeOK, Stages
  <2> QED BY <1>1, <2>1 DEF Inv, Typed, TypeOK
<1>3. Grows
  BY <1>1, QuietGrows
<1>4. \A s \in Signals : Planned(s)' /\ Told(s)'
  BY <1>1, <1>2, <1>3, ToldStays
<1>5. ASSUME NEW t \in Tasks PROVE TaskOK(t)'
  <2>1. CASE task[t] = "raised"
    BY <1>1, <2>1 DEF Inv, TaskOK, Resting
  <2>2. CASE task[t] # "raised"
    BY <1>1, <1>2, <1>3, <2>2, TaskStays
  <2> QED BY <2>1, <2>2
<1> QED BY <1>2, <1>4, <1>5 DEF Inv

\* A step of one coroutine that writes no document.
LEMMA OneMoves ==
  ASSUME Inv, Typed', Grows, NEW t \in Tasks, Others(t), TaskOK(t)', status' = status
  PROVE  Inv'
<1>1. \A s \in Signals : Planned(s)' /\ Told(s)'
  BY ToldStays
<1>2. ASSUME NEW u \in Tasks PROVE TaskOK(u)'
  <2>1. CASE u # t
    BY <2>1, TaskStays DEF Others
  <2> QED BY <2>1
<1> QED BY <1>1, <1>2 DEF Inv

LEMMA AcquireStep ==
  ASSUME Inv, NEW t \in Tasks, AcquireSemaphore(t) \/ AcquireLock(t)
  PROVE  Inv'
<1>1. PICK stage \in {"lock", "run"} :
         /\ task[t] \in Waiting /\ task' = [task EXCEPT ![t] = stage]
         /\ UNCHANGED <<documents, vaults, supervisor, step, tries, faults>>
  BY DEF AcquireSemaphore, AcquireLock, Waiting
<1>2. UNCHANGED <<status, plan, applied, balanced, owing, wake, loop, sweep, step, tries, faults>>
  BY <1>1 DEF documents, vaults, supervisor
<1>3. task' \in [Tasks -> Stages] /\ Others(t) /\ task'[t] = stage
  BY <1>1, <1>2 DEF Inv, Typed, TypeOK, Others, Stages, Waiting, Critical
<1>4. Typed'
  BY <1>2, <1>3 DEF Inv, Typed, TypeOK
<1>5. Grows
  BY <1>2, QuietGrows
<1>6. TaskOK(t)'
  <2>1. /\ step'[t] = 1 /\ tries'[t] = 0 /\ status'[SignalOf(t)] # "ABSENT"
        /\ status[SignalOf(t)] # "ABSENT" /\ t[1] <= sweep' /\ plan' = plan
    BY <1>1, <1>2 DEF Inv, TaskOK, Resting, Waiting
  <2>2. Len(plan'[SignalOf(t)]) \in 1..MaxSteps /\ MaxRetries \in Nat \ {0}
    BY <2>1, SignalOfType, StoredPlan, ConstantsAssumption
  <2>3. \A i \in 1..(step'[t] - 1) : Executed(SignalOf(t), i)'
    BY <2>1
  <2>4. CASE stage = "lock"
    BY <1>3, <2>1, <2>4 DEF TaskOK, Resting, Waiting
  <2>5. CASE stage = "run"
    <3>1. tries'[t] < MaxRetries /\ step'[t] <= Len(plan'[SignalOf(t)])
      BY <2>1, <2>2
    <3>2. task'[t] = "run"
      BY <1>3, <2>5
    <3> QED BY <2>1, <2>3, <3>1, <3>2 DEF TaskOK, Resting, Waiting
  <2> QED BY <1>1, <2>4, <2>5
<1> QED BY <1>2, <1>3, <1>4, <1>5, <1>6, OneMoves

\* What a running coroutine knows of its step.
LEMMA Running ==
  ASSUME Inv, NEW t \in Tasks, task[t] = "run"
  PROVE  /\ SignalOf(t) \in Signals /\ status[SignalOf(t)] # "ABSENT"
         /\ step[t] \in 1..MaxSteps /\ step[t] \in DOMAIN plan[SignalOf(t)]
         /\ Key(t) \notin Wired => Action(t) = "NOOP_LEGACY"
<1>1. /\ SignalOf(t) \in Signals /\ status[SignalOf(t)] # "ABSENT"
      /\ step[t] \in 1..MaxSteps /\ step[t] <= Len(plan[SignalOf(t)])
  BY SignalOfType DEF Inv, TaskOK, Typed
<1>2. step[t] \in DOMAIN plan[SignalOf(t)]
  BY <1>1, StoredPlan DEF MaxSteps
<1>3. Key(t) \notin Wired => Action(t) = "NOOP_LEGACY"
  <2> SUFFICES ASSUME Key(t) \notin Wired PROVE Action(t) = "NOOP_LEGACY"
    OBVIOUS
  <2>1. plan[SignalOf(t)] = <<"NOOP_LEGACY">>
    BY <1>1, StoredPlan DEF Key
  <2> QED BY <1>2, <2>1 DEF Action
<1> QED BY <1>1, <1>2, <1>3

LEMMA StepDone ==
  ASSUME Inv, NEW t \in Tasks, PassStep(t) \/ SkipSmall(t) \/ StepOk(t)
  PROVE  Inv'
<1> DEFINE s == SignalOf(t)
<1>1. task[t] = "run" /\ NextStep(t)
  BY DEF PassStep, SkipSmall, StepOk, CallsOut
<1>2. UNCHANGED <<status, plan, owing, wake, loop, sweep, faults>>
  BY DEF PassStep, SkipSmall, StepOk, documents, supervisor
<1>3. balanced \subseteq balanced' /\ balanced' \subseteq Signals
  BY SignalOfType DEF PassStep, SkipSmall, StepOk, vaults, Inv, Typed, TypeOK
<1>4. /\ applied' \in [Signals -> [1..MaxSteps -> Nat]]
      /\ \A q \in Signals, i \in 1..MaxSteps : applied'[q][i] >= applied[q][i]
  <2>1. CASE applied' = applied
    <3>1. applied \in [Signals -> [1..MaxSteps -> Nat]]
      BY DEF Inv, Typed, TypeOK
    <3>2. \A q \in Signals, i \in 1..MaxSteps : applied[q][i] \in Nat
      BY <3>1
    <3> QED BY <2>1, <3>1, <3>2
  <2>2. CASE applied' = Carried({t})
    BY <2>2, CarriedGrows DEF Inv
  <2> QED BY <2>1, <2>2 DEF PassStep, SkipSmall, StepOk, vaults
<1>5. Grows
  BY <1>2, <1>3, <1>4 DEF Grows, Inv, Typed, TypeOK
<1>6. Typed' /\ Others(t)
  BY <1>1, <1>2, <1>3, <1>4, MoveTyped DEF Inv, Typed, TypeOK
<1>7. Executed(s, step[t]) \/ Action(t) \in Calls
  BY <1>1, Running DEF PassStep, SkipSmall, StepOk, CallsOut, Executed, Action, Calls
<1>8. ASSUME NEW k, k = step[t] PROVE Executed(s, k)'
  <2>1. s \in Signals /\ k \in 1..MaxSteps /\ plan'[s][k] = Action(t)
    BY <1>1, <1>2, <1>8, Running DEF Action
  <2>2. CASE PassStep(t)
    BY <1>1, <2>1, <2>2, Running DEF PassStep, Executed
  <2>3. CASE SkipSmall(t)
    BY <2>1, <2>3 DEF SkipSmall, Executed
  <2>4. CASE StepOk(t)
    <3>1. applied'[s][k] > 0
      BY <1>8, <2>4, CarriedCounts DEF StepOk, Inv
    <3> QED BY <2>1, <2>4, <3>1 DEF StepOk, CallsOut, Executed
  <2> QED BY <2>2, <2>3, <2>4
<1>9. TaskOK(t)'
  BY <1>1, <1>5, <1>6, <1>8, NextStepMove
<1> QED BY <1>2, <1>5, <1>6, <1>9, OneMoves

LEMMA StepFailed ==
  ASSUME Inv, NEW t \in Tasks, UnknownStep(t) \/ StepRefused(t) \/ StepLost(t)
  PROVE  Inv'
<1>1. task[t] = "run" /\ FailAttempt(t)
  BY DEF UnknownStep, StepRefused, StepLost, CallsOut
<1>2. UNCHANGED <<status, plan, balanced, owing, wake, loop, sweep>>
  BY DEF UnknownStep, StepRefused, StepLost, documents, vaults, supervisor
<1>3. /\ applied' \in [Signals -> [1..MaxSteps -> Nat]]
      /\ \A q \in Signals, i \in 1..MaxSteps : applied'[q][i] >= applied[q][i]
  <2>1. CASE applied' = applied
    <3>1. applied \in [Signals -> [1..MaxSteps -> Nat]]
      BY DEF Inv, Typed, TypeOK
    <3>2. \A q \in Signals, i \in 1..MaxSteps : applied[q][i] \in Nat
      BY <3>1
    <3> QED BY <2>1, <3>1, <3>2
  <2>2. CASE applied' = Carried({t})
    BY <2>2, CarriedGrows DEF Inv
  <2> QED BY <2>1, <2>2 DEF UnknownStep, StepRefused, StepLost, vaults
<1>4. faults \in Nat /\ faults' \in 0..MaxFaults /\ faults' >= faults
  BY ConstantsAssumption DEF UnknownStep, StepRefused, StepLost, Fault, Inv, Typed, TypeOK
<1>5. faults' > 0 \/ Unknown(SignalOf(t))
  <2>1. CASE UnknownStep(t)
    BY <1>1, <2>1, Running DEF UnknownStep, Unknown, Action
  <2>2. CASE StepRefused(t) \/ StepLost(t)
    BY <1>4, <2>2 DEF StepRefused, StepLost, Fault
  <2> QED BY <2>1, <2>2
<1>6. Grows
  BY <1>2, <1>3, <1>4 DEF Grows, Inv, Typed, TypeOK
<1>7. Typed' /\ Others(t)
  BY <1>1, <1>2, <1>3, <1>4, MoveTyped DEF Inv, Typed, TypeOK
<1>8. TaskOK(t)'
  BY <1>1, <1>5, <1>6, <1>7, FailAttemptMove
<1> QED BY <1>2, <1>6, <1>7, <1>8, OneMoves

LEMMA MarkStep == ASSUME Inv, NEW t \in Tasks, MarkSuccess(t) \/ MarkFailure(t) PROVE Inv'
<1>1. CASE MarkSuccess(t)
  BY <1>1, FinishMove DEF MarkSuccess, Inv, TaskOK
<1>2. CASE MarkFailure(t)
  BY <1>2, FinishMove DEF MarkFailure, Inv, TaskOK
<1> QED BY <1>1, <1>2

LEMMA MarkFaultStep == ASSUME Inv, NEW t \in Tasks, MarkFault(t) PROVE Inv'
<1> DEFINE s == SignalOf(t)
<1>1. PICK stage \in {"unexpected", "raised", "off"} : task' = [task EXCEPT ![t] = stage]
  BY DEF MarkFault
<1>2. /\ step' = [step EXCEPT ![t] = 1] /\ tries' = [tries EXCEPT ![t] = 0]
      /\ UNCHANGED <<plan, applied, balanced, owing, wake, loop, sweep>>
      /\ faults' = faults + 1 /\ faults \in Nat /\ faults' \in 0..MaxFaults
      /\ task[t] \in {"done", "giveup", "unexpected"}
  BY ConstantsAssumption DEF MarkFault, Fault, vaults, supervisor, Inv, Typed, TypeOK
<1>3. /\ task' \in [Tasks -> Stages] /\ step' \in [Tasks -> 1..MaxSteps]
      /\ tries' \in [Tasks -> 0..MaxRetries] /\ Others(t)
      /\ task'[t] = stage /\ step'[t] = 1 /\ tries'[t] = 0
  BY <1>1, <1>2, ConstantsAssumption
     DEF Inv, Typed, TypeOK, Others, Stages, Critical, MaxSteps
<1>4. s \in Signals /\ status[s] # "ABSENT" /\ (task[t] = "done" => AllExecuted(s))
  BY <1>2, SignalOfType DEF Inv, TaskOK
<1>5. PICK r \in {"SENT", "FAILED"} :
         /\ r = IF task[t] = "done" THEN "SENT" ELSE "FAILED"
         /\ status' \in {status, [status EXCEPT ![s] = r]}
  BY DEF MarkFault
<1>6. /\ status' \in [Signals -> {"ABSENT", "PENDING", "SENT", "FAILED"}]
      /\ \A q \in Signals \ {s} : status'[q] = status[q]
      /\ status'[s] \in {status[s], r}
  BY <1>4, <1>5 DEF Inv, Typed, TypeOK
<1>7. Typed'
  BY <1>2, <1>3, <1>6 DEF Inv, Typed, TypeOK
<1>8. Grows
  <2>1. \A q \in Signals : status[q] # "ABSENT" => status'[q] # "ABSENT"
    BY <1>4, <1>6
  <2> QED BY <1>2, <2>1, QuietGrows
<1>9. ASSUME NEW u \in Tasks PROVE TaskOK(u)'
  <2>1. CASE u = t
    BY <1>2, <1>3, <1>4, <1>6, <2>1 DEF Inv, TaskOK
  <2>2. CASE u # t
    BY <1>3, <1>7, <1>8, <2>2, TaskStays DEF Others
  <2> QED BY <2>1, <2>2
<1>10. ASSUME NEW q \in Signals PROVE Planned(q)' /\ Told(q)'
  <2>1. CASE status'[q] = status[q]
    BY <1>7, <1>8, <2>1, ToldStays
  <2>2. CASE status'[q] # status[q]
    <3>1. q = s /\ status'[q] = r
      BY <1>6, <2>2
    <3>2. Planned(s)'
      BY <1>2, <1>4 DEF Inv, Planned
    <3>3. faults' > 0 /\ (r = "SENT" => AllExecuted(s)')
      BY <1>2, <1>4, <1>5, <1>7, <1>8, ExecutedStays
    <3>4. Told(s)'
      BY <3>1, <3>3 DEF Told
    <3> QED BY <3>1, <3>2, <3>4
  <2> QED BY <2>1, <2>2
<1> QED BY <1>7, <1>9, <1>10 DEF Inv

LEMMA CrashStep == Inv /\ Crash => Inv'
<1> SUFFICES ASSUME Inv, Crash PROVE Inv'
  OBVIOUS
<1>1. PICK T \in SUBSET Tasks : applied' = Carried(T)
  BY DEF Crash
<1>2. /\ task' = [t \in Tasks |-> "off"] /\ step' = [t \in Tasks |-> 1]
      /\ tries' = [t \in Tasks |-> 0]
      /\ owing' = {} /\ wake' = FALSE /\ loop' = "sweep"
      /\ UNCHANGED <<status, plan, balanced, sweep>>
      /\ faults' = faults + 1 /\ faults' \in 0..MaxFaults /\ faults \in Nat
  BY ConstantsAssumption DEF Crash, Fault, documents, Inv, Typed, TypeOK
<1>3. /\ applied' \in [Signals -> [1..MaxSteps -> Nat]]
      /\ \A q \in Signals, i \in 1..MaxSteps : applied'[q][i] >= applied[q][i]
  BY <1>1, CarriedGrows DEF Inv
<1>4. Grows
  BY <1>2, <1>3 DEF Grows, Inv, Typed, TypeOK
<1>5. Typed'
  <2>1. /\ task' \in [Tasks -> Stages] /\ step' \in [Tasks -> 1..MaxSteps]
        /\ tries' \in [Tasks -> 0..MaxRetries]
    BY <1>2, ConstantsAssumption DEF Stages, MaxSteps
  <2> QED BY <1>2, <1>3, <2>1 DEF Inv, Typed, TypeOK
<1>6. \A s \in Signals : Planned(s)' /\ Told(s)'
  BY <1>2, <1>4, <1>5, ToldStays
<1>7. \A t \in Tasks : TaskOK(t)'
  BY <1>2 DEF TaskOK, Resting
<1> QED BY <1>5, <1>6, <1>7 DEF Inv
-----------------------------------------------------------------------------
(***************************************************************************)
(* The invariant holds of the specification.                               *)
(***************************************************************************)

\* A step of one coroutine, faulty or not.
LEMMA CoroutineStep ==
  ASSUME Inv, NEW t \in Tasks, TaskStep(t) \/ TaskFault(t)
  PROVE  Inv'
<1>1. CASE AcquireSemaphore(t) \/ AcquireLock(t)
  BY <1>1, AcquireStep
<1>2. CASE PassStep(t) \/ SkipSmall(t) \/ StepOk(t)
  BY <1>2, StepDone
<1>3. CASE UnknownStep(t) \/ StepRefused(t) \/ StepLost(t)
  BY <1>3, StepFailed
<1>4. CASE MarkSuccess(t) \/ MarkFailure(t)
  BY <1>4, MarkStep
<1>5. CASE MarkFault(t)
  BY <1>5, MarkFaultStep
<1> QED BY <1>1, <1>2, <1>3, <1>4, <1>5 DEF TaskStep, TaskFault

\* A step that only moves the loop, sets the event or clears it.
LEMMA LoopStays ==
  ASSUME Inv, IdleSweep \/ EndSweep \/ StopWaiting \/ UNCHANGED vars
  PROVE  Inv'
<1>1. /\ owing \subseteq Signals /\ wake \in BOOLEAN
      /\ loop \in {"sweep", "gather", "wait"}
  BY DEF Inv, Typed, TypeOK
<1>2. UNCHANGED <<documents, vaults, sweep, coroutines, faults, owing>>
  BY DEF IdleSweep, EndSweep, StopWaiting, vars, documents, vaults, coroutines
<1>3. wake' \in BOOLEAN /\ loop' \in {"sweep", "gather", "wait"}
  BY <1>1 DEF IdleSweep, EndSweep, StopWaiting, vars
<1> QED BY <1>1, <1>2, <1>3, QuietStep

LEMMA WakeStep == ASSUME Inv, NEW s \in Signals, Wake(s) PROVE Inv'
<1>1. /\ owing \subseteq Signals /\ wake \in BOOLEAN
      /\ loop \in {"sweep", "gather", "wait"}
  BY DEF Inv, Typed, TypeOK
<1>2. /\ UNCHANGED <<documents, vaults, sweep, coroutines, faults, loop>>
      /\ owing' \subseteq Signals /\ wake' = TRUE
  BY <1>1 DEF Wake
<1> QED BY <1>1, <1>2, QuietStep

LEMMA InvInit == Init => Inv
<1> SUFFICES ASSUME Init PROVE Inv
  OBVIOUS
<1>1. \A s \in Signals : status[s] = "ABSENT" /\ plan[s] = <<>>
  BY DEF Init
<1>2. \A t \in Tasks : task[t] = "off" /\ step[t] = 1 /\ tries[t] = 0
  BY DEF Init
<1>3. Typed
  <2>1. \A s \in Signals : Len(plan[s]) \in 0..MaxSteps
    BY <1>1 DEF MaxSteps
  <2>2. /\ step \in [Tasks -> 1..MaxSteps] /\ tries \in [Tasks -> 0..MaxRetries]
        /\ task \in [Tasks -> Stages] /\ 0 \in 0..MaxSweeps /\ 0 \in 0..MaxFaults
    BY ConstantsAssumption DEF Init, MaxSteps, Stages, MaxSweeps
  <2>3. applied \in [Signals -> [1..MaxSteps -> Nat]]
    BY DEF Init
  <2>4. plan = [s \in Signals |-> plan[s]]
    BY DEF Init
  <2> QED BY <2>1, <2>2, <2>3, <2>4 DEF Init, Typed, TypeOK
<1>4. \A s \in Signals : Planned(s) /\ Told(s)
  BY <1>1 DEF Planned, Told
<1>5. \A t \in Tasks : TaskOK(t)
  BY <1>2 DEF TaskOK, Resting
<1> QED BY <1>3, <1>4, <1>5 DEF Inv

LEMMA InvStep == Inv /\ [Next]_vars => Inv'
<1> SUFFICES ASSUME Inv, [Next]_vars PROVE Inv'
  OBVIOUS
<1>1. ASSUME NEW s \in Signals, StoreSignal(s) \/ Wake(s) PROVE Inv'
  BY <1>1, StoreSignalStep, WakeStep
<1>2. CASE LoopStep \/ PollTimeout \/ UNCHANGED vars
  BY <1>2, StartSweepStep, SweepRaisedStep, LoopStays DEF LoopStep, PollTimeout, Woken
<1>3. ASSUME NEW t \in Tasks, TaskStep(t) \/ TaskFault(t) PROVE Inv'
  BY <1>3, CoroutineStep
<1>4. CASE SweepFault \/ Crash
  BY <1>4, SweepFaultStep, CrashStep
<1> QED BY <1>1, <1>2, <1>3, <1>4 DEF Next

LEMMA Invariance == Spec => []Inv
  BY InvInit, InvStep, PTL DEF Spec

-----------------------------------------------------------------------------

\* Every variable of the executor keeps the values the code can give it.
THEOREM TypeCorrect == Spec => []TypeOK
<1>1. Inv => TypeOK
  BY DEF Inv, Typed
<1> QED BY <1>1, Invariance, PTL

\* A signal is SENT only when every step that calls the vault was carried out,
\* and FAILED only when a call failed or the executor does not know a step:
\* whatever is retried, repeated by a later sweep or restarted.
THEOREM OutcomeIsTold == Spec => []StatusTellsOutcome
<1>1. Inv => StatusTellsOutcome
  <2> SUFFICES ASSUME Inv, NEW s \in Signals
               PROVE  /\ status[s] = "SENT" =>
                           \A i \in DOMAIN plan[s] : Executed(s, i)
                      /\ status[s] = "FAILED" /\ faults = 0 => Unknown(s)
    BY DEF StatusTellsOutcome, Executed, Unknown
  <2>1. Told(s) /\ faults \in Nat
    BY DEF Inv, Typed, TypeOK
  <2> QED BY <2>1 DEF Told, AllExecuted
<1> QED BY <1>1, Invariance, PTL

-----------------------------------------------------------------------------
(***************************************************************************)
(* The lock of a vault.                                                    *)
(***************************************************************************)

\* No step but AcquireLock brings a coroutine into its critical section.
LEMMA OnlyTheLockAdmits ==
  ASSUME TypeOK, NEW t \in Tasks, TaskStep(t) \/ TaskFault(t), ~AcquireLock(t)
  PROVE  \A u \in Tasks : task'[u] \in Critical => task[u] \in Critical
<1>1. PICK stage : task' = [task EXCEPT ![t] = stage]
                   /\ (stage \in Critical => task[t] \in Critical)
  <2>1. CASE AcquireSemaphore(t)
    <3>1. task' = [task EXCEPT ![t] = "lock"] /\ "lock" \notin Critical
      BY <2>1 DEF AcquireSemaphore, Critical
    <3> QED BY <3>1
  <2>2. CASE PassStep(t) \/ SkipSmall(t) \/ StepOk(t)
    <3>1. task[t] \in Critical /\ NextStep(t)
      BY <2>2 DEF PassStep, SkipSmall, StepOk, CallsOut, Critical
    <3>2. task' = [task EXCEPT ![t] = task[t]] \/ task' = [task EXCEPT ![t] = "done"]
      BY <3>1 DEF NextStep, TypeOK
    <3> QED BY <3>1, <3>2
  <2>3. CASE UnknownStep(t) \/ StepRefused(t) \/ StepLost(t)
    <3>1. task[t] \in Critical /\ FailAttempt(t)
      BY <2>3 DEF UnknownStep, StepRefused, StepLost, CallsOut, Critical
    <3> QED BY <3>1 DEF FailAttempt
  <2>4. CASE MarkSuccess(t) \/ MarkFailure(t)
    <3>1. task' = [task EXCEPT ![t] = "off"] /\ "off" \notin Critical
      BY <2>4 DEF MarkSuccess, MarkFailure, Finish, Critical
    <3> QED BY <3>1
  <2>5. CASE MarkFault(t)
    <3>1. task[t] \in Critical /\ \E stage : task' = [task EXCEPT ![t] = stage]
      BY <2>5 DEF MarkFault, Critical
    <3> QED BY <3>1
  <2> QED BY <2>1, <2>2, <2>3, <2>4, <2>5 DEF TaskStep, TaskFault
<1> QED BY <1>1 DEF TypeOK

LEMMA VaultMutexStep == TypeOK /\ VaultMutex /\ [Next]_vars => VaultMutex'
<1> SUFFICES ASSUME TypeOK, VaultMutex, [Next]_vars PROVE VaultMutex'
  OBVIOUS
<1>1. ASSUME \A u \in Tasks : task'[u] \in Critical => task[u] \in Critical
      PROVE  VaultMutex'
  BY <1>1 DEF VaultMutex, Key, SignalOf
<1>2. ASSUME task' = task PROVE VaultMutex'
  BY <1>1, <1>2
<1>3. ASSUME NEW s \in Signals, StoreSignal(s) \/ Wake(s) PROVE VaultMutex'
  BY <1>2, <1>3 DEF StoreSignal, Wake, coroutines
<1>4. CASE IdleSweep \/ EndSweep \/ StopWaiting \/ SweepFault \/ UNCHANGED vars
  BY <1>2, <1>4 DEF IdleSweep, EndSweep, StopWaiting, SweepFault, vars, coroutines
<1>5. CASE StartSweep \/ SweepRaised
  BY <1>1, <1>5 DEF StartSweep, SweepRaised, Critical
<1>6. CASE Crash
  BY <1>1, <1>6 DEF Crash, Critical
<1>7. ASSUME NEW t \in Tasks, TaskStep(t) \/ TaskFault(t) PROVE VaultMutex'
  <2>1. CASE AcquireLock(t)
    <3>1. /\ \A u \in Tasks \ {t} : task'[u] = task[u]
          /\ \A u \in Tasks : Key(u) = Key(t) => task[u] \notin Critical
      BY <2>1 DEF AcquireLock, MayLock, TypeOK
    <3> QED BY <3>1 DEF VaultMutex, Key, SignalOf
  <2>2. CASE ~AcquireLock(t)
    BY <1>1, <1>7, <2>2, OnlyTheLockAdmits
  <2> QED BY <2>1, <2>2
<1> QED
  BY <1>3, <1>4, <1>5, <1>6, <1>7 DEF Next, LoopStep, PollTimeout, Woken

\* Two pipelines never run on one vault at once, however many sweeps overlap.
THEOREM VaultIsExclusive == Spec => []VaultMutex
<1>1. Init => VaultMutex
  BY DEF Init, VaultMutex, Critical
<1> QED BY <1>1, VaultMutexStep, TypeCorrect, PTL DEF Spec
-----------------------------------------------------------------------------
(***************************************************************************)
(* How a coroutine moves.                                                  *)
(***************************************************************************)

SweepsInOrder ==
    /\ loop = "gather" => sweep \in 1..MaxSweeps
    /\ \A t \in Tasks : /\ task[t] # "off" => t[1] <= sweep
                        /\ task[t] = "raised" => loop = "gather" /\ t[1] = sweep

Acquires(t) == AcquireSemaphore(t) \/ AcquireLock(t)

Works(t) == PassStep(t) \/ SkipSmall(t) \/ StepOk(t)
            \/ UnknownStep(t) \/ StepRefused(t) \/ StepLost(t)

Marks(t) == MarkSuccess(t) \/ MarkFailure(t)

LEMMA Moves ==
  ASSUME NEW t \in Tasks, TaskStep(t) \/ TaskFault(t)
  PROVE  Acquires(t) \/ Works(t) \/ Marks(t) \/ MarkFault(t)
  BY DEF TaskStep, TaskFault, Acquires, Works, Marks

LEMMA TaskParts ==
  /\ \A t \in Tasks : t[1] \in 1..MaxSweeps /\ t[2] \in Signals /\ t = <<t[1], t[2]>>
                     /\ SignalOf(t) = t[2]
  /\ \A k \in 1..MaxSweeps, s \in Signals : <<k, s>> \in Tasks
  /\ MaxSweeps \in Nat /\ MaxFaults \in Nat
  BY ConstantsAssumption DEF Tasks, SignalOf, MaxSweeps

LEMMA AcquiresMoves ==
  ASSUME Inv, NEW t \in Tasks, Acquires(t)
  PROVE  /\ Others(t) /\ UNCHANGED <<step, status, applied, loop, sweep, faults>>
         /\ \/ task[t] = "sem" /\ task'[t] = "lock"
            \/ task[t] = "lock" /\ task'[t] = "run"
  BY DEF Acquires, AcquireSemaphore, AcquireLock, Others, documents, vaults, supervisor,
         Inv, Typed, TypeOK

LEMMA WorksMoves ==
  ASSUME Inv, NEW t \in Tasks, Works(t)
  PROVE  /\ Others(t) /\ UNCHANGED <<status, loop, sweep>>
         /\ task[t] = "run" /\ task'[t] \in {"run", "done", "giveup"}
         /\ faults' \in {faults, faults + 1}
         /\ step[t] \in 1..MaxSteps /\ step'[t] \in 1..MaxSteps
         /\ task'[t] = "run" => step'[t] >= step[t]
<1>1. task[t] = "run" /\ (NextStep(t) \/ FailAttempt(t)) /\ UNCHANGED <<status, loop, sweep>>
      /\ faults' \in {faults, faults + 1}
  BY DEF Works, PassStep, SkipSmall, StepOk, UnknownStep, StepRefused, StepLost, CallsOut,
         documents, supervisor, Fault
<1>2. /\ step' \in [Tasks -> 1..MaxSteps] /\ Others(t)
  BY <1>1, MoveTyped
<1>3. step \in [Tasks -> 1..MaxSteps] /\ task \in [Tasks -> Stages] /\ step[t] \in Nat
  BY SMTT(20) DEF Inv, Typed, TypeOK, MaxSteps
<1>4. CASE NextStep(t)
  <2>1. CASE step[t] < Len(plan[SignalOf(t)])
    <3>1. step'[t] = step[t] + 1 /\ task'[t] = "run"
      BY <1>1, <1>3, <1>4, <2>1 DEF NextStep
    <3> QED BY <1>1, <1>2, <1>3, <3>1
  <2>2. CASE ~(step[t] < Len(plan[SignalOf(t)]))
    <3>1. task'[t] = "done"
      BY <1>3, <1>4, <2>2 DEF NextStep
    <3> QED BY <1>1, <1>2, <1>3, <3>1
  <2> QED BY <2>1, <2>2
<1>5. CASE FailAttempt(t)
  <2>1. step' = step /\ task'[t] \in {"run", "giveup"}
    BY <1>3, <1>5 DEF FailAttempt
  <2> QED BY <1>1, <1>2, <1>3, <2>1
<1> QED BY <1>1, <1>4, <1>5

LEMMA MarksMoves ==
  ASSUME Inv, NEW t \in Tasks, Marks(t)
  PROVE  /\ Others(t) /\ UNCHANGED <<applied, loop, sweep, faults>>
         /\ task[t] \in {"done", "giveup", "unexpected"} /\ task'[t] = "off"
         /\ status'[t[2]] \in {"SENT", "FAILED"}
         /\ \A s \in Signals \ {t[2]} : status'[s] = status[s]
<1>1. PICK r \in {"SENT", "FAILED"} : Finish(t, r) /\ task[t] \in {"done", "giveup", "unexpected"}
  BY DEF Marks, MarkSuccess, MarkFailure
<1> QED BY <1>1, TaskParts DEF Finish, Others, vaults, supervisor, Inv, Typed, TypeOK

LEMMA MarkFaultMoves ==
  ASSUME Inv, NEW t \in Tasks, MarkFault(t)
  PROVE  /\ Others(t) /\ UNCHANGED <<applied, loop, sweep>> /\ faults' = faults + 1
         /\ status'[t[2]] \in {status[t[2]], "SENT", "FAILED"}
         /\ \A s \in Signals \ {t[2]} : status'[s] = status[s]
         /\ task[t] \in {"done", "giveup", "unexpected"}
         /\ task'[t] \in {"unexpected", "raised", "off"}
         /\ task'[t] = "raised" => loop = "gather" /\ t[1] = sweep
<1>1. PICK x : x = CASE task[t] # "unexpected" -> "unexpected"
                     [] task[t] = "unexpected" /\ t[1] = sweep /\ loop = "gather" -> "raised"
                     [] OTHER -> "off"
  OBVIOUS
<1>2. task' = [task EXCEPT ![t] = x] /\ task[t] \in {"done", "giveup", "unexpected"}
  BY <1>1 DEF MarkFault
<1>3. x \in {"unexpected", "raised", "off"} /\ (x = "raised" => loop = "gather" /\ t[1] = sweep)
  <2>1. CASE task[t] # "unexpected"
    BY <1>1, <2>1
  <2>2. CASE task[t] = "unexpected" /\ t[1] = sweep /\ loop = "gather"
    BY <1>1, <2>2
  <2>3. CASE task[t] = "unexpected" /\ ~(t[1] = sweep /\ loop = "gather")
    BY <1>1, <2>3
  <2> QED BY <2>1, <2>2, <2>3
<1>4. task'[t] = x
  BY <1>2 DEF Inv, Typed, TypeOK
<1>5. PICK r \in {"SENT", "FAILED"} : status' \in {status, [status EXCEPT ![t[2]] = r]}
  BY DEF MarkFault, SignalOf
<1>6. /\ status'[t[2]] \in {status[t[2]], "SENT", "FAILED"}
      /\ \A s \in Signals \ {t[2]} : status'[s] = status[s]
  BY <1>5, TaskParts DEF Inv, Typed, TypeOK
<1> QED BY <1>2, <1>3, <1>4, <1>6
        DEF MarkFault, Fault, Others, vaults, supervisor, Inv, Typed, TypeOK

\* What the loop and the creators of signals do to the coroutines.
LEMMA LoopMoves ==
  ASSUME Inv, SweepsInOrder,
         \/ \E s \in Signals : StoreSignal(s) \/ Wake(s)
         \/ LoopStep \/ PollTimeout \/ SweepFault \/ UNCHANGED vars
  PROVE  /\ UNCHANGED <<applied, step>> /\ faults' \in {faults, faults + 1}
         /\ \A s \in Signals : status'[s] = status[s]
                               \/ (status[s] = "ABSENT" /\ status'[s] = "PENDING")
         /\ \/ StartSweep /\ UNCHANGED <<status, faults>>
            \/ /\ loop = "gather"
               /\ \/ \A s \in Signals : task[<<sweep, s>>] = "off"
                  \/ \E s \in Signals : task[<<sweep, s>>] = "raised"
               /\ loop' # "gather" /\ UNCHANGED <<status, sweep, faults>>
               /\ \A t \in Tasks : task'[t] = IF task[t] = "raised" THEN "off" ELSE task[t]
            \/ loop # "gather" /\ loop' # "gather" /\ UNCHANGED <<sweep, task, status>>
            \/ UNCHANGED <<loop, sweep, task, faults>>
<1> USE DEF Inv, Typed, TypeOK, documents, vaults, supervisor, coroutines
<1>1. ASSUME NEW s \in Signals, StoreSignal(s) \/ Wake(s)
      PROVE  /\ UNCHANGED <<applied, step, loop, sweep, task, faults>>
             /\ \A r \in Signals : status'[r] = status[r]
                                   \/ (status[r] = "ABSENT" /\ status'[r] = "PENDING")
  BY <1>1 DEF StoreSignal, Wake
<1>2. CASE IdleSweep \/ StopWaiting \/ SweepFault
  BY <1>2 DEF IdleSweep, StopWaiting, SweepFault, Fault
<1>3. CASE StartSweep
  BY <1>3 DEF StartSweep
<1>4. CASE SweepRaised
  BY <1>4 DEF SweepRaised
<1>5. CASE EndSweep
  <2>1. /\ loop = "gather" /\ loop' # "gather" /\ \A s \in Signals : task[<<sweep, s>>] = "off"
        /\ UNCHANGED <<status, applied, step, sweep, task, faults>>
    BY <1>5 DEF EndSweep
  <2>2. \A t \in Tasks : task[t] # "raised"
    BY <2>1, TaskParts DEF SweepsInOrder
  <2> QED BY <2>1, <2>2
<1>6. CASE UNCHANGED vars
  BY <1>6 DEF vars
<1> QED BY <1>1, <1>2, <1>3, <1>4, <1>5, <1>6 DEF LoopStep, Woken, PollTimeout

\* Where the loop's own step is a sweep, the new coroutines are all there is of it.
LEMMA SweepStarts ==
  ASSUME Inv, SweepsInOrder, StartSweep
  PROVE  /\ loop # "gather" /\ loop' = "gather" /\ sweep' = sweep + 1 /\ sweep' \in 1..MaxSweeps
         /\ \A s \in Signals : task[<<sweep', s>>] = "off" /\ <<sweep', s>> \in Tasks
         /\ \A t \in Tasks : task'[t] = IF t[1] = sweep' /\ t[2] \in ListPending
                                        THEN "sem" ELSE task[t]
<1>1. sweep \in Nat /\ sweep < MaxSweeps
  BY TaskParts DEF StartSweep, Inv, Typed, TypeOK
<1>2. sweep' = sweep + 1 /\ sweep' \in 1..MaxSweeps
  BY <1>1, TaskParts DEF StartSweep
<1>3. \A s \in Signals : task[<<sweep', s>>] = "off" /\ <<sweep', s>> \in Tasks
  BY <1>1, <1>2, TaskParts DEF SweepsInOrder
<1> QED BY <1>2, <1>3 DEF StartSweep

LEMMA SweepsStep == Inv /\ SweepsInOrder /\ [Next]_vars => SweepsInOrder'
<1> SUFFICES ASSUME Inv, SweepsInOrder, [Next]_vars PROVE SweepsInOrder'
  OBVIOUS
<1>1. CASE StartSweep
  <2>1. ASSUME NEW t \in Tasks PROVE task'[t] # "raised" /\ (task'[t] # "off" => t[1] <= sweep')
    <3>0. sweep \in Nat /\ t[1] \in Nat
      BY TaskParts DEF Inv, Typed, TypeOK
    <3>1. sweep \in Nat /\ sweep' = sweep + 1 /\ t[1] \in Nat
      BY <1>1, <3>0, SweepStarts
    <3>2. (task'[t] = "sem" /\ t[1] = sweep') \/ task'[t] = task[t]
      BY <1>1, SweepStarts
    <3>3. task[t] # "raised" /\ (task[t] # "off" => t[1] <= sweep)
      BY <1>1, SweepStarts DEF SweepsInOrder
    <3> QED BY <3>1, <3>2, <3>3
  <2> QED BY <1>1, <2>1, SweepStarts DEF SweepsInOrder
<1>2. ASSUME NEW t \in Tasks, TaskStep(t) \/ TaskFault(t) PROVE SweepsInOrder'
  <2>1. /\ Others(t) /\ UNCHANGED <<loop, sweep>> /\ task[t] # "off"
        /\ task'[t] = "raised" => loop = "gather" /\ t[1] = sweep
    <3>1. CASE Acquires(t)
      BY <3>1, AcquiresMoves
    <3>2. CASE Works(t)
      BY <3>2, WorksMoves
    <3>3. CASE Marks(t)
      BY <3>3, MarksMoves
    <3>4. CASE MarkFault(t)
      BY <3>4, MarkFaultMoves
    <3> QED BY <1>2, <3>1, <3>2, <3>3, <3>4, Moves
  <2> QED BY <2>1 DEF SweepsInOrder, Others
<1>3. CASE Crash
  BY <1>3 DEF Crash, SweepsInOrder
<1>4. CASE ~StartSweep /\ (\/ \E s \in Signals : StoreSignal(s) \/ Wake(s)
                           \/ LoopStep \/ PollTimeout \/ SweepFault \/ UNCHANGED vars)
  <2>1. \/ /\ loop' # "gather" /\ UNCHANGED sweep
           /\ \A t \in Tasks : task'[t] = IF task[t] = "raised" THEN "off" ELSE task[t]
        \/ loop # "gather" /\ loop' # "gather" /\ UNCHANGED <<sweep, task>>
        \/ UNCHANGED <<loop, sweep, task>>
    BY <1>4, LoopMoves
  <2> QED BY <2>1 DEF SweepsInOrder
<1> QED BY <1>1, <1>2, <1>3, <1>4 DEF Next

-----------------------------------------------------------------------------
(***************************************************************************)
(* Counting calls.  A coroutine that has not come past step i may bring    *)
(* one more call of it without another fault.  Calls and such coroutines   *)
(* together stay within the faults and one: a sweep starts a coroutine on  *)
(* a pending signal, and it is pending again only after a fault.           *)
(***************************************************************************)

Ahead(t, i) == task[t] \in Waiting \/ (task[t] = "run" /\ step[t] <= i)

Busy(s, i) == {k \in 1..MaxSweeps : Ahead(<<k, s>>, i)}
Owed(s, i) == Cardinality(Busy(s, i))

\* The sweep the loop waits for has a coroutine on s, and none has raised.
OwnSweep(s) ==
    /\ loop = "gather" /\ task[<<sweep, s>>] # "off"
    /\ \A r \in Signals : task[<<sweep, r>>] # "raised"

Allowance(s) == IF status[s] \in {"SENT", "FAILED"} \/ OwnSweep(s) THEN 1 ELSE 0

Afforded ==
    \A s \in Signals, i \in 1..MaxSteps : applied[s][i] + Owed(s, i) <= faults + Allowance(s)

Counted == applied \in [Signals -> [1..MaxSteps -> Nat]] /\ faults \in Nat

LEMMA InvCounts == Inv => Counted
  BY TaskParts DEF Inv, Typed, TypeOK, Counted

LEMMA BusyIsFinite ==
  /\ \A s, i : IsFiniteSet(Busy(s, i)) /\ Owed(s, i) \in Nat
  /\ \A s, i : IsFiniteSet(Busy(s, i)') /\ Owed(s, i)' \in Nat
<1>1. IsFiniteSet(1..MaxSweeps)
  BY TaskParts, FS_Interval
<1>2. \A s, i : Busy(s, i) \subseteq 1..MaxSweeps /\ Busy(s, i)' \subseteq 1..MaxSweeps
  BY DEF Busy
<1>3. \A s, i : IsFiniteSet(Busy(s, i)) /\ IsFiniteSet(Busy(s, i)')
  BY <1>1, <1>2, FS_Subset
<1> QED BY <1>3, FS_CardinalityType DEF Owed

\* No coroutine falls back before a step: no more is owed.
LEMMA OwedFalls ==
  ASSUME NEW s \in Signals, NEW i, \A t \in Tasks : Ahead(t, i)' => Ahead(t, i)
  PROVE  Owed(s, i)' <= Owed(s, i)
<1>1. Busy(s, i)' \subseteq Busy(s, i)
  BY TaskParts DEF Busy
<1> QED BY <1>1, BusyIsFinite, FS_Subset DEF Owed

\* A coroutine that comes past step i is owed no longer.
LEMMA OwedPays ==
  ASSUME NEW t \in Tasks, NEW i, \A u \in Tasks : Ahead(u, i)' => Ahead(u, i),
         Ahead(t, i), ~Ahead(t, i)'
  PROVE  Owed(t[2], i)' + 1 <= Owed(t[2], i)
<1>1. PICK k \in 1..MaxSweeps, s \in Signals : t = <<k, s>> /\ t[2] = s
  BY TaskParts
<1>2. Busy(s, i)' \subseteq Busy(s, i) \ {k} /\ k \in Busy(s, i)
  BY <1>1, TaskParts DEF Busy
<1>3. /\ IsFiniteSet(Busy(s, i) \ {k})
      /\ Cardinality(Busy(s, i) \ {k}) = Cardinality(Busy(s, i)) - 1
  BY <1>2, BusyIsFinite, FS_RemoveElement
<1>4. Cardinality(Busy(s, i)') <= Cardinality(Busy(s, i) \ {k})
  BY <1>2, <1>3, FS_Subset
<1> QED BY <1>1, <1>3, <1>4, BusyIsFinite DEF Owed

\* The call of one coroutine is counted for its signal and its step alone.
LEMMA CarriedOne ==
  ASSUME Inv, NEW t \in Tasks, NEW s \in Signals, NEW i \in 1..MaxSteps
  PROVE  Carried({t})[s][i] = IF s = t[2] /\ i = step[t] THEN applied[s][i] + 1 ELSE applied[s][i]
<1> DEFINE mine == {u \in {t} : SignalOf(u) = s /\ step[u] = i}
<1>1. Carried({t})[s][i] = applied[s][i] + Cardinality(mine)
  BY DEF Carried
<1>2. mine = IF s = t[2] /\ i = step[t] THEN {t} ELSE {}
  BY TaskParts
<1>3. Cardinality({t}) = 1 /\ Cardinality({}) = 0
  BY FS_Singleton, FS_EmptySet
<1>4. applied[s][i] \in Nat
  BY InvCounts DEF Counted
<1> HIDE DEF mine
<1> QED BY <1>1, <1>2, <1>3, <1>4

\* Nothing is carried out, and no more is owed than before.
LEMMA AffordedStill ==
  ASSUME Inv, Counted', Afforded, applied' = applied,
         \A t \in Tasks, i \in 1..MaxSteps : Ahead(t, i)' => Ahead(t, i),
         \A s \in Signals : faults + Allowance(s) <= faults' + Allowance(s)'
  PROVE  Afforded'
<1>1. ASSUME NEW s \in Signals, NEW i \in 1..MaxSteps
      PROVE  applied'[s][i] + Owed(s, i)' <= faults' + Allowance(s)'
  <2>1. applied[s][i] \in Nat /\ faults \in Nat /\ faults' \in Nat
    BY InvCounts DEF Counted
  <2>2. Owed(s, i)' <= Owed(s, i) /\ Owed(s, i) \in Nat /\ Owed(s, i)' \in Nat
    BY BusyIsFinite, OwedFalls
  <2>3. Allowance(s) \in {0, 1} /\ Allowance(s)' \in {0, 1}
    BY DEF Allowance
  <2>4. applied[s][i] + Owed(s, i) <= faults + Allowance(s)
    BY DEF Afforded
  <2> QED BY <2>1, <2>2, <2>3, <2>4
<1> QED BY <1>1 DEF Afforded

\* A coroutine that neither ends nor raises leaves its sweep alone.
LEMMA OwnSweepStays ==
  ASSUME SweepsInOrder, NEW t \in Tasks, Others(t), UNCHANGED <<loop, sweep, status>>,
         task'[t] \notin {"off", "raised"}
  PROVE  \A s \in Signals : Allowance(s) <= Allowance(s)'
<1>1. ASSUME NEW s \in Signals, OwnSweep(s) PROVE OwnSweep(s)'
  <2>1. sweep \in 1..MaxSweeps
    BY <1>1 DEF OwnSweep, SweepsInOrder
  <2>2. \A r \in Signals : <<sweep, r>> \in Tasks
    BY <2>1, TaskParts
  <2> QED BY <1>1, <2>2 DEF OwnSweep, Others
<1>2. \A s \in Signals : Allowance(s) \in {0, 1} /\ Allowance(s)' \in {0, 1}
  BY DEF Allowance
<1> QED BY <1>1, <1>2 DEF Allowance

\* A running coroutine does not fall back before a step, whatever its attempt brings.
LEMMA WorksAhead ==
  ASSUME Inv, NEW t \in Tasks, Works(t), NEW i \in 1..MaxSteps
  PROVE  \A u \in Tasks : Ahead(u, i)' => Ahead(u, i)
<1>1. ASSUME Ahead(t, i)' PROVE Ahead(t, i)
  <2>1. task[t] = "run" /\ task'[t] = "run" /\ step'[t] >= step[t]
        /\ step[t] \in 1..MaxSteps /\ step'[t] \in 1..MaxSteps
    BY <1>1, WorksMoves DEF Ahead, Waiting
  <2>2. step'[t] <= i
    BY <1>1, <2>1 DEF Ahead, Waiting
  <2>3. step[t] <= i
    BY <2>1, <2>2 DEF MaxSteps
  <2> QED BY <2>1, <2>3 DEF Ahead
<1>2. \A u \in Tasks \ {t} : Ahead(u, i)' = Ahead(u, i)
  BY WorksMoves DEF Others, Ahead
<1> QED BY <1>1, <1>2

\* After an answered call the coroutine is past the step.
LEMMA AnsweredIsPast ==
  ASSUME Inv, NEW t \in Tasks, StepOk(t)
  PROVE  Ahead(t, step[t]) /\ \A i \in 1..MaxSteps : i = step[t] => ~Ahead(t, i)'
<1>1. /\ step \in [Tasks -> 1..MaxSteps] /\ task \in [Tasks -> Stages]
      /\ step[t] \in Nat /\ task[t] = "run" /\ NextStep(t)
  BY DEF Inv, Typed, TypeOK, StepOk, CallsOut, MaxSteps
<1>2. ASSUME NEW i \in 1..MaxSteps, i = step[t] PROVE ~Ahead(t, i)'
  <2>1. CASE step[t] < Len(plan[SignalOf(t)])
    <3>1. step'[t] = step[t] + 1 /\ task'[t] = "run"
      BY <1>1, <2>1 DEF NextStep
    <3> QED BY <1>1, <1>2, <3>1 DEF Ahead, Waiting
  <2>2. CASE ~(step[t] < Len(plan[SignalOf(t)]))
    <3>1. task'[t] = "done"
      BY <1>1, <2>2 DEF NextStep
    <3> QED BY <3>1 DEF Ahead, Waiting
  <2> QED BY <2>1, <2>2
<1> QED BY <1>1, <1>2 DEF Ahead

LEMMA AffordedTask ==
  ASSUME Inv, Inv', SweepsInOrder, Afforded, NEW t \in Tasks, TaskStep(t) \/ TaskFault(t)
  PROVE  Afforded'
<1>0. Counted /\ Counted' /\ \A s \in Signals : Allowance(s) \in {0, 1} /\ Allowance(s)' \in {0, 1}
  BY InvCounts DEF Allowance, Counted, Inv, Typed, TypeOK
<1>1. CASE Acquires(t)
  <2>1. task'[t] \notin {"off", "raised"} /\ Others(t)
        /\ UNCHANGED <<applied, loop, sweep, status, faults>>
    BY <1>1, AcquiresMoves
  <2>2. \A u \in Tasks, i \in 1..MaxSteps : Ahead(u, i)' => Ahead(u, i)
    BY <1>1, AcquiresMoves DEF Ahead, Others, Waiting
  <2>3. \A s \in Signals : Allowance(s) <= Allowance(s)'
    BY <2>1, OwnSweepStays
  <2>4. \A s \in Signals : faults + Allowance(s) <= faults' + Allowance(s)'
    BY <1>0, <2>1, <2>3 DEF Counted
  <2> QED BY <1>0, <2>1, <2>2, <2>4, AffordedStill
<1>2. CASE Works(t)
  <2>1. \A s \in Signals : Allowance(s) <= Allowance(s)'
    BY <1>2, WorksMoves, OwnSweepStays
  <2>2. \A u \in Tasks, i \in 1..MaxSteps : Ahead(u, i)' => Ahead(u, i)
    BY <1>2, WorksAhead
  <2>3. faults' \in {faults, faults + 1} /\ faults \in Nat
    BY <1>0, <1>2, WorksMoves DEF Counted
  <2>4. CASE applied' = applied
    <3>1. \A s \in Signals : faults + Allowance(s) <= faults' + Allowance(s)'
      BY <1>0, <2>1, <2>3
    <3> QED BY <1>0, <2>2, <2>4, <3>1, AffordedStill
  <2>5. CASE applied' = Carried({t}) /\ (StepOk(t) \/ (StepLost(t) /\ faults' = faults + 1))
    <3>1. ASSUME NEW s \in Signals, NEW i \in 1..MaxSteps
          PROVE  applied'[s][i] + Owed(s, i)' <= faults' + Allowance(s)'
      <4>1. /\ Owed(s, i)' <= Owed(s, i) /\ Owed(s, i) \in Nat /\ Owed(s, i)' \in Nat
            /\ applied[s][i] \in Nat /\ applied[s][i] + Owed(s, i) <= faults + Allowance(s)
        BY <1>0, <2>2, OwedFalls, BusyIsFinite DEF Counted, Afforded
      <4>2. applied'[s][i] = IF s = t[2] /\ i = step[t] THEN applied[s][i] + 1 ELSE applied[s][i]
        BY <2>5, CarriedOne
      <4>3. CASE ~(s = t[2] /\ i = step[t])
        BY <1>0, <2>1, <2>3, <4>1, <4>2, <4>3
      <4>4. CASE s = t[2] /\ i = step[t] /\ faults' = faults + 1
        BY <1>0, <2>1, <2>3, <4>1, <4>2, <4>4
      <4>5. CASE s = t[2] /\ i = step[t] /\ StepOk(t)
        <5>1. Ahead(t, i) /\ ~Ahead(t, i)'
          BY <4>5, AnsweredIsPast
        <5>2. Owed(s, i)' + 1 <= Owed(s, i)
          BY <2>2, <4>5, <5>1, OwedPays
        <5> QED BY <1>0, <2>1, <2>3, <4>1, <4>2, <4>5, <5>2
      <4> QED BY <2>5, <4>3, <4>4, <4>5
    <3> QED BY <3>1 DEF Afforded
  <2> QED BY <1>2, <2>4, <2>5 DEF Works, PassStep, SkipSmall, StepOk, UnknownStep, StepRefused,
                                  StepLost, Fault, vaults
<1>3. CASE Marks(t)
  <2>1. /\ Others(t) /\ UNCHANGED <<applied, loop, sweep, faults>> /\ task'[t] = "off"
        /\ status'[t[2]] \in {"SENT", "FAILED"} /\ \A s \in Signals \ {t[2]} : status'[s] = status[s]
    BY <1>3, MarksMoves
  <2>2. \A u \in Tasks, i \in 1..MaxSteps : Ahead(u, i)' => Ahead(u, i)
    BY <2>1 DEF Ahead, Others, Waiting
  <2>3. ASSUME NEW s \in Signals PROVE Allowance(s) <= Allowance(s)'
    <3>1. CASE s = t[2]
      BY <1>0, <2>1, <3>1 DEF Allowance
    <3>2. CASE s # t[2]
      <4>1. ASSUME OwnSweep(s) PROVE OwnSweep(s)'
        <5>1. \A r \in Signals : <<sweep, r>> \in Tasks
          BY <4>1, TaskParts DEF OwnSweep, SweepsInOrder
        <5>2. <<sweep, s>> # t
          BY <3>2, TaskParts
        <5> QED BY <2>1, <4>1, <5>1, <5>2 DEF OwnSweep, Others
      <4> QED BY <1>0, <2>1, <3>2, <4>1 DEF Allowance
    <3> QED BY <3>1, <3>2
  <2>4. \A s \in Signals : faults + Allowance(s) <= faults' + Allowance(s)'
    BY <1>0, <2>1, <2>3 DEF Counted
  <2> QED BY <1>0, <2>1, <2>2, <2>4, AffordedStill
<1>4. CASE MarkFault(t)
  <2>1. /\ Others(t) /\ applied' = applied /\ faults' = faults + 1
        /\ task'[t] \in {"unexpected", "raised", "off"}
    BY <1>4, MarkFaultMoves
  <2>2. \A u \in Tasks, i \in 1..MaxSteps : Ahead(u, i)' => Ahead(u, i)
    BY <2>1 DEF Ahead, Others, Waiting
  <2>3. \A s \in Signals : faults + Allowance(s) <= faults' + Allowance(s)'
    BY <1>0, <2>1 DEF Counted
  <2> QED BY <1>0, <2>1, <2>2, <2>3, AffordedStill
<1> QED BY <1>1, <1>2, <1>3, <1>4, Moves

LEMMA AffordedSweep ==
  ASSUME Inv, Inv', SweepsInOrder, Afforded, StartSweep
  PROVE  Afforded'
<1>1. /\ UNCHANGED <<applied, status, step, faults>>
      /\ \A s \in Signals : ~OwnSweep(s)
  BY DEF StartSweep, documents, vaults, OwnSweep
<1>2. /\ loop' = "gather" /\ sweep' \in 1..MaxSweeps
      /\ \A s \in Signals : task[<<sweep', s>>] = "off" /\ <<sweep', s>> \in Tasks
      /\ \A t \in Tasks : task'[t] = IF t[1] = sweep' /\ t[2] \in ListPending THEN "sem" ELSE task[t]
  BY SweepStarts
<1>3. ASSUME NEW s \in Signals, NEW i \in 1..MaxSteps
      PROVE  applied'[s][i] + Owed(s, i)' <= faults' + Allowance(s)'
  <2>1. /\ applied[s][i] \in Nat /\ faults \in Nat
        /\ Owed(s, i) \in Nat /\ applied[s][i] + Owed(s, i) <= faults + Allowance(s)
    BY InvCounts, BusyIsFinite DEF Counted, Afforded
  <2>2. \A k \in 1..MaxSweeps \ {sweep'} : Ahead(<<k, s>>, i)' = Ahead(<<k, s>>, i)
    BY <1>1, <1>2, TaskParts DEF Ahead
  <2>3. CASE s \in ListPending
    <3>1. status[s] = "PENDING"
      BY <2>3 DEF ListPending, Pending
    <3>2. task'[<<sweep', s>>] = "sem" /\ \A r \in Signals : task'[<<sweep', r>>] # "raised"
      BY <1>2, <2>3, TaskParts
    <3>3. OwnSweep(s)'
      BY <1>2, <3>2 DEF OwnSweep
    <3>4. Allowance(s) = 0 /\ Allowance(s)' = 1
      BY <1>1, <3>1, <3>3 DEF Allowance
    <3>5. PICK k \in 1..MaxSweeps : k = sweep'
      BY <1>2
    <3>6. Busy(s, i)' = Busy(s, i) \cup {k} /\ k \notin Busy(s, i)
      <4>1. Ahead(<<k, s>>, i)' /\ ~Ahead(<<k, s>>, i)
        BY <1>2, <3>2, <3>5 DEF Ahead, Waiting
      <4> QED BY <2>2, <3>5, <4>1 DEF Busy
    <3>7. Owed(s, i)' = Owed(s, i) + 1
      BY <3>6, BusyIsFinite, FS_AddElement DEF Owed
    <3> QED BY <1>1, <2>1, <3>4, <3>7
  <2>4. CASE s \notin ListPending
    <3>1. \A k \in 1..MaxSweeps : Ahead(<<k, s>>, i)' = Ahead(<<k, s>>, i)
      BY <1>1, <1>2, <2>4, TaskParts DEF Ahead
    <3>2. Owed(s, i)' = Owed(s, i)
      BY <3>1 DEF Owed, Busy
    <3>3. Allowance(s) \in {0, 1} /\ Allowance(s)' \in {0, 1} /\ Allowance(s) <= Allowance(s)'
      BY <1>1 DEF Allowance
    <3> QED BY <1>1, <2>1, <3>2, <3>3
  <2> QED BY <2>3, <2>4
<1> QED BY <1>3 DEF Afforded

\* A crash takes every coroutine, and at most one of them had a request for a
\* step of a signal under way: they share the vault's lock.
LEMMA AffordedCrash ==
  ASSUME Inv, Inv', VaultMutex, Afforded, Crash
  PROVE  Afforded'
<1>1. PICK T \in SUBSET {t \in Tasks : CallsOut(t)} : applied' = Carried(T)
  BY DEF Crash
<1>2. faults' = faults + 1 /\ faults \in Nat /\ \A t \in Tasks : task'[t] = "off"
  BY InvCounts DEF Crash, Fault, Counted
<1>3. ASSUME NEW s \in Signals, NEW i \in 1..MaxSteps
      PROVE  applied'[s][i] + Owed(s, i)' <= faults' + Allowance(s)'
  <2>1. Owed(s, i)' = 0
    <3>1. Busy(s, i)' = {}
      BY <1>2, TaskParts DEF Busy, Ahead, Waiting
    <3> QED BY <3>1, FS_EmptySet DEF Owed
  <2>2. /\ applied[s][i] \in Nat /\ Owed(s, i) \in Nat
        /\ Allowance(s) \in {0, 1} /\ Allowance(s)' \in {0, 1}
        /\ applied[s][i] + Owed(s, i) <= faults + Allowance(s)
    BY InvCounts, BusyIsFinite DEF Counted, Afforded, Allowance
  <2> DEFINE lost == {t \in T : SignalOf(t) = s /\ step[t] = i}
  <2>3. applied'[s][i] = applied[s][i] + Cardinality(lost)
    BY <1>1 DEF Carried
  <2>4. \A t, u \in lost : t = u
    <3> SUFFICES ASSUME NEW t \in lost, NEW u \in lost, t # u PROVE FALSE
      OBVIOUS
    <3>1. t \in Tasks /\ u \in Tasks /\ task[t] \in Critical /\ task[u] \in Critical
      BY DEF CallsOut, Critical
    <3>2. Key(t) = Key(u)
      BY DEF Key
    <3> QED BY <3>1, <3>2 DEF VaultMutex
  <2>5. CASE lost = {}
    <3>1. Cardinality(lost) = 0
      BY <2>5, FS_EmptySet
    <3> HIDE DEF lost
    <3> QED BY <1>2, <2>1, <2>2, <2>3, <3>1
  <2>6. ASSUME NEW t \in lost PROVE applied'[s][i] + Owed(s, i)' <= faults' + Allowance(s)'
    <3>1. lost = {t}
      BY <2>4, <2>6
    <3>2. applied'[s][i] = applied[s][i] + 1
      <4>1. Cardinality(lost) = 1
        BY <3>1, FS_Singleton
      <4> HIDE DEF lost
      <4> QED BY <2>3, <4>1
    <3>3. t \in Tasks /\ task[t] = "run" /\ t[2] = s /\ step[t] = i
      BY <2>6, TaskParts DEF CallsOut
    <3>4. Ahead(t, i)
      BY <3>3 DEF Ahead
    <3>5. t[1] \in Busy(s, i)
      BY <3>3, <3>4, TaskParts DEF Busy
    <3>6. Owed(s, i) # 0
      BY <3>5, BusyIsFinite, FS_EmptySet DEF Owed
    <3> QED BY <1>2, <2>1, <2>2, <3>2, <3>6
  <2> QED BY <2>5, <2>6
<1> QED BY <1>3 DEF Afforded

LEMMA AffordedStep ==
  Inv /\ Inv' /\ VaultMutex /\ SweepsInOrder /\ Afforded /\ [Next]_vars => Afforded'
<1> SUFFICES ASSUME Inv, Inv', VaultMutex, SweepsInOrder, Afforded, [Next]_vars PROVE Afforded'
  OBVIOUS
<1>1. CASE ~StartSweep /\ (\/ \E s \in Signals : StoreSignal(s) \/ Wake(s)
                           \/ LoopStep \/ PollTimeout \/ SweepFault \/ UNCHANGED vars)
  <2>1. /\ UNCHANGED <<applied, step>> /\ faults' \in {faults, faults + 1}
        /\ \A t \in Tasks : task'[t] = task[t] \/ task'[t] = "off"
    BY <1>1, LoopMoves
  <2>2. \A t \in Tasks, i \in 1..MaxSteps : Ahead(t, i)' => Ahead(t, i)
    BY <2>1 DEF Ahead, Waiting
  <2>3. Counted /\ Counted' /\ \A s \in Signals : Allowance(s) \in {0, 1} /\ Allowance(s)' \in {0, 1}
    BY InvCounts DEF Allowance, Counted, Inv, Typed, TypeOK
  <2>4. ASSUME NEW s \in Signals PROVE Allowance(s) <= Allowance(s)'
    <3>1. OwnSweep(s) => UNCHANGED <<loop, sweep, task>>
      BY <1>1, LoopMoves DEF OwnSweep
    <3>2. OwnSweep(s) => OwnSweep(s)'
      BY <3>1 DEF OwnSweep
    <3>3. status[s] \in {"SENT", "FAILED"} => status'[s] = status[s]
      BY <1>1, LoopMoves
    <3> QED BY <2>3, <3>2, <3>3 DEF Allowance
  <2>5. \A s \in Signals : faults + Allowance(s) <= faults' + Allowance(s)'
    BY <2>1, <2>3, <2>4 DEF Counted
  <2> QED BY <2>1, <2>2, <2>3, <2>5, AffordedStill
<1> QED BY <1>1, AffordedTask, AffordedSweep, AffordedCrash DEF Next, LoopStep

LEMMA CallsAreAfforded == Spec => [](SweepsInOrder /\ Afforded)
<1>1. Init => SweepsInOrder /\ Afforded
  <2> SUFFICES ASSUME Init PROVE SweepsInOrder /\ Afforded
    OBVIOUS
  <2>1. \A s \in Signals, i \in 1..MaxSteps : Busy(s, i) = {}
    BY TaskParts DEF Init, Busy, Ahead, Waiting
  <2>2. \A s \in Signals, i \in 1..MaxSteps : Owed(s, i) = 0 /\ Allowance(s) = 0
    BY <2>1, FS_EmptySet DEF Owed, Allowance, Init, OwnSweep
  <2> QED BY <2>2 DEF Init, SweepsInOrder, Afforded
<1> QED BY <1>1, SweepsStep, AffordedStep, Invariance, VaultIsExclusive, PTL DEF Spec

\* Each fault costs at most one repeated call of a step, over all retries, sweeps
\* and restarts: without faults no position is opened or rebalanced twice for one
\* signal.
THEOREM FaultsPayForCalls == Spec => []OneCallPerFault
<1>1. Inv /\ Afforded => OneCallPerFault
  <2> SUFFICES ASSUME Inv, Afforded, NEW s \in Signals, NEW i \in 1..MaxSteps
               PROVE  applied[s][i] <= 1 + faults
    BY DEF OneCallPerFault
  <2>1. Allowance(s) \in {0, 1}
    BY DEF Allowance
  <2>2. /\ applied[s][i] \in Nat /\ faults \in Nat /\ Owed(s, i) \in Nat
        /\ applied[s][i] + Owed(s, i) <= faults + Allowance(s)
    BY InvCounts, BusyIsFinite DEF Counted, Afforded
  <2> QED BY <2>1, <2>2
<1> QED BY <1>1, CallsAreAfforded, Invariance, PTL

-----------------------------------------------------------------------------
(***************************************************************************)
(* The order of the signals of one vault.  Coroutines of one sweep pass    *)
(* the semaphore in the order of their signals, and those of one vault the *)
(* lock.  As long as nothing fails only the current sweep has coroutines,  *)
(* and whoever holds a vault finds every older signal of it resolved.      *)
(***************************************************************************)

Passed == Critical \cup {"lock"}

Turns ==
    \A t, u \in Tasks :
        t[1] = u[1] =>
            /\ task[t] \in Passed /\ task[u] = "sem" => t[2] < u[2]
            /\ task[t] \in Critical /\ task[u] = "lock" /\ Key(t) = Key(u) => t[2] < u[2]

\* No coroutine passes the semaphore or the lock, and none starts to wait.
LEMMA TurnsKept ==
  ASSUME Turns,
         \A t \in Tasks : /\ task'[t] = "sem" => task[t] = "sem"
                          /\ task'[t] = "lock" => task[t] = "lock"
                          /\ task'[t] \in Critical => task[t] \in Critical
  PROVE  Turns'
  BY DEF Turns, Passed, Key, SignalOf

LEMMA NotBefore ==
  ASSUME NEW t \in Tasks, NEW u \in Tasks, t # u, t[1] = u[1], ~Before(u, t)
  PROVE  t[2] < u[2]
<1>1. /\ t[1] \in Nat /\ t[2] \in Nat /\ u[2] \in Nat
      /\ t = <<t[1], t[2]>> /\ u = <<u[1], u[2]>>
  BY TaskParts, ConstantsAssumption DEF Signals
<1>2. ~(u[2] < t[2]) /\ u[2] # t[2]
  BY <1>1 DEF Before
<1> QED BY <1>1, <1>2

LEMMA TurnsStep == Inv /\ SweepsInOrder /\ Turns /\ [Next]_vars => Turns'
<1> SUFFICES ASSUME Inv, SweepsInOrder, Turns, [Next]_vars PROVE Turns'
  OBVIOUS
<1>0. task \in [Tasks -> Stages]
  BY DEF Inv, Typed, TypeOK
<1>1. CASE StartSweep
  <2>1. \A t \in Tasks : /\ task'[t] = "sem" \/ task'[t] = task[t]
                         /\ task'[t] = "sem" => t[1] = sweep' \/ task[t] = "sem"
    BY <1>1, SweepStarts
  <2>2. \A t \in Tasks : t[1] = sweep' => task[t] = "off"
    BY <1>1, SweepStarts, TaskParts
  <2>3. \A t \in Tasks : task'[t] \in Passed => task[t] = task'[t] /\ t[1] # sweep'
    BY <2>1, <2>2 DEF Passed, Critical
  <2>4. \A t \in Tasks : task'[t] = "lock" => task[t] = "lock"
    BY <2>1
  <2> QED BY <2>1, <2>3, <2>4 DEF Turns, Passed, Key, SignalOf
<1>2. CASE Crash
  BY <1>2, TurnsKept DEF Crash, Critical
<1>3. CASE ~StartSweep /\ (\/ \E s \in Signals : StoreSignal(s) \/ Wake(s)
                           \/ LoopStep \/ PollTimeout \/ SweepFault \/ UNCHANGED vars)
  <2>1. \A t \in Tasks : task'[t] = task[t] \/ task'[t] = "off"
    BY <1>3, LoopMoves
  <2> QED BY <2>1, TurnsKept DEF Critical
<1>4. ASSUME NEW t \in Tasks, AcquireSemaphore(t) PROVE Turns'
  <2>1. /\ task[t] = "sem" /\ task'[t] = "lock"
        /\ \A u \in Tasks \ {t} : task'[u] = task[u]
        /\ \A u \in Tasks : task[u] = "sem" => ~Before(u, t)
    BY <1>0, <1>4 DEF AcquireSemaphore
  <2>2. ASSUME NEW u \in Tasks, task'[u] = "sem", t[1] = u[1] PROVE t[2] < u[2]
    BY <2>1, <2>2, NotBefore
  <2>3. ASSUME NEW u \in Tasks, task'[u] \in Critical, t[1] = u[1] PROVE u[2] < t[2]
    <3>1. u # t /\ task[u] \in Passed
      BY <2>1, <2>3 DEF Critical, Passed
    <3> QED BY <2>1, <2>3, <3>1 DEF Turns
  <2>4. ASSUME NEW v \in Tasks \ {t}, NEW u \in Tasks \ {t}, v[1] = u[1]
        PROVE  /\ task'[v] \in Passed /\ task'[u] = "sem" => v[2] < u[2]
               /\ task'[v] \in Critical /\ task'[u] = "lock" /\ Key(v) = Key(u) => v[2] < u[2]
    BY <2>1, <2>4 DEF Turns
  <2>5. task'[t] \notin Critical /\ task'[t] # "sem"
    BY <2>1 DEF Critical
  <2> QED BY <2>2, <2>3, <2>4, <2>5 DEF Turns, Key, SignalOf
<1>5. ASSUME NEW t \in Tasks, AcquireLock(t) PROVE Turns'
  <2>1. /\ task[t] = "lock" /\ task'[t] \in Critical
        /\ \A u \in Tasks \ {t} : task'[u] = task[u]
        /\ \A u \in Tasks : Key(u) = Key(t) /\ task[u] = "lock" => ~Before(u, t)
    BY <1>0, <1>5 DEF AcquireLock, MayLock, Critical
  <2>2. task'[t] \notin {"sem", "lock"}
    BY <2>1 DEF Critical
  <2>3. ASSUME NEW u \in Tasks, task'[u] = "sem", t[1] = u[1] PROVE t[2] < u[2]
    <3>1. task[u] = "sem" /\ task[t] \in Passed
      BY <2>1, <2>2, <2>3 DEF Passed
    <3> QED BY <2>3, <3>1 DEF Turns
  <2>4. ASSUME NEW u \in Tasks, task'[u] = "lock", t[1] = u[1], Key(t) = Key(u) PROVE t[2] < u[2]
    <3>1. u # t /\ task[u] = "lock" /\ ~Before(u, t)
      BY <2>1, <2>2, <2>4
    <3> QED BY <2>4, <3>1, NotBefore
  <2>5. ASSUME NEW v \in Tasks \ {t}, NEW u \in Tasks \ {t}, v[1] = u[1]
        PROVE  /\ task'[v] \in Passed /\ task'[u] = "sem" => v[2] < u[2]
               /\ task'[v] \in Critical /\ task'[u] = "lock" /\ Key(v) = Key(u) => v[2] < u[2]
    BY <2>1, <2>5 DEF Turns
  <2> QED BY <2>2, <2>3, <2>4, <2>5 DEF Turns, Key, SignalOf
<1>6. ASSUME NEW t \in Tasks, Others(t), task[t] \in Critical, task'[t] \notin {"sem", "lock"}
      PROVE  Turns'
  BY <1>6, TurnsKept DEF Others
<1>7. ASSUME NEW t \in Tasks, Works(t) \/ Marks(t) \/ MarkFault(t) PROVE Turns'
  <2>1. CASE Works(t)
    BY <1>6, <2>1, WorksMoves DEF Critical
  <2>2. CASE Marks(t)
    BY <1>6, <2>2, MarksMoves DEF Critical
  <2>3. CASE MarkFault(t)
    BY <1>6, <2>3, MarkFaultMoves DEF Critical
  <2> QED BY <1>7, <2>1, <2>2, <2>3
<1> QED BY <1>1, <1>2, <1>3, <1>4, <1>5, <1>7, Moves DEF Next, Acquires

Resolved(s) == status[s] \in {"SENT", "FAILED"}

\* Signals are stored in their order.
StoredInOrder == \A s, r \in Signals : r < s /\ status[s] # "ABSENT" => status[r] # "ABSENT"

\* Only the current sweep has coroutines, on pending signals, and it has one on
\* every older signal that is not resolved.
OneSweep ==
    \A t \in Tasks : task[t] # "off" =>
        /\ loop = "gather" /\ t[1] = sweep /\ status[t[2]] = "PENDING" /\ task[t] # "raised"
        /\ \A s \in Signals : s < t[2] => Resolved(s) \/ task[<<sweep, s>>] # "off"

\* Whoever holds the vault, and whoever has called it, is the oldest.
OldestFirst ==
    /\ \A t \in Tasks, s \in Signals :
          task[t] \in Critical /\ s < t[2] /\ VaultOf[s] = Key(t) => Resolved(s)
    /\ \A s, r \in Signals, i \in 1..MaxSteps :
          s < r /\ VaultOf[s] = VaultOf[r] /\ applied[r][i] > 0 => Resolved(s)

InOrder == faults = 0 => OneSweep /\ OldestFirst

LEMMA StoredStep == Inv /\ SweepsInOrder /\ StoredInOrder /\ [Next]_vars => StoredInOrder'
<1> SUFFICES ASSUME Inv, SweepsInOrder, StoredInOrder, [Next]_vars PROVE StoredInOrder'
  OBVIOUS
<1>1. ASSUME \A s \in Signals : status'[s] = "ABSENT" <=> status[s] = "ABSENT"
      PROVE  StoredInOrder'
  BY <1>1 DEF StoredInOrder
<1>2. ASSUME NEW s \in Signals, StoreSignal(s) PROVE StoredInOrder'
  <2>1. /\ \A r \in 1..(s - 1) : status[r] # "ABSENT"
        /\ status'[s] = "PENDING" /\ \A r \in Signals \ {s} : status'[r] = status[r]
    BY <1>2 DEF StoreSignal, Inv, Typed, TypeOK
  <2>2. \A r \in Signals : r < s => status[r] # "ABSENT"
    BY <2>1, ConstantsAssumption DEF Signals
  <2> QED BY <2>1, <2>2 DEF StoredInOrder
<1>3. ASSUME NEW t \in Tasks, TaskStep(t) \/ TaskFault(t) PROVE StoredInOrder'
  <2>1. CASE Marks(t) \/ MarkFault(t)
    <3>0. task[t] # "off"
      BY <2>1, MarksMoves, MarkFaultMoves
    <3>1. status[t[2]] # "ABSENT"
      BY <3>0, TaskParts DEF Inv, TaskOK
    <3>2. /\ status'[t[2]] \in {status[t[2]], "SENT", "FAILED"}
          /\ \A s \in Signals \ {t[2]} : status'[s] = status[s]
      BY <2>1, MarksMoves, MarkFaultMoves
    <3> QED BY <1>1, <3>1, <3>2
  <2>2. CASE ~(Marks(t) \/ MarkFault(t))
    <3>1. status' = status
      BY <1>3, <2>2, Moves, AcquiresMoves, WorksMoves
    <3> QED BY <1>1, <3>1
  <2> QED BY <2>1, <2>2
<1>4. ASSUME UNCHANGED status PROVE StoredInOrder'
  BY <1>1, <1>4
<1>5. CASE LoopStep \/ PollTimeout \/ SweepFault \/ Crash \/ UNCHANGED vars
          \/ \E s \in Signals : Wake(s)
  BY <1>4, <1>5 DEF LoopStep, StartSweep, IdleSweep, EndSweep, SweepRaised, Woken, PollTimeout,
                    StopWaiting, SweepFault, Crash, Wake, vars, documents
<1> QED BY <1>2, <1>3, <1>5 DEF Next

\* A sweep lists every pending signal older than one it lists.
LEMMA OlderIsListed ==
  ASSUME NEW s \in Signals, NEW r \in ListPending, s < r, status[s] = "PENDING"
  PROVE  s \in ListPending
<1>1. Signals \subseteq Nat /\ IsFiniteSet(Signals) /\ r \in Signals
  BY ConstantsAssumption, FS_Interval DEF Signals, ListPending, Pending
<1> DEFINE olderS == {q \in Pending : q < s}
           olderR == {q \in Pending : q < r}
<1>2. olderR \subseteq Signals /\ olderS \subseteq olderR
  <2>1. ASSUME NEW q \in Pending, q < s PROVE q \in Signals /\ q < r
    <3>1. q \in Nat /\ s \in Nat /\ r \in Nat /\ q \in Signals
      BY <1>1 DEF Pending
    <3> QED BY <2>1, <3>1
  <2> QED BY <2>1 DEF Pending
<1>3. IsFiniteSet(olderR) /\ IsFiniteSet(olderS)
  BY <1>1, <1>2, FS_Subset
<1>4. Cardinality(olderS) <= Cardinality(olderR)
      /\ Cardinality(olderS) \in Nat /\ Cardinality(olderR) \in Nat
  BY <1>2, <1>3, FS_Subset, FS_CardinalityType
<1>5. Cardinality(olderR) < SweepLimit /\ SweepLimit \in Nat
  BY ConstantsAssumption DEF ListPending
<1>6. Cardinality(olderS) < SweepLimit
  <2> HIDE DEF olderS, olderR
  <2> QED BY <1>4, <1>5
<1> QED BY <1>6 DEF ListPending, Pending

\* Nothing is carried out and nobody takes a lock.
LEMMA OldestStill ==
  ASSUME OldestFirst, applied' = applied, \A s \in Signals : Resolved(s) => Resolved(s)',
         \A t \in Tasks : task'[t] \in Critical => task[t] \in Critical
  PROVE  OldestFirst'
  BY TaskParts DEF OldestFirst, Key, SignalOf

LEMMA InOrderTask ==
  ASSUME Inv, SweepsInOrder, Turns, OneSweep, OldestFirst, faults' = faults,
         NEW t \in Tasks, TaskStep(t) \/ TaskFault(t)
  PROVE  OneSweep' /\ OldestFirst'
<1>0. faults \in Nat
  BY InvCounts DEF Counted
<1>1. CASE Acquires(t) \/ Works(t)
  <2>1. /\ Others(t) /\ UNCHANGED <<status, loop, sweep>> /\ task[t] # "off"
        /\ task'[t] \notin {"off", "raised"}
    BY <1>1, AcquiresMoves, WorksMoves
  <2>2. \A s \in Signals : <<sweep, s>> \in Tasks /\ (task'[<<sweep, s>>] = "off" <=> task[<<sweep, s>>] = "off")
    <3>1. t[1] = sweep
      BY <2>1 DEF OneSweep
    <3>2. \A s \in Signals : <<sweep, s>> \in Tasks
      BY <3>1, TaskParts
    <3> QED BY <2>1, <3>2 DEF Others
  <2>3. OneSweep'
    BY <2>1, <2>2, TaskParts DEF OneSweep, Others, Resolved
  <2>4. ASSUME NEW s \in Signals, s < t[2], VaultOf[s] = Key(t), task'[t] \in Critical
        PROVE  Resolved(s)
    <3>1. CASE task[t] \in Critical
      BY <2>4, <3>1 DEF OldestFirst
    <3>2. CASE task[t] \notin Critical
      <4>1. AcquireLock(t)
        BY <1>1, <2>4, <3>2, AcquiresMoves, WorksMoves
           DEF Acquires, AcquireSemaphore, Critical
      <4>2. SUFFICES ASSUME ~Resolved(s) PROVE FALSE
        OBVIOUS
      <4>3. PICK u \in Tasks : u = <<sweep, s>>
        BY <2>2
      <4>4. u[1] = t[1] /\ u[2] = s /\ task[u] # "off" /\ task[u] # "raised" /\ task[t] = "lock"
        BY <2>1, <2>4, <4>1, <4>2, <4>3 DEF OneSweep, AcquireLock
      <4>5. Key(u) = Key(t)
        BY <2>4, <4>4 DEF Key, SignalOf
      <4>6. task[u] \notin Critical /\ (task[u] = "lock" => ~Before(u, t))
        BY <4>1, <4>5 DEF AcquireLock, MayLock
      <4>7. s \in Nat /\ t[2] \in Nat /\ t[1] \in Nat
        BY TaskParts, ConstantsAssumption DEF Signals
      <4>8. Before(u, t)
        BY <2>4, <4>4, <4>7 DEF Before
      <4>9. task[u] = "sem"
        BY <4>4, <4>6, <4>8 DEF Inv, Typed, TypeOK, Stages, Waiting
      <4>10. t[2] < s
        BY <4>4, <4>9 DEF Turns, Passed
      <4> QED BY <2>4, <4>7, <4>10
    <3> QED BY <3>1, <3>2
  <2>5. \A u \in Tasks, s \in Signals :
           task'[u] \in Critical /\ s < u[2] /\ VaultOf[s] = Key(u) => Resolved(s)
    BY <2>1, <2>4 DEF OldestFirst, Others
  <2>6. ASSUME NEW r \in Signals, NEW i \in 1..MaxSteps, applied'[r][i] > 0
        PROVE  applied[r][i] > 0 \/ (task[t] \in Critical /\ r = t[2])
    <3>1. CASE applied' = applied
      BY <2>6, <3>1
    <3>2. CASE applied' = Carried({t}) /\ Works(t)
      <4>1. task[t] \in Critical
        BY <3>2, WorksMoves DEF Critical
      <4> QED BY <2>6, <3>2, <4>1, CarriedOne
    <3> QED BY <1>1, <3>1, <3>2, AcquiresMoves
            DEF Works, PassStep, SkipSmall, StepOk, UnknownStep, StepRefused, StepLost, vaults
  <2>7. \A s, r \in Signals, i \in 1..MaxSteps :
           s < r /\ VaultOf[s] = VaultOf[r] /\ applied'[r][i] > 0 => Resolved(s)
    BY <2>6, TaskParts DEF OldestFirst, Key
  <2>8. \A s \in Signals : Resolved(s)' = Resolved(s)
    BY <2>1 DEF Resolved
  <2> QED BY <2>3, <2>5, <2>7, <2>8 DEF OldestFirst, Key, SignalOf
<1>2. CASE Marks(t)
  <2>1. /\ Others(t) /\ UNCHANGED <<applied, loop, sweep>> /\ task[t] # "off" /\ task'[t] = "off"
        /\ status'[t[2]] \in {"SENT", "FAILED"} /\ \A s \in Signals \ {t[2]} : status'[s] = status[s]
    BY <1>2, MarksMoves
  <2>2. \A s \in Signals : Resolved(s) => Resolved(s)'
    BY <2>1 DEF Resolved
  <2>3. OldestFirst'
    BY <2>1, <2>2, OldestStill DEF Others, Critical
  <2>4. ASSUME NEW u \in Tasks, task'[u] # "off"
        PROVE  /\ loop' = "gather" /\ u[1] = sweep' /\ status'[u[2]] = "PENDING" /\ task'[u] # "raised"
               /\ \A s \in Signals : s < u[2] => Resolved(s)' \/ task'[<<sweep', s>>] # "off"
    <3>1. u # t /\ task'[u] = task[u] /\ t[1] = sweep /\ u[1] = sweep
      BY <2>1, <2>4 DEF Others, OneSweep
    <3>2. u[2] # t[2] /\ u[2] \in Signals
      BY <3>1, TaskParts
    <3>3. loop = "gather" /\ status[u[2]] = "PENDING" /\ task[u] # "raised"
      BY <2>4, <3>1 DEF OneSweep
    <3>4. ASSUME NEW s \in Signals, s < u[2] PROVE Resolved(s)' \/ task'[<<sweep, s>>] # "off"
      <4>1. CASE s = t[2]
        BY <2>1, <4>1 DEF Resolved
      <4>2. CASE s # t[2]
        <5>1. <<sweep, s>> \in Tasks /\ <<sweep, s>> # t
          BY <3>1, <4>2, TaskParts
        <5> QED BY <2>1, <2>2, <2>4, <3>1, <3>4, <5>1 DEF OneSweep, Others
      <4> QED BY <4>1, <4>2
    <3> QED BY <2>1, <3>1, <3>2, <3>3, <3>4
  <2> QED BY <2>3, <2>4 DEF OneSweep
<1>3. CASE MarkFault(t)
  BY <1>0, <1>3, MarkFaultMoves
<1> QED BY <1>1, <1>2, <1>3, Moves

LEMMA InOrderSweep ==
  ASSUME Inv, SweepsInOrder, StoredInOrder, OneSweep, OldestFirst, StartSweep
  PROVE  OneSweep' /\ OldestFirst'
<1>1. /\ UNCHANGED <<applied, status>> /\ loop # "gather" /\ loop' = "gather"
      /\ \A s \in Signals : <<sweep', s>> \in Tasks
      /\ \A t \in Tasks : task'[t] = IF t[1] = sweep' /\ t[2] \in ListPending THEN "sem" ELSE task[t]
  BY SweepStarts DEF StartSweep, documents, vaults
<1>2. \A t \in Tasks : task[t] = "off"
  BY <1>1 DEF OneSweep
<1>3. OldestFirst'
  BY <1>1, OldestStill DEF Critical, Resolved
<1>4. ASSUME NEW t \in Tasks, task'[t] # "off"
      PROVE  /\ t[1] = sweep' /\ status'[t[2]] = "PENDING" /\ task'[t] # "raised"
             /\ \A s \in Signals : s < t[2] => Resolved(s)' \/ task'[<<sweep', s>>] # "off"
  <2>1. t[1] = sweep' /\ t[2] \in ListPending /\ task'[t] = "sem"
    BY <1>1, <1>2, <1>4
  <2>2. status[t[2]] = "PENDING" /\ t[2] \in Signals
    BY <2>1 DEF ListPending, Pending
  <2>3. ASSUME NEW s \in Signals, s < t[2], ~Resolved(s)' PROVE task'[<<sweep', s>>] # "off"
    <3>1. status[s] = "PENDING"
      BY <1>1, <2>2, <2>3 DEF StoredInOrder, Resolved, Inv, Typed, TypeOK
    <3>2. s \in ListPending
      BY <2>1, <2>3, <3>1, OlderIsListed
    <3> QED BY <1>1, <3>2, TaskParts
  <2> QED BY <1>1, <2>1, <2>2, <2>3
<1> QED BY <1>1, <1>3, <1>4 DEF OneSweep

LEMMA InOrderStep ==
  Inv /\ Inv' /\ SweepsInOrder /\ StoredInOrder /\ Turns /\ InOrder /\ [Next]_vars => InOrder'
<1> SUFFICES ASSUME Inv, Inv', SweepsInOrder, StoredInOrder, Turns, InOrder, [Next]_vars, faults' = 0
             PROVE  OneSweep' /\ OldestFirst'
  BY DEF InOrder
<1>0. faults = 0 /\ faults' = faults /\ OneSweep /\ OldestFirst
  <2>1. faults \in Nat /\ (faults' = faults \/ faults' = faults + 1)
    <3>1. faults \in Nat
      BY InvCounts DEF Counted
    <3>2. CASE Crash
      BY <3>1, <3>2 DEF Crash, Fault
    <3>3. ASSUME NEW t \in Tasks, TaskStep(t) \/ TaskFault(t) PROVE faults' = faults \/ faults' = faults + 1
      BY <3>3, Moves, AcquiresMoves, WorksMoves, MarksMoves, MarkFaultMoves
    <3>4. CASE \/ \E s \in Signals : StoreSignal(s) \/ Wake(s)
               \/ LoopStep \/ PollTimeout \/ SweepFault \/ UNCHANGED vars
      BY <3>1, <3>4, LoopMoves
    <3> QED BY <3>1, <3>2, <3>3, <3>4 DEF Next
  <2> QED BY <2>1 DEF InOrder
<1>1. CASE ~StartSweep /\ (\/ \E s \in Signals : StoreSignal(s) \/ Wake(s)
                           \/ LoopStep \/ PollTimeout \/ SweepFault \/ UNCHANGED vars)
  <2>1. /\ UNCHANGED <<applied, sweep>> /\ \A t \in Tasks : task'[t] = task[t] \/ task'[t] = "off"
        /\ \A s \in Signals : status'[s] = status[s] \/ (status[s] = "ABSENT" /\ status'[s] = "PENDING")
        /\ loop = "gather" /\ loop' # "gather" =>
              \/ \A s \in Signals : task[<<sweep, s>>] = "off"
              \/ \E s \in Signals : task[<<sweep, s>>] = "raised"
        /\ loop = "gather" /\ loop' = "gather" => task' = task
    BY <1>1, LoopMoves
  <2>2. \A s \in Signals : Resolved(s) => Resolved(s)'
    BY <2>1 DEF Resolved
  <2>3. OldestFirst'
    BY <1>0, <2>1, <2>2, OldestStill DEF Critical
  <2>4. ASSUME NEW t \in Tasks, task'[t] # "off" PROVE loop = "gather" /\ loop' = "gather" /\ task' = task
    <3>1. task'[t] = task[t] /\ loop = "gather" /\ t[1] = sweep /\ t[2] \in Signals /\ t = <<sweep, t[2]>>
      BY <1>0, <2>1, <2>4, TaskParts DEF OneSweep
    <3>2. ~(\A s \in Signals : task[<<sweep, s>>] = "off")
      BY <2>4, <3>1
    <3>3. ~(\E s \in Signals : task[<<sweep, s>>] = "raised")
      BY <1>0, <3>1, TaskParts DEF OneSweep
    <3> QED BY <2>1, <3>1, <3>2, <3>3
  <2>5. OneSweep'
    <3> SUFFICES ASSUME NEW t \in Tasks, task'[t] # "off"
                 PROVE  /\ loop' = "gather" /\ t[1] = sweep' /\ status'[t[2]] = "PENDING"
                        /\ task'[t] # "raised"
                        /\ \A s \in Signals : s < t[2] => Resolved(s)' \/ task'[<<sweep', s>>] # "off"
      BY DEF OneSweep
    <3> QED BY <1>0, <2>1, <2>2, <2>4, TaskParts DEF OneSweep
  <2> QED BY <2>3, <2>5
<1>2. CASE StartSweep
  BY <1>0, <1>2, InOrderSweep
<1>3. ASSUME NEW t \in Tasks, TaskStep(t) \/ TaskFault(t) PROVE OneSweep' /\ OldestFirst'
  BY <1>0, <1>3, InOrderTask
<1>4. CASE Crash
  BY <1>0, <1>4 DEF Crash, Fault
<1> QED BY <1>1, <1>2, <1>3, <1>4 DEF Next, LoopStep

LEMMA OrderIsKept == Spec => [](SweepsInOrder /\ StoredInOrder /\ Turns /\ InOrder)
<1>1. Init => StoredInOrder /\ Turns /\ InOrder
  BY DEF Init, StoredInOrder, Turns, InOrder, OneSweep, OldestFirst, Passed, Critical
<1> QED
  BY <1>1, StoredStep, TurnsStep, InOrderStep, CallsAreAfforded, Invariance, PTL DEF Spec

\* Without a fault a vault is never moved to an older range: when a signal is
\* carried out no younger signal of its vault has been.
THEOREM VaultNeverMovesBack == Spec => VaultMovesForward
<1>1. Inv /\ Inv' /\ SweepsInOrder /\ InOrder /\ [Next]_vars =>
        [\A s \in Signals : applied'[s] # applied[s] /\ faults' = 0 =>
            \A r \in Signals : r > s /\ VaultOf[r] = VaultOf[s] =>
                \A i \in 1..MaxSteps : applied[r][i] = 0]_vars
  <2> SUFFICES ASSUME Inv, Inv', SweepsInOrder, InOrder, [Next]_vars,
                      NEW s \in Signals, applied'[s] # applied[s], faults' = 0,
                      NEW r \in Signals, r > s, VaultOf[r] = VaultOf[s],
                      NEW i \in 1..MaxSteps
               PROVE  applied[r][i] = 0
    OBVIOUS
  <2>1. faults \in Nat /\ applied[r][i] \in Nat /\ r \in Nat /\ s \in Nat
    <3>1. faults \in Nat /\ applied[r][i] \in Nat
      BY InvCounts DEF Counted
    <3>2. Signals \subseteq Nat
      BY ConstantsAssumption DEF Signals
    <3> QED BY <3>1, <3>2
  <2>2. PICK t \in Tasks : Works(t) /\ applied' = Carried({t})
    <3>1. ASSUME NEW t \in Tasks, TaskStep(t) \/ TaskFault(t)
          PROVE  Works(t) /\ applied' = Carried({t})
      <4>1. Works(t)
        BY <3>1, Moves, AcquiresMoves, MarksMoves, MarkFaultMoves
      <4> QED BY <4>1 DEF Works, PassStep, SkipSmall, StepOk, UnknownStep, StepRefused, StepLost, vaults
    <3>2. ~Crash
      BY <2>1 DEF Crash, Fault
    <3>3. \/ \E q \in Signals : StoreSignal(q) \/ Wake(q)
          \/ LoopStep \/ PollTimeout \/ SweepFault \/ UNCHANGED vars
          => applied' = applied
      BY LoopMoves
    <3> QED BY <3>1, <3>2, <3>3 DEF Next
  <2>3. s = t[2]
    <3>1. SUFFICES ASSUME s # t[2] PROVE applied'[s] = applied[s]
      OBVIOUS
    <3>2. \A j \in 1..MaxSteps : applied'[s][j] = applied[s][j]
      BY <2>2, <3>1, CarriedOne
    <3>3. applied'[s] \in [1..MaxSteps -> Nat] /\ applied[s] \in [1..MaxSteps -> Nat]
      BY DEF Inv, Typed, TypeOK
    <3>4. /\ applied'[s] = [j \in 1..MaxSteps |-> applied'[s][j]]
          /\ applied[s] = [j \in 1..MaxSteps |-> applied[s][j]]
      BY <3>3
    <3> QED BY <3>2, <3>4
  <2>4. task[t] = "run" /\ faults = 0
    <3>1. task[t] = "run" /\ faults' \in {faults, faults + 1}
      BY <2>2, WorksMoves
    <3> QED BY <2>1, <3>1
  <2>5. status[s] = "PENDING"
    BY <2>3, <2>4 DEF InOrder, OneSweep
  <2>6. ASSUME applied[r][i] > 0 PROVE FALSE
    BY <2>1, <2>4, <2>5, <2>6 DEF InOrder, OldestFirst, Resolved
  <2> QED BY <2>1, <2>6
<1> QED BY <1>1, OrderIsKept, Invariance, PTL DEF Spec, VaultMovesForward

=============================================================================
