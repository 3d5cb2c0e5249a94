------------------- MODULE StrategyAdministration_proofs -------------------
(***************************************************************************)
(* For any number of strategies, streams, requests that run at once, and   *)
(* failed calls: the cache of trade strategies is stale for a reason only, *)
(* and no request undoes another's change unless it wrote from an older    *)
(* copy.                                                                   *)
(***************************************************************************)
EXTENDS StrategyAdministration, TLAPS

-----------------------------------------------------------------------------
(* Trade strategies: types. *)

\* What a cache entry or a task's list can be.
Lists == SUBSET (Strategies \X Documents)

\* What a task holds, wherever it is.
Runs == [pc : {"idle", "write", "stored", "list", "set"},
         s : Strategies \cup {None}, seen : Documents \cup {None},
         asked : Changes \cup Statuses \cup {None},
         k : Streams \cup {None}, then : Streams \cup {None},
         list : Lists]

Typed ==
    /\ docs \in [Strategies -> Documents \cup {None}]
    /\ last \in [Strategies -> Documents \cup {None}]
    /\ \A s \in Strategies : docs[s] # None => last[s] # None
    /\ cache \in [Streams -> Lists \cup {None}]
    /\ run \in [Tasks -> Runs]
    /\ requests \in 0..MaxRequests /\ faults \in 0..MaxFaults
    /\ raced \in BOOLEAN /\ overtaken \in BOOLEAN

\* What the steps of a task count on.
Ready(t) ==
    /\ run[t].pc \in {"write", "stored"} =>
           t \in Callers /\ run[t].s \in Strategies /\ docs[run[t].s] # None
    /\ run[t].pc = "write" => run[t].seen \in Documents /\ run[t].asked \in Changes
    /\ run[t].pc \in {"list", "set"} => run[t].k \in Streams

TradeInv == Typed /\ \A t \in Tasks : Ready(t)

\* The list of a task that has read none.
LEMMA EmptyType == {} \in Lists
  BY DEF Lists

\* A request's record, whatever it holds.
LEMMA AskingType ==
  ASSUME NEW pc \in {"write", "stored"}, NEW s \in Strategies, NEW seen \in Documents \cup {None},
         NEW asked \in Changes \cup Statuses \cup {None}
  PROVE  /\ Asking(pc, s, seen, asked) \in Runs
         /\ Asking(pc, s, seen, asked).pc = pc /\ Asking(pc, s, seen, asked).s = s
         /\ Asking(pc, s, seen, asked).seen = seen /\ Asking(pc, s, seen, asked).asked = asked
  BY EmptyType DEF Asking, Runs

\* A refresh's record, whatever it holds.
LEMMA CachingType ==
  ASSUME NEW pc \in {"idle", "list", "set"}, NEW k \in Streams \cup {None},
         NEW then \in Streams \cup {None}, NEW list \in Lists
  PROVE  /\ Caching(pc, k, then, list) \in Runs
         /\ Caching(pc, k, then, list).pc = pc /\ Caching(pc, k, then, list).k = k
         /\ Caching(pc, k, then, list).then = then /\ Caching(pc, k, then, list).list = list
  BY DEF Caching, Runs

\* A task that does nothing.
LEMMA IdleType == Idle \in Runs /\ Idle.pc = "idle"
  BY EmptyType, CachingType DEF Idle

\* A payload over a document is a document.
LEMMA MergedType ==
  ASSUME NEW d \in Documents, NEW c \in Changes PROVE Merged(d, c) \in Documents
  BY CacheAssumption DEF Merged, Documents, Payloads, Fields

\* The active strategies of a stream, with their documents.
LEMMA ActiveType ==
  ASSUME Typed, NEW k PROVE Active(k) \in Lists
  BY DEF Typed, Active, Lists

\* A strategy that has a document has one of its fields.
LEMMA StoredType ==
  ASSUME Typed, NEW s \in Strategies, docs[s] # None
  PROVE  docs[s] \in Documents /\ docs[s].stream \in Streams
  BY DEF Typed, Documents

\* A task moves and the documents that tasks count on remain.
LEMMA TaskMoves ==
  ASSUME TradeInv, NEW t \in Tasks, NEW new \in Runs, run' = [run EXCEPT ![t] = new],
         \A s \in Strategies : docs[s] # None => docs'[s] # None,
         new.pc \in {"write", "stored"} =>
             t \in Callers /\ new.s \in Strategies /\ docs'[new.s] # None,
         new.pc = "write" => new.seen \in Documents /\ new.asked \in Changes,
         new.pc \in {"list", "set"} => new.k \in Streams
  PROVE  run' \in [Tasks -> Runs] /\ \A u \in Tasks : Ready(u)'
<1>1. run' \in [Tasks -> Runs]
  BY DEF TradeInv, Typed
<1>2. ASSUME NEW u \in Tasks PROVE Ready(u)'
  <2>1. CASE u = t
    BY <2>1 DEF TradeInv, Typed, Ready
  <2>2. CASE u # t
    BY <2>2 DEF TradeInv, Typed, Ready
  <2> QED BY <2>1, <2>2
<1> QED BY <1>1, <1>2

\* Every step keeps the types and what the steps of the tasks count on.
LEMMA TradeStep == ASSUME TradeInv, Next PROVE TradeInv'
<1>1. ASSUME NEW r \in Callers, NEW s \in Strategies, NEW d \in Documents, CreateStrategy(r, s, d)
      PROVE  TradeInv'
  <2>1. r \in Tasks /\ d # None
    BY CacheAssumption DEF Tasks
  <2>2. run' \in [Tasks -> Runs] /\ \A u \in Tasks : Ready(u)'
    <3>1. \A x \in Strategies : docs[x] # None => docs'[x] # None
      BY <1>1, <2>1 DEF CreateStrategy, TradeInv, Typed
    <3>2. docs'[s] # None
      BY <1>1, <2>1 DEF CreateStrategy, TradeInv, Typed
    <3>3. run' = [run EXCEPT ![r] = Asking("stored", s, None, None)]
      BY <1>1 DEF CreateStrategy
    <3>4. /\ Asking("stored", s, None, None) \in Runs
          /\ Asking("stored", s, None, None).pc = "stored"
          /\ Asking("stored", s, None, None).s = s
      BY AskingType
    <3> QED BY <2>1, <3>1, <3>2, <3>3, <3>4, TaskMoves
  <2>3. Typed'
    BY <1>1, <2>2, CacheAssumption DEF CreateStrategy, Called, TradeInv, Typed
  <2> QED BY <2>2, <2>3 DEF TradeInv
<1>2. ASSUME NEW r \in Callers, NEW s \in Strategies, NEW c \in Changes, ReadStrategy(r, s, c)
      PROVE  TradeInv'
  <2>1. r \in Tasks /\ docs[s] \in Documents /\ docs[s] # None
    BY <1>2, StoredType DEF Tasks, ReadStrategy, TradeInv
  <2>2. run' \in [Tasks -> Runs] /\ \A u \in Tasks : Ready(u)'
    <3>1. run' = [run EXCEPT ![r] = Asking("write", s, docs[s], c)] /\ docs' = docs
      BY <1>2 DEF ReadStrategy
    <3>2. /\ Asking("write", s, docs[s], c) \in Runs
          /\ Asking("write", s, docs[s], c).pc = "write"
          /\ Asking("write", s, docs[s], c).s = s
          /\ Asking("write", s, docs[s], c).seen = docs[s]
          /\ Asking("write", s, docs[s], c).asked = c
      BY <2>1, AskingType
    <3> QED BY <2>1, <3>1, <3>2, TaskMoves
  <2>3. Typed'
    BY <1>2, <2>2, CacheAssumption DEF ReadStrategy, Called, TradeInv, Typed
  <2> QED BY <2>2, <2>3 DEF TradeInv
<1>3. ASSUME NEW r \in Callers, NEW s \in Strategies, NEW x \in Statuses, SetStatus(r, s, x)
      PROVE  TradeInv'
  <2>1. r \in Tasks
    BY DEF Tasks
  <2>2. run' \in [Tasks -> Runs] /\ \A u \in Tasks : Ready(u)'
    <3>1. run' = [run EXCEPT ![r] = Asking("stored", s, None, x)] /\ docs' = docs /\ docs[s] # None
      BY <1>3 DEF SetStatus
    <3>2. /\ Asking("stored", s, None, x) \in Runs
          /\ Asking("stored", s, None, x).pc = "stored"
          /\ Asking("stored", s, None, x).s = s
      BY AskingType
    <3> QED BY <2>1, <3>1, <3>2, TaskMoves
  <2>3. Typed'
    BY <1>3, <2>2, CacheAssumption DEF SetStatus, Called, TradeInv, Typed
  <2> QED BY <2>2, <2>3 DEF TradeInv
<1>4. ASSUME NEW p \in Processors, NEW k \in Streams, MissCache(p, k) PROVE TradeInv'
  <2>1. p \in Tasks
    BY DEF Tasks
  <2>2. run' \in [Tasks -> Runs] /\ \A u \in Tasks : Ready(u)'
    <3>1. run' = [run EXCEPT ![p] = Caching("list", k, None, {})] /\ docs' = docs
      BY <1>4 DEF MissCache, Reading
    <3>2. /\ Caching("list", k, None, {}) \in Runs
          /\ Caching("list", k, None, {}).pc = "list"
          /\ Caching("list", k, None, {}).k = k
      BY EmptyType, CachingType
    <3> QED BY <2>1, <3>1, <3>2, TaskMoves
  <2>3. Typed'
    BY <1>4, <2>2 DEF MissCache, Reading, TradeInv, Typed
  <2> QED BY <2>2, <2>3 DEF TradeInv
<1>5. ASSUME NEW r \in Tasks, UpdateStrategy(r) PROVE TradeInv'
  <2> DEFINE s == run[r].s
             seen == run[r].seen
             asked == run[r].asked
             d == Merged(seen, asked)
  <2>1. /\ s \in Strategies /\ docs[s] # None /\ seen \in Documents /\ asked \in Changes
        /\ r \in Callers
    BY <1>5 DEF UpdateStrategy, At, TradeInv, Ready
  <2>2. d \in Documents /\ d # None
    BY <2>1, MergedType, CacheAssumption
  <2>3. /\ docs' = [docs EXCEPT ![s] = d]
        /\ last' = [last EXCEPT ![s] = [f \in Fields |-> IF asked[f] = None THEN last[s][f]
                                                         ELSE asked[f]]]
        /\ raced' = (raced \/ docs[s] # seen)
        /\ overtaken' = (overtaken \/ Overtakes({docs[s].stream, d.stream}))
        /\ run' = [run EXCEPT ![r] = Asking("stored", s, seen, asked)]
        /\ UNCHANGED <<cache, requests, faults>>
    BY <1>5 DEF UpdateStrategy, TradeInv, Typed
  <2> HIDE DEF s, seen, asked, d
  <2>4. run' \in [Tasks -> Runs] /\ \A u \in Tasks : Ready(u)'
    <3>1. /\ Asking("stored", s, seen, asked) \in Runs
          /\ Asking("stored", s, seen, asked).pc = "stored"
          /\ Asking("stored", s, seen, asked).s = s
      BY <2>1, AskingType
    <3>2. docs'[s] # None /\ \A x \in Strategies : docs[x] # None => docs'[x] # None
      BY <2>1, <2>2, <2>3 DEF TradeInv, Typed
    <3> QED BY <2>1, <2>3, <3>1, <3>2, TaskMoves
  <2>5. /\ last' \in [Strategies -> Documents \cup {None}]
        /\ \A x \in Strategies : docs'[x] # None => last'[x] # None
    <3>1. last[s] \in Documents
      BY <2>1 DEF TradeInv, Typed
    <3>2. Merged(last[s], asked) \in Documents /\ Merged(last[s], asked) # None
      BY <2>1, <3>1, MergedType, CacheAssumption
    <3>3. last' = [last EXCEPT ![s] = Merged(last[s], asked)]
      BY <2>3 DEF Merged
    <3> QED BY <2>1, <2>2, <2>3, <3>2, <3>3 DEF TradeInv, Typed
  <2>6. Typed'
    BY <2>1, <2>2, <2>3, <2>4, <2>5 DEF TradeInv, Typed, Overtakes
  <2> QED BY <2>4, <2>6 DEF TradeInv
<1>6. ASSUME NEW r \in Tasks, ReadStored(r) PROVE TradeInv'
  <2> DEFINE own == docs[run[r].s].stream
             old == IF run[r].seen = None THEN own ELSE run[r].seen.stream
             then == IF own = old THEN None ELSE own
  <2>1. own \in Streams /\ old \in Streams
    BY <1>6, StoredType DEF ReadStored, At, TradeInv, Typed, Ready, Runs, Documents
  <2>2. run' = [run EXCEPT ![r] = Caching("list", old, then, {})]
        /\ UNCHANGED <<docs, cache, requests, faults, last, raced, overtaken>>
    BY <1>6 DEF ReadStored, Reading
  <2> HIDE DEF own, old
  <2>3. run' \in [Tasks -> Runs] /\ \A u \in Tasks : Ready(u)'
    <3>1. /\ Caching("list", old, then, {}) \in Runs
          /\ Caching("list", old, then, {}).pc = "list"
          /\ Caching("list", old, then, {}).k = old
      BY <2>1, EmptyType, CachingType
    <3> QED BY <2>1, <2>2, <3>1, TaskMoves
  <2> QED BY <2>2, <2>3 DEF TradeInv, Typed
<1>7. ASSUME NEW t \in Tasks, ListActive(t) PROVE TradeInv'
  <2> DEFINE k == run[t].k
             then == run[t].then
  <2>1. k \in Streams /\ then \in Streams \cup {None}
    BY <1>7 DEF ListActive, At, TradeInv, Typed, Ready, Runs
  <2>2. Active(k) \in Lists
    BY ActiveType DEF TradeInv
  <2>3. run' = [run EXCEPT ![t] = Caching("set", k, then, Active(k))]
        /\ UNCHANGED <<docs, cache, requests, faults, last, raced, overtaken>>
    BY <1>7 DEF ListActive, Reading
  <2> HIDE DEF k, then
  <2>4. run' \in [Tasks -> Runs] /\ \A u \in Tasks : Ready(u)'
    <3>1. /\ Caching("set", k, then, Active(k)) \in Runs
          /\ Caching("set", k, then, Active(k)).pc = "set"
          /\ Caching("set", k, then, Active(k)).k = k
      BY <2>1, <2>2, CachingType
    <3> QED BY <2>1, <2>3, <3>1, TaskMoves
  <2> QED BY <2>3, <2>4 DEF TradeInv, Typed
<1>8. ASSUME NEW t \in Tasks, SetCache(t) PROVE TradeInv'
  <2> DEFINE then == run[t].then
             new == IF then = None THEN Idle ELSE Caching("list", then, None, {})
  <2>1. then \in Streams \cup {None}
    BY DEF TradeInv, Typed, Runs
  <2>2. new \in Runs /\ new.pc \in {"idle", "list"} /\ (new.pc = "list" => new.k \in Streams)
    BY <2>1, IdleType, EmptyType, CachingType, SMTT(20)
  <2>3. run' = [run EXCEPT ![t] = new] /\ docs' = docs
    BY <1>8 DEF SetCache
  <2> HIDE DEF new
  <2>4. run' \in [Tasks -> Runs] /\ \A u \in Tasks : Ready(u)'
    BY <2>2, <2>3, TaskMoves
  <2>5. run[t].list \in Lists
    BY DEF TradeInv, Typed, Runs
  <2>6. cache' \in [Streams -> Lists \cup {None}]
    BY <1>8, <2>5 DEF SetCache, TradeInv, Typed
  <2> QED BY <1>8, <2>4, <2>6 DEF SetCache, TradeInv, Typed
<1>9. ASSUME NEW k \in Streams, Expire(k) PROVE TradeInv'
  <2>1. cache' \in [Streams -> Lists \cup {None}]
    BY <1>9 DEF Expire, TradeInv, Typed
  <2>2. \A t \in Tasks : Ready(t)'
    BY <1>9 DEF Expire, TradeInv, Ready
  <2> QED BY <1>9, <2>1, <2>2 DEF Expire, TradeInv, Typed
<1>10. ASSUME NEW t \in Tasks, CallFault(t) PROVE TradeInv'
  <2>1. run' \in [Tasks -> Runs] /\ \A u \in Tasks : Ready(u)'
    BY <1>10, IdleType, TaskMoves DEF CallFault
  <2> QED BY <1>10, <2>1, CacheAssumption DEF CallFault, TradeInv, Typed
<1> QED
  BY <1>1, <1>2, <1>3, <1>4, <1>5, <1>6, <1>7, <1>8, <1>9, <1>10 DEF Next, Request, Step, Tasks

\* The trade side at the start, and steps of the LP side.
LEMMA TradeInit == Init => TradeInv
<1> SUFFICES ASSUME Init PROVE TradeInv
  OBVIOUS
<1>1. Typed
  <2>1. cache \in [Streams -> Lists \cup {None}]
    BY DEF Init
  <2>2. run \in [Tasks -> Runs]
    BY IdleType DEF Init
  <2>3. /\ docs \in [Strategies -> Documents \cup {None}] /\ last = docs
        /\ \A s \in Strategies : docs[s] = None
    BY DEF Init
  <2>4. requests \in 0..MaxRequests /\ faults \in 0..MaxFaults
    BY CacheAssumption DEF Init
  <2>5. raced \in BOOLEAN /\ overtaken \in BOOLEAN
    BY DEF Init
  <2> QED BY <2>1, <2>2, <2>3, <2>4, <2>5 DEF Typed
<1>2. \A t \in Tasks : Ready(t)
  BY IdleType DEF Init, Ready
<1> QED BY <1>1, <1>2 DEF TradeInv

LEMMA TradeStutter == TradeInv /\ UNCHANGED vars => TradeInv'
<1> SUFFICES ASSUME TradeInv, UNCHANGED vars PROVE TradeInv'
  OBVIOUS
<1>1. \A t \in Tasks : Ready(t)'
  BY DEF TradeInv, Ready, vars
<1> QED BY <1>1 DEF TradeInv, Typed, vars

\* TradeInv contains the type invariant.
LEMMA TradeTypes == TradeInv => TypeOK
<1> SUFFICES ASSUME TradeInv PROVE TypeOK
  OBVIOUS
<1>1. \A k \in Streams : cache[k] = None \/ cache[k] \subseteq Strategies \X Documents
  BY DEF TradeInv, Typed, Lists
<1>2. \A t \in Tasks : run[t] \in Runs
  BY DEF TradeInv, Typed
<1>3. \A t \in Tasks : /\ run[t].pc \in {"idle", "write", "stored", "list", "set"}
                       /\ run[t].then \in Streams \cup {None}
  BY <1>2 DEF Runs
<1> QED BY <1>1, <1>3 DEF TradeInv, Typed, Ready, TypeOK

-----------------------------------------------------------------------------
(***************************************************************************)
(* Trade strategies: the cache.  As long as nothing fails or races, a list *)
(* about to be cached is what MongoDB holds, and whatever stream's entry   *)
(* is not has a request under way that will refresh it.                    *)
(***************************************************************************)

Clean == faults = 0 /\ ~raced /\ ~overtaken

ListsAreActive == \A t \in Tasks : At(t, "set") => run[t].list = Active(run[t].k)

StaleIsCovered == \A k \in Streams : Consistent(k) \/ \E r \in Callers : WillRefresh(r, k)

CacheInv == Clean => ListsAreActive /\ StaleIsCovered

\* Only the streams it is written from and to see a document written.
LEMMA WriteReaches ==
  ASSUME Typed, NEW s \in Strategies, NEW d \in Documents, docs' = [docs EXCEPT ![s] = d],
         NEW k, k # d.stream, docs[s] = None \/ k # docs[s].stream
  PROVE  Active(k)' = Active(k)
<1>1. ASSUME NEW x \in Strategies
      PROVE  /\ docs'[x] # None /\ docs'[x].stream = k /\ docs'[x].status = "ACTIVE"
                <=> docs[x] # None /\ docs[x].stream = k /\ docs[x].status = "ACTIVE"
             /\ docs'[x] # None /\ docs'[x].stream = k => docs'[x] = docs[x]
  BY DEF Typed
<1> DEFINE In  == {x \in Strategies : docs[x] # None /\ docs[x].stream = k /\ docs[x].status = "ACTIVE"}
           In2 == {x \in Strategies : docs'[x] # None /\ docs'[x].stream = k /\ docs'[x].status = "ACTIVE"}
<1>2. In = In2 /\ \A x \in In2 : docs'[x] = docs[x]
  BY <1>1
<1>3. {<<x, docs[x]>> : x \in In} = {<<x, docs'[x]>> : x \in In2}
  <2> HIDE DEF In, In2
  <2> QED BY <1>2
<1> QED BY <1>3 DEF Active

\* A task moves, nothing is written, and what it was to refresh it still is.
LEMMA QuietMove ==
  ASSUME TradeInv, CacheInv, NEW t \in Tasks, NEW new \in Runs, run' = [run EXCEPT ![t] = new],
         UNCHANGED <<docs, cache, faults, raced, overtaken>>,
         new.pc = "set" => new.list = Active(new.k),
         \A k \in Streams : WillRefresh(t, k) => WillRefresh(t, k)'
  PROVE  CacheInv'
<1> SUFFICES ASSUME Clean PROVE ListsAreActive' /\ StaleIsCovered'
  BY DEF CacheInv, Clean
<1>1. ListsAreActive /\ StaleIsCovered
  BY DEF CacheInv
<1>2. \A k : Active(k)' = Active(k)
  BY DEF Active
<1>3. \A u \in Tasks : u # t => run'[u] = run[u]
  BY DEF TradeInv, Typed
<1>4. run'[t] = new
  BY DEF TradeInv, Typed
<1>5. ListsAreActive'
  BY <1>1, <1>2, <1>3, <1>4 DEF ListsAreActive, At
<1>6. ASSUME NEW k \in Streams, ~Consistent(k)' PROVE \E r \in Callers : WillRefresh(r, k)'
  <2>1. ~Consistent(k)
    BY <1>2, <1>6 DEF Consistent
  <2>2. PICK r \in Callers : WillRefresh(r, k)
    BY <1>1, <2>1 DEF StaleIsCovered
  <2>3. CASE r = t
    BY <2>2, <2>3
  <2>4. CASE r # t
    BY <1>3, <2>2, <2>4 DEF WillRefresh, At, Tasks
  <2> QED BY <2>3, <2>4
<1> QED BY <1>5, <1>6 DEF StaleIsCovered

\* A document is written by a request that will refresh every stream it
\* concerns, and no task is about to cache a list of one of them.
LEMMA WriteMove ==
  ASSUME TradeInv, CacheInv, NEW r \in Callers, NEW s \in Strategies, NEW d \in Documents,
         docs' = [docs EXCEPT ![s] = d], NEW new \in Runs, run' = [run EXCEPT ![r] = new],
         UNCHANGED <<cache, faults>>, Clean' => Clean,
         new.pc = "stored", new.s = s, Clean' => docs[s] = None \/ new.seen = docs[s],
         Clean' => ~Overtakes({d.stream}) /\ (docs[s] # None => ~Overtakes({docs[s].stream})),
         run[r].pc \in {"idle", "write"}
  PROVE  CacheInv'
<1> SUFFICES ASSUME Clean' PROVE ListsAreActive' /\ StaleIsCovered'
  BY DEF CacheInv
<1>1. ListsAreActive /\ StaleIsCovered
  BY DEF CacheInv
<1> DEFINE Far(k) == k # d.stream /\ (docs[s] = None \/ k # docs[s].stream)
<1>2. \A k : Far(k) => Active(k)' = Active(k)
  BY WriteReaches DEF TradeInv
<1>3. /\ \A u \in Tasks : u # r => run'[u] = run[u]
      /\ run'[r] = new /\ r \in Tasks
  BY DEF TradeInv, Typed, Tasks
<1>4. docs'[s] = d /\ \A x \in Strategies : x # s => docs'[x] = docs[x]
  BY DEF TradeInv, Typed
<1>5. ListsAreActive'
  <2> SUFFICES ASSUME NEW u \in Tasks, At(u, "set")' PROVE (run[u].list = Active(run[u].k))'
    BY DEF ListsAreActive
  <2>1. u # r /\ run'[u] = run[u] /\ run[u].pc = "set"
    BY <1>3 DEF At
  <2>2. run[u].list = Active(run[u].k)
    BY <1>1, <2>1 DEF ListsAreActive, At
  <2>3. Far(run[u].k)
    BY <2>1 DEF Overtakes, At
  <2> QED BY <1>2, <2>1, <2>2, <2>3
<1>6. ASSUME NEW k \in Streams, Far(k), ~Consistent(k)' PROVE \E u \in Callers : WillRefresh(u, k)'
  <2>1. ~Consistent(k)
    BY <1>2, <1>6 DEF Consistent
  <2>2. PICK u \in Callers : WillRefresh(u, k)
    BY <1>1, <2>1 DEF StaleIsCovered
  <2>3. u # r /\ u \in Tasks
    BY <2>2 DEF WillRefresh, At, Tasks
  <2>4. run'[u] = run[u]
    BY <1>3, <2>3
  <2>5. CASE run[u].pc \in {"list", "set"}
    BY <2>2, <2>4, <2>5 DEF WillRefresh, At
  <2>6. CASE run[u].pc = "stored"
    <3>1. run[u].s \in Strategies /\ docs[run[u].s] # None
      BY <2>3, <2>6 DEF TradeInv, Ready
    <3>2. CASE run[u].s # s
      BY <1>4, <2>2, <2>4, <2>6, <3>1, <3>2 DEF WillRefresh, At
    <3>3. CASE run[u].s = s
      BY <1>6, <2>2, <2>4, <2>6, <3>1, <3>3 DEF WillRefresh, At
    <3> QED BY <3>2, <3>3
  <2> QED BY <2>2, <2>5, <2>6 DEF WillRefresh, At
<1>7. ASSUME NEW k \in Streams, ~Far(k) PROVE WillRefresh(r, k)'
  <2>1. CASE k = d.stream
    BY <1>3, <1>4, <2>1 DEF WillRefresh, At
  <2>2. CASE k # d.stream
    BY <1>3, <1>4, <1>7, <2>2 DEF WillRefresh, At
  <2> QED BY <2>1, <2>2
<1> QED BY <1>5, <1>6, <1>7 DEF StaleIsCovered

\* Every step keeps what is said of the cache.
LEMMA CacheStep == ASSUME TradeInv, CacheInv, Next PROVE CacheInv'
<1>1. ASSUME NEW r \in Callers, NEW s \in Strategies, NEW d \in Documents, CreateStrategy(r, s, d)
      PROVE  CacheInv'
  <2>1. /\ docs' = [docs EXCEPT ![s] = d] /\ docs[s] = None
        /\ run' = [run EXCEPT ![r] = Asking("stored", s, None, None)]
        /\ UNCHANGED <<cache, faults>> /\ run[r].pc = "idle"
    BY <1>1 DEF CreateStrategy, Called, At
  <2>2. Clean' => Clean /\ ~Overtakes({d.stream})
    BY <1>1 DEF CreateStrategy, Clean
  <2>3. /\ Asking("stored", s, None, None) \in Runs
        /\ Asking("stored", s, None, None).pc = "stored"
        /\ Asking("stored", s, None, None).s = s
    BY AskingType
  <2> QED BY <2>1, <2>2, <2>3, WriteMove
<1>2. ASSUME NEW r \in Callers, NEW s \in Strategies, NEW c \in Changes, ReadStrategy(r, s, c)
      PROVE  CacheInv'
  <2>1. /\ run' = [run EXCEPT ![r] = Asking("write", s, docs[s], c)]
        /\ UNCHANGED <<docs, cache, faults, raced, overtaken>> /\ run[r].pc = "idle"
        /\ r \in Tasks /\ docs[s] \in Documents
    BY <1>2, StoredType DEF ReadStrategy, Called, At, Tasks, TradeInv
  <2>2. Asking("write", s, docs[s], c) \in Runs /\ Asking("write", s, docs[s], c).pc = "write"
    BY <2>1, AskingType
  <2>3. \A k \in Streams : ~WillRefresh(r, k)
    BY <2>1 DEF WillRefresh, At
  <2> QED BY <2>1, <2>2, <2>3, QuietMove
<1>3. ASSUME NEW r \in Callers, NEW s \in Strategies, NEW x \in Statuses, SetStatus(r, s, x)
      PROVE  CacheInv'
  <2>1. /\ run' = [run EXCEPT ![r] = Asking("stored", s, None, x)]
        /\ UNCHANGED <<docs, cache, faults, raced, overtaken>> /\ run[r].pc = "idle"
        /\ r \in Tasks
    BY <1>3 DEF SetStatus, Called, At, Tasks
  <2>2. Asking("stored", s, None, x) \in Runs /\ Asking("stored", s, None, x).pc = "stored"
    BY AskingType
  <2>3. \A k \in Streams : ~WillRefresh(r, k)
    BY <2>1 DEF WillRefresh, At
  <2> QED BY <2>1, <2>2, <2>3, QuietMove
<1>4. ASSUME NEW p \in Processors, NEW k \in Streams, MissCache(p, k) PROVE CacheInv'
  <2>1. /\ run' = [run EXCEPT ![p] = Caching("list", k, None, {})]
        /\ UNCHANGED <<docs, cache, faults, raced, overtaken>> /\ run[p].pc = "idle"
        /\ p \in Tasks
    BY <1>4 DEF MissCache, Reading, At, Tasks
  <2>2. Caching("list", k, None, {}) \in Runs /\ Caching("list", k, None, {}).pc = "list"
    BY EmptyType, CachingType
  <2>3. \A x \in Streams : ~WillRefresh(p, x)
    BY <2>1 DEF WillRefresh, At
  <2> QED BY <2>1, <2>2, <2>3, QuietMove
<1>5. ASSUME NEW r \in Tasks, UpdateStrategy(r) PROVE CacheInv'
  <2> DEFINE s == run[r].s
             seen == run[r].seen
             asked == run[r].asked
             d == Merged(seen, asked)
             new == Asking("stored", s, seen, asked)
  <2>1. /\ r \in Callers /\ run[r].pc = "write"
        /\ s \in Strategies /\ docs[s] # None /\ seen \in Documents /\ asked \in Changes
    BY <1>5 DEF UpdateStrategy, At, TradeInv, Ready
  <2>2. /\ docs' = [docs EXCEPT ![s] = d] /\ run' = [run EXCEPT ![r] = new]
        /\ UNCHANGED <<cache, faults>>
        /\ raced' = (raced \/ docs[s] # seen)
        /\ overtaken' = (overtaken \/ Overtakes({docs[s].stream, d.stream}))
    BY <1>5 DEF UpdateStrategy
  <2>3. d \in Documents
    BY <2>1, MergedType
  <2>4. new \in Runs /\ new.pc = "stored" /\ new.s = s /\ new.seen = seen
    BY <2>1, AskingType
  <2> HIDE DEF s, seen, asked, d, new
  <2>5. Clean' => Clean /\ docs[s] = seen /\ ~Overtakes({d.stream}) /\ ~Overtakes({docs[s].stream})
    BY <2>2 DEF Clean, Overtakes
  <2> QED BY <2>1, <2>2, <2>3, <2>4, <2>5, WriteMove
<1>6. ASSUME NEW r \in Tasks, ReadStored(r) PROVE CacheInv'
  <2> DEFINE own == docs[run[r].s].stream
             old == IF run[r].seen = None THEN own ELSE run[r].seen.stream
             then == IF own = old THEN None ELSE own
             new == Caching("list", old, then, {})
  <2>1. own \in Streams /\ old \in Streams
    BY <1>6, StoredType DEF ReadStored, At, TradeInv, Typed, Ready, Runs, Documents
  <2>2. /\ run' = [run EXCEPT ![r] = new] /\ run[r].pc = "stored"
        /\ UNCHANGED <<docs, cache, faults, raced, overtaken>>
    BY <1>6 DEF ReadStored, Reading, At
  <2>3. new \in Runs /\ new.pc = "list" /\ new.k = old /\ new.then = then
    <3>1. then \in Streams \cup {None}
      BY <2>1
    <3> HIDE DEF old, own, then
    <3> QED BY <2>1, <3>1, EmptyType, CachingType
  <2>4. ASSUME NEW k \in Streams, WillRefresh(r, k) PROVE WillRefresh(r, k)'
    <3>1. k = own \/ (run[r].seen # None /\ k = run[r].seen.stream)
      BY <2>2, <2>4 DEF WillRefresh, At
    <3>2. k \in {old, then}
      BY <3>1
    <3>3. run'[r] = new
      BY <2>2 DEF TradeInv, Typed
    <3> HIDE DEF old, own, then, new
    <3> QED BY <2>3, <3>2, <3>3 DEF WillRefresh, At
  <2> HIDE DEF new
  <2> QED BY <2>2, <2>3, <2>4, QuietMove
<1>7. ASSUME NEW t \in Tasks, ListActive(t) PROVE CacheInv'
  <2> DEFINE k == run[t].k
             then == run[t].then
             new == Caching("set", k, then, Active(k))
  <2>1. k \in Streams /\ then \in Streams \cup {None} /\ Active(k) \in Lists
    BY <1>7, ActiveType DEF ListActive, At, TradeInv, Typed, Ready, Runs
  <2>2. /\ run' = [run EXCEPT ![t] = new] /\ run[t].pc = "list"
        /\ UNCHANGED <<docs, cache, faults, raced, overtaken>>
    BY <1>7 DEF ListActive, Reading, At
  <2>3. new \in Runs /\ new.pc = "set" /\ new.k = k /\ new.then = then /\ new.list = Active(k)
    BY <2>1, CachingType
  <2> HIDE DEF new
  <2>4. run'[t] = new
    BY <2>2 DEF TradeInv, Typed
  <2>5. \A x \in Streams : WillRefresh(t, x) => WillRefresh(t, x)'
    BY <2>2, <2>3, <2>4 DEF WillRefresh, At
  <2> QED BY <2>2, <2>3, <2>5, QuietMove
<1>8. ASSUME NEW t \in Tasks, SetCache(t) PROVE CacheInv'
  <2>0. PICK k \in Streams : k = run[t].k
    BY <1>8 DEF SetCache, At, TradeInv, Ready
  <2> DEFINE then == run[t].then
             new == IF then = None THEN Idle ELSE Caching("list", then, None, {})
  <2> SUFFICES ASSUME Clean PROVE ListsAreActive' /\ StaleIsCovered'
    BY <1>8 DEF CacheInv, Clean, SetCache
  <2>1. /\ cache' = [cache EXCEPT ![k] = run[t].list] /\ run' = [run EXCEPT ![t] = new]
        /\ docs' = docs /\ run[t].pc = "set"
    BY <1>8, <2>0 DEF SetCache, At
  <2>2. ListsAreActive /\ StaleIsCovered /\ run[t].list = Active(k)
    BY <2>0, <2>1 DEF CacheInv, ListsAreActive, At
  <2>3. then \in Streams \cup {None}
    BY DEF TradeInv, Typed, Runs
  <2>4. /\ new.pc \in {"idle", "list"}
        /\ then # None => new.pc = "list" /\ new.k = then
    BY <2>3, IdleType, EmptyType, CachingType
  <2> HIDE DEF then, new
  <2>5. run'[t] = new /\ \A u \in Tasks : u # t => run'[u] = run[u]
    BY <2>1 DEF TradeInv, Typed
  <2>6. \A x : Active(x)' = Active(x)
    BY <2>1 DEF Active
  <2>7. ListsAreActive'
    BY <2>2, <2>4, <2>5, <2>6 DEF ListsAreActive, At
  <2>8. Consistent(k)'
    BY <2>1, <2>2, <2>6 DEF Consistent, TradeInv, Typed
  <2>9. ASSUME NEW x \in Streams, x # k, ~Consistent(x)'
        PROVE  \E r \in Callers : WillRefresh(r, x)'
    <3>1. ~Consistent(x)
      BY <2>1, <2>6, <2>9 DEF Consistent, TradeInv, Typed
    <3>2. PICK r \in Callers : WillRefresh(r, x)
      BY <2>2, <3>1 DEF StaleIsCovered
    <3>3. CASE r = t
      <4>1. x = then /\ x # None
        BY <2>0, <2>1, <2>9, <3>2, <3>3, CacheAssumption DEF WillRefresh, At, then
      <4> QED BY <2>4, <2>5, <3>3, <4>1 DEF WillRefresh, At
    <3>4. CASE r # t
      BY <2>1, <2>5, <3>2, <3>4 DEF WillRefresh, At, Tasks
    <3> QED BY <3>3, <3>4
  <2> QED BY <2>7, <2>8, <2>9 DEF StaleIsCovered
<1>9. ASSUME NEW k \in Streams, Expire(k) PROVE CacheInv'
  <2> SUFFICES ASSUME Clean PROVE ListsAreActive' /\ StaleIsCovered'
    BY <1>9 DEF CacheInv, Clean, Expire
  <2>1. UNCHANGED <<docs, run>> /\ cache' = [cache EXCEPT ![k] = None]
    BY <1>9 DEF Expire
  <2>2. ListsAreActive'
    BY <2>1 DEF CacheInv, ListsAreActive, At, Active
  <2>3. ASSUME NEW x \in Streams PROVE Consistent(x) => Consistent(x)'
    BY <2>1 DEF TradeInv, Typed, Consistent, Active
  <2>4. \A x \in Streams, r \in Callers : WillRefresh(r, x) => WillRefresh(r, x)'
    BY <2>1 DEF WillRefresh, At
  <2> QED BY <2>2, <2>3, <2>4 DEF CacheInv, StaleIsCovered
<1>10. ASSUME NEW t \in Tasks, CallFault(t) PROVE CacheInv'
  BY <1>10 DEF CallFault, CacheInv, Clean, TradeInv, Typed
<1> QED
  BY <1>1, <1>2, <1>3, <1>4, <1>5, <1>6, <1>7, <1>8, <1>9, <1>10 DEF Next, Request, Step, Tasks

\* The cache at the start, and steps of the LP side.
LEMMA CacheInit == Init => CacheInv
  BY DEF Init, CacheInv, Clean, ListsAreActive, StaleIsCovered, At, Idle, Caching, Consistent

LEMMA CacheStutter == CacheInv /\ UNCHANGED vars => CacheInv'
<1> SUFFICES ASSUME CacheInv, UNCHANGED vars PROVE CacheInv'
  OBVIOUS
<1>1. /\ Clean' <=> Clean
      /\ \A k : Active(k)' = Active(k)
      /\ \A k : Consistent(k)' <=> Consistent(k)
      /\ \A r, k : WillRefresh(r, k)' <=> WillRefresh(r, k)
  BY DEF vars, Clean, Active, Consistent, WillRefresh, At
<1>2. ListsAreActive' <=> ListsAreActive
  BY DEF vars, ListsAreActive, At, Active
<1> QED BY <1>1, <1>2 DEF CacheInv, StaleIsCovered

\* CacheInv contains StaleHasCause.
LEMMA StaleCause == TradeInv /\ CacheInv => StaleHasCause
<1> SUFFICES ASSUME TradeInv, CacheInv PROVE StaleHasCause
  OBVIOUS
<1>1. faults > 0 \/ faults = 0
  BY CacheAssumption DEF TradeInv, Typed
<1>2. CASE faults > 0 \/ raced \/ overtaken
  BY <1>2 DEF StaleHasCause
<1>3. CASE Clean
  BY <1>3 DEF CacheInv, StaleIsCovered, StaleHasCause
<1> QED BY <1>1, <1>2, <1>3 DEF Clean

-----------------------------------------------------------------------------
(* Trade strategies: changes. *)

\* A step that does not write from an older copy leaves the value last asked for.
LEMMA ChangesStep == ASSUME TradeInv, ChangesStand, Next PROVE ChangesStand'
<1>1. ASSUME NEW r \in Tasks, UpdateStrategy(r) PROVE ChangesStand'
  <2> DEFINE s == run[r].s
             seen == run[r].seen
             asked == run[r].asked
  <2> SUFFICES ASSUME ~raced' PROVE docs' = last'
    BY DEF ChangesStand
  <2>1. docs[s] = seen /\ docs = last
    BY <1>1 DEF UpdateStrategy, ChangesStand
  <2>2. docs' = [docs EXCEPT ![s] = Merged(seen, asked)]
    BY <1>1 DEF UpdateStrategy
  <2>3. last' = [last EXCEPT ![s] = [f \in Fields |-> IF asked[f] = None THEN last[s][f]
                                                      ELSE asked[f]]]
    BY <1>1 DEF UpdateStrategy, TradeInv, Typed, Ready, At
  <2>4. Merged(seen, asked) = [f \in Fields |-> IF asked[f] = None THEN last[s][f] ELSE asked[f]]
    BY <2>1 DEF Merged
  <2> QED BY <2>1, <2>2, <2>3, <2>4
<1>2. ASSUME NEW r \in Callers, NEW s \in Strategies, NEW d \in Documents, CreateStrategy(r, s, d)
      PROVE  ChangesStand'
  BY <1>2 DEF CreateStrategy, ChangesStand
<1>3. ASSUME UNCHANGED <<docs, last, raced>> PROVE ChangesStand'
  BY <1>3 DEF ChangesStand
<1> QED
  BY <1>1, <1>2, <1>3 DEF Next, Request, Step, ReadStrategy, SetStatus, MissCache, Reading,
     ReadStored, ListActive, SetCache, Expire, CallFault

-----------------------------------------------------------------------------
(***************************************************************************)
(* The LP strategy.  A request that writes back what it read holds one     *)
(* field's new value, which is never None.                                 *)
(***************************************************************************)

LpRuns == [pc : {"idle", "write"}, seen : Lp!Documents \cup {None},
           field : {"link", "status", None}, value : Links \cup Lp!Statuses \cup {None}]

LpReady(r) ==
    lpRun[r].pc = "write" =>
        /\ lpRun[r].seen \in Lp!Documents /\ lpDoc # None
        /\ \/ lpRun[r].field = "link" /\ lpRun[r].value \in Links
           \/ lpRun[r].field = "status" /\ lpRun[r].value \in Lp!Statuses

LpInv ==
    /\ lpDoc \in Lp!Documents \cup {None}
    /\ lpDoc = None => lpLast = Lp!Empty /\ lpReset = Lp!Empty
    /\ lpLast = [f \in Lp!Fields |-> lpLast[f]] /\ lpReset = [f \in Lp!Fields |-> lpReset[f]]
    /\ lpRun \in [Callers -> LpRuns]
    /\ \A r \in Callers : LpReady(r)
    /\ lpRequests \in 0..MaxRequests /\ lpFaults \in 0..MaxFaults
    /\ lpRaced \subseteq Lp!Fields

\* None is no value of a field that a request sets.
LEMMA SetValues == None \notin Links /\ None \notin Lp!Statuses /\ None \notin Lp!Documents
  BY AdminAssumption, CacheAssumption DEF Statuses, Lp!Statuses

\* What an upsert may name, the defaults it may fill in, and what it writes.
LpAsks == [status : Lp!Statuses \cup {None}, params : LpParams \cup {Default, None},
           link : {None}, registry : Registries \cup {None}]

LpDefaults == [status : Lp!Statuses, params : {Default}, link : {None}, registry : {None}]

LpSets == [status : Lp!Statuses, params : LpParams \cup {Default},
           link : {None}, registry : Registries \cup {None}]

\* $set without the fields that are None, over a document or none.
LEMMA OverType ==
  ASSUME NEW old \in Lp!Documents \cup {None}, NEW set \in LpSets \cup Lp!Documents
  PROVE  Lp!Over(old, set) \in Lp!Documents
<1>1. set.status # None /\ set.status \in Lp!Statuses
  BY SetValues DEF LpSets, Lp!Documents
<1>2. /\ set.params \in LpParams \cup {Default} /\ set.link \in Links \cup {None}
      /\ set.registry \in Registries \cup {None}
  BY DEF LpSets, Lp!Documents
<1>3. old # None => /\ old.params \in LpParams \cup {Default} /\ old.link \in Links \cup {None}
                    /\ old.registry \in Registries \cup {None}
  BY DEF Lp!Documents
<1>4. /\ Lp!Over(old, set) = [f \in Lp!Fields |-> Lp!Over(old, set)[f]]
      /\ Lp!Over(old, set)["status"] \in Lp!Statuses
      /\ Lp!Over(old, set)["params"] \in LpParams \cup {Default}
      /\ Lp!Over(old, set)["link"] \in Links \cup {None}
      /\ Lp!Over(old, set)["registry"] \in Registries \cup {None}
  BY <1>1, <1>2, <1>3 DEF Lp!Over, Lp!Fields
<1> QED BY <1>4 DEF Lp!Documents, Lp!Fields

\* The document with one field set.
LEMMA FieldSet ==
  ASSUME NEW d \in Lp!Documents, NEW field, NEW value,
         \/ field = "link" /\ value \in Links
         \/ field = "status" /\ value \in Lp!Statuses
  PROVE  /\ [d EXCEPT ![field] = value] \in Lp!Documents
         /\ value # None /\ field \in Lp!Fields
         /\ \A f \in Lp!Fields : [d EXCEPT ![field] = value][f] = IF f = field THEN value ELSE d[f]
<1>1. CASE field = "link" /\ value \in Links
  BY <1>1, SetValues DEF Lp!Documents, Lp!Fields
<1>2. CASE field = "status" /\ value \in Lp!Statuses
  BY <1>2, SetValues DEF Lp!Documents, Lp!Fields
<1> QED BY <1>1, <1>2

\* Each default stands where the request names nothing.
LEMMA FilledType ==
  ASSUME NEW asks \in LpAsks, NEW defaults \in LpDefaults
  PROVE  Lp!Filled(asks, defaults) \in LpSets
<1> DEFINE set == Lp!Filled(asks, defaults)
<1>1. set = [f \in Lp!Fields |-> IF asks[f] = None THEN defaults[f] ELSE asks[f]]
  BY DEF Lp!Filled
<1>2. /\ asks.status \in Lp!Statuses \cup {None} /\ asks.params \in LpParams \cup {Default, None}
      /\ asks.link = None /\ asks.registry \in Registries \cup {None}
  BY DEF LpAsks
<1>3. /\ defaults.status \in Lp!Statuses /\ defaults.params = Default
      /\ defaults.link = None /\ defaults.registry = None
  BY DEF LpDefaults
<1>4. /\ set["status"] \in Lp!Statuses /\ set["params"] \in LpParams \cup {Default}
      /\ set["link"] = None /\ set["registry"] \in Registries \cup {None}
  BY <1>1, <1>2, <1>3 DEF Lp!Fields
<1>5. set = [f \in Lp!Fields |-> set[f]]
  BY <1>1
<1> HIDE DEF set
<1>6. set \in LpSets
  BY <1>4, <1>5 DEF LpSets, Lp!Fields
<1> QED BY <1>6 DEF set

\* The two upserts, as one.
LEMMA Upserts ==
  ASSUME NEW r \in Callers,
         \/ \E status \in Lp!Statuses \cup {None}, params \in LpParams \cup {Default, None},
               registry \in Registries \cup {None} : Lp!UpsertParams(r, status, params, registry)
         \/ \E status \in Lp!Statuses \cup {None}, registry \in Registries \cup {None} :
               Lp!Register(r, status, registry)
  PROVE  \E asks \in LpAsks, defaults \in LpDefaults : Lp!Upserted(r, asks, defaults)
<1>1. ASSUME NEW status \in Lp!Statuses \cup {None}, NEW params \in LpParams \cup {Default, None},
             NEW registry \in Registries \cup {None}
      PROVE  Lp!Asked(status, params, registry) \in LpAsks
  BY DEF LpAsks, Lp!Asked
<1>2. ASSUME NEW status \in Lp!Statuses
      PROVE  Lp!Asked(status, Default, None) \in LpDefaults
  BY DEF LpDefaults, Lp!Asked
<1>3. {"ACTIVE", "INACTIVE"} \subseteq Lp!Statuses
  BY DEF Lp!Statuses
<1> QED BY <1>1, <1>2, <1>3 DEF Lp!UpsertParams, Lp!Register

\* Every step keeps the types of the LP side.
LEMMA LpStep == ASSUME LpInv, Lp!Next PROVE LpInv'
<1>1. ASSUME NEW r \in Callers, NEW asks \in LpAsks, NEW defaults \in LpDefaults,
             Lp!Upserted(r, asks, defaults)
      PROVE  LpInv'
  <2>1. lpDoc' \in Lp!Documents /\ lpDoc' # None
    BY <1>1, FilledType, OverType, SetValues DEF Lp!Upserted, LpInv
  <2>2. UNCHANGED <<lpRun, lpFaults>> /\ lpRequests' \in 0..MaxRequests
    BY <1>1, CacheAssumption DEF Lp!Upserted, Lp!Called, LpInv
  <2>3. /\ lpLast' = [f \in Lp!Fields |-> lpLast'[f]] /\ lpReset' = [f \in Lp!Fields |-> lpReset'[f]]
        /\ lpRaced' \subseteq Lp!Fields
    BY <1>1 DEF Lp!Upserted, LpInv
  <2> QED BY <2>1, <2>2, <2>3 DEF LpInv, LpReady
<1>2. ASSUME NEW r \in Callers, NEW field, NEW value, Lp!ReadDocument(r, field, value),
             \/ field = "link" /\ value \in Links
             \/ field = "status" /\ value \in Lp!Statuses
      PROVE  LpInv'
  <2>1. lpDoc \in Lp!Documents /\ lpDoc # None
    BY <1>2 DEF Lp!ReadDocument, LpInv
  <2>2. lpRun' = [lpRun EXCEPT ![r] = Lp!Asking("write", lpDoc, field, value)]
    BY <1>2 DEF Lp!ReadDocument
  <2>3. /\ Lp!Asking("write", lpDoc, field, value) \in LpRuns
        /\ Lp!Asking("write", lpDoc, field, value).seen = lpDoc
        /\ Lp!Asking("write", lpDoc, field, value).field = field
        /\ Lp!Asking("write", lpDoc, field, value).value = value
    BY <1>2, <2>1 DEF Lp!Asking, LpRuns
  <2>4. lpRun' \in [Callers -> LpRuns]
    BY <2>2, <2>3 DEF LpInv
  <2>5. \A q \in Callers : LpReady(q)'
    <3>1. UNCHANGED lpDoc
      BY <1>2 DEF Lp!ReadDocument
    <3> QED BY <1>2, <2>1, <2>2, <2>3, <3>1 DEF LpInv, LpReady
  <2> QED BY <1>2, <2>4, <2>5, CacheAssumption DEF Lp!ReadDocument, Lp!Called, LpInv
<1>3. ASSUME NEW r \in Callers, Lp!WriteBack(r) PROVE LpInv'
  <2>1. /\ lpRun[r].seen \in Lp!Documents /\ lpDoc \in Lp!Documents
        /\ [lpRun[r].seen EXCEPT ![lpRun[r].field] = lpRun[r].value] \in Lp!Documents
    BY <1>3, FieldSet DEF Lp!WriteBack, LpInv, LpReady
  <2>2. lpDoc' \in Lp!Documents /\ lpDoc' # None
    BY <1>3, <2>1, OverType, SetValues DEF Lp!WriteBack
  <2>3. Lp!Idle \in LpRuns /\ Lp!Idle.pc = "idle"
    BY DEF Lp!Idle, Lp!Asking, LpRuns
  <2>4. lpRun' = [lpRun EXCEPT ![r] = Lp!Idle]
    BY <1>3 DEF Lp!WriteBack
  <2>5. lpRun' \in [Callers -> LpRuns] /\ \A q \in Callers : LpReady(q)'
    BY <2>2, <2>3, <2>4 DEF LpInv, LpReady
  <2>6. /\ lpLast' = [f \in Lp!Fields |-> lpLast'[f]] /\ lpReset' = [f \in Lp!Fields |-> lpReset'[f]]
        /\ lpRaced' \subseteq Lp!Fields
    BY <1>3 DEF Lp!WriteBack, Lp!Undone, LpInv
  <2> QED BY <1>3, <2>2, <2>5, <2>6 DEF Lp!WriteBack, LpInv
<1>4. ASSUME NEW r \in Callers, Lp!WriteFault(r) PROVE LpInv'
  <2>1. Lp!Idle \in LpRuns /\ Lp!Idle.pc = "idle"
    BY DEF Lp!Idle, Lp!Asking, LpRuns
  <2>2. lpRun' = [lpRun EXCEPT ![r] = Lp!Idle] /\ lpDoc' = lpDoc
    BY <1>4 DEF Lp!WriteFault
  <2>3. lpRun' \in [Callers -> LpRuns] /\ \A q \in Callers : LpReady(q)'
    BY <2>1, <2>2 DEF LpInv, LpReady
  <2> QED BY <1>4, <2>2, <2>3, CacheAssumption DEF Lp!WriteFault, LpInv
<1> QED BY <1>1, <1>2, <1>3, <1>4, Upserts DEF Lp!Next, Lp!Request

\* The LP side at the start, and steps of the trade side.
LEMMA LpInit == Lp!Init => LpInv
<1> SUFFICES ASSUME Lp!Init PROVE LpInv
  OBVIOUS
<1>1. Lp!Idle \in LpRuns /\ Lp!Idle.pc = "idle"
  BY DEF Lp!Idle, Lp!Asking, LpRuns
<1>2. lpRun \in [Callers -> LpRuns] /\ \A r \in Callers : LpReady(r)
  BY <1>1 DEF Lp!Init, LpReady
<1>3. lpRequests \in 0..MaxRequests /\ lpFaults \in 0..MaxFaults
  BY CacheAssumption DEF Lp!Init
<1>4. /\ lpDoc = None /\ lpLast = Lp!Empty /\ lpReset = Lp!Empty /\ lpRaced \subseteq Lp!Fields
      /\ Lp!Empty = [f \in Lp!Fields |-> Lp!Empty[f]]
  BY DEF Lp!Init, Lp!Empty
<1> QED BY <1>2, <1>3, <1>4 DEF LpInv

LEMMA LpStutter == LpInv /\ UNCHANGED lpVars => LpInv'
  BY DEF LpInv, LpReady, lpVars

\* LpInv contains the type invariant.
LEMMA LpTypes == LpInv => Lp!TypeOK
  BY DEF LpInv, LpReady, LpRuns, Lp!TypeOK

\* A field keeps the value last named or the default written over it, unless a
\* step writes it from an older copy.
LEMMA LpChangesStep == ASSUME LpInv, Lp!ChangesStand, Lp!Next PROVE Lp!ChangesStand'
<1>1. ASSUME NEW r \in Callers, NEW asks \in LpAsks, NEW defaults \in LpDefaults,
             Lp!Upserted(r, asks, defaults)
      PROVE  Lp!ChangesStand'
  <2> SUFFICES ASSUME NEW f \in Lp!Fields, f \notin lpRaced'
               PROVE  lpDoc'[f] = IF lpReset'[f] = None THEN lpLast'[f] ELSE lpReset'[f]
    BY DEF Lp!ChangesStand
  <2> DEFINE set == Lp!Filled(asks, defaults)
  <2>1. set[f] = IF asks[f] = None THEN defaults[f] ELSE asks[f]
    BY DEF Lp!Filled
  <2>2. lpDoc'[f] = IF set[f] # None THEN set[f] ELSE IF lpDoc = None THEN None ELSE lpDoc[f]
    BY <1>1 DEF Lp!Upserted, Lp!Over
  <2>3. /\ lpLast'[f] = IF asks[f] = None THEN lpLast[f] ELSE asks[f]
        /\ lpReset'[f] = IF set[f] = None THEN lpReset[f]
                         ELSE IF asks[f] = None THEN defaults[f] ELSE None
        /\ set[f] = None => f \notin lpRaced
    BY <1>1 DEF Lp!Upserted
  <2>4. lpDoc = None => lpLast[f] = None /\ lpReset[f] = None
    BY DEF LpInv, Lp!Empty
  <2>5. lpDoc # None /\ f \notin lpRaced =>
           lpDoc[f] = IF lpReset[f] = None THEN lpLast[f] ELSE lpReset[f]
    BY DEF Lp!ChangesStand
  <2> HIDE DEF set
  <2>6. CASE set[f] # None
    BY <2>1, <2>2, <2>3, <2>6
  <2>7. CASE set[f] = None
    BY <2>1, <2>2, <2>3, <2>4, <2>5, <2>7
  <2> QED BY <2>6, <2>7
<1>2. ASSUME NEW r \in Callers, Lp!WriteBack(r) PROVE Lp!ChangesStand'
  <2> DEFINE field == lpRun[r].field
             value == lpRun[r].value
             seen == lpRun[r].seen
             set == [seen EXCEPT ![field] = value]
  <2> SUFFICES ASSUME NEW f \in Lp!Fields, f \notin lpRaced'
               PROVE  lpDoc'[f] = IF lpReset'[f] = None THEN lpLast'[f] ELSE lpReset'[f]
    BY DEF Lp!ChangesStand
  <2>1. /\ lpDoc # None /\ lpDoc \in Lp!Documents /\ seen \in Lp!Documents
        /\ \/ field = "link" /\ value \in Links
           \/ field = "status" /\ value \in Lp!Statuses
    BY <1>2 DEF Lp!WriteBack, LpInv, LpReady
  <2>2. lpDoc' = Lp!Over(lpDoc, set)
    BY <1>2 DEF Lp!WriteBack
  <2>3. /\ lpLast'[f] = IF f = field THEN value ELSE lpLast[f]
        /\ lpReset'[f] = IF f = field THEN None ELSE lpReset[f]
    <3>1. /\ lpLast' = [lpLast EXCEPT ![field] = value] /\ lpReset' = [lpReset EXCEPT ![field] = None]
      BY <1>2 DEF Lp!WriteBack
    <3> QED BY <3>1 DEF LpInv
  <2>4. f # field => f \notin lpRaced /\ (seen[f] = None \/ lpDoc[f] = seen[f])
    BY <1>2 DEF Lp!WriteBack, Lp!Undone
  <2>5. f \notin lpRaced => lpDoc[f] = IF lpReset[f] = None THEN lpLast[f] ELSE lpReset[f]
    BY <2>1 DEF Lp!ChangesStand
  <2> HIDE DEF field, value, seen
  <2>6. /\ set \in Lp!Documents
        /\ \A g \in Lp!Fields : set[g] = IF g = field THEN value ELSE seen[g]
        /\ value # None
    BY <2>1, FieldSet
  <2> HIDE DEF set
  <2>7. lpDoc'[f] = IF set[f] # None THEN set[f] ELSE lpDoc[f]
    BY <2>1, <2>2 DEF Lp!Over
  <2>8. CASE f = field
    BY <2>3, <2>6, <2>7, <2>8
  <2>9. CASE f # field
    BY <2>3, <2>4, <2>5, <2>6, <2>7, <2>9
  <2> QED BY <2>8, <2>9
<1>3. ASSUME UNCHANGED <<lpDoc, lpLast, lpReset, lpRaced>> PROVE Lp!ChangesStand'
  BY <1>3 DEF Lp!ChangesStand
<1> QED
  BY <1>1, <1>2, <1>3, Upserts DEF Lp!Next, Lp!Request, Lp!ReadDocument, Lp!WriteFault

\* No request takes the link away.
LEMMA LinkStep ==
  ASSUME [AdminNext]_<<subject, vars, lpVars>>
  PROVE  [lpDoc # None /\ lpDoc.link # None => lpDoc'.link # None]_lpVars
<1> SUFFICES ASSUME lpDoc # None, lpDoc.link # None, Lp!Next PROVE lpDoc'.link # None
  BY DEF AdminNext, lpVars
<1>1. \A set : Lp!Over(lpDoc, set).link # None
  BY DEF Lp!Over, Lp!Fields
<1> QED BY <1>1 DEF Lp!Next, Lp!Request, Lp!UpsertParams, Lp!Register, Lp!Upserted,
               Lp!ReadDocument, Lp!WriteBack, Lp!WriteFault

-----------------------------------------------------------------------------
(* The theorems. *)

Inv == TradeInv /\ CacheInv /\ ChangesStand /\ LpInv /\ Lp!ChangesStand

\* Every step of either side keeps all of it.
LEMMA AdminStep == Inv /\ [AdminNext]_<<subject, vars, lpVars>> => Inv'
<1> SUFFICES ASSUME Inv, [AdminNext]_<<subject, vars, lpVars>> PROVE Inv'
  OBVIOUS
<1>1. ASSUME UNCHANGED vars PROVE TradeInv' /\ CacheInv' /\ ChangesStand'
  BY <1>1, TradeStutter, CacheStutter DEF Inv, ChangesStand, vars
<1>2. ASSUME UNCHANGED lpVars PROVE LpInv' /\ Lp!ChangesStand'
  BY <1>2, LpStutter DEF Inv, Lp!ChangesStand, lpVars
<1>3. ASSUME Next PROVE TradeInv' /\ CacheInv' /\ ChangesStand'
  BY <1>3, TradeStep, CacheStep, ChangesStep DEF Inv
<1>4. ASSUME Lp!Next PROVE LpInv' /\ Lp!ChangesStand'
  BY <1>4, LpStep, LpChangesStep DEF Inv
<1> QED BY <1>1, <1>2, <1>3, <1>4 DEF AdminNext, Inv

\* The invariant holds at the start.
LEMMA AdminInvInit == AdminInit => Inv
  BY TradeInit, CacheInit, LpInit
     DEF AdminInit, Inv, Init, ChangesStand, Lp!Init, Lp!ChangesStand

\* The conjunction is an invariant of the administration.
LEMMA Invariance == AdminSpec => []Inv
  BY AdminInvInit, AdminStep, PTL DEF AdminSpec

\* Every variable keeps the values the code can give it.
THEOREM TypeCorrect == AdminSpec => []AdminTypeOK
<1>1. Inv => AdminTypeOK
  BY TradeTypes, LpTypes DEF Inv, AdminTypeOK
<1> QED BY <1>1, Invariance, PTL

\* A cached list that is not what MongoDB holds has a refresh under way, or a
\* failed call or one of the two races is to blame.
THEOREM StalenessHasCause == AdminSpec => []StaleHasCause
<1>1. Inv => StaleHasCause
  BY StaleCause DEF Inv
<1> QED BY <1>1, Invariance, PTL

\* What a request named is lost in known ways only: of a trade strategy by a write
\* from an older copy, of a field of the LP strategy by being written back from
\* one or by an upsert that resets a field it does not name.
THEOREM ChangesAreKept == AdminSpec => []NoChangeIsLost
<1>1. Inv => NoChangeIsLost
  BY DEF Inv, NoChangeIsLost
<1> QED BY <1>1, Invariance, PTL

\* A strategy linked to a vault stays linked, whatever races.
THEOREM LinkIsKept == AdminSpec => LinkStays
<1>1. [AdminNext]_<<subject, vars, lpVars>>
        => [lpDoc # None /\ lpDoc.link # None => lpDoc'.link # None]_lpVars
  BY LinkStep
<1> QED BY <1>1, PTL DEF AdminSpec, LinkStays, Lp!LinkStays, Lp!vars, lpVars
=============================================================================
