------------------------- MODULE TradeStrategyCache -------------------------
(***************************************************************************)
(* The trade strategies in MongoDB and the Redis cache of the active ones  *)
(* of each stream.  A request writes a strategy and then refreshes the     *)
(* cache of its stream from MongoDB, by a read and a write; the candle     *)
(* processor fills the cache the same way when it finds none; an entry of  *)
(* the cache expires after a time to live.  Requests and processors run    *)
(* at the same time and nothing orders their steps.                        *)
(*                                                                         *)
(* A strategy is its stream, its status and its parameters; the other      *)
(* fields are treated like the parameters.  Strategies have ObjectIds,     *)
(* as MongoDB gives them on insertion.                                     *)
(***************************************************************************)
EXTENDS Naturals

CONSTANTS None,        \* Python's None: no document, no cache entry, no value
          Strategies,  \* identifiers
          Streams,     \* stream keys
          Params,      \* values of the parameters
          Changes,     \* payloads of update requests, None where a field is unset
          Callers,     \* requests that may run at once
          Processors,  \* processors that may run at once
          MaxRequests, \* bound on the requests of a behaviour
          MaxFaults    \* bound on its failed calls

Statuses == {"ACTIVE", "INACTIVE"}
Fields == {"stream", "status", "params"}
Documents == [stream : Streams, status : Statuses, params : Params]
Payloads == [stream : Streams \cup {None}, status : Statuses \cup {None},
             params : Params \cup {None}]
Tasks == Callers \cup Processors

ASSUME CacheAssumption ==
    /\ None \notin Documents \cup Streams \cup Statuses
    /\ Changes \subseteq Payloads
    /\ Callers \cap Processors = {}
    /\ MaxRequests \in Nat /\ MaxFaults \in Nat

VARIABLES docs,       \* the collection: docs[s] is a document or None
          cache,      \* cache[k]: the strategies cached for stream k, or None
          run,        \* run[t]: where task t is
          requests,   \* requests so far
          faults,     \* failed calls so far
          last,       \* history: last[s] has the value last asked for of each field
          raced,      \* history: a document was written from an older copy of it
          overtaken   \* history: a document was written while a task was about to
                      \* cache a list of its stream read before

vars == <<docs, cache, run, requests, faults, last, raced, overtaken>>

\* A request for strategy s, with the document it read and what it was asked for.
Asking(pc, s, seen, asked) ==
    [pc |-> pc, s |-> s, seen |-> seen, asked |-> asked, k |-> None, then |-> None, list |-> {}]

\* A refresh of the cache of k, after it that of another stream, from a list.
Caching(pc, k, then, list) ==
    [pc |-> pc, s |-> None, seen |-> None, asked |-> None, k |-> k, then |-> then, list |-> list]

Idle == Caching("idle", None, None, {})

Init ==
    /\ docs = [s \in Strategies |-> None]
    /\ cache = [k \in Streams |-> None]
    /\ run = [t \in Tasks |-> Idle]
    /\ requests = 0 /\ faults = 0
    /\ last = docs
    /\ raced = FALSE /\ overtaken = FALSE

At(t, pc) == run[t].pc = pc

\* get_active_by_stream_key
Active(k) ==
    {<<s, docs[s]>> : s \in {x \in Strategies : docs[x] # None
                                /\ docs[x].stream = k /\ docs[x].status = "ACTIVE"}}

\* Mutant of Merged: the payload is dumped with its None.
MergedWithNone(d, c) == c

\* The payload, without its None, over the stored document.
Merged(d, c) == [f \in Fields |-> IF c[f] = None THEN d[f] ELSE c[f]]

-----------------------------------------------------------------------------
(* Requests. *)

Called(r) ==
    /\ At(r, "idle")
    /\ requests < MaxRequests
    /\ requests' = requests + 1

\* A list of one of these streams is about to be cached.
Overtakes(ks) == \E t \in Tasks : At(t, "set") /\ run[t].k \in ks

\* create_strategy, up to insert_one.
CreateStrategy(r, s, d) ==
    /\ Called(r)
    /\ docs[s] = None
    /\ docs' = [docs EXCEPT ![s] = d]
    /\ last' = [last EXCEPT ![s] = d]
    /\ overtaken' = (overtaken \/ Overtakes({d.stream}))
    /\ run' = [run EXCEPT ![r] = Asking("stored", s, None, None)]
    /\ UNCHANGED <<cache, faults, raced>>

\* update_strategy, up to the document it merges the payload into.
ReadStrategy(r, s, c) ==
    /\ Called(r)
    /\ docs[s] # None
    /\ run' = [run EXCEPT ![r] = Asking("write", s, docs[s], c)]
    /\ UNCHANGED <<docs, cache, faults, last, raced, overtaken>>

\* update writes every field, those the payload leaves out as they were read.
UpdateStrategy(r) ==
    LET s == run[r].s
        seen == run[r].seen
        asked == run[r].asked
        d == Merged(seen, asked)
    IN  /\ At(r, "write")
        /\ docs' = [docs EXCEPT ![s] = d]
        /\ last' = [last EXCEPT ![s] = [f \in Fields |->
                        IF asked[f] = None THEN @[f] ELSE asked[f]]]
        /\ raced' = (raced \/ docs[s] # seen)
        /\ overtaken' = (overtaken \/ Overtakes({docs[s].stream, d.stream}))
        /\ run' = [run EXCEPT ![r] = Asking("stored", s, seen, asked)]
        /\ UNCHANGED <<cache, requests, faults>>

\* set_status: the update looks for the identifier as a string and matches no
\* document, and the ObjectId is tried only if there is no such strategy at all.
SetStatus(r, s, status) ==
    /\ Called(r)
    /\ docs[s] # None
    /\ run' = [run EXCEPT ![r] = Asking("stored", s, None, status)]
    /\ UNCHANGED <<docs, cache, faults, last, raced, overtaken>>

-----------------------------------------------------------------------------
(* The cache. *)

Reading == UNCHANGED <<docs, cache, requests, faults, last, raced, overtaken>>

\* Mutant of ReadStored: only the new stream is refreshed.
ReadStoredNewOnly(r) ==
    /\ At(r, "stored")
    /\ run' = [run EXCEPT ![r] = Caching("list", docs[run[r].s].stream, None, {})]
    /\ Reading

\* The stored document is read back.  Its stream is refreshed, after an update
\* the stream it had before and its own if that is another.
ReadStored(r) ==
    LET own == docs[run[r].s].stream
        old == IF run[r].seen = None THEN own ELSE run[r].seen.stream
    IN  /\ At(r, "stored")
        /\ run' = [run EXCEPT ![r] =
                      Caching("list", old, IF own = old THEN None ELSE own, {})]
        /\ Reading

\* A processor finds no entry for its stream; an entry it finds it uses.
MissCache(p, k) ==
    /\ At(p, "idle")
    /\ cache[k] = None
    /\ run' = [run EXCEPT ![p] = Caching("list", k, None, {})]
    /\ Reading

ListActive(t) ==
    /\ At(t, "list")
    /\ run' = [run EXCEPT ![t] = Caching("set", run[t].k, run[t].then, Active(run[t].k))]
    /\ Reading

SetCache(t) ==
    /\ At(t, "set")
    /\ cache' = [cache EXCEPT ![run[t].k] = run[t].list]
    /\ run' = [run EXCEPT ![t] =
                  IF run[t].then = None THEN Idle ELSE Caching("list", run[t].then, None, {})]
    /\ UNCHANGED <<docs, requests, faults, last, raced, overtaken>>

\* Mutant of Expire: entries are set without a time to live.
ExpireNever(k) == FALSE /\ UNCHANGED vars

\* The time to live is not forever: TRADE_STRATEGY_CACHE_TTL_S > 0.
Expire(k) ==
    /\ cache[k] # None
    /\ cache' = [cache EXCEPT ![k] = None]
    /\ UNCHANGED <<docs, run, requests, faults, last, raced, overtaken>>

\* A call fails, or the process stops, and the task ends.  A write that was
\* carried out although its answer was lost ends at the next step.
CallFault(t) ==
    /\ ~At(t, "idle")
    /\ faults < MaxFaults
    /\ faults' = faults + 1
    /\ run' = [run EXCEPT ![t] = Idle]
    /\ UNCHANGED <<docs, cache, requests, last, raced, overtaken>>

-----------------------------------------------------------------------------

Request(r) ==
    \E s \in Strategies :
        \/ \E d \in Documents : CreateStrategy(r, s, d)
        \/ \E c \in Changes : ReadStrategy(r, s, c)
        \/ \E status \in Statuses : SetStatus(r, s, status)

Step(t) ==
    \/ UpdateStrategy(t)
    \/ ReadStored(t)
    \/ ListActive(t)
    \/ SetCache(t)

Next ==
    \/ \E r \in Callers : Request(r)
    \/ \E p \in Processors, k \in Streams : MissCache(p, k)
    \/ \E t \in Tasks : Step(t) \/ CallFault(t)
    \/ \E k \in Streams : Expire(k)

\* Whatever is under way goes on, and entries expire.
Fairness ==
    /\ \A t \in Tasks : WF_vars(Step(t))
    /\ \A k \in Streams : WF_vars(Expire(k))

Spec == Init /\ [][Next]_vars /\ Fairness

-----------------------------------------------------------------------------
(* Properties. *)

\* Every variable keeps the values the code can give it.
TypeOK ==
    /\ docs \in [Strategies -> Documents \cup {None}]
    /\ \A k \in Streams : cache[k] = None \/ cache[k] \subseteq Strategies \X Documents
    /\ \A t \in Tasks :
          /\ run[t].pc \in {"idle", "write", "stored", "list", "set"}
          /\ run[t].pc \in {"write", "stored"} => run[t].s \in Strategies /\ docs[run[t].s] # None
          /\ run[t].pc = "write" => run[t].seen \in Documents /\ run[t].asked \in Changes
          /\ run[t].pc \in {"list", "set"} => run[t].k \in Streams
          /\ run[t].then \in Streams \cup {None}
    /\ requests \in 0..MaxRequests /\ faults \in 0..MaxFaults
    /\ {raced, overtaken} \subseteq BOOLEAN

Consistent(k) == cache[k] = None \/ cache[k] = Active(k)

\* r is under way to refresh the cache of k from a reading still to be made, or
\* with one already made.
WillRefresh(r, k) ==
    \/ /\ At(r, "stored")
       /\ k = docs[run[r].s].stream \/ (run[r].seen # None /\ k = run[r].seen.stream)
    \/ run[r].pc \in {"list", "set"} /\ k \in {run[r].k, run[r].then}

\* "The cache is refreshed on write paths so runtime reads stay hot and
\* consistent": an entry that is not what MongoDB holds is about to be
\* refreshed, unless a call failed or one of the two races happened: a document
\* written from an older copy, which can move a strategy out of a stream nobody
\* refreshes, or a list cached after a write that came after its reading.
StaleHasCause ==
    \A k \in Streams :
        \/ Consistent(k)
        \/ \E r \in Callers : WillRefresh(r, k)
        \/ faults > 0 \/ raced \/ overtaken

\* "A long TTL is used as a safety net": whatever failed or raced, once the
\* writes have stopped every entry becomes what MongoDB holds and remains so.
CacheConverges == <>[](\A k \in Streams : Consistent(k))

\* As long as no update wrote from an older copy, every field of a strategy has
\* the value last asked for: no request undoes another's change.  (What
\* set_status is asked for does not count.)
ChangesStand == raced \/ docs = last

\* "Update strategy status and return the updated document."
StatusSetTakesEffect ==
    \A r \in Callers :
        At(r, "stored") /\ run[r].seen = None /\ run[r].asked # None =>
            docs[run[r].s].status = run[r].asked
=============================================================================
