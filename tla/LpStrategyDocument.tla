------------------------- MODULE LpStrategyDocument -------------------------
(***************************************************************************)
(* The document of one LP strategy in MongoDB and the four requests that   *)
(* write it.  Two of them write what the request holds; the vault link,    *)
(* sent by api-lp, and the status are set by reading the document and      *)
(* writing it back.  Every write is an upsert that leaves out what is      *)
(* None.                                                                   *)
(*                                                                         *)
(* "link" stands for dex and alias, "registry" for adapter, dex_router,    *)
(* tokens and tx_hash, which a request may leave out.  A request that      *)
(* leaves out the status or the parameters resets them to a default, and   *)
(* so it is with stream_key and is_public, which "status" stands for; what *)
(* every request must hold is left out.                                    *)
(***************************************************************************)
EXTENDS Naturals

CONSTANTS None,
          Default,      \* StrategyParams()
          Params,       \* other values of the parameters
          Links,        \* vaults a strategy may be linked to
          Registries,   \* values of the registry fields
          Callers,      \* requests that may run at once
          MaxRequests,  \* bound on the requests of a behaviour
          MaxFaults     \* bound on its failed calls

Statuses == {"ACTIVE", "INACTIVE"}
Fields == {"status", "params", "link", "registry"}
Documents == [status : Statuses, params : Params \cup {Default},
              link : Links \cup {None}, registry : Registries \cup {None}]

VARIABLES doc,       \* the document, None before the first upsert
          run,       \* run[r]: where request r is
          requests,  \* requests so far
          faults,    \* failed calls so far
          last,      \* history: the value of each field a request last named
          reset,     \* history: the default a request that does not name the
                     \* field wrote over it since, None if none did
          raced      \* history: the fields last written from an older copy

vars == <<doc, run, requests, faults, last, reset, raced>>

\* A request for one field, with the document it read.
Asking(pc, seen, field, value) == [pc |-> pc, seen |-> seen, field |-> field, value |-> value]

Idle == Asking("idle", None, None, None)

Empty == [f \in Fields |-> None]

Init ==
    /\ doc = None
    /\ run = [r \in Callers |-> Idle]
    /\ requests = 0 /\ faults = 0
    /\ last = Empty /\ reset = Empty
    /\ raced = {}

\* Mutant of Over: fields that are None are written too.
OverAll(old, set) == set

\* What is left of a document after $set without the fields that are None.
Over(old, set) ==
    [f \in Fields |-> IF set[f] # None THEN set[f] ELSE IF old = None THEN None ELSE old[f]]

-----------------------------------------------------------------------------

Called(r) ==
    /\ run[r].pc = "idle"
    /\ requests < MaxRequests
    /\ requests' = requests + 1

\* What a request names, and the defaults for what it does not.
Filled(asks, defaults) == [f \in Fields |-> IF asks[f] = None THEN defaults[f] ELSE asks[f]]

\* A request that writes what it names and the defaults.
Upserted(r, asks, defaults) ==
    LET set == Filled(asks, defaults)
        written == {f \in Fields : set[f] # None}
    IN  /\ Called(r)
        /\ doc' = Over(doc, set)
        /\ last' = [f \in Fields |-> IF asks[f] = None THEN last[f] ELSE asks[f]]
        /\ reset' = [f \in Fields |-> IF f \notin written THEN reset[f]
                                      ELSE IF asks[f] = None THEN defaults[f] ELSE None]
        /\ raced' = raced \ written
        /\ UNCHANGED <<run, faults>>

Asked(status, params, registry) ==
    [status |-> status, params |-> params, link |-> None, registry |-> registry]

\* upsert_params.
UpsertParams(r, status, params, registry) ==
    Upserted(r, Asked(status, params, registry), Asked("ACTIVE", Default, None))

\* upsert_registry_metadata: its request cannot name the parameters.
Register(r, status, registry) ==
    Upserted(r, Asked(status, None, registry), Asked("INACTIVE", Default, None))

\* update_vault_link and set_status, up to the write; without a document they end.
ReadDocument(r, field, value) ==
    /\ Called(r)
    /\ doc # None
    /\ run' = [run EXCEPT ![r] = Asking("write", doc, field, value)]
    /\ UNCHANGED <<doc, faults, last, reset, raced>>

\* The fields that writing back the copy seen sets to an older value.
Undone(seen) == {f \in Fields : seen[f] # None /\ doc[f] # seen[f]}

\* Mutant of WriteBack: a new entity is written, with the default parameters.
WriteBackFresh(r) ==
    /\ run[r].pc = "write"
    /\ doc' = Over(doc, [run[r].seen EXCEPT ![run[r].field] = run[r].value, !.params = Default])
    /\ last' = [last EXCEPT ![run[r].field] = run[r].value]
    /\ reset' = [reset EXCEPT ![run[r].field] = None]
    /\ raced' = (raced \cup Undone(run[r].seen)) \ {run[r].field}
    /\ run' = [run EXCEPT ![r] = Idle]
    /\ UNCHANGED <<requests, faults>>

\* The whole document is written back, with the one field set.
WriteBack(r) ==
    /\ run[r].pc = "write"
    /\ doc' = Over(doc, [run[r].seen EXCEPT ![run[r].field] = run[r].value])
    /\ last' = [last EXCEPT ![run[r].field] = run[r].value]
    /\ reset' = [reset EXCEPT ![run[r].field] = None]
    /\ raced' = (raced \cup Undone(run[r].seen)) \ {run[r].field}
    /\ run' = [run EXCEPT ![r] = Idle]
    /\ UNCHANGED <<requests, faults>>

\* A call fails, or is refused for the name and the symbol of another strategy:
\* nothing is written.  Of a write that was applied and raised the document shows
\* what WriteBack shows.
WriteFault(r) ==
    /\ run[r].pc = "write"
    /\ faults < MaxFaults
    /\ faults' = faults + 1
    /\ run' = [run EXCEPT ![r] = Idle]
    /\ UNCHANGED <<doc, requests, last, reset, raced>>

Request(r) ==
    \/ \E status \in Statuses \cup {None}, params \in Params \cup {Default, None},
          registry \in Registries \cup {None} : UpsertParams(r, status, params, registry)
    \/ \E status \in Statuses \cup {None}, registry \in Registries \cup {None} :
          Register(r, status, registry)
    \/ \E link \in Links : ReadDocument(r, "link", link)
    \/ \E status \in Statuses : ReadDocument(r, "status", status)

Next == \E r \in Callers : Request(r) \/ WriteBack(r) \/ WriteFault(r)

Spec == Init /\ [][Next]_vars

-----------------------------------------------------------------------------
(* Properties. *)

\* Every variable keeps the values the code can give it.
TypeOK ==
    /\ doc \in Documents \cup {None}
    /\ \A r \in Callers :
          /\ run[r].pc \in {"idle", "write"}
          /\ run[r].pc = "write" => run[r].seen \in Documents /\ doc # None
    /\ requests \in 0..MaxRequests /\ faults \in 0..MaxFaults
    /\ raced \subseteq Fields

\* A field has the value a request last named, and loses it in two ways only: a
\* request that does not name the field resets it to its default, or one writes
\* it back from a copy older than the value, which spares the other fields.
ChangesStand ==
    doc # None =>
        \A f \in Fields \ raced : doc[f] = IF reset[f] = None THEN last[f] ELSE reset[f]

\* "do not overwrite existing fields with None": a strategy that was linked to a
\* vault stays linked, even when a request writes from a copy without the link.
LinkStays == [][doc # None /\ doc.link # None => doc'.link # None]_vars
=============================================================================
