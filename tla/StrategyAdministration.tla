----------------------- MODULE StrategyAdministration -----------------------
(***************************************************************************)
(* The administration of strategies: the trade strategies with their       *)
(* cache, and the document of an LP strategy.  The two have routes and     *)
(* collections of their own and share no state, so a behaviour exercises   *)
(* one of them and leaves the other as it starts.                          *)
(***************************************************************************)
EXTENDS TradeStrategyCache

CONSTANTS Default, LpParams, Links, Registries   \* of LpStrategyDocument

VARIABLES subject, \* which of the two
          lpDoc, lpRun, lpRequests, lpFaults, lpLast, lpReset, lpRaced

lpVars == <<lpDoc, lpRun, lpRequests, lpFaults, lpLast, lpReset, lpRaced>>

Lp == INSTANCE LpStrategyDocument
          WITH Params <- LpParams, doc <- lpDoc, run <- lpRun, requests <- lpRequests,
               faults <- lpFaults, last <- lpLast, reset <- lpReset, raced <- lpRaced

ASSUME AdminAssumption == None \notin Lp!Documents \cup Links

AdminInit ==
    /\ Init /\ Lp!Init
    /\ subject \in {"trade", "lp"}

AdminNext ==
    /\ \/ subject = "trade" /\ Next /\ UNCHANGED lpVars
       \/ subject = "lp" /\ Lp!Next /\ UNCHANGED vars
    /\ UNCHANGED subject

AdminSpec == AdminInit /\ [][AdminNext]_<<subject, vars, lpVars>> /\ (subject = "trade" => Fairness)

-----------------------------------------------------------------------------
(* Properties. *)

\* Every variable keeps the values the code can give it.
AdminTypeOK == TypeOK /\ Lp!TypeOK

\* A request undoes another's change in known ways only.  Of a trade strategy: one
\* of them wrote from a copy older than the document.  Of the LP strategy: a field
\* was written back from such a copy, or an upsert that does not name it reset it
\* to its default, as every registration does to the parameters.
NoChangeIsLost == ChangesStand /\ Lp!ChangesStand

\* "Do not overwrite existing fields with None": an LP strategy that was linked
\* to a vault stays linked, even when a request writes from an older copy.
LinkStays == Lp!LinkStays
=============================================================================
