--------------------------- MODULE SignalLedger ---------------------------
(***************************************************************************)
(* What either execution pipeline promises about the signals it stores,    *)
(* whatever happens to its tasks, locks and retries: a signal is recorded  *)
(* once, the outside system may accept it any number of times after that,  *)
(* and the stored status only ever moves to SENT or FAILED, SENT never     *)
(* before an acceptance.  Nothing here knows about workers or faults.      *)
(***************************************************************************)
EXTENDS Naturals

CONSTANT Signals        \* the idempotency keys a run may generate

VARIABLES status,       \* status[s]: the "status" field of the stored document
          accepted      \* accepted[s]: how often the outside system carried s out

ledgerVars == <<status, accepted>>

Resolutions == {"SENT", "FAILED"}

Init ==
    /\ status = [s \in Signals |-> "ABSENT"]
    /\ accepted = [s \in Signals |-> 0]

Record(s) ==
    /\ status[s] = "ABSENT"
    /\ status' = [status EXCEPT ![s] = "PENDING"]
    /\ UNCHANGED accepted

Resolve(s, r) ==
    /\ status[s] # "ABSENT"
    /\ r = "SENT" => accepted[s] > 0
    /\ status' = [status EXCEPT ![s] = r]
    /\ UNCHANGED accepted

\* Acceptances become visible one at a time, except that a crash can cut
\* several requests of one process short at once.
Accept(S) ==
    /\ \A s \in S : status[s] # "ABSENT"
    /\ accepted' = [s \in Signals |-> IF s \in S THEN accepted[s] + 1 ELSE accepted[s]]
    /\ UNCHANGED status

Next ==
    \/ \E s \in Signals : Record(s)
    \/ \E S \in SUBSET Signals : Accept(S)
    \/ \E s \in Signals, r \in Resolutions : Resolve(s, r)

Spec == Init /\ [][Next]_ledgerVars
=============================================================================
