------------------------- MODULE MCLpSignalExecution -------------------------
(* Two signals of one vault and one of another; values for the constants     *)
(* that a configuration file cannot write.                                   *)
EXTENDS LpSignalExecution

\* "a" rotates with the gauge flow, "b" without it.
TwoVaults == [s \in Signals |-> IF s = 2 THEN "b" ELSE "a"]

\* All signals on the vault with the gauge flow, but the last on one that has
\* no dex.
OneVault == [s \in Signals |-> IF s = 3 THEN "c" ELSE "a"]
=============================================================================
