---------------------- MODULE MCStrategyAdministration ----------------------
(* Two streams and the payloads of update requests that matter: to another  *)
(* stream, out of the active ones, and of other parameters.                 *)
EXTENDS StrategyAdministration

CONSTANTS k1, k2, p1, p2

Unset == [stream |-> None, status |-> None, params |-> None]

Payload ==
    {[Unset EXCEPT !.stream = k2], [Unset EXCEPT !.status = "INACTIVE"],
     [Unset EXCEPT !.params = p2]}
=============================================================================
