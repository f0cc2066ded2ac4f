-------------------------- MODULE MCCircuitBreaker --------------------------
(***************************************************************************)
(* Small configurations of the breaker.  The default configuration (five   *)
(* failures, three probes, three successes) is scaled down so that every   *)
(* threshold is still distinct from its neighbours.                        *)
(***************************************************************************)
EXTENDS CircuitBreaker, TLC

CONSTANT Auth  \* an error type with a strict threshold

MCErrorTypes == {Unknown, Auth}
MCReportedTypes == {Auth}
MCTypeThreshold == (Unknown :> 3) @@ (Auth :> 2)

Symmetry == Permutations(Requests)
=============================================================================
