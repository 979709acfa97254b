-------------------------- MODULE MCCircuitBreaker --------------------------
(***************************************************************************)
(* Instances of CircuitBreaker for TLC: who runs which job.                *)
(***************************************************************************)
EXTENDS CircuitBreaker, TLC

CONSTANTS n1, n2, j1, anon, r1, r2

JobAndAnonymous == (n1 :> j1) @@ (n2 :> anon)

FourAndOne == (n1 :> 4) @@ (n2 :> 1)

BreakerSymmetry == Permutations(Requests)
=============================================================================
