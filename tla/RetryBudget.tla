----------------------------- MODULE RetryBudget -----------------------------
(***************************************************************************)
(* What the retry budget of a monitor promises (docs/architecture.md, "The *)
(* Circuit Breaker"): a job is started, all its retries included, fewer    *)
(* than Budget times, and never again.  CircuitBreaker implements it.      *)
(***************************************************************************)
EXTENDS Naturals

CONSTANTS Jobs, Budget

VARIABLE admitted       \* admitted[j]: executions created for job j

Init == admitted = [j \in Jobs |-> 0]

Admit(j) ==
    /\ admitted[j] + 1 < Budget
    /\ admitted' = [admitted EXCEPT ![j] = @ + 1]

Next == \E j \in Jobs : Admit(j)

Spec == Init /\ [][Next]_admitted
=============================================================================
