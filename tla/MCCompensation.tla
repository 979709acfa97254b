--------------------------- MODULE MCCompensation ---------------------------
(***************************************************************************)
(* Instances of Compensation for TLC: two attempts of a job.               *)
(***************************************************************************)
EXTENDS Compensation, TLC

CONSTANTS e1, e2, h1, h2, f1, f2, j1, c1, c2, s1, s2

OneJob == [e \in Execs |-> j1]

FailsClosed == [e \in Execs |-> "CLOSED"]
TwoExecutions == (c1 :> [exec |-> e1, fp |-> f1]) @@ (c2 :> [exec |-> e2, fp |-> f1])
TwoSteps == (c1 :> [exec |-> e1, fp |-> f1]) @@ (c2 :> [exec |-> e1, fp |-> f2])
InTurn == (e1 :> {}) @@ (e2 :> {e1})
Alone == [e \in Execs |-> {}]
Timed == {[timed |-> TRUE, failedAsUnknown |-> FALSE, receipt |-> TRUE]}
Untimed == {[timed |-> FALSE, failedAsUnknown |-> FALSE, receipt |-> FALSE]}

SagaSymmetry == Permutations(Handlers) \cup Permutations(Slots)
=============================================================================
