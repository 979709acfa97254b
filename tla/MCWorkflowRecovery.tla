------------------------- MODULE MCWorkflowRecovery -------------------------
(***************************************************************************)
(* Instances of WorkflowRecovery for TLC.                                  *)
(***************************************************************************)
EXTENDS WorkflowRecovery, TLC

CONSTANTS e1, e2, h1, f1, f2, j1, c1, c2, c3, p1, p2

OneJob == [e \in Execs |-> j1]

FirstFailsOpen == [e \in Execs |-> IF e = e1 THEN "OPEN" ELSE "CLOSED"]

Does(e, f) == [exec |-> e, fp |-> f]

\* One step twice; or the first step of a workflow twice, and its second in e2.
StepTwice == (c1 :> Does(e1, f1)) @@ (c2 :> Does(e1, f1))
StepsTwice == StepTwice @@ (c3 :> Does(e2, f2))

\* Timed, and FAILED at once when it throws; or as effect() does by default.
Timed == {[timed |-> TRUE, failedAsUnknown |-> FALSE, receipt |-> TRUE]}
Untimed == {[timed |-> FALSE, failedAsUnknown |-> TRUE, receipt |-> TRUE]}

RecoverySymmetry == Permutations(Passes)
=============================================================================
