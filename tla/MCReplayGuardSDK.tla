-------------------------- MODULE MCReplayGuardSDK --------------------------
(***************************************************************************)
(* Instances of ReplayGuardSDK for TLC: which call belongs to which        *)
(* execution.                                                              *)
(***************************************************************************)
EXTENDS ReplayGuardSDK, TLC

CONSTANTS e1, e2, h1, h2, f1, j1, c1, c2

OneJob == [e \in Execs |-> j1]

FailsClosed == [e \in Execs |-> "CLOSED"]
FailsOpen == [e \in Execs |-> "OPEN"]

For(e) == [exec |-> e, fp |-> f1]

\* Either execution makes the call once.
TwoExecutions == (c1 :> For(e1)) @@ (c2 :> For(e2))

\* guard.effect() with its defaults.
TimedAsUnknown == {[timed |-> TRUE, failedAsUnknown |-> TRUE, receipt |-> TRUE]}

\* The executions are alike, and so are the slots of the API.
Swap == (e1 :> e2) @@ (e2 :> e1) @@ (c1 :> c2) @@ (c2 :> c1)
SDKSymmetry == Permutations(Handlers) \cup {Swap}
=============================================================================
