--------------------------- MODULE MCPythonGuard ---------------------------
(***************************************************************************)
(* The instance of PythonGuard for TLC: an operation with an effect of its *)
(* own, and a second thread.                                               *)
(***************************************************************************)
EXTENDS PythonGuard, TLC

CONSTANTS e1, h1, f1, f2, j1, c1, c2, c3

OneJob == [e \in Execs |-> j1]

FailsOpen == [e \in Execs |-> "OPEN"]

For(f) == [exec |-> e1, fp |-> f]

\* The second thread makes the call of the first again.
Threads == (c1 :> For(f1)) @@ (c2 :> For(f2)) @@ (c3 :> For(f1))

Nested == (c1 :> ItsThread) @@ (c2 :> c1) @@ (c3 :> ItsThread)

\* effect() with its defaults.
Defaults == {[timed |-> TRUE, failedAsUnknown |-> TRUE, receipt |-> FALSE]}
=============================================================================
