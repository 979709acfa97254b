--------------------------- MODULE MCLegacyGuard ---------------------------
(***************************************************************************)
(* The instance of LegacyGuard for TLC: the first execution makes the      *)
(* request, a second one of the same job makes it again.                   *)
(***************************************************************************)
EXTENDS LegacyGuard, TLC

CONSTANTS e1, e2, h1, h2, f1, j1, c1, c2

OneJob == [e \in Execs |-> j1]

FetchAgain == (c1 :> [exec |-> e1, fp |-> f1]) @@ (c2 :> [exec |-> e2, fp |-> f1])

InMonitor == [c \in Calls |-> "MONITOR"]

\* The first execution fails open.
FirstFailsOpen == [e \in Execs |-> IF e = e1 THEN "OPEN" ELSE "CLOSED"]

LegacySymmetry == Permutations(Handlers)
=============================================================================
