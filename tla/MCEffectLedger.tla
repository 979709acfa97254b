--------------------------- MODULE MCEffectLedger ---------------------------
(***************************************************************************)
(* Instances of EffectLedger for TLC.                                      *)
(***************************************************************************)
EXTENDS EffectLedger, TLC

CONSTANTS e1, e2, h1, h2, f1, j1, j2

\* Two jobs, so that the scopes MONITOR and PROJECT differ; two attempts of
\* one job are to MONITOR what these are to PROJECT.
EachItsOwnJob == (e1 :> j1) @@ (e2 :> j2)

LedgerSymmetry == Permutations(Execs) \cup Permutations(Handlers)
=============================================================================
