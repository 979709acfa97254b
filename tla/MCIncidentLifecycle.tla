------------------------ MODULE MCIncidentLifecycle ------------------------
(***************************************************************************)
(* The instance of IncidentLifecycle for TLC.                              *)
(***************************************************************************)
EXTENDS IncidentLifecycle

CONSTANTS m1, m2, b1, p1, i1, i2, i3
=============================================================================
