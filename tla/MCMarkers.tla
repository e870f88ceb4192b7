------------------------------ MODULE MCMarkers ------------------------------
(* Instances of Markers for TLC: the bounds and what may happen are in the   *)
(* configuration files.                                                      *)
EXTENDS Boundaries
=============================================================================
