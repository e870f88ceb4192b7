----------------------------- MODULE MCDispatch -----------------------------
(***************************************************************************)
(* Dispatch for TLC: the destinations are interchangeable model values.    *)
(***************************************************************************)
EXTENDS Dispatch, TLC

DestSymmetry == Permutations(Dests)
=============================================================================
