------------------------------ MODULE MCMirror ------------------------------
(***************************************************************************)
(* Instances of Mirror: interchangeable event streams.                     *)
(***************************************************************************)
EXTENDS Mirror, TLC

Symmetry == Permutations(Streams)

=============================================================================
