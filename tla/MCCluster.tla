------------------------------ MODULE MCCluster ------------------------------
(* Instances of Cluster for TLC.  Slots, and streams, are interchangeable.   *)
EXTENDS Cluster, TLC

Symmetry == Permutations(Slots) \cup Permutations(Streams)
=============================================================================
