------------------------------ MODULE MCCluster -----------------------------
(* Instances of Cluster for TLC. *)
EXTENDS Cluster, TLC

Symmetry == Permutations(Node) \cup Permutations(Thread)
=============================================================================
