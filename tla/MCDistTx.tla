------------------------------ MODULE MCDistTx ------------------------------
(* Instances of DistTx for TLC. *)
EXTENDS DistTx, TLC

Symmetry == Permutations(Thread) \cup Permutations(Participant) \cup Permutations(Op)
=============================================================================
