------------------------------- MODULE MCPool -------------------------------
(* Instances of Pool for TLC. *)
EXTENDS Pool, TLC

Symmetry == Permutations(Task) \cup Permutations(Ids)
=============================================================================
