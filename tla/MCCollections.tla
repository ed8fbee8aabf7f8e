---------------------------- MODULE MCCollections ----------------------------
(* Instances of Collections for TLC. *)
EXTENDS Collections, TLC

CONSTANTS i1, i2, put

MCBodies == {[kind |-> "string", key |-> 1], [kind |-> "number", key |-> 1],
             [kind |-> "string", key |-> 2], [kind |-> "none", key |-> 1]}
Interchangeable == Permutations(Ids)
=============================================================================
