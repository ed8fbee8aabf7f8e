------------------------------ MODULE MCShard ------------------------------
(* An instance of Shard for TLC: three shards whose virtual nodes interleave *)
(* and once collide, two documents, one of them beyond the last node.        *)
EXTENDS Shard, TLC

CONSTANTS d1, d2

MCVNode == (1 :> {3, 6}) @@ (2 :> {4, 6}) @@ (3 :> {2})
MCHash == (d1 :> 1) @@ (d2 :> 7)
Symmetry == Permutations(Vals)
=============================================================================
