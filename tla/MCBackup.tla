------------------------------ MODULE MCBackup ------------------------------
(* Instances of Backup for TLC. *)
EXTENDS Backup, TLC

CONSTANTS a, x

MCTokens == a :> {x}
Interchangeable == Permutations(Ids)
=============================================================================
