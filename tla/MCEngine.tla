------------------------------ MODULE MCEngine ------------------------------
(* Instances of the engine for TLC: documents, and two bodies that share a  *)
(* word.                                                                    *)
EXTENDS Recovery, TLC

CONSTANTS a, b, x, y

MCTokens == (a :> {x}) @@ (b :> {x, y})
Symmetry == Permutations(Ids)

\* The bounds of the instance together: at most two faults in a behaviour, and a
\* second and a third compaction only if the power stays on and no write fails.
FewFaults ==
    /\ crashes + powerLosses + ioErrors <= 2
    /\ powerLosses + ioErrors = 0 \/ compactions <= 1
MCSpec == Init /\ [][Next /\ FewFaults']_vars
=============================================================================
