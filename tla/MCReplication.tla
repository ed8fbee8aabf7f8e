--------------------------- MODULE MCReplication ---------------------------
(* Instances of Replication, and of the engine's refinement, for TLC. *)
EXTENDS Replication, EngineRefinement, TLC

CONSTANTS a, b, x, y

MCTokens == (a :> {x}) @@ (b :> {x, y})

\* Behaviours with crashes or with compactions, not with both: what was compacted
\* is not there again after a crash (engine.rs:68).
NotBoth == crashes = 0 \/ compactions = 0
MCSpec == RInit /\ [][RNext /\ NotBoth']_allVars /\ RFairness
=============================================================================
