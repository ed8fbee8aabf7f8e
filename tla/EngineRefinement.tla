-------------------------- MODULE EngineRefinement --------------------------
(* Engine implements DurableStore: the durable documents are what recovery  *)
(* would read from the WAL, and a write takes effect with its commit flag.  *)
EXTENDS Engine

\* From a compaction on the WAL no longer has them all.
Stored == IF compactions = 0 THEN Recovered(wal) ELSE content

InCall == call.op \in Mutations

Durability == INSTANCE DurableStore WITH
    up <- mode = "up",
    store <- Stored,
    view <- IF mode = "up" /\ ~InCall THEN docs ELSE NoDocs,
    pending <- IF InCall THEN <<call.id, call.val>> ELSE <<>>,
    done <- call.step \in {"apply", "publish", "body"}

\* Through crashes at any step, or compactions without a crash (engine.rs:68), the
\* engine is a durable store with atomic writes, and every call it starts returns
\* (engine.rs and wal.rs: "The WAL guarantees durability and atomicity").
ImplementsDurableStore == Durability!Spec
=============================================================================
