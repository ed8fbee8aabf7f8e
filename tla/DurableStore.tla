---------------------------- MODULE DurableStore ----------------------------
(***************************************************************************)
(* What a durable document store promises its client: a call takes effect  *)
(* once, as a whole, between its start and its return; a crash loses the   *)
(* call in progress or keeps all of it; an effect outlives every crash;    *)
(* and between calls the client sees exactly the effects so far.           *)
(***************************************************************************)
CONSTANTS Ids, Vals, None

VARIABLES
    up,      \* the store serves calls
    store,   \* the durable documents
    view,    \* what a client can read now; hidden during a call
    pending, \* the write in progress: <<id, value>>, or <<>>
    done     \* the pending write has taken effect

svars == <<up, store, view, pending, done>>

Hidden == [i \in Ids |-> None]

Init ==
    /\ up = FALSE /\ store = [i \in Ids |-> None] /\ view = Hidden
    /\ pending = <<>> /\ done = FALSE

Start ==
    /\ ~up /\ up' = TRUE
    /\ view' = store
    /\ UNCHANGED <<store, pending, done>>

Call(i, v) ==
    /\ up /\ pending = <<>>
    /\ pending' = <<i, v>> /\ view' = Hidden
    /\ UNCHANGED <<up, store, done>>

Effect ==
    /\ pending # <<>> /\ ~done
    /\ store' = [store EXCEPT ![pending[1]] = pending[2]]
    /\ done' = TRUE
    /\ UNCHANGED <<up, view, pending>>

Return ==
    /\ pending # <<>> /\ done
    /\ pending' = <<>> /\ done' = FALSE /\ view' = store
    /\ UNCHANGED <<up, store>>

Crash ==
    /\ up /\ up' = FALSE
    /\ pending' = <<>> /\ done' = FALSE /\ view' = Hidden
    /\ UNCHANGED store

Next ==
    \/ Start \/ Effect \/ Return \/ Crash
    \/ \E i \in Ids, v \in Vals \cup {None} : Call(i, v)

Safety == Init /\ [][Next]_svars

\* A call that is not cut off by a crash returns.
Spec == Safety /\ WF_svars(Effect \/ Return)
=============================================================================
