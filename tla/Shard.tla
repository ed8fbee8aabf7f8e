-------------------------------- MODULE Shard --------------------------------
(***************************************************************************)
(* ShardRouter (src/shard.rs): documents spread over shards by consistent  *)
(* hashing of their ids, one engine per shard, and rebalance, which moves  *)
(* documents after the router was created anew with another shard map.     *)
(*                                                                         *)
(* An engine is what DurableStore says of it: a write is durable as a      *)
(* whole or not at all.  The router serves one call at a time (&mut self), *)
(* and rebalance is one step per engine call, because it can be cut off    *)
(* between any two of them.  Shards are numbered in the order of their     *)
(* ids.                                                                    *)
(***************************************************************************)
EXTENDS Naturals, FiniteSets, FiniteSetsExt

CONSTANTS
    Shards,      \* shard ids: numbers, ordered like the strings
    Ids,         \* document ids
    Vals,        \* document bodies
    None,        \* no document
    VNode,       \* VNode[s]: the hashes of shard s's virtual nodes
    Hash,        \* Hash[i]: the hash of document id i
    EmptyHash,   \* the hash of the empty id
    MaxCrashes,  \* bound: crashes inside a rebalance
    MaxErrors    \* bound: engine calls of a rebalance that fail

ASSUME ShardAssumptions ==
    /\ Shards \subseteq Nat /\ IsFiniteSet(Shards) /\ IsFiniteSet(Ids)
    /\ None \notin Vals \cup Ids
    /\ \A s \in Shards : VNode[s] \subseteq Nat /\ VNode[s] # {} /\ IsFiniteSet(VNode[s])
    /\ Hash \in [Ids -> Nat] /\ EmptyHash \in Nat
    /\ {MaxCrashes, MaxErrors} \subseteq Nat

VARIABLES
    files,    \* shards whose files exist
    disk,     \* disk[s]: the durable documents of shard s
    up,       \* there is a router
    map,      \* the shards in its shard map
    mem,      \* mem[s]: the documents in the map of the router's engine for s
    move,     \* the rebalance in progress
    \* History and bounds.
    content,  \* what clients have stored
    shadowed, \* documents stored while another shard had them
    crashes, errors

vars == <<files, disk, up, map, mem, move, content, shadowed, crashes, errors>>

-----------------------------------------------------------------------------
NoDocs == [i \in Ids |-> None]
Live(d) == {i \in Ids : d[i] # None}

\* The ring: virtual nodes with the same hash belong to the last shard added.
Ring(m) == [h \in UNION {VNode[s] : s \in m} |-> Max({s \in m : h \in VNode[s]})]

\* Mutant: the virtual node after the first one at or after the hash.
ShardAt_Skips(m, h) ==
    LET ring == Ring(m)
        first == {k \in DOMAIN ring : k >= h}
        after == {k \in first : k # Min(first)}
    IN  ring[Min(IF after = {} THEN DOMAIN ring ELSE after)]

\* shard_for: the first virtual node at or after the hash, or else the first.
ShardAt(m, h) ==
    LET ring == Ring(m)
        after == {k \in DOMAIN ring : k >= h}
    IN  ring[Min(IF after = {} THEN DOMAIN ring ELSE after)]
ShardFor(i) == ShardAt(map, Hash[i])

Still == [src |-> 0, dst |-> 0, todo |-> {}, doc |-> None, val |-> None, on |-> FALSE]
Ready == up /\ ~move.on /\ map # {}

Init ==
    /\ files = {} /\ disk = [s \in Shards |-> NoDocs]
    /\ up = FALSE /\ map = {} /\ mem = [s \in Shards |-> NoDocs] /\ move = Still
    /\ content = NoDocs /\ shadowed = {} /\ crashes = 0 /\ errors = 0

\* new, with_shards: an engine is opened for every shard of the map.
NewRouter(m) ==
    /\ ~up /\ up' = TRUE /\ map' = m
    /\ files' = files \cup m
    /\ mem' = [s \in Shards |-> IF s \in m THEN disk[s] ELSE NoDocs]
    /\ UNCHANGED <<disk, move, content, shadowed, crashes, errors>>

Gone == up' = FALSE /\ map' = {} /\ mem' = [s \in Shards |-> NoDocs] /\ move' = Still

\* The router is dropped between calls.
Close ==
    /\ up /\ ~move.on /\ Gone
    /\ UNCHANGED <<files, disk, content, shadowed, crashes, errors>>

-----------------------------------------------------------------------------
(* insert, update and delete go to the engine of the document's shard.     *)

Write(s, i, v) ==
    /\ disk' = [disk EXCEPT ![s][i] = v]
    /\ mem' = [mem EXCEPT ![s][i] = v]
    /\ content' = [content EXCEPT ![i] = v]
    /\ shadowed' = IF \E t \in Shards \ {s} : disk[t][i] # None
                   THEN shadowed \cup {i} ELSE shadowed
    /\ UNCHANGED <<files, up, map, move, crashes, errors>>

Insert(i, v) == Ready /\ Write(ShardFor(i), i, v)

\* A document without id goes to the shard of the empty id and is given the
\* new id i there.
InsertWithoutId(i, v) ==
    /\ Ready /\ content[i] = None /\ \A s \in Shards : disk[s][i] = None
    /\ Write(ShardAt(map, EmptyHash), i, v)

Update(i, v) == Ready /\ mem[ShardFor(i)][i] # None /\ Write(ShardFor(i), i, v)
Delete(i) == Ready /\ mem[ShardFor(i)][i] # None /\ Write(ShardFor(i), i, None)

\* get.
Get(i) == mem[ShardFor(i)][i]

-----------------------------------------------------------------------------
(* rebalance(src, dst).                                                    *)

\* A second engine is opened on the source and its documents dumped.
Rebalance(src, dst) ==
    /\ Ready /\ src \in files
    /\ move' = [Still EXCEPT !.src = src, !.dst = dst, !.on = TRUE,
                  !.todo = {i \in Live(disk[src]) : ShardFor(i) = dst}]
    /\ UNCHANGED <<files, disk, up, map, mem, content, shadowed, crashes, errors>>

\* The second engine deletes the document: the router's own does not know.
TakeDoc(i) ==
    /\ move.on /\ move.doc = None /\ i \in move.todo
    /\ disk' = [disk EXCEPT ![move.src][i] = None]
    /\ move' = [move EXCEPT !.doc = i, !.val = disk[move.src][i], !.todo = @ \ {i}]
    /\ UNCHANGED <<files, up, map, mem, content, shadowed, crashes, errors>>

\* Mutant: the target's map is changed but not its files.
PutDoc_MemoryOnly ==
    /\ move.on /\ move.doc # None
    /\ mem' = [mem EXCEPT ![move.dst][move.doc] = move.val]
    /\ move' = [move EXCEPT !.doc = None, !.val = None]
    /\ UNCHANGED <<files, disk, up, map, content, shadowed, crashes, errors>>

\* Mutant: the document is inserted through another engine on the target.
PutDoc_OtherEngine ==
    /\ move.on /\ move.doc # None
    /\ disk' = [disk EXCEPT ![move.dst][move.doc] = move.val]
    /\ move' = [move EXCEPT !.doc = None, !.val = None]
    /\ UNCHANGED <<files, up, map, mem, content, shadowed, crashes, errors>>

\* The router's engine for the target inserts it (shard_for only names shards
\* of the map, so that engine is always open).
PutDoc ==
    /\ move.on /\ move.doc # None
    /\ disk' = [disk EXCEPT ![move.dst][move.doc] = move.val]
    /\ mem' = [mem EXCEPT ![move.dst][move.doc] = move.val]
    /\ move' = [move EXCEPT !.doc = None, !.val = None]
    /\ UNCHANGED <<files, up, map, content, shadowed, crashes, errors>>

\* At the end the router's engine for the source is opened again.
Refresh ==
    /\ move.on /\ move.doc = None /\ move.todo = {}
    /\ mem' = IF move.src \in map THEN [mem EXCEPT ![move.src] = disk[move.src]] ELSE mem
    /\ move' = Still
    /\ UNCHANGED <<files, disk, up, map, content, shadowed, crashes, errors>>

\* The process dies inside rebalance.
Crash ==
    /\ move.on /\ crashes < MaxCrashes /\ crashes' = crashes + 1
    /\ Gone
    /\ UNCHANGED <<files, disk, content, shadowed, errors>>

\* A delete or an insert fails and rebalance returns with `?', before the
\* refresh of the source's engine.
Fail ==
    /\ move.on /\ errors < MaxErrors /\ errors' = errors + 1
    /\ move' = Still
    /\ UNCHANGED <<files, disk, up, map, mem, content, shadowed, crashes>>

RebalanceStep == (\E i \in Ids : TakeDoc(i)) \/ PutDoc \/ Refresh

Next ==
    \/ \E m \in SUBSET Shards : NewRouter(m)
    \/ Close
    \/ \E i \in Ids, v \in Vals : Insert(i, v)
    \/ \E i \in Ids, v \in Vals : InsertWithoutId(i, v)
    \/ \E i \in Ids, v \in Vals : Update(i, v)
    \/ \E i \in Ids : Delete(i)
    \/ \E src, dst \in Shards : Rebalance(src, dst)
    \/ RebalanceStep
    \/ Crash \/ Fail

Spec == Init /\ [][Next]_vars

-----------------------------------------------------------------------------
(* Properties.                                                             *)

\* Documents clients stored that no shard has: the one on its way, and those
\* that were on their way when a rebalance was cut off.
Missing == {i \in Live(content) : \A s \in Shards : disk[s][i] = None}

\* However routers are created, documents misrouted and rebalances cut off, a
\* cut-off rebalance loses at most the one document it had deleted from the
\* source and not yet inserted into the target.
LosesOnlyInFlight ==
    Cardinality(Missing) <= crashes + errors + (IF move.doc = None THEN 0 ELSE 1)

\* Every document is in the shard its id hashes to.
Balanced == \A s \in Shards : \A i \in Live(disk[s]) : s = ShardFor(i)

\* Once every document is in its shard, get returns what was stored last: also
\* for documents that were stored under another shard map or without an id.
\* (A document stored again while its old copy was in another shard is left
\* out: rebalance puts the old body over the new one.)
GetFindsStored ==
    Ready /\ Balanced => \A i \in Ids \ (shadowed \cup Missing) : Get(i) = content[i]

\* Consistent hashing: a router with one more shard expects every document
\* where it was, or in the new shard.
MinimalMovement ==
    [][~up /\ up' /\ map' # {} =>
         \A s \in Shards \ map', i \in Ids :
           ShardAt(map' \cup {s}, Hash[i]) \in {ShardAt(map', Hash[i]), s}]_vars
=============================================================================
