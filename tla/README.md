# CassetteDB: TLA+ models, model checks and proofs

CassetteDB is an embedded document database in Rust: a single-file engine with a
write-ahead log, an inverted index and a change log, and around it a connection
pool with TCP and HTTP servers, a Raft-based cluster, sharding, two-phase commit
and backups. This directory models the parts in which order, failure and
concurrency decide correctness, checks them with TLC on small instances, and
proves with TLAPS, for every instance, nearly every safety property that is checked:
those of engine, recovery, follower, backup, pool, two-phase commit, Raft, cluster,
sharding, transaction log and collection store.

Paths below are relative to the crate's `src/` directory (`engine.rs` is
`src/src/engine.rs` of the repository as `PROJECT.json` counts paths).

## 1. Inventory

| Component | State it keeps | Operations | What makes it correct |
|---|---|---|---|
| Engine (`engine.rs`) | map of documents, index, handles of three files | open, insert, update, delete, get, search, query, compact | acknowledged = recoverable; uncommitted = invisible; search and map agree; compact loses nothing |
| WAL, record API (`wal.rs`) | records with a commit flag | append_record, commit_record, iter_committed, reset | only a commit flag makes an operation durable |
| WAL, transaction entries (`wal.rs`) | begin/op/commit/abort entries | begin, append, commit, abort, replay | replay yields exactly the committed transactions |
| Page storage (`storage.rs`) | header (page count, document count, free list), pages | allocate_page, write_page, sync_header | header describes the pages; synced before the next step |
| Inverted index (`index.rs`) | word → ids | index_document, remove_document, search | complete and exact with respect to the map |
| Change log (`replication.rs`) | numbered change records | append, reset, compute_next_sequence; Follower::poll | numbers without gaps; a follower that read all equals the primary |
| Raft node (`raft.rs`) | term, vote, log; role, votes, indexes (two mutexes) | start_election, handle/record of votes and appends, propose, apply_committed, remove_peer | one leader per term; committed entries agree; no deadlock |
| Cluster (`cluster.rs`) | configuration in memory and in `cluster.json`, cooldown, health map, a Raft node | init, join, load, leave, add/remove_node, failover, set_failover_enabled, tick | one primary per configuration; file, memory, proposed commands and tracked peers agree |
| Shard allocation (`cluster.rs`) | none | allocate, reassign_failed_node | every shard with a healthy node, evenly |
| Two-phase commit (`dist_tx.rs`) | in-memory records with votes and phase | begin, add_operation, prepare, commit, abort, recover | one decision; committed = applied everywhere |
| Sharding (`shard.rs`) | shard map, one engine per shard | route, insert/get/update/delete, rebalance, reassign | a document is in exactly one shard, where get looks |
| Pool and servers (`server/*.rs`) | semaphore, idle engines | acquire, release, one task per client | permits conserved; clients see what was acknowledged |
| Backup (`backup.rs`) | copies of main file and WAL, a description | create, restore, list, delete | a restored snapshot is a state the database was in |
| Collections (`db.rs`) | JSON collections, inverted and secondary indexes, the saved file | insert, update, delete, create/drop_index, compact, save, open, open_with_wal, queries | indexed queries equal a scan; a completed save survives |
| Query language (`query.rs`) | none | parse, matches | the answer is what the text spells |
| C library and Go binding (`libcassettedb/src/lib.rs`, `bindings/go`) | a last error per OS thread, handles | open, close, insert, get, update, delete, query, dump, compact, last_error | a caller reads its own error |
| Multi-database, auth (`server/multidb.rs`, `server/auth.rs`) | maps behind one lock each | create, drop, list; add, revoke, validate | |
| Tantivy search, CLI, other bindings, crash reporter, feedback, config migration | none that is shared | | |

Interactions. The engine owns WAL, page file, index and change log and calls them
in a fixed order; a follower reads the change log file from another process. The
servers share one pool, whose engines share the database's files. A cluster node
wraps a Raft node behind an `Arc`; nodes meet only through the configuration file
one hands another when it joins. A local participant of a distributed transaction
writes to the shard router's engines. A backup runs in another process than the
engine whose files it copies. The Go binding calls a C function and, if it failed,
calls a second one for the message.

Hard behaviours: a crash, power loss or failed write between any two file writes
(engine, change log, compact); polls that meet a half-written record; several
engines on one file; lost, repeated and reordered Raft messages and nodes
reloaded without their state; two mutexes taken in two orders; read-modify-write
of transaction records without a lock; cluster calls that lock configuration, file
and Raft node one after the other; files copied while they change; a log whose
transaction ids start over; a goroutine that changes threads. `PROJECT.json` lists each under `hazards`
at the line where it bites, with the properties that would catch it.

## 2. Modules and how they correspond to the code

| Module | Models |
|---|---|
| `Engine` | `CassetteEngine` over WAL, pages, index and change log |
| `Recovery` (extends `Engine`) | the recovery loop of `open`, record by record, as a reference for `Engine!Recovered` |
| `DurableStore` | abstract: a store with atomic, durable writes and one call at a time |
| `EngineRefinement` | the refinement mapping from `Engine` to `DurableStore` |
| `EngineProofs` | TLAPS proofs about `Engine`, its refinement of `DurableStore`, and the modules that extend it: `Recovery`, `Replication`, `Backup` |
| `Replication` (extends `Engine`) | a `Follower` polling the change log the engine writes |
| `Raft` | `RaftNode`s and the messages between them; `ClusterNode::load` as restart |
| `RaftLocks` | the two mutexes of one `RaftNode` shared by threads |
| `DistTx` | `TwoPhaseCoordinator`, `DistTxLog`, `LocalParticipant::prepare` |
| `Pool` | `DbPool::acquire` / `ConnectionPool::release`, the server tasks, and the files their engines share |
| `Shard` | `ShardRouter`: consistent hashing, one engine per shard, `rebalance` |
| `Cluster` | `ClusterNode`, `ClusterManager` and their files, `ShardAllocator`, the cluster commands of the CLI |
| `Backup` (extends `Engine`) | snapshots of the files an engine works on |
| `TxWal` | the WAL's transaction entries and `replay` |
| `Collections` (extends `TxWal`) | `Cassette` and `Collection`: documents, indexes, queries, `save`, `open`, `open_with_wal` |
| `Query` | parsing and matching of query texts |
| `CApi` (extends `Query`) | the C library and the Go binding |
| `Induction` | induction over numbers and recurrences, for the proofs |
| `PoolProofs`, `DistTxProofs`, `RaftProofs`, `ClusterProofs`, `ShardProofs`, `CollectionsProofs` (with `TxWal`) | TLAPS proofs about the modules they are named after |
| `MC*` | instances for TLC |

**Engine.** A call takes `&mut self`, so calls do not interleave; but every file
write is a step, since the process can die or the write can fail between any two.
`call` holds the call being served and its next step. `insert`, `update` and
`delete` are `AppendRecord`, `CommitRecord`, `Apply` (index, map and header count,
in memory plus one header write), `PublishLength`, `PublishBody`, in this order;
`delete` takes the document out of the map before the first of them, as the code
does. `compact` is `AllocateHeader`/`AllocateZero` in a loop, `WriteChunk` per page,
`WriteTrailer`, `ResetWal`, `ResetFeed`. The header's page count is kept in memory
(`pageCount`) and on disk (`numPages`); a failed write leaves the first ahead. `OpenOk` and `OpenFails` are `open`:
recovery from the WAL, the main file only if that gave no document, then the
change log's next number. A body is a member of `Vals`; `Tokens[v]` are its words.
The index is a set of (word, id) pairs. A page is "before the end of file", zero, a
part of the JSON image, or a trailer; the payload length is counted in documents.
`content` is a history variable: the committed operations applied in order.

`overruled` are the documents whose committed delete the last `open` undid by loading
an image, `feedFailed` says that the change log was left with a wrong number or a part
of a record.

Failures: `Crash` (the process dies or closes; files keep what was written, with
`TornWrites` possibly part of a WAL record), `PowerLoss` (the WAL is only flushed,
never synced except by `reset`, so any suffix and any flags can go; the other
files are synced at every write) and `IoError`: any write or sync of a mutation or a
compaction fails and the call returns with `?`. It has one operator per place:
`FailedLogWrite` (nothing, a part of the record, or all of it is in the WAL),
`FailedApply` (the document count, behind the commit flag), `FailedPublish` (no length;
a length without its record; all of the record, but its number is used again),
`FailedAllocation`, `FailedPage`, `FailedWalReset`, `FailedFeedReset` (the log is empty
but its numbers go on). Writes of a few bytes (a length, a flag, the header) and of a
page are taken to fail as a whole; in a failing write of a record any part may be
written. What stands behind a part of a change record is read at the wrong place:
`Scans` lets `open` find any of those records.

**Replication.** `PollOpen` is `ReplicationLog::open` inside `poll`, `PollRead` the
loop over the records. The engine may take any number of steps in between. The
position moves record by record, and an error at the half-written tail drops the
records collected: both are in `PollRead`; what a poll without an error returns is
applied to `replica` (`Deliver`). History: `got` (the numbers of the changes polls
returned), `torn` (some poll met a half-written record).

**Raft.** Each method runs under both mutexes and is one step. `msgs` holds every
message ever produced and never loses one: not delivering it is loss, delivering
it twice is duplication, any order is allowed. `heartbeat_for` builds requests
without entries; the caller puts entries in (as the tests do), so `SendAppend`
sends any number of entries from `next_index` on. Elections may start at any time,
which covers every timer. `Restart` is `ClusterNode::load`, which builds a new
`RaftNode` and reads nothing back. `ClusterNode::tick` reads the role and then builds one
request after another, each time with the locks taken anew, and `heartbeat_for` looks
at no role: `SendAppend` asks only that the node led at some time (`led`). History:
`deposed` (a request was built by a node that led no longer), `skewed` (a follower
accepted entries past a gap, a success of an earlier term was counted, or a commit
index was applied to entries its message did not cover).

Of `tick` one thing is left out: where a transport would send the vote requests, it
answers them itself, on behalf of every peer (`cluster.rs:415-424`). A node that runs
by `tick` alone so elects itself whatever the others do, and no property about
elections holds of it. The module is about the nodes with a transport that the
comment there describes.

**RaftLocks.** A method is the sequence of its locks and unlocks. The methods that
lock the persistent state first are one pattern, `propose` and `apply_committed`,
which lock the volatile state first, the other.

**DistTx.** `prepare`, `commit`, `abort` and `add_operation` copy the record out of
the log, change the copy and write it back: `Get...` and `PutBack` are two steps,
because the mutex is free in between. History: `decided` (what callers were told),
`raced` (a changed record was overwritten), `late` (the operations changed, or the id was
begun again, after a request had been built). `BuildRequest` is the caller's copy of
the operations for one participant; `ParticipantPrepare` applies those of the request,
which may be lost, late or repeated.

**Pool.** `AcquirePermit`, `PopIdle` and `OpenEngine` are `acquire`; `PushEngine` and
`DropPermit` are `release`; `Fail` is every return with `?`, with the files as the
failing step left them: unchanged, with a part of a record (`torn`), with the record
committed although the call failed (an error of the header or the change log, behind
the commit flag), with half an image, or with the WAL already dropped. An insert or
delete is `SeekEnd` and `WriteRecord`, since the engines of a pool append to the same
file without a lock; a compaction is `BeginImage`, `EndImage` (in between the main file
is no whole image) and `CompactReset` (the WAL is emptied). What an `open` makes of a
torn WAL, or of the pages of a compaction, is the subject of `Engine`; here it may be
anything. History: `acked`, `unsure` (documents whose last call failed behind the commit
flag), `shared` (two tasks held a permit at once), `raced` (two appends overlapped, or an
engine compacted without all that was acknowledged, or while another appended or
compacted).

**Shard.** The router's engines are taken as `DurableStore` promises: a write is
durable as a whole or not at all. `disk` is what each shard's files hold, `mem` what
the router's own engine for the shard has in its map; the two differ because
`rebalance` works on a second engine of the source. `NewRouter` builds a router over
any set of shards (`new`, `with_shards`), `Close` drops it. `Insert`,
`InsertWithoutId`, `Update` and `Delete` are one step each; `rebalance` is
`Rebalance` (open and dump), `TakeDoc` and `PutDoc` per document, and `Refresh`
(reopen the source), with `Crash` and `Fail` possible between any two. The ring is
computed from `VNode`, with collisions and wrap-around. History: `content` (what
clients stored) and `shadowed` (stored again while another shard held a copy).

**Cluster.** A call is the steps between its locks: `ChangeConfig` (under the
configuration's mutex), `SaveConfig` or `SaveFails`, `TrackPeer`, `Propose`,
`StartCooldown`. Calls of several threads on one node interleave at these steps, and
leadership comes (`BecomeLeader`) and goes (`StepDown`) between any two. Of the Raft
node only leadership, fixed peers, tracked peers and proposed commands are kept;
module `Raft` is about the rest. `Stop` ends the process, possibly inside the write of
`cluster.json`; `CliFailover` and `CliLeave` are the commands that work on a node's
directory from another process. Nodes share no state in the code but the file a
joining node is handed, so the instance runs one node at a time next to the others'
files. History: `dirty` (the file was not written from this node's memory), `skewed` (a
call failed half way or two membership calls overlapped), `seconded`, `base`, `removed`.

**Backup.** `CreateSnapshot`, `CopyMain`, `CreateWalCopy`, `CopyWal` and `WriteMeta` are
`create_snapshot`, two pages (one where the file ends) or some records at a time. A read
of the WAL may end inside a record, also the one being appended, and the copy may stop
there: `tail` is that part. `files` says which of the database's files exist: a database
without a WAL (as after the restore of a main copy alone) is copied without one.
`RestoreSnapshot`, `RestoreMain` and `RestoreWal` (or `RestoreWalCutOff`) are
`restore_snapshot`, which removes the WAL if the snapshot has none; `RemoveFile` is each
removal of `delete_snapshot`; `JobCutOff` ends any of them. Engine steps come in
between, except during a restore, whose caller has to stop the engine; the machine
keeps power. A
snapshot's id is the second it was made in. History: `taken` (what the database showed, and what happened, during
each copy) and `restored`.

**TxWal, Collections.** The log is its sequence of entries; `Read` is one turn of the
loop of `replay`, `ReadAll` the loop. `Collections` has one collection, its list of documents with deleted
ones in place, an inverted index of (word, id) pairs and one secondary index from
keys to lists of ids. `save` is `SaveTemp` and `SaveRename`; `OpenWithWal` and
`OpenWithWalSave` are `open_with_wal`, which opens the database file itself as the log.
A client may use the log in any order, and die anywhere, also inside the write of an
entry, whose part then stays in the log at position `torn` with later entries behind it;
`append` only flushes, so when the machine dies (`ReopenAfterPowerLoss`) any number of
the last entries is gone. Entries of a transaction that was open, or may have lost its
end with the machine, count as left open (`dangling`), even if none of them is on the
disk. History: `views` (what was committed when each entry was written).

**Query, CApi.** A query text is a sequence of tokens: comparisons, searches, `and`,
`or`, parentheses, the star, other words. `Parse` cuts it the way `parse` does, with
RECURSIVE operators (no theorems here). In `CApi` goroutines run on threads; a C
function is one step on one thread and leaves its message there, `AskError` is the
binding's second call, `Migrate` is the Go scheduler. `got` is the message the caller was
given, `last` what its last call returned, `answer` (history) what a query found.

Operators named `X_Suffix` are wrong variants of `X` ("Mutant: ..."). They are used
nowhere; each run's properties are known to fail when `X` is replaced by one.

## 3. Runs

Passing runs (each a few seconds to three minutes):

- **engine_faults**: two documents, two bodies with overlapping words, two WAL
  records, and up to two faults in a behaviour, each at any step: a crash, one power loss,
  one failed write or sync. With a power loss or a failed write there is one compaction at
  most, without there are three (`FewFaults` in `MCEngine`). Checks the inductive invariant
  of the proofs (`EngineInv`);
  `DurableThroughCrashes`; `SearchComplete`; `FeedGapless`; `FeedOnlyCommitted` (no
  change reaches followers that recovery would undo); `ReplayIsLastCommitted` (the
  code's loop against the definition used elsewhere); `ImageBeforeTruncation`;
  `RecentWritesSurvive` (the older image does not win over the WAL, unless that has
  deletes only); `OnlyCommitIsDurable`. Two records are enough for an
  overwrite, an update and a delete of the same document; since compaction empties
  the WAL, four mutations fit in one behaviour, or eight with three compactions. Two
  faults let every pair of them meet. A first compaction leaves an image that `open`
  never reads (it takes the last data page for the trailer); of a later one that needs
  fewer pages it does, hence the three.
- **replication_sync**: a follower polling at any moment, and either two crashes or a
  compaction, not both: what was compacted is not there again after a crash
  (section 5), so the engine is no durable store then. `InSyncWithoutFaults`;
  `EveryChangeDelivered` (what is in the log is returned by some poll, unless a poll met a
  half-written record, a compaction came, or a crash between the two writes of a change
  record left a log that nobody can open); `CallReturns` (compact's allocation loop
  ends); `ImplementsDurableStore`: the engine implements `DurableStore`, liveness
  included, and the effect of a write is its commit flag.
- **raft_all**: three nodes, two terms, two elections, logs of two entries, one
  AppendEntries request (delivered any number of times), one removed peer or
  reloaded node. `ElectionSafetyUnlessReloaded`, `OneCommandPerSlot`,
  `CommittedIsReplicated`, `LeaderAppendOnly`. Two entries let a follower hold a
  conflicting tail and a leader commit behind a gap. Larger bounds (two requests) did
  not fit in five minutes. The last two properties leave out behaviours in which a
  deposed leader's tick built a request.
- **disttx_races**: two threads, two participants, one operation, one restart.
  `PreparedMeansAllYes` (of the records and of the copies threads hold), `OneDecision`,
  `CommittedIsApplied`.
- **pool_bound**: three tasks, two permits, two documents, two WAL records, two
  compactions, errors at every step. `PoolBounded`, `FilesHoldAcknowledged`,
  `AloneIsFresh`. Three tasks on two permits let one wait while two interfere; two
  compactions let two overlap.
- **pool_serves**: the same with one document, one record and one compaction, under
  `FairSpec`. `EveryRequestServed`.
- **shard_all**: three shards whose virtual nodes interleave and collide, two
  documents, one of them past the last virtual node so that the ring wraps, the
  empty id on the collision, one crash and one failed engine call. `LosesOnlyInFlight`,
  `GetFindsStored`, `MinimalMovement`. Three shards let one be added while two others
  share the documents; two documents let a rebalance be cut off between them.
- **cluster_all**: three nodes, from nothing or from a formed cluster, two threads, two
  node starts, two calls, and one failed save, process end or command of the CLI.
  `OnePrimary`, `FileIsCurrent`, `ConfigFollowsLog`, `MembersTracked`, `ShardsSpread` (4 and
  9 shards: both round-robin turns wrap; the healthy nodes in every order). Two calls
  overlap in every way; a third thread adds only longer queues for the same mutex.
- **backup_all**: two documents, one body, two pages, two mutations, one compaction,
  one crash, two seconds, two backup calls (a snapshot and its restore or deletion,
  or two snapshots of one second). `RestoreIsAMoment`, `RestoredDocsWereStored`,
  `RestorableHasWal`. The engine's own writes do not fail here. Once the second call has begun the engine is only opened again,
  since nothing it does then can be restored any more.
- **collections_all**: two ids, two keys, strings, numbers and bodies without the
  field, seven calls, two faults. `QueriesExact`, `SavedSurvives`, `ReplayIsCommitted`.
  Seven calls fit a transaction left open by a crash, a second one with the same
  number, and an indexed document that is updated and deleted. The two faults are
  crashes of the process, also inside the write of an entry, or of the machine, which
  takes any number of the last entries with it.
- **capi_all**: two callers, two threads, three calls; a file with every mix of three
  operands; every query of up to three operands and malformed ones of up to two
  tokens. `QueryMeansCnf`.

One run ends in a counterexample, which shows that the code does not do what a
comment of the repository says (details under `findings`):

- **locks_abba**: `start_election` and `apply_committed` deadlock (`NoDeadlock`).

Deadlock checking is off in all runs: the bounds on calls and faults, a database
that refuses to open, and idle clients let every one of these systems stop
legitimately. Symmetry is used only in runs without liveness properties.

**Fairness.** `RFairness` of `Replication` has weak fairness of `CallStep`: a thread that
serves a call keeps running, nothing in a call blocks. It also has weak fairness of the
follower's two steps: it keeps polling. `Pool!FairSpec` has weak
fairness of the tasks' own steps and strong fairness of `AcquirePermit`, because
tokio's semaphore serves waiters in order. Opens, calls, crashes, elections and
message deliveries have no fairness anywhere.

## 4. Proofs

Every theorem holds for every value of the constants that satisfies the `ASSUME` of
its module: sets of ids, nodes, tasks or shards are finite where the code counts
them, the markers (`None`, `Nil`, `NoNode`, ...) are none of the values they stand
beside, and bounds are natural numbers. No proof uses a bound as a bound. A module's
`Invariance` states its inductive invariant; the other theorems follow from it.

| Module | Theorems, and the property each one states |
|---|---|
| `EngineProofs` (engine) | `TypeCorrect`; `Invariance` (`EngineInv`); `DurableCorrect` (`DurableThroughCrashes`); `SearchCorrect` (`SearchComplete`); `FeedCorrect` (`FeedGapless`); `OnlyCommits` (`OnlyCommitIsDurable`); `FeedBehindWal` (`FeedOnlyCommitted`); `ImageFirst` (`ImageBeforeTruncation`); `RecentWrites` (`RecentWritesSurvive`); `Refinement` (the safety part of `ImplementsDurableStore`) |
| `EngineProofs` (recovery, follower) | `ReplayCorrect` (`ReplayIsLastCommitted`); `FollowerInvariance`; `FollowerCorrect` (`InSyncWithoutFaults`) |
| `EngineProofs` (backup) | `SnapshotInvariance`; `RestorableCorrect` (`RestorableHasWal`); `RestoreCorrect` (`RestoreIsAMoment`); `RestoredCorrect` (`RestoredDocsWereStored`) |
| `PoolProofs` | `Invariance`; `Bounded` (`PoolBounded`); `FilesCorrect` (`FilesHoldAcknowledged`); `AloneCorrect` (`AloneIsFresh`) |
| `DistTxProofs` | `Invariance`; `PreparedCorrect` (`PreparedMeansAllYes`); `OneDecisionCorrect` (`OneDecision`); `CommittedApplied` (`CommittedIsApplied`) |
| `RaftProofs` | `Invariance`; `ElectionSafe` (`ElectionSafetyUnlessReloaded`); `SlotsCorrect` (`OneCommandPerSlot`); `LeadersAppendOnly` (`LeaderAppendOnly`); `CommitInvariance`; `CommittedReplicated` (`CommittedIsReplicated`); `CommitsAgree` (`CommittedAgree`, which no run checks); `LogsAgree` (`LogsMatch`, likewise) |
| `ClusterProofs` | `Invariance`; `FileCorrect` (`FileIsCurrent`); `PrimaryCorrect` (`OnePrimary`); `MembersFollowLog` (`ConfigFollowsLog`); `TrackingCorrect` (`MembersTracked`); `SpreadCorrect` (`ShardsSpread`) |
| `ShardProofs` | `Invariance`; `LossBounded` (`LosesOnlyInFlight`); `GetCorrect` (`GetFindsStored`); `MovementMinimal` (`MinimalMovement`) |
| `CollectionsProofs` | `ReplayReturnsCommitted` (`ReplayIsCommitted`); `SavedSurvivesCrashes` (`SavedSurvives`); `QueriesAreExact` (`QueriesExact`) |

Hardly any of the properties is inductive alone.

**Engine.** `EngineInv` is `TypeOK /\ CallOK /\ LogOK /\ IndexOK /\ FeedFileOK /\
FeedGapless`. `FeedFileOK` says when the change log may end in a part of a record or
have records behind one: only in the middle of a publish, or after a write or sync of it
failed. `CallOK` says what a call looks like at each step. `LogOK` relates map, WAL and
committed operations at every step: before the commit flag the map equals what
recovery yields (minus the document a delete already removed), at the commit step
the WAL ends in exactly the record of the call, and after it the map is one
application behind. `IndexOK` says that every document's words are in the index,
also in the middle of a call. The lemmas below it are about recovery: an uncommitted
record at the end changes nothing (`AppendUncommitted`), and setting the flag of the
last record applies that record and nothing else (`CommitLast`); both rest on
`LargestExists`, from the well-foundedness of `<`.

`MoreInv` adds what holds under faults that `LogOK` excludes: the record about to be
committed is the last one (`CommitOK`); a change is committed in the WAL from the
moment it is applied (`FeedOK`); how many pages of the image a compaction has written
(`ImageOK`); and, where the WAL has a document, map and WAL agree on its body but for
the document of the call in progress (`SurvivesOK`), which survives compactions
because the reset leaves no record to speak of, and which an `open` from the image keeps
by putting the deletes in the WAL among the `overruled`.

`Refinement` is `Spec /\ []Unfaulted => Durability!Safety`: initial states map to
initial states, and every step to a step of `DurableStore` or a stutter, a commit flag
being the abstract write. Crashes are included; `[]Unfaulted` excludes power loss,
failed writes and compaction. The run has neither of the first two, and a compaction only
without a crash, where the durable documents are those of the committed operations (`Stored`).
The proof rests on `EngineInv` in both states.

**Recovery.** `Replay` is the loop of `open`, a recurrence over the records. `ReplayOf`
shows by induction over the prefixes of the log that after each of them the map is
what the last committed record of each document says, and the index exactly the words
of that map. The induction is over logs in which the record of a delete carries no
document (`DeletesEmpty`), an invariant of the engine.

**Replication.** `FollowerInv` adds to `EngineInv` that the change log, read as a
state, is behind the commits by exactly the call between its commit and its publish
(`PrimaryOK`), and that the replica is what the records up to `lastSeq` say
(`FollowerOK`). `FeedGapless` makes the unread records those after `lastSeq`
(`ReadsAll`). Engine steps take over `EngineInvNext` unchanged.

**Backup.** A copy is made while the engine goes on, so no single state of the database
need be the one that is copied. `SnapshotInv` says what the copies are:

- `BaseInv`: the types, the shape of the call in progress, copied pages are contiguous,
  what a restore has put back is how the snapshot's main file begins, an engine has a
  WAL and a WAL that is copied stays (`WalFileOK`), and the header's page count is the
  file's unless a write failed (`CountOK`);
- `RestorableHasWal`: of a database with a WAL, the copy of the WAL is created before
  the call that makes a snapshot ends, and `delete_snapshot` removes the main copy first;
- `MainCopied`: while nothing is compacted, copied pages equal those of the main file;
  before the first compaction there is no image at all (`NoImage`);
- `WalCopied`: there is a set of states that recovery found at moments of the copy such
  that each copied record was in the WAL, possibly with a flag set after it was read
  (`Behind`), and each committed record was the truth about its document at one of these
  moments or a later committed one was copied too (`Covers`). With one commit at most
  (`FewCommits`), these states differ in one document only, which makes a mixture of
  them one of them;
- `Finished`, `Restoring`, `RestoredOK`, `OpenedOK` carry this through the end of the
  copy, the restore, and the open after it.

`RestoreIsAMoment` is stated without failed writes: an engine whose delete failed to
write no longer has that document in its map, and a failed allocation may leave a page
counted that a copy of the file does not have. `RestoredDocsWereStored` needs only one of
the two, no failed write or no compaction (`Steady`).

**Pool.** `PoolInv` adds to `PoolBounded` that while nothing raced the
whole records in the files hold the acknowledged documents, where each writer's offset is and what each
compactor has written (`FilesOK`), and that before the first overlap there is one permit
holder, at most one idle engine, and every engine shows the acknowledged documents, but
for those of calls that failed behind the commit flag (`AloneOK`).

**DistTx.** `DistTxInv` says of every record and of every copy a thread is about to
put back that it is prepared only with every Yes and that each Yes in it is an answer
given (`RecordsBacked`, `CopiesBacked`), what a call may have done to the phase it read
(`ChangeOK`), that a request has the operations of its record until these change behind
it (`RequestsOK`), that who answered Yes has applied the operations (`YesApplied`), and that
what callers were told is the phase of the record (`DecidedStays`).

**Raft.** `RaftInv` counts votes by the messages that carry them: a vote is never
later than the voter's term and is the one it remembers (`VotesRemembered`), there is
one per voter and term (`OneVote`), and candidates count only votes given to them
(`VotesCounted`); two quorums meet. Every entry of a log or of a request was made by
the node elected in its term, which still has it while the term lasts (`EntriesMade`),
so no slot of a term has two entries (`OneEntry`), and, while no deposed leader built
one, requests come from elected leaders (`RequestsLed`). All of it holds until a node is
reloaded: a deposed leader's request carries entries of its log, which are somebody's
entries in any case.

`SafeInv` is about commitment and holds while no node was reloaded or removed, nothing is
skewed and no deposed leader built a request. It says that there is a set `W` of logs, those a leader ever had
(no variable records them, so the invariant is an existential one, and each step names
the next `W`), for which:

- `W` contains the beginnings of its logs, and of two logs that end in the same term one
  is how the other begins (`Shape`), from which `LogsMatch` follows; the logs of all nodes
  are in `W` (`LogsIn`), a leader still has what it made in its term (`Grown`), and a request
  is the end of a log of `W` (`Carries`);
- a log is `Chosen` when a quorum acknowledged it in its own term, and `Choosable` while a
  quorum did or still may. While it is choosable, who acknowledged it has it (`AckedHave`),
  and it is how these begin: the logs of `W` that end in later terms (`LaterHave`), those
  of later leaders (`LeadersHave`), and those of the candidates that who acknowledged it
  voted for (`CandidatesHave`). The quorum that voted meets the quorum that acknowledged,
  and who is in both voted for no log that is less up to date;
- `matchIndex` is what the peers told in this term (`Matches`), and commit indexes, of nodes
  and in requests, are within a chosen log (`CommitOK`, `RequestCommits`).

Two chosen logs are comparable (`ChosenComparable`), hence `CommittedAgree`.

**Cluster.** `ClusterInv` says of every node, at each step of each call under way: the
file is the configuration unless a call is about to save (`FileOK`); a failover on its
way leaves no other primary (`PrimaryOK`); a membership call past its change is one
command ahead of the log (`LogOK`); and members not tracked yet are those of calls that
have not come to `TrackPeer` (`TrackOK`). What the proposed commands lead to is a
recurrence over the log; that one more command is one more step of it (`ReplayAppended`)
uses `Induction`.

`ShardsSpread` needs that no configuration lists a node twice, in memory or in a file
(`ListsOK`, kept by every call: `ChangedOnce`). The rest is arithmetic. Shard `i` is in
place `i % L` of the first turn, and it is the `i \div L`-th shard of its node
(`TurnsBefore`), so the second turn deals by `(i \div L) % M`. Of any two places, shifting
by one round maps all shards of the one but the first into those of the other
(`EvenlyDealt`): a turn makes a difference of one at most, two turns one of two. A
shard's name has four digits, and the map of shards is ordered by name; up to 10000
shards that is the order of the numbers (`ShardAssumption`).

**Shard.** `ShardInv` says that a rebalance moves what the source still has, and a
document on its way has a body (`MoveOK`); that apart from it each cut-off rebalance
has lost one at most (`LossOK`); that copies of a document never stored over an older
one are all what the client stored (`CopiesOK`); and that the router's engines have
what is on disk, and nothing that was deleted (`EnginesOK`). `MinimalMovement` needs no
history: `RingLookup` characterises `ShardAt` by the first virtual node at or after the
hash, and `OneMoreShard` compares two rings.

**Collections.** `TxInv` says what `replay` has when it has read the log as it is now
(`Tracks`): what it passed on is what was committed, and while a transaction is open its
pending operations are that transaction's; and of each beginning of the log that it
yields what was committed when the log ended there (`Matches`), which is what a machine's
death or a torn entry cuts it down to. That reading one more entry is one more `Read`
is `ReadAppend`, by induction. `FileInv` relates the two files at each step of `save`.
`CollInv` says of the collection, and of what is on disk, that every entry of an index
stands for a document in the list with that word or key, that every live document has
all its entries, each once, and that ids are unique. Entries of deleted documents may
be there; the queries look each id up. What `Vec::retain` keeps, and what an index built from a list contains, are
lemmas by induction (`RetainKeeps`, `IndexOfOK`).

**Induction.** The library's induction theorems take a predicate, which the provers
cannot instantiate; `Induct` and `LeastNumber` state induction with a set instead, and
are proved from the well-foundedness of strict inclusion on finite sets. `Recurrence`
gives the function that a recurrence over `0 .. n` defines. With them what a recursive
function computes can be proved, as long as it is written as one.

Only model-checked:

- liveness (`CallReturns`, `EveryChangeDelivered`, `EveryRequestServed`, the fairness of
  `ImplementsDurableStore`): the prover does not handle fairness;
- `QueryMeansCnf`: `Query` uses RECURSIVE operators, which the prover does not support in
  a module with theorems.

## 5. What the properties leave out on purpose

The models show further disagreements between code and documentation, which have no run
of their own; the properties above are stated so that they do not depend on them:

- `wal.rs:239` commit_record flushes and never syncs: a power loss loses
  acknowledged operations. `DurableThroughCrashes` excludes power loss.
- `engine.rs:181` delete removes the document from the map before the WAL append; if
  that fails the document is gone until the next open.
- `replication.rs:145` a length prefix without its body (crash between two writes)
  makes every `open` of the database fail, with the WAL intact.
- `engine.rs:68` `open` takes page `num_pages - 1` for the trailer, which after the
  first compaction is the last data page: JSON text is read as a length.
- `engine.rs:68` when the WAL has deletes only, `open` loads an older image over them: a
  deleted document is back. `RecentWritesSurvive` excludes those documents until they are
  written again.
- `engine.rs:131`, `engine.rs:134`, `engine.rs:189` an error of the document count or of the
  change log makes a call fail whose record is committed. After a crash or reopen the
  operation is there; `DurableThroughCrashes` excludes failed writes, and in `Pool` such
  documents are `unsure`.
- `replication.rs:101`, `replication.rs:126` a record of the change log that is cut off by a
  failing write makes every later `open` fail, or the records behind it be read at the
  wrong place; a failing sync lets its number be used twice; a failing sync in `reset`
  leaves an empty log whose numbers go on. `FeedGapless` excludes these (`feedFailed`)
  until the next reset.
- `engine.rs:244` an error inside `compact` between two chunks leaves a mixture of two
  images. The WAL is still there and `open` prefers it; if it shows no document, what is
  loaded is whatever parses.
- `engine.rs:68` with a document in the WAL, `open` does not read the main file at all:
  compact, insert, reopen, and the compacted documents are hidden, although
  `engine.rs:224` describes compact as a rewrite of the file. `RecentWritesSurvive`
  bounds the loss to documents that are only in the main file.
- `engine.rs:46` a record torn by a crash makes every `open` fail; `wal.rs:4` says that
  such records are ignored. `EngineInv` and the durability properties hold with torn
  records: whatever opens shows what was committed.
- `engine.rs:129` insert over an existing id leaves the old words in the index: search
  is complete but not exact.
- `replication.rs:264`, `replication.rs:127`, `engine.rs:134` a follower loses changes when a
  poll meets a half-written record, when compact resets the numbering,
  and when the primary crashes between commit and publish. `InSyncWithoutFaults` excludes these.
- `cluster.rs:208` a reloaded node has forgotten term and vote: two leaders in one
  term. `ElectionSafetyUnlessReloaded` excludes it.
- `raft.rs:428`, `raft.rs:460` a follower accepts entries past a gap in its log and
  commits by the leader's index; `raft.rs:465` a success of an earlier term is counted;
  a removed peer shrinks the quorum. `CommittedIsReplicated` excludes these.
- `cluster.rs:403` a tick that read the role Leader builds heartbeats after the node was
  deposed: a heartbeat of the new term, which makes that term's leader a follower.
  `LeaderAppendOnly` and `CommittedIsReplicated` exclude it.
- `cluster.rs:415` a tick answers its own vote requests in place of the peers (section 2).
- `dist_tx.rs:277`, `dist_tx.rs:355`, `dist_tx.rs:335` operations added after a
  participant's request was built are never applied there; an abort does not undo what participants applied while voting; a
  restarted coordinator can recover no decision.
- `dist_tx.rs:325` an abort that read the record before a commit writes its copy over
  the committed record. `OneDecision` excludes overwritten records: what is left of
  that interleaving is that no copy about to be written lacks a Yes
  (`PreparedMeansAllYes`), and of a restart that no two callers were told different
  decisions.
- `shard.rs:234` rebalance deletes from the source before it inserts into the target:
  a crash or error in between loses that document. `LosesOnlyInFlight` bounds the loss.
- `shard.rs:233` a document stored again under the new shard map is overwritten by its
  old copy when rebalance moves that one. `GetFindsStored` excludes such documents.
- `shard.rs:248` a rebalance that fails leaves the router's engine of the source as it
  was: documents moved before the failure are listed twice.
- `shard.rs:137`, `engine.rs:122` a document without an id is routed by the empty id and
  gets its id in the engine: `get` does not find it until a rebalance moves it.
- `server/pool.rs:60` a pooled engine shows the documents of the time it was last used;
  `wal.rs:115` two engines that append at the same time overwrite each other's record;
  `server/pool.rs:120` an engine with an old map that compacts writes that map over the
  main file and drops the others' records; of two compactions that overlap, the one
  that resets last drops what was acknowledged after the other's image. A failed append
  can leave a part of a record, at which every further `open` of the pool fails, while
  idle engines go on.
  `FilesHoldAcknowledged` excludes the overlaps, `AloneIsFresh` states when a
  connection shows everything, and both exclude a WAL with a part of a record.
- `cluster.rs:348` failover changes this node's own file: two nodes that miss the same
  primary each name themselves. A failed node stays a member, although the comment
  there says it is removed. `add_node` accepts a second primary (`OnePrimary` excludes
  it). What a node joined is not in its file until its next save; the file is written
  in place (`cluster.rs:69`), and a cut-off one is refused. The CLI loads a
  configuration as the node "unknown", so its failover demotes and promotes nobody. A
  fixed peer that is removed and added again is not tracked until the next election
  (`MembersTracked` leaves out every node that was ever removed).
  Overlapping calls may be proposed in another order than they are applied.
- `backup.rs:39` two snapshots of one second share their files; `backup.rs:43` several
  commits during a copy mix their moments, and a compaction during it may leave
  neither state. `backup.rs:145` a copy of the WAL may end inside a record, and no engine
  opens the restored database (`engine.rs:46`). `backup.rs:115` a snapshot without a WAL,
  restored, removes the database's: right for a database that had none, which is all
  that `RestorableHasWal` lets happen. Restore leaves the change log as it is: followers never learn of it.
- `db.rs:74` `open_with_wal` opens the database file, not the log beside it: it refuses
  every saved database and replays nothing. `db.rs:113` `save` loses errors of the last
  buffered write and never syncs; `db.rs:133` ids of one instant collide, and the
  indexes then mix up the documents (`QueriesExact` excludes it). Without an index `query` finds strings only.
- `wal.rs:204` replay looks at no operation's transaction: an operation logged outside
  any transaction after a crash left one open is taken for a part of that one.
- `wal.rs:129` `append` never syncs: a commit that returned is gone when the machine dies.
  `wal.rs:182` an entry cut off by a crash makes replay fail there, and what is logged
  behind it is out of reach. `ReplayIsCommitted` says what is still handed out.
- `query.rs:114` `or` binds tighter than `and`; quotes are not seen by the cut, and a search
  takes the rest of its text. `QueryMeansCnf` says what the text does mean.
- `cassettedb.go:52` a goroutine that changed threads, or whose thread served another one,
  between the failing call and the question gets another message or none.
  `cassette_get` sets an error for a missing document (`lib.rs:221`), which its
  own comment (`lib.rs:183`) describes as an empty message. So no
  property is about messages.

## 6. Not modelled, and plan

Not modelled:

- the free list of the page storage and (de)serialisation of the index: no caller;
- the subscriber channel of the change feed, which is fed behind the log;
- an error of the transaction log's `append` while the process lives on, and a write of a
  length, flag, header or page that fails half way;
- the answers that `ClusterNode::tick` gives itself in place of its peers (section 2);
- the health map of the cluster and the status and list reports: nothing acts on them;
- `query_jsonpath` and `search.rs`: one call each of an external library;
- the multi-database registry and authentication: single operations on maps, each
  under one lock;
- the Python and Node bindings: the Go binding's calls without its scheduler;
- command and HTTP parsing, the rest of the CLI, crash reporter, feedback and config
  migration: formatting and output without shared state.

The engine came first, since everything else stores its data through it; then its
follower, Raft, two-phase commit, pool and sharding; then the cluster over Raft's
promises, backups over the engine's files, the collection store with the transaction
log, and the bindings with the query language.

What is left to prove is `QueryMeansCnf`; it needs the parser written as a recursive
function over text positions first.
