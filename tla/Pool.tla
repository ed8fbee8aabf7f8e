-------------------------------- MODULE Pool --------------------------------
(***************************************************************************)
(* The connection pool of one database (src/server/pool.rs) and the server *)
(* tasks that use it (src/server/tcp.rs, src/server/http.rs): a semaphore  *)
(* of pool_size permits and a stack of idle engines.  Every engine has its *)
(* own document map over the one main file and WAL of the database.        *)
(***************************************************************************)
EXTENDS Naturals, Sequences, FiniteSets

CONSTANTS
    Task,      \* server tasks, one per client connection
    Ids,       \* document ids
    PoolSize,  \* pool_size
    MaxWal,    \* bound: records in the WAL
    MaxCompactions  \* bound: calls of compact

ASSUME PoolAssumptions ==
    /\ IsFiniteSet(Task) /\ PoolSize \in Nat \ {0}
    /\ MaxWal \in Nat /\ MaxCompactions \in Nat

VARIABLES
    permits,  \* free permits of the semaphore
    idle,     \* DbPool::connections: the document sets of idle engines
    state,    \* where each task is
    engine,   \* the documents in the map of the engine a task holds
    target,   \* the document a write is about, whether it is inserted, and where
    wal,      \* the WAL file: committed inserts and deletes, in file order
    torn,     \* a part of a record is in the WAL, left by an append that failed
    image,    \* the documents in the main file
    whole,    \* the main file is one whole image
    compactions,
    acked,    \* history: the documents that the acknowledged calls have left
    unsure,   \* history: the documents whose last call ended in an error although
              \* its record is committed
    shared,   \* history: two tasks have held a permit at the same time
    raced     \* history: two appends or two compactions were under way at the
              \* same time, or an engine compacted without all that was acknowledged

files == <<wal, torn, image, whole, compactions>>
calls == <<acked, unsure>>
history == <<shared, raced>>
vars == <<permits, idle, state, engine, target, files, calls, history>>

Writers == {t \in Task : state[t] = "writing"}
Compactors == {t \in Task : state[t] \in {"imaging", "compacting"}}

\* What the WAL says of each document.
At(i) == {k \in 1 .. Len(wal) : wal[k][1] = i}
Last(S) == CHOOSE k \in S : \A j \in S : j <= k
InWal == {i \in Ids : At(i) # {} /\ wal[Last(At(i))][2]}
\* Both files together.
InFiles == InWal \cup {i \in image : At(i) = {}}

\* S is what the acknowledged calls left, but for the documents nobody is sure of.
Shows(S) == S \ unsure = acked \ unsure

Goto(t, s) == state' = [state EXCEPT ![t] = s]

Init ==
    /\ permits = PoolSize /\ idle = <<>>
    /\ state = [t \in Task |-> "out"] /\ engine = [t \in Task |-> {}]
    /\ target = [t \in Task |-> <<>>]
    /\ wal = <<>> /\ torn = FALSE /\ image = {} /\ whole = TRUE /\ compactions = 0
    /\ acked = {} /\ unsure = {}
    /\ shared = FALSE /\ raced = FALSE

-----------------------------------------------------------------------------
(* DbPool::acquire.                                                        *)

Request(t) ==
    /\ state[t] = "out" /\ Goto(t, "waiting")
    /\ UNCHANGED <<permits, idle, engine, target, files, calls, history>>

AcquirePermit(t) ==
    /\ state[t] = "waiting" /\ permits > 0
    /\ permits' = permits - 1 /\ Goto(t, "permitted")
    /\ shared' = (shared \/ permits < PoolSize)
    /\ UNCHANGED <<idle, engine, target, files, calls, raced>>

\* Mutant: the engine handed out stays in the stack.
PopIdle_Keeps(t) ==
    /\ state[t] = "permitted"
    /\ IF idle = <<>> THEN Goto(t, "opening") /\ UNCHANGED engine
       ELSE engine' = [engine EXCEPT ![t] = idle[Len(idle)]] /\ Goto(t, "holding")
    /\ UNCHANGED <<permits, idle, target, files, calls, history>>

\* connections.pop(), or the decision to open another engine.
PopIdle(t) ==
    /\ state[t] = "permitted"
    /\ IF idle = <<>> THEN Goto(t, "opening") /\ UNCHANGED <<idle, engine>>
       ELSE /\ engine' = [engine EXCEPT ![t] = idle[Len(idle)]]
            /\ idle' = SubSeq(idle, 1, Len(idle) - 1)
            /\ Goto(t, "holding")
    /\ UNCHANGED <<permits, target, files, calls, history>>

\* CassetteEngine::open loads what the WAL shows.  What it makes of a WAL with a
\* part of a record in it, or of the pages of a compaction when the WAL shows no
\* document, is the subject of module Engine: here it may be anything.
OpenEngine(t) ==
    /\ state[t] = "opening"
    /\ \E S \in SUBSET Ids :
         /\ ~torn /\ (InWal # {} \/ compactions = 0) => S = InWal
         /\ engine' = [engine EXCEPT ![t] = S]
    /\ Goto(t, "holding")
    /\ UNCHANGED <<permits, idle, target, files, calls, history>>

-----------------------------------------------------------------------------
(* The command.                                                            *)

\* Mutant: the offset is that of the last record.
EndOfWal_Last == IF wal = <<>> THEN 1 ELSE Len(wal)
EndOfWal == Len(wal) + 1

\* An insert of a new document, or the delete of one that is in the engine's
\* map.  Wal::append_record seeks to the end of the file...
SeekEnd(t, i, insert) ==
    /\ state[t] = "holding" /\ Len(wal) < MaxWal
    /\ IF insert THEN i \notin acked \cup unsure \cup {target[u][1] : u \in Writers}
       ELSE i \in engine[t]
    /\ target' = [target EXCEPT ![t] = <<i, insert, EndOfWal>>]
    /\ Goto(t, "writing")
    /\ raced' = (raced \/ Writers # {})
    /\ UNCHANGED <<permits, idle, engine, files, calls, shared>>

With(S, i, insert) == IF insert THEN S \cup {i} ELSE S \ {i}

\* Mutant: the map of the engine does not learn of the write.
Learn_Not(t, i, insert) == engine
Learn(t, i, insert) == [engine EXCEPT ![t] = With(@, i, insert)]

\* ... and writes there, whatever the file has become; then the record is
\* committed...
PutRecord(t) ==
    LET k == target[t][3]
        record == <<target[t][1], target[t][2]>> IN
      /\ wal' = IF k <= Len(wal) THEN [wal EXCEPT ![k] = record] ELSE Append(wal, record)
      /\ UNCHANGED <<torn, image, whole, compactions>>

\* ... the map updated and the call acknowledged.
WriteRecord(t) ==
    /\ state[t] = "writing"
    /\ PutRecord(t)
    /\ LET i == target[t][1]
           insert == target[t][2] IN
         /\ engine' = Learn(t, i, insert)
         /\ acked' = With(acked, i, insert)
         /\ unsure' = unsure \ {i}
    /\ target' = [target EXCEPT ![t] = <<>>]
    /\ Goto(t, "done")
    /\ UNCHANGED <<permits, idle, history>>

\* compact writes the engine's own map into the main file, page by page over
\* the pages of the image before...
BeginImage(t) ==
    /\ state[t] = "holding" /\ compactions < MaxCompactions
    /\ compactions' = compactions + 1
    /\ whole' = FALSE
    /\ raced' = (raced \/ ~Shows(engine[t]) \/ Compactors # {})
    /\ Goto(t, "imaging")
    /\ UNCHANGED <<permits, idle, engine, target, wal, torn, image, calls, shared>>

\* ... up to its last page...
EndImage(t) ==
    /\ state[t] = "imaging"
    /\ image' = engine[t] /\ whole' = TRUE
    /\ Goto(t, "compacting")
    /\ UNCHANGED <<permits, idle, engine, target, wal, torn, compactions, calls, history>>

\* ... and then drops the WAL.
DropWal(t) ==
    /\ wal' = <<>> /\ torn' = FALSE
    /\ raced' = (raced \/ ~Shows(engine[t]) \/ Writers # {})
    /\ UNCHANGED <<image, whole, compactions>>

CompactReset(t) ==
    /\ state[t] = "compacting"
    /\ DropWal(t)
    /\ Goto(t, "done")
    /\ UNCHANGED <<permits, idle, engine, target, calls, shared>>

-----------------------------------------------------------------------------
(* ConnectionPool::release, and the error paths that drop the connection.  *)

\* (From "holding": the command was a read.)
PushEngine(t) ==
    /\ state[t] \in {"holding", "done"}
    /\ idle' = Append(idle, engine[t])
    /\ engine' = [engine EXCEPT ![t] = {}]
    /\ Goto(t, "pushed")
    /\ UNCHANGED <<permits, target, files, calls, history>>

\* The connection goes out of scope and with it the permit.
DropPermit(t) ==
    /\ state[t] = "pushed"
    /\ permits' = permits + 1 /\ Goto(t, "out")
    /\ UNCHANGED <<idle, engine, target, files, calls, history>>

InEngine == {"opening", "holding", "writing", "imaging", "compacting"}

\* Mutant: the error path keeps the permit.
Fail_Leaks(t) ==
    /\ state[t] \in InEngine
    /\ engine' = [engine EXCEPT ![t] = {}] /\ target' = [target EXCEPT ![t] = <<>>]
    /\ Goto(t, "out")
    /\ UNCHANGED <<permits, idle, files, calls, history>>

\* A command or an open that fails returns with `?': the engine, if any, is
\* closed and the permit freed.  The files are as the failing step left them:
\* unchanged, or (of an image) half written; with a part of a record in the WAL;
\* with the record committed, if what failed comes after the commit flag (the
\* header, the change log); or with the WAL dropped, if what failed is the sync
\* behind it or the reset of the change log.
Fail(t) ==
    /\ state[t] \in InEngine
    /\ \/ UNCHANGED <<files, calls, raced>>
       \/ /\ state[t] = "writing" /\ torn' = TRUE
          /\ UNCHANGED <<wal, image, whole, compactions, calls, raced>>
       \/ /\ state[t] = "writing" /\ PutRecord(t)
          /\ unsure' = unsure \cup {target[t][1]}
          /\ UNCHANGED <<acked, raced>>
       \/ state[t] = "compacting" /\ DropWal(t) /\ UNCHANGED calls
    /\ permits' = permits + 1
    /\ engine' = [engine EXCEPT ![t] = {}] /\ target' = [target EXCEPT ![t] = <<>>]
    /\ Goto(t, "out")
    /\ UNCHANGED <<idle, shared>>

Serve(t) ==
    \/ PopIdle(t) \/ OpenEngine(t) \/ WriteRecord(t)
    \/ EndImage(t) \/ CompactReset(t) \/ DropPermit(t)
\* Every route that acquired a connection ends in one of these.
Finish(t) == PushEngine(t) \/ Fail(t)

Next ==
    \E t \in Task :
      \/ Request(t) \/ AcquirePermit(t) \/ Serve(t) \/ Finish(t)
      \/ \E i \in Ids, insert \in BOOLEAN : SeekEnd(t, i, insert)
      \/ BeginImage(t)

\* Every task keeps running and finishes its command; the semaphore is fair.
Fairness ==
    \A t \in Task : WF_vars(Serve(t)) /\ WF_vars(Finish(t)) /\ SF_vars(AcquirePermit(t))

Spec == Init /\ [][Next]_vars
FairSpec == Spec /\ Fairness

-----------------------------------------------------------------------------
(* Properties.                                                             *)

Holders == {t \in Task : state[t] \notin {"out", "waiting"}}
EngineOwners == {t \in Task : state[t] \in InEngine \cup {"done"}}

\* No permit is lost or made up on any path, the error paths included, and the
\* engines idle, in use and being opened are never more than pool_size: each is
\* covered by a permit until it is back in the stack (pool.rs:34, pool.rs:118).
PoolBounded ==
    /\ permits + Cardinality(Holders) = PoolSize
    /\ Len(idle) + Cardinality(EngineOwners) <= PoolSize

\* Engines that share the files keep exactly the acknowledged documents in them,
\* whatever each has in its map and wherever calls fail: each document that has a
\* record in the WAL or whose image is whole is there if and only if the
\* acknowledged calls left it there.  Not counted are documents whose last call
\* ended in an error behind the commit flag (engine.rs:131, engine.rs:189), and a
\* WAL with a part of a record in it; and it holds as long as no two are inside
\* append_record at the same time and none compacts with a map that lacks an
\* acknowledged call or while another appends or compacts (nothing in the code
\* prevents any of it).
FilesHoldAcknowledged ==
    ~raced /\ ~torn =>
      \A i \in Ids \ unsure : whole \/ At(i) # {} => (i \in InFiles <=> i \in acked)

\* As long as requests never overlap, a connection shows every acknowledged
\* call and nothing else but the documents of calls that failed behind the commit
\* flag, as the one engine is handed from task to task or, after an error, the
\* files are opened again; after a compaction, or with a part of a record in the
\* WAL, an engine that is opened need not (pool.rs:60, engine.rs:46, engine.rs:68).
AloneIsFresh ==
    ~shared /\ compactions = 0 /\ ~torn =>
      \A t \in Task : state[t] \in {"holding", "done"} => Shows(engine[t])

\* A task that asks for a connection gets one (any task: they are all alike).
EveryRequestServed ==
    LET t == CHOOSE u \in Task : TRUE IN state[t] = "waiting" ~> state[t] \in {"holding", "out"}
=============================================================================
