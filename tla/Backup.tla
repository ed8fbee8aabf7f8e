------------------------------- MODULE Backup -------------------------------
(***************************************************************************)
(* Snapshots (src/backup.rs) of the files an Engine works on.  create_     *)
(* snapshot is called from another process (`cassette backup') and copies  *)
(* the main file and then the WAL, piece by piece, while the engine runs;  *)
(* restore_snapshot copies them back while the engine is stopped; both,    *)
(* and delete_snapshot, can die between any two writes.                    *)
(*                                                                         *)
(* A snapshot's id is the second it was made in.                           *)
(***************************************************************************)
EXTENDS Engine

CONSTANTS
    MaxSeconds,   \* bound: seconds that pass
    MaxOps,       \* bound: inserts, updates and deletes
    MaxJobs       \* bound: calls of create, restore and delete

ASSUME BackupAssumptions ==
    /\ MaxSeconds \in Nat \ {0} /\ {MaxOps, MaxJobs} \subseteq Nat
    /\ None \notin Seq(WalRecord)

VARIABLES
    files,     \* which of the database's files "main" and "wal" exist
    now,       \* the current second
    snaps,     \* the files of each snapshot
    job,       \* the backup call in progress
    jobs, ops, \* history: backup calls and mutations made
    taken,     \* history: what happened while each snapshot was copied
    restored   \* history: the snapshot the database files were just restored from

backupVars == <<files, now, snaps, job, jobs, ops, taken, restored>>
bvars == <<vars, backupVars>>

SnapIds == 1 .. MaxSeconds
NoFile == None
NoTail == None

\* A main file of no length, which Storage::open takes for a new one, and the
\* one the engine has.
Empty == [numPages |-> 1, pages |-> [p \in PageNos |-> Eof]]
Main == [numPages |-> numPages, pages |-> pages]

\* A copy of a WAL is its whole records and what it has of the next one.
NoSnap == [main |-> NoFile, wal |-> NoFile, tail |-> NoTail, meta |-> FALSE]
NoJob == [kind |-> "none", id |-> 0, step |-> "done", pos |-> 0]

\* The documents an open of the database files would load if every record of the
\* WAL can be read (none if it aborts).
Shown ==
    IF FromWal THEN {Recovered(wal)}
    ELSE IF LoadReturns THEN {d \in Docs : LoadedFrom(d)} ELSE {}

\* What is known of the copy of a snapshot: the documents the files held at each
\* moment of it, the commits made meanwhile, whether a compaction ran, whether
\* the copy was cut off or overwrote an earlier one, and whether there was a WAL.
NotTaken ==
    [moments |-> {}, commits |-> 0, compacted |-> FALSE, whole |-> TRUE, logged |-> FALSE]
Clean(s) == taken[s].whole /\ ~taken[s].compacted

\* A database is new, or its main file was put there alone (backup.rs:166).
BInit ==
    /\ Init /\ files \in {{}, {"main"}}
    /\ now = 1 /\ snaps = [s \in SnapIds |-> NoSnap] /\ job = NoJob /\ jobs = 0 /\ ops = 0
    /\ taken = [s \in SnapIds |-> NotTaken] /\ restored = 0

-----------------------------------------------------------------------------
(* create_snapshot.                                                        *)

Begin(kind, s, step) ==
    /\ job = NoJob /\ jobs < MaxJobs
    /\ jobs' = jobs + 1 /\ ops' = ops
    /\ job' = [kind |-> kind, id |-> s, step |-> step, pos |-> 0]

\* copy_file creates (or empties) the copy of the main file.
CreateSnapshot ==
    /\ Begin("create", now, "main")
    /\ "main" \in files
    /\ snaps' = [snaps EXCEPT ![now].main = Empty]
    /\ taken' = [taken EXCEPT ![now] =
                   [moments |-> {Shown}, commits |-> 0,
                    compacted |-> call.step \in Compacting,
                    whole |-> snaps[now] = NoSnap, logged |-> "wal" \in files]]
    /\ UNCHANGED <<vars, files, now, restored>>

\* The header page and the pages after it are read two at a time, or one when
\* the file ends there.
ChunkPages == {p \in PageNos : p \in {job.pos, job.pos + 1}}
CopyChunk(from, to) ==
    [numPages |-> IF job.pos = 0 THEN from.numPages ELSE to.numPages,
     pages |-> [p \in PageNos |-> IF p \in ChunkPages THEN from.pages[p] ELSE to.pages[p]]]
NextPos(from) ==
    IF job.pos + 1 \in PageNos /\ from.pages[job.pos + 1] # Eof THEN job.pos + 2 ELSE job.pos + 1
AtEof(from) == job.pos > 0 /\ (job.pos \notin PageNos \/ from.pages[job.pos] = Eof)

CopyMain ==
    /\ job.kind = "create" /\ job.step = "main" /\ ~AtEof(Main)
    /\ snaps' = [snaps EXCEPT ![job.id].main = CopyChunk(Main, snaps[job.id].main)]
    /\ job' = [job EXCEPT !.pos = NextPos(Main)]
    /\ UNCHANGED <<vars, files, now, jobs, ops, taken, restored>>

\* Then the copy of the WAL is created, if there is a WAL,
CreateWalCopy ==
    /\ job.kind = "create" /\ job.step = "main" /\ AtEof(Main)
    /\ "wal" \in files
    /\ snaps' = [snaps EXCEPT ![job.id].wal = <<>>, ![job.id].tail = NoTail]
    /\ job' = [job EXCEPT !.step = "wal", !.pos = 0]
    /\ UNCHANGED <<vars, files, now, jobs, ops, taken, restored>>

\* What a read of the WAL can end in: a part of the record behind the first n,
\* which may be the one append_record is writing.
Part(r) == [r EXCEPT !.flag = FALSE, !.whole = FALSE]
Tails(n) ==
    {NoTail} \cup IF n < Len(wal) THEN {Part(wal[n + 1])}
                  ELSE IF mode = "up" /\ call.step = "append" THEN {Record(FALSE)} ELSE {}

\* Mutant: the copy waits for the record being written to be committed.
Copied_Committed(n) ==
    [k \in 1 .. (n - job.pos) |-> [wal[job.pos + k] EXCEPT !.flag = TRUE]]
Copied(n) == SubSeq(wal, job.pos + 1, n)

\* and filled by reads that end anywhere.  A record is copied when its last
\* byte, the commit flag, is read.
CopyWal ==
    /\ job.kind = "create" /\ job.step = "wal"
    /\ \E n \in job.pos .. Len(wal) : \E tail \in Tails(n) :
         /\ n > job.pos \/ tail # NoTail
         /\ snaps' = [snaps EXCEPT ![job.id].wal = @ \o Copied(n), ![job.id].tail = tail]
         /\ job' = [job EXCEPT !.pos = n]
    /\ UNCHANGED <<vars, files, now, jobs, ops, taken, restored>>

\* The description makes list_snapshots show it.
WriteMeta ==
    /\ job.kind = "create"
    /\ \/ job.step = "main" /\ AtEof(Main) /\ "wal" \notin files
       \/ job.step = "wal" /\ job.pos >= Len(wal)
    /\ snaps' = [snaps EXCEPT ![job.id].meta = TRUE]
    /\ job' = NoJob
    /\ UNCHANGED <<vars, files, now, jobs, ops, taken, restored>>

-----------------------------------------------------------------------------
(* restore_snapshot.  Whoever calls it has stopped the engine.             *)

\* Any snapshot whose main file exists will do, listed or not.
RestoreSnapshot(s) ==
    /\ mode # "up" /\ snaps[s].main # NoFile
    /\ Begin("restore", s, "main")
    /\ numPages' = 1 /\ pages' = Empty.pages
    /\ files' = files \cup {"main"} /\ restored' = 0
    /\ UNCHANGED <<wal, feedFile, memory, history, counters, now, snaps, taken>>

RestoreMain ==
    /\ job.kind = "restore" /\ job.step = "main" /\ ~AtEof(snaps[job.id].main)
    /\ LET file == CopyChunk(snaps[job.id].main, Main) IN
         numPages' = file.numPages /\ pages' = file.pages
    /\ job' = [job EXCEPT !.pos = NextPos(snaps[job.id].main)]
    /\ UNCHANGED <<wal, feedFile, memory, history, counters, files, now, snaps, jobs, ops,
                   taken, restored>>

\* The WAL comes from the snapshot, or is removed if the snapshot has none.
\* The change log is left as it is.
\* Mutant: the WAL of the database stays where it is.
RestoredWal_Kept == wal
RestoredWal ==
    LET snap == snaps[job.id] IN
      IF snap.wal = NoFile THEN <<>>
      ELSE IF snap.tail = NoTail THEN snap.wal ELSE Append(snap.wal, snap.tail)

RestoreWal ==
    /\ job.kind = "restore" /\ job.step = "main" /\ AtEof(snaps[job.id].main)
    /\ wal' = RestoredWal
    /\ files' = IF snaps[job.id].wal = NoFile THEN files \ {"wal"} ELSE files \cup {"wal"}
    /\ job' = NoJob /\ restored' = job.id
    /\ UNCHANGED <<mainFile, feedFile, memory, history, counters, now, snaps, jobs, ops, taken>>

\* Its copying is cut off: the WAL is a beginning of the snapshot's.
RestoreWalCutOff ==
    /\ job.kind = "restore" /\ job.step = "main" /\ AtEof(snaps[job.id].main)
    /\ snaps[job.id].wal # NoFile
    /\ \E n \in 0 .. Len(snaps[job.id].wal) :
         LET begin == SubSeq(snaps[job.id].wal, 1, n) IN
           \/ wal' = begin
           \/ n < Len(snaps[job.id].wal) /\ wal' = Append(begin, Part(snaps[job.id].wal[n + 1]))
    /\ files' = files \cup {"wal"}
    /\ job' = NoJob
    /\ UNCHANGED <<mainFile, feedFile, memory, history, counters, now, snaps, jobs, ops,
                   taken, restored>>

-----------------------------------------------------------------------------
(* delete_snapshot removes the files that exist, one by one.               *)

\* Mutant: the main file goes last.
DeleteOrder_MainLast == <<"wal", "meta", "main">>
DeleteOrder == <<"main", "wal", "meta">>

DeleteSnapshot(s) ==
    /\ snaps[s] # NoSnap
    /\ Begin("delete", s, "remove")
    /\ UNCHANGED <<vars, files, now, snaps, taken, restored>>

RemoveFile ==
    /\ job.kind = "delete"
    /\ LET file == DeleteOrder[job.pos + 1] IN
         snaps' = [snaps EXCEPT ![job.id][file] = NoSnap[file],
                                ![job.id].tail = IF file = "wal" THEN NoTail ELSE @]
    /\ job' = IF job.pos = 2 THEN NoJob ELSE [job EXCEPT !.pos = job.pos + 1]
    /\ UNCHANGED <<vars, files, now, jobs, ops, taken, restored>>

-----------------------------------------------------------------------------
\* The backup process dies, or one of its writes fails.
JobCutOff ==
    /\ job # NoJob
    /\ job' = NoJob
    /\ taken' = IF job.kind = "create" THEN [taken EXCEPT ![job.id].whole = FALSE] ELSE taken
    /\ UNCHANGED <<vars, files, now, snaps, jobs, ops, restored>>

\* The second matters only to the next snapshot.
Tick ==
    /\ now < MaxSeconds /\ jobs < MaxJobs /\ job = NoJob /\ snaps[now] # NoSnap
    /\ now' = now + 1
    /\ UNCHANGED <<vars, files, snaps, job, jobs, ops, taken, restored>>

\* What a step of the engine adds to the history of the copy in progress.
Seen(t) ==
    [moments |-> t.moments \cup {Shown'},
     commits |-> IF Recovered(wal') # Recovered(wal) THEN t.commits + 1 ELSE t.commits,
     compacted |-> t.compacted \/ call'.step \in Compacting,
     whole |-> t.whole, logged |-> t.logged]

\* The engine works while a snapshot is made or deleted, not during a restore.
\* The machine stays up: a power loss would end the backup call too, and may
\* lose what it wrote.
\* Bound: once the last backup call has begun it is only opened again.
EngineStep ==
    /\ job.kind # "restore" /\ powerLosses' = powerLosses
    /\ IF jobs = MaxJobs THEN OpenOk \/ OpenFails ELSE Next
    /\ taken' = IF job.kind # "create" THEN taken
                ELSE [taken EXCEPT ![job.id] = Seen(taken[job.id])]
    /\ ops' = IF call.step = "done" /\ call'.step = "append" THEN ops + 1 ELSE ops
    /\ ops' <= MaxOps
    /\ restored' = IF disk' = disk THEN restored ELSE 0
    /\ files' = IF mode' # "down" THEN {"main", "wal"} ELSE files
    /\ UNCHANGED <<now, snaps, job, jobs>>

BNext ==
    \/ CreateSnapshot \/ CopyMain \/ CreateWalCopy \/ CopyWal \/ WriteMeta
    \/ \E s \in SnapIds : RestoreSnapshot(s) \/ DeleteSnapshot(s)
    \/ RestoreMain \/ RestoreWal \/ RestoreWalCutOff \/ RemoveFile
    \/ JobCutOff \/ Tick \/ EngineStep

BSpec == BInit /\ [][BNext]_bvars

-----------------------------------------------------------------------------
(* Properties.                                                             *)

\* A restore brings back the documents the files held at one moment of the copy,
\* although the main file and the WAL are copied one after the other from a
\* running engine, and an engine that opens the database shows exactly them, as
\* long as at most one operation was committed during the copy, no compaction
\* ran, no write of the engine failed, and the copy was neither cut off nor made
\* over another one of the same second (backup.rs:39).  If the copy ends inside
\* a record (backup.rs:145) no engine opens the database (engine.rs:46).
RestoreIsAMoment ==
    restored # 0 /\ Clean(restored) /\ taken[restored].commits <= 1 /\ ioErrors = 0 =>
      /\ Shown \in taken[restored].moments
      /\ mode = "up" /\ call = Idle => docs \in Shown

\* With any number of commits during the copy the documents may be of different
\* moments, but each has a body it had at one of them, on a database that was
\* never compacted (backup.rs:43, wal.rs:239).
RestoredDocsWereStored ==
    restored # 0 /\ Clean(restored) /\ compactions = 0 =>
      \A d \in Shown, i \in Ids : \E m \in UNION taken[restored].moments : d[i] = m[i]

\* What restore accepts is both files of a snapshot of a database with a WAL, also
\* while it is deleted and when the deletion is cut off: without the WAL the
\* restore would remove that of the database (backup.rs:115).  (A database
\* without a WAL has a snapshot without one, backup.rs:43.)
RestorableHasWal ==
    \A s \in SnapIds :
      /\ snaps[s].main # NoFile /\ taken[s].whole /\ taken[s].logged
      /\ ~(job.kind = "create" /\ job.id = s)
      => snaps[s].wal # NoFile
=============================================================================
