------------------------------- MODULE Engine -------------------------------
(***************************************************************************)
(* CassetteEngine (src/engine.rs) over its write-ahead log (src/wal.rs),   *)
(* its page file (src/storage.rs), its inverted index (src/index.rs) and   *)
(* its change log (src/replication.rs).                                    *)
(*                                                                         *)
(* The engine serves one call at a time (&mut self), but every file write  *)
(* of a call is a step of its own, because the process can die, or a write *)
(* can fail, between any two of them.  `call' is the call being served and *)
(* the next write it will make.                                            *)
(*                                                                         *)
(* A document is its id and one value of Vals; Tokens[v] are the words     *)
(* InvertedIndex::tokenize finds in v.  A missing document is None, which  *)
(* is also the (empty) payload of a delete record.                         *)
(***************************************************************************)
EXTENDS Naturals, Sequences, FiniteSets

CONSTANTS
    Ids,             \* document ids a client uses
    Vals,            \* document bodies
    None,            \* no document
    Words,           \* the words that occur in documents
    Tokens,          \* Tokens[v]: the words of body v
    DocsPerPage,     \* documents whose JSON fits one page
    TornWrites,      \* may a crash leave part of a WAL record behind?
    MaxWal,          \* bound: records in the WAL
    MaxCrashes,      \* bound: process crashes (or closes)
    MaxPowerLosses,  \* bound: machine crashes that lose unsynced data
    MaxIoErrors,     \* bound: writes that return an error
    MaxCompactions   \* bound: calls of compact

ASSUME EngineAssumptions ==
    /\ None \notin Vals
    /\ Tokens \in [Vals -> SUBSET Words]
    /\ IsFiniteSet(Ids) /\ Ids # {}
    /\ DocsPerPage \in Nat \ {0}
    /\ TornWrites \in BOOLEAN
    /\ {MaxWal, MaxCrashes, MaxPowerLosses, MaxIoErrors, MaxCompactions} \subseteq Nat

VARIABLES
    \* On disk.
    wal,        \* WAL records, in file order
    numPages,   \* num_pages of the header page (nothing reads its doc_count)
    pages,      \* content of the main file's pages 1, 2, ...
    feed,       \* change log records, in file order
    feedTorn,   \* the change log ends in a length prefix without its body
    feedBad,    \* 0, or the first record of feed behind such a prefix
    \* In the engine.
    mode,       \* "down", "up", or "refused": the last open failed
    pageCount,  \* header.num_pages, which a failed write leaves ahead of the file's
    docs,       \* HashMap of documents
    index,      \* InvertedIndex, as a set of <<word, id>> pairs
    nextSeq,    \* ReplicationLog::next_sequence
    call,       \* the call being served
    \* History and bounds.
    content,    \* what the database holds: every committed operation applied
    overruled,  \* documents whose committed delete an image overruled at the last open
    feedFailed, \* the change log was left with a wrong number or part of a record
    crashes, powerLosses, ioErrors, compactions

mainFile == <<numPages, pages>>
feedFile == <<feed, feedTorn, feedBad>>
disk == <<wal, mainFile, feedFile>>
memory == <<mode, pageCount, docs, index, nextSeq, call>>
history == <<content, overruled, feedFailed>>
counters == <<crashes, powerLosses, ioErrors, compactions>>
vars == <<wal, numPages, pages, feed, feedTorn, feedBad, mode, pageCount, docs,
          index, nextSeq, call, content, overruled, feedFailed,
          crashes, powerLosses, ioErrors, compactions>>

-----------------------------------------------------------------------------
Docs == [Ids -> Vals \cup {None}]
NoDocs == [i \in Ids |-> None]
Live(d) == {i \in Ids : d[i] # None}

Mutations == {"insert", "update", "delete"}
WalRecord == [op : Mutations, id : Ids, val : Vals \cup {None},
              flag : BOOLEAN, whole : BOOLEAN]
ChangeRecord == [sequence : Nat, op : Mutations, id : Ids, val : Vals \cup {None}]

\* Entries InvertedIndex::index_document adds, and remove_document removes,
\* for document i with body v.
Entries(i, v) == IF v = None THEN {} ELSE {<<t, i>> : t \in Tokens[v]}
IndexOf(d) == UNION {Entries(i, d[i]) : i \in Ids}

\* InvertedIndex::search for one word, then the engine's lookup of each id.
Search(t) == {i \in Ids : <<t, i>> \in index /\ docs[i] # None}

-----------------------------------------------------------------------------
(* The page file.  A payload's length is the number of its documents.      *)

PageNos == 1 .. (Cardinality(Ids) + 2)
Page == [kind : {"eof", "zero", "data", "trailer"}, part : Nat, image : Docs]
Eof == [kind |-> "eof", part |-> 0, image |-> NoDocs]
Zero == [kind |-> "zero", part |-> 0, image |-> NoDocs]
DataPage(d, p) == [kind |-> "data", part |-> p, image |-> d]
Trailer(len) == [kind |-> "trailer", part |-> len, image |-> NoDocs]

PagesOf(len) == IF len = 0 THEN 1 ELSE (len + DocsPerPage - 1) \div DocsPerPage
PagesNeeded == PagesOf(Cardinality(Live(docs)))

\* Pages 1..PagesOf(len) hold the whole JSON of d and len is its length.
Holds(d, len) ==
    /\ len = Cardinality(Live(d))
    /\ \A p \in 1 .. PagesOf(len) : pages[p] = DataPage(d, p)

\* open takes page numPages - 1 for the trailer.  When that is a data page, the
\* JSON text it reads as a length asks for more memory than there is if it is
\* the start of a document, and may if it is the tail of one.
TrailerPage == pages[numPages - 1]
LoadAborts == numPages > 1 /\ TrailerPage.kind = "data" /\ Live(TrailerPage.image) # {}
LoadReturns == ~(LoadAborts /\ TrailerPage.part = 1)

\* The documents open loads from the main file when it returns: those the
\* pages before a real trailer hold, none when they do not parse.
LoadedFrom(d) ==
    IF /\ numPages > 1 /\ TrailerPage.kind = "trailer"
       /\ \E e \in Docs : Holds(e, TrailerPage.part)
    THEN Holds(d, TrailerPage.part)
    ELSE d = NoDocs

-----------------------------------------------------------------------------
(* Recovery from the WAL: of the committed records of a document the last  *)
(* one decides (WalIter::next skips the others, the loop of open applies   *)
(* them in order).  A partly written record ends the iteration in an error. *)

\* Mutant: recovery does not look at the commit flag.
CommittedAt_AnyFlag(w, i) == {k \in 1 .. Len(w) : w[k].id = i}
CommittedAt(w, i) == {k \in 1 .. Len(w) : w[k].flag /\ w[k].id = i}
Largest(S) == CHOOSE k \in S : \A j \in S : j <= k
Recovered(w) ==
    [i \in Ids |-> IF CommittedAt(w, i) = {} THEN None ELSE w[Largest(CommittedAt(w, i))].val]
WalReadable(w) == \A k \in 1 .. Len(w) : w[k].whole

Idle == [op |-> "none", id |-> None, val |-> None, old |-> None, page |-> 0, step |-> "done"]
MutationCall(op, i, v, old) ==
    [op |-> op, id |-> i, val |-> v, old |-> old, page |-> 0, step |-> "append"]

Init ==
    /\ wal = <<>> /\ feed = <<>> /\ feedTorn = FALSE /\ feedBad = 0
    /\ numPages = 1 /\ pages = [p \in PageNos |-> Eof]
    /\ mode = "down" /\ pageCount = 1
    /\ docs = NoDocs /\ index = {} /\ nextSeq = 1 /\ call = Idle
    /\ content = NoDocs /\ overruled = {} /\ feedFailed = FALSE
    /\ crashes = 0 /\ powerLosses = 0 /\ ioErrors = 0 /\ compactions = 0

-----------------------------------------------------------------------------
(* CassetteEngine::open.                                                   *)

\* The change log scanned from its start: a cut-off record at the end is an
\* error.  Records written behind one are read at a wrong place, which is an
\* error too, or passes over any of them.
Scans ==
    IF feedBad = 0 THEN {DOMAIN feed}
    ELSE {S \in SUBSET DOMAIN feed : 1 .. (feedBad - 1) \subseteq S}
ScanOk == ~feedTorn \/ feedBad # 0
ScanFails == feedTorn \/ feedBad # 0

\* Mutant: the next number is the last one used.
ComputeNextSequence_Reused(S) == Largest({0} \cup {feed[k].sequence : k \in S})

\* ReplicationLog::compute_next_sequence, from the records a scan finds.
ComputeNextSequence(S) == Largest({0} \cup {feed[k].sequence : k \in S}) + 1

Start(d) ==
    /\ mode' = "up" /\ docs' = d /\ index' = IndexOf(d)
    /\ pageCount' = numPages
    /\ \E S \in Scans : nextSeq' = ComputeNextSequence(S)
    /\ UNCHANGED <<disk, call, content, feedFailed, counters>>

\* Mutant: the image of a compaction is read although the WAL has documents.
FromWal_ImageFirst == numPages = 1 /\ Live(Recovered(wal)) # {}

\* The main file is read only if the WAL yields no document.
FromWal == Live(Recovered(wal)) # {}

\* The documents the WAL has an operation of, and those it deletes.
Logged == {i \in Ids : CommittedAt(wal, i) # {}}
Deleted == {i \in Logged : Recovered(wal)[i] = None}

OpenOk ==
    /\ mode # "up" /\ WalReadable(wal) /\ ScanOk
    /\ \/ FromWal /\ Start(Recovered(wal)) /\ overruled' = {}
       \/ /\ ~FromWal /\ LoadReturns
          /\ \E d \in Docs : LoadedFrom(d) /\ Start(d)
          /\ overruled' = Deleted

OpenFails ==
    /\ mode # "up"
    /\ ~WalReadable(wal) \/ ScanFails \/ (~FromWal /\ LoadAborts)
    /\ mode' = "refused"
    /\ UNCHANGED <<disk, pageCount, docs, index, nextSeq, call, history, counters>>

-----------------------------------------------------------------------------
(* insert, update and delete.                                              *)

Ready == mode = "up" /\ call = Idle /\ Len(wal) < MaxWal
Goto(s) == call' = [call EXCEPT !.step = s]

Insert(i, v) ==
    /\ Ready
    /\ call' = MutationCall("insert", i, v, None)
    /\ UNCHANGED <<disk, mode, pageCount, docs, index, nextSeq, history, counters>>

Update(i, v) ==
    /\ Ready /\ docs[i] # None
    /\ call' = MutationCall("update", i, v, docs[i])
    /\ UNCHANGED <<disk, mode, pageCount, docs, index, nextSeq, history, counters>>

\* The document leaves the map before the WAL hears of it.
Delete(i) ==
    /\ Ready /\ docs[i] # None
    /\ call' = MutationCall("delete", i, None, docs[i])
    /\ docs' = [docs EXCEPT ![i] = None]
    /\ UNCHANGED <<disk, mode, pageCount, index, nextSeq, history, counters>>

Record(whole) ==
    [op |-> call.op, id |-> call.id, val |-> call.val, flag |-> FALSE, whole |-> whole]

\* Mutant: the record is written with its commit flag already set.
AppendRecord_Committed ==
    /\ call.step = "append"
    /\ wal' = Append(wal, [Record(TRUE) EXCEPT !.flag = TRUE])
    /\ Goto("commit")
    /\ UNCHANGED <<mainFile, feedFile, mode, pageCount, docs, index, nextSeq, history, counters>>

AppendRecord ==
    /\ call.step = "append"
    /\ wal' = Append(wal, Record(TRUE))
    /\ Goto("commit")
    /\ UNCHANGED <<mainFile, feedFile, mode, pageCount, docs, index, nextSeq, history, counters>>

\* Mutant: the commit flag is not written.
CommitRecord_NoFlag ==
    /\ call.step = "commit"
    /\ content' = [content EXCEPT ![call.id] = call.val]
    /\ overruled' = overruled \ {call.id}
    /\ Goto("apply")
    /\ UNCHANGED <<disk, mode, pageCount, docs, index, nextSeq, feedFailed, counters>>

CommitRecord ==
    /\ call.step = "commit"
    /\ wal' = [wal EXCEPT ![Len(wal)].flag = TRUE]
    /\ content' = [content EXCEPT ![call.id] = call.val]
    /\ overruled' = overruled \ {call.id}
    /\ Goto("apply")
    /\ UNCHANGED <<mainFile, feedFile, mode, pageCount, docs, index, nextSeq, feedFailed, counters>>

\* Mutant: the new body is indexed before the old one is removed.
Reindexed_IndexThenRemove == (index \cup Entries(call.id, call.val)) \ Entries(call.id, call.old)
Reindexed == (index \ Entries(call.id, call.old)) \cup Entries(call.id, call.val)

\* Mutant: the map is not updated.
Apply_IndexOnly ==
    /\ call.step = "apply"
    /\ index' = Reindexed
    /\ docs' = docs
    /\ Goto("publish")
    /\ UNCHANGED <<disk, mode, pageCount, nextSeq, history, counters>>

\* The index, the map and, but for an update, increment_doc_count, which writes
\* the whole header.
Apply ==
    /\ call.step = "apply"
    /\ index' = Reindexed
    /\ docs' = [docs EXCEPT ![call.id] = call.val]
    /\ numPages' = IF call.op = "update" THEN numPages ELSE pageCount
    /\ Goto("publish")
    /\ UNCHANGED <<wal, pages, feedFile, mode, pageCount, nextSeq, history, counters>>

\* ReplicationLog::append writes the length first,
PublishLength ==
    /\ call.step = "publish"
    /\ feedTorn' = TRUE
    /\ feedBad' = IF feedTorn /\ feedBad = 0 THEN Len(feed) + 1 ELSE feedBad
    /\ Goto("body")
    /\ UNCHANGED <<wal, mainFile, feed, mode, pageCount, docs, index, nextSeq, history, counters>>

\* and then the record,
Published ==
    /\ feedTorn' = FALSE
    /\ feed' = Append(feed, [sequence |-> nextSeq, op |-> call.op,
                             id |-> call.id, val |-> call.val])
    /\ UNCHANGED feedBad

\* whose number is used up when it is on the disk; the call returns.
PublishBody ==
    /\ call.step = "body"
    /\ Published
    /\ nextSeq' = nextSeq + 1
    /\ call' = Idle
    /\ UNCHANGED <<wal, mainFile, mode, pageCount, docs, index, history, counters>>

-----------------------------------------------------------------------------
(* compact: grow the file, rewrite it in place, then drop the WAL and the  *)
(* change log.  Each page write is synced before the next one.             *)

Compact ==
    /\ mode = "up" /\ call = Idle /\ compactions < MaxCompactions
    /\ call' = [Idle EXCEPT !.op = "compact", !.step = "alloc"]
    /\ compactions' = compactions + 1
    /\ UNCHANGED <<disk, mode, pageCount, docs, index, nextSeq, history,
                   crashes, powerLosses, ioErrors>>

\* Mutant: the header does not count the new page.
Grown_Uncounted == pageCount
Grown == pageCount + 1

\* Storage::allocate_page: the header first (the free list is always empty),
AllocateHeader ==
    /\ call.step = "alloc" /\ pageCount < PagesNeeded + 1
    /\ pageCount' = Grown /\ numPages' = Grown
    /\ Goto("zero")
    /\ UNCHANGED <<wal, pages, feedFile, mode, docs, index, nextSeq, history, counters>>

\* then the zeroed page.
PutPage(p, page) ==
    /\ pages' = [pages EXCEPT ![p] = page]
    /\ UNCHANGED <<wal, numPages, feedFile, mode, pageCount, docs, index,
                   nextSeq, history>>

AllocateZero ==
    /\ call.step = "zero"
    /\ PutPage(pageCount - 1, Zero)
    /\ Goto("alloc")
    /\ UNCHANGED counters

\* Then the chunks of the JSON text go to pages 1, 2, ...
AtChunk ==
    \/ call.step = "alloc" /\ pageCount >= PagesNeeded + 1
    \/ call.step = "write"
ThisPage == call.page + 1

\* Mutant: the loop over the chunks stops one short.
WriteChunk_Short ==
    /\ AtChunk
    /\ PutPage(ThisPage, DataPage(docs, ThisPage))
    /\ call' = [call EXCEPT !.page = ThisPage,
                            !.step = IF ThisPage + 1 < PagesNeeded THEN "write" ELSE "trailer"]
    /\ UNCHANGED counters

WriteChunk ==
    /\ AtChunk
    /\ PutPage(ThisPage, DataPage(docs, ThisPage))
    /\ call' = [call EXCEPT !.page = ThisPage,
                            !.step = IF ThisPage < PagesNeeded THEN "write" ELSE "trailer"]
    /\ UNCHANGED counters

WriteTrailer ==
    /\ call.step = "trailer"
    /\ PutPage(PagesNeeded + 1, Trailer(Cardinality(Live(docs))))
    /\ Goto("walreset")
    /\ UNCHANGED counters

ResetWal ==
    /\ call.step = "walreset"
    /\ wal' = <<>> /\ overruled' = {}
    /\ Goto("feedreset")
    /\ UNCHANGED <<mainFile, feedFile, mode, pageCount, docs, index, nextSeq, content,
                   feedFailed, counters>>

Emptied == feed' = <<>> /\ feedTorn' = FALSE /\ feedBad' = 0

ResetFeed ==
    /\ call.step = "feedreset"
    /\ Emptied /\ nextSeq' = 1 /\ feedFailed' = FALSE
    /\ call' = Idle
    /\ UNCHANGED <<wal, mainFile, mode, pageCount, docs, index, content, overruled, counters>>

-----------------------------------------------------------------------------
(* Failures.                                                               *)

Stopped ==
    /\ mode' = "down" /\ pageCount' = 1 /\ docs' = NoDocs /\ index' = {}
    /\ nextSeq' = 1 /\ call' = Idle

\* The process dies (or drops the engine, when idle): files keep every byte
\* written so far, which may end inside the WAL record being appended.
Crash ==
    /\ mode = "up" /\ crashes < MaxCrashes
    /\ crashes' = crashes + 1
    /\ Stopped
    /\ \/ wal' = wal
       \/ TornWrites /\ call.step = "append" /\ wal' = Append(wal, Record(FALSE))
    /\ UNCHANGED <<mainFile, feedFile, history, powerLosses, ioErrors, compactions>>

\* The machine dies: nothing syncs the WAL but reset, so any suffix of it and
\* any commit flag may be lost.  The other files are synced at every write.
PowerLoss ==
    /\ powerLosses < MaxPowerLosses
    /\ powerLosses' = powerLosses + 1
    /\ Stopped
    /\ \E n \in 0 .. Len(wal) : \E lost \in SUBSET (1 .. n) :
         wal' = [k \in 1 .. n |-> IF k \in lost THEN [wal[k] EXCEPT !.flag = FALSE] ELSE wal[k]]
    /\ UNCHANGED <<mainFile, feedFile, history, crashes, ioErrors, compactions>>

\* append_record leaves any part of the record (BufWriter tries again when it is
\* dropped), commit_record no flag.
FailedLogWrite ==
    /\ call.step \in {"append", "commit"}
    /\ \/ wal' = wal
       \/ call.step = "append" /\ \E whole \in BOOLEAN : wal' = Append(wal, Record(whole))
    /\ UNCHANGED <<mainFile, feedFile, pageCount, docs, index, nextSeq, feedFailed>>

\* increment_doc_count fails: map and index have changed.
FailedApply ==
    /\ call.step = "apply" /\ call.op # "update"
    /\ index' = Reindexed
    /\ docs' = [docs EXCEPT ![call.id] = call.val]
    /\ numPages' \in {numPages, pageCount}
    /\ UNCHANGED <<wal, pages, feedFile, pageCount, nextSeq, feedFailed>>

\* ReplicationLog::append writes no length, or a length without its record, or
\* all of it but cannot sync, and then uses the number again.
FailedPublish ==
    /\ \/ call.step = "publish" /\ UNCHANGED <<feedFile, feedFailed>>
       \/ call.step = "body" /\ UNCHANGED feedFile /\ feedFailed' = TRUE
       \/ call.step = "body" /\ Published /\ feedFailed' = TRUE
    /\ UNCHANGED <<wal, mainFile, pageCount, docs, index, nextSeq>>

\* allocate_page counts the page in memory before it writes the header.
FailedAllocation ==
    /\ call.step = "alloc" /\ pageCount < PagesNeeded + 1
    /\ pageCount' = Grown
    /\ numPages' \in {numPages, Grown}
    /\ UNCHANGED <<wal, pages, feedFile, docs, index, nextSeq, feedFailed>>

FailedPage ==
    /\ \/ call.step = "zero" /\ pages' \in {pages, [pages EXCEPT ![pageCount - 1] = Zero]}
       \/ AtChunk /\ pages' \in {pages, [pages EXCEPT ![ThisPage] = DataPage(docs, ThisPage)]}
       \/ /\ call.step = "trailer"
          /\ pages' \in {pages, [pages EXCEPT ![PagesNeeded + 1] = Trailer(Cardinality(Live(docs)))]}
    /\ UNCHANGED <<wal, numPages, feedFile, pageCount, docs, index, nextSeq, feedFailed>>

\* set_len or sync_all of Wal::reset fails; the change log is not reset then.
FailedWalReset ==
    /\ call.step = "walreset" /\ wal' \in {wal, <<>>}
    /\ UNCHANGED <<mainFile, feedFile, pageCount, docs, index, nextSeq, feedFailed>>

\* sync_all of ReplicationLog::reset fails: the log is empty but the numbers go on.
FailedFeedReset ==
    /\ call.step = "feedreset"
    /\ \/ UNCHANGED <<feedFile, feedFailed>>
       \/ Emptied /\ feedFailed' = TRUE
    /\ UNCHANGED <<wal, mainFile, pageCount, docs, index, nextSeq>>

\* A write or a sync returns an error and so does the call.  A failed write of
\* a record may leave a part of it; one of a page, of a length or of a flag
\* leaves nothing; a failed sync leaves all that was written.
IoError ==
    /\ mode = "up" /\ ioErrors < MaxIoErrors
    /\ ioErrors' = ioErrors + 1
    /\ call' = Idle
    /\ UNCHANGED <<mode, content, overruled, crashes, powerLosses, compactions>>
    /\ \/ FailedLogWrite \/ FailedApply \/ FailedPublish \/ FailedAllocation
       \/ FailedPage \/ FailedWalReset \/ FailedFeedReset

-----------------------------------------------------------------------------
CallStep ==
    \/ AppendRecord \/ CommitRecord \/ Apply \/ PublishLength \/ PublishBody
    \/ AllocateHeader \/ AllocateZero \/ WriteChunk \/ WriteTrailer
    \/ ResetWal \/ ResetFeed

Next ==
    \/ OpenOk \/ OpenFails
    \/ \E i \in Ids, v \in Vals : Insert(i, v)
    \/ \E i \in Ids, v \in Vals : Update(i, v)
    \/ \E i \in Ids : Delete(i)
    \/ Compact
    \/ CallStep
    \/ Crash \/ PowerLoss \/ IoError

Spec == Init /\ [][Next]_vars

-----------------------------------------------------------------------------
(* Properties.                                                             *)

\* The steps of a mutation and of a compaction.
Serving == {"append", "commit", "apply", "publish", "body"}
Compacting == {"alloc", "zero", "write", "trailer", "walreset", "feedreset"}

CallRecord ==
    [op : Mutations \cup {"none", "compact"}, id : Ids \cup {None}, val : Vals \cup {None},
     old : Vals \cup {None}, page : Nat, step : {"done"} \cup Serving \cup Compacting]

\* The type of every variable.
TypeOK ==
    /\ wal \in Seq(WalRecord)
    /\ feed \in Seq(ChangeRecord) /\ feedTorn \in BOOLEAN /\ feedBad \in Nat
    /\ numPages \in Nat /\ pages \in [PageNos -> Page]
    /\ pageCount \in Nat
    /\ mode \in {"down", "up", "refused"}
    /\ docs \in Docs /\ index \subseteq Words \X Ids /\ nextSeq \in Nat
    /\ call \in CallRecord /\ content \in Docs
    /\ overruled \subseteq Ids /\ feedFailed \in BOOLEAN
    /\ crashes \in Nat /\ powerLosses \in Nat /\ ioErrors \in Nat /\ compactions \in Nat

\* Between calls the engine shows exactly the committed operations: nothing
\* acknowledged is missing and nothing uncommitted is visible, also after a
\* crash and reopen (engine.rs open, the recovery loop).
Durable == mode = "up" /\ call = Idle => docs = content

\* Durable holds through any number of process crashes at any step, as long as
\* the machine stays up, no write fails and the database was never compacted.
DurableThroughCrashes ==
    powerLosses = 0 /\ ioErrors = 0 /\ compactions = 0 => Durable

\* Every word of every document finds it, whatever mix of inserts, updates,
\* deletes, recoveries and compactions led here (index.rs, and the re-indexing
\* of open).
SearchComplete ==
    mode = "up" => \A i \in Ids : docs[i] # None => \A t \in Tokens[docs[i]] : i \in Search(t)

\* Sequence numbers in the change log have no gap and no duplicate, and an
\* open engine continues them, also after a crash (compute_next_sequence),
\* after the reset of a compaction, and after any failing write, but for one:
\* from a record cut off or a sync failing behind its length on the numbers are
\* used twice or the log cannot be read, until a reset (replication.rs:101).
FeedGapless == ~feedFailed =>
    /\ \A k \in 1 .. Len(feed) : feed[k].sequence = k
    /\ mode = "up" => nextSeq = Len(feed) + 1

\* A change reaches the change log only after the WAL holds it committed, so a
\* follower never sees a change that recovery would undo.
FeedOnlyCommitted ==
    powerLosses = 0 /\ compactions = 0 =>
      \A k \in 1 .. Len(feed) : \E j \in 1 .. Len(wal) :
        /\ wal[j].flag /\ wal[j].op = feed[k].op
        /\ wal[j].id = feed[k].id /\ wal[j].val = feed[k].val

\* compact drops the WAL only when the main file holds every document and the
\* trailer that says how long the payload is.
ImageBeforeTruncation ==
    call.step \in {"walreset", "feedreset"} =>
      /\ Holds(docs, Cardinality(Live(docs)))
      /\ pages[PagesNeeded + 1] = Trailer(Cardinality(Live(docs)))

\* What was done to a document since the last compaction is never lost to a
\* crash: the main file is an older image and must not win over the WAL.  It
\* does when the WAL has deletes only, whose documents the image then brings
\* back (engine.rs:68): those, until they are written again, are left out.
RecentWritesSurvive ==
    powerLosses = 0 /\ ioErrors = 0 /\ mode = "up" /\ call = Idle =>
      \A i \in Logged \ overruled : docs[i] = content[i]

\* What recovery would find changes only when a commit flag is written or the
\* WAL is dropped: appending, applying, publishing and failing never do.
OnlyCommitIsDurable ==
    [][Recovered(wal') # Recovered(wal) =>
         call.step \in {"commit", "walreset"} \/ powerLosses' # powerLosses]_vars

\* Every call returns: no step of insert, update, delete or compact waits for
\* anything, and the page allocation loop of compact ends.
CallReturns == call # Idle ~> call = Idle

-----------------------------------------------------------------------------
(* The inductive invariant behind DurableThroughCrashes, SearchComplete    *)
(* and FeedGapless (module EngineProofs).                                  *)

\* What a call in progress looks like at each of its steps.
CallOK ==
    /\ mode # "up" => call = Idle
    /\ call.step = "done" => call = Idle
    /\ call.step \in Serving =>
         /\ call.op \in Mutations /\ call.id \in Ids
         /\ call.op = "delete" => call.val = None
    /\ call.step \in Compacting => compactions > 0

Unfaulted == powerLosses = 0 /\ ioErrors = 0 /\ compactions = 0

\* How far the map of documents is behind the WAL at each step of a call.
LogOK ==
    Unfaulted =>
      /\ numPages = 1 /\ pageCount = 1
      /\ content = Recovered(wal)
      /\ mode = "up" =>
           /\ call.step \in {"done", "publish", "body"} => docs = content
           /\ call.step \in {"append", "commit"} =>
                docs = IF call.op = "delete" THEN [content EXCEPT ![call.id] = None] ELSE content
           /\ call.step = "commit" => wal # <<>> /\ wal[Len(wal)] = Record(TRUE)
           /\ call.step = "apply" => content = [docs EXCEPT ![call.id] = call.val]

\* When the change log may be cut off, or have a record behind such a cut.
FeedFileOK ==
    /\ feedFailed => ioErrors > 0
    /\ feedBad # 0 => feedFailed
    /\ mode = "up" /\ feedTorn /\ call.step # "body" => feedFailed

IndexOK == mode = "up" => \A i \in Ids : Entries(i, docs[i]) \subseteq index

\* The inductive invariant: the parts above with the types and FeedGapless.
EngineInv == TypeOK /\ CallOK /\ LogOK /\ IndexOK /\ FeedFileOK /\ FeedGapless
=============================================================================
