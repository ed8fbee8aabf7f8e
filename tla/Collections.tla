----------------------------- MODULE Collections -----------------------------
(***************************************************************************)
(* The collection store (src/db.rs): a collection of documents with its    *)
(* inverted index and one secondary index, saved as a whole through a      *)
(* temporary file, beside a transaction log (module TxWal) that            *)
(* open_with_wal is meant to replay.  Every operation but compact touches  *)
(* one collection and compact treats each on its own, so there is one.     *)
(*                                                                         *)
(* A document's body is the value of the indexed field: a string, a number *)
(* (or another value that is not a string), or no such field.  `key' is    *)
(* its text, compared by <; the word of a string is its key.               *)
(***************************************************************************)
EXTENDS TxWal

CONSTANTS
    Ids,        \* document ids
    Bodies,     \* document bodies: [kind : {"string", "number", "none"}, key : Keys]
    Keys,       \* texts of field values, a set of numbers
    None,       \* no collection, index, image or file
    Unreadable, \* a file whose text is not that of a database
    MaxFaults   \* bound: crashes and lost writes

ASSUME CollectionsAssumptions ==
    /\ Keys \subseteq Nat /\ MaxFaults \in Nat
    /\ Bodies \subseteq [kind : {"string", "number", "none"}, key : Keys]

VARIABLES
    up,        \* the client holds an open Cassette
    coll,      \* its collection
    path,      \* the database file
    tmp,       \* the temporary file
    writing,   \* what the call in progress will do next: "rename", "save" or "done"
    collided,  \* history: two documents got the same id
    saved,     \* history: what the last completed save saved
    lost,      \* history: a buffered write failed, or the machine died
    faults

storeVars == <<up, coll, path, tmp, writing, collided, saved, lost, faults>>
cvars == <<txVars, calls, storeVars>>

NoColl == [documents |-> <<>>, inverted |-> {}, secondary |-> None, exists |-> FALSE]

CInit ==
    /\ TxInit
    /\ up = FALSE /\ coll = NoColl /\ path = None /\ tmp = None /\ writing = "done"
    /\ collided = FALSE /\ saved = None /\ lost = FALSE /\ faults = 0

-----------------------------------------------------------------------------
(* The indexes.  `inverted' pairs words with ids; `secondary' lists the    *)
(* ids under each key, an empty list standing for an absent key.           *)

\* Vec::retain, for the positions in P.
Retain(s, P) ==
    LET f[k \in 0 .. Len(s)] ==
          IF k = 0 THEN <<>> ELSE IF k \in P THEN Append(f[k - 1], s[k]) ELSE f[k - 1]
    IN  f[Len(s)]

Doc(i, b) == [id |-> i, body |-> b, deleted |-> FALSE]
Words(doc) == IF doc.body.kind = "string" THEN {<<doc.body.key, doc.id>>} ELSE {}

AddToSecondary(index, doc) ==
    IF index = None \/ doc.body.kind = "none" THEN index
    ELSE [index EXCEPT ![doc.body.key] = Append(@, doc.id)]

\* Mutant: the old entry stays.
RemoveFromSecondary_Keeps(index, doc) == index
RemoveFromSecondary(index, doc) ==
    IF index = None \/ doc.body.kind = "none" THEN index
    ELSE [index EXCEPT ![doc.body.key] = Retain(@, {n \in DOMAIN @ : @[n] # doc.id})]

NoEntries == [k \in Keys |-> <<>>]
Live(docs) == {p \in DOMAIN docs : ~docs[p].deleted}
LiveDocs(docs) == Retain(docs, Live(docs))
IndexOf(docs) ==
    LET f[k \in 0 .. Len(docs)] ==
          IF k = 0 THEN NoEntries ELSE AddToSecondary(f[k - 1], docs[k])
    IN  f[Len(docs)]

\* The first document with an id, and the first that is not deleted.
Named(docs, i) == {p \in DOMAIN docs : docs[p].id = i}
FirstOf(S) == CHOOSE p \in S : \A q \in S : p <= q
Find(i) == Named(coll.documents, i) \cap Live(coll.documents)

-----------------------------------------------------------------------------
(* Operations on the open Cassette.                                        *)

Ready == up /\ writing = "done" /\ CountCall
Quiet == UNCHANGED <<txVars, up, path, tmp, writing, saved, lost, faults>>

\* The id is made of the time and a random number.
Insert(i, b) ==
    /\ Ready
    /\ coll' = [documents |-> Append(coll.documents, Doc(i, b)),
                inverted |-> coll.inverted \cup Words(Doc(i, b)),
                secondary |-> AddToSecondary(coll.secondary, Doc(i, b)),
                exists |-> TRUE]
    /\ collided' = (collided \/ Named(coll.documents, i) # {})
    /\ Quiet

Update(i, b) ==
    /\ Ready /\ Named(coll.documents, i) # {}
    /\ LET p == FirstOf(Named(coll.documents, i))
           old == coll.documents[p]
       IN /\ ~old.deleted
          /\ coll' = [coll EXCEPT
               !.documents[p].body = b,
               !.inverted = {e \in @ : e[2] # i} \cup Words(Doc(i, b)),
               !.secondary = AddToSecondary(RemoveFromSecondary(@, old), Doc(i, b))]
    /\ Quiet /\ UNCHANGED collided

\* Only the flag changes; the indexes keep the document until compact.
Delete(i) ==
    /\ Ready /\ Named(coll.documents, i) # {}
    /\ coll' = [coll EXCEPT !.documents[FirstOf(Named(coll.documents, i))].deleted = TRUE]
    /\ Quiet /\ UNCHANGED collided

CreateIndex ==
    /\ Ready /\ coll.exists /\ coll.secondary = None
    /\ coll' = [coll EXCEPT !.secondary = IndexOf(LiveDocs(coll.documents))]
    /\ Quiet /\ UNCHANGED collided

DropIndex ==
    /\ Ready /\ coll.secondary # None
    /\ coll' = [coll EXCEPT !.secondary = None]
    /\ Quiet /\ UNCHANGED collided

Compact ==
    /\ Ready /\ coll.exists
    /\ LET kept == LiveDocs(coll.documents) IN
         coll' = [coll EXCEPT !.documents = kept,
                              !.inverted = UNION {Words(kept[p]) : p \in DOMAIN kept},
                              !.secondary = IF @ = None THEN None ELSE IndexOf(kept)]
    /\ Quiet /\ UNCHANGED collided

-----------------------------------------------------------------------------
(* save, open and open_with_wal.                                           *)

\* Mutant: the database file itself is emptied and written.
SaveTemp_InPlace ==
    /\ Ready
    /\ path' = Unreadable /\ tmp' = coll
    /\ writing' = "rename"
    /\ UNCHANGED <<txVars, up, coll, collided, saved, lost, faults>>

\* The temporary file is written through a buffer that is dropped, so a failed
\* write of the last of it goes unnoticed;
SaveTemp ==
    /\ Ready
    /\ \/ tmp' = coll /\ UNCHANGED <<lost, faults>>
       \/ faults < MaxFaults /\ faults' = faults + 1 /\ tmp' = Unreadable /\ lost' = TRUE
    /\ writing' = "rename"
    /\ UNCHANGED <<txVars, up, coll, path, collided, saved>>

\* then it becomes the database file.
SaveRename ==
    /\ writing = "rename"
    /\ path' = tmp /\ tmp' = None /\ saved' = coll
    /\ writing' = "done"
    /\ UNCHANGED <<txVars, calls, up, coll, collided, lost, faults>>

\* A missing file is an empty database; an unreadable one is an error.
Open ==
    /\ ~up /\ writing = "done" /\ CountCall
    /\ path # Unreadable
    /\ up' = TRUE /\ coll' = IF path = None THEN NoColl ELSE path
    /\ UNCHANGED <<txVars, path, tmp, writing, collided, saved, lost, faults>>

\* With a log file (even an empty one) beside it, open_with_wal opens the database file as a log.  One
\* that exists is no log and the call fails; a missing one is created with a
\* log's header, has nothing to replay, and the empty database is saved.
OpenWithWal ==
    /\ ~up /\ writing = "done" /\ CountCall
    /\ path = None
    /\ path' = Unreadable /\ coll' = NoColl /\ writing' = "save"
    /\ UNCHANGED <<txVars, up, tmp, collided, saved, lost, faults>>

OpenWithWalSave ==
    /\ writing = "save"
    /\ path' = NoColl /\ saved' = NoColl /\ up' = TRUE /\ writing' = "done"
    /\ UNCHANGED <<txVars, calls, coll, tmp, collided, lost, faults>>

\* The process dies, or drops the Cassette and its log; or the machine dies, and
\* the file, never synced, may be empty, and the log, never synced, may be shorter.
Crash ==
    /\ up \/ writing # "done"
    /\ faults < MaxFaults /\ faults' = faults + 1
    /\ up' = FALSE /\ coll' = NoColl /\ writing' = "done"
    /\ \/ ReopenLog /\ UNCHANGED <<path, lost>>
       \/ /\ ReopenAfterPowerLoss
          /\ \/ UNCHANGED <<path, lost>>
             \/ path # None /\ path' = Unreadable /\ lost' = TRUE
    /\ UNCHANGED <<calls, tmp, collided, saved>>

UseLog == up /\ writing = "done" /\ TxNext /\ UNCHANGED storeVars

CNext ==
    \/ \E i \in Ids, b \in Bodies : Insert(i, b) \/ Update(i, b)
    \/ \E i \in Ids : Delete(i)
    \/ CreateIndex \/ DropIndex \/ Compact
    \/ SaveTemp \/ SaveRename \/ Open \/ OpenWithWal \/ OpenWithWalSave
    \/ Crash \/ UseLog

CSpec == CInit /\ [][CNext]_cvars

-----------------------------------------------------------------------------
(* Queries: the positions of the documents they return.                    *)

docs == coll.documents
HasKey(p) == docs[p].body.kind # "none"

\* query, for field = k.  Without an index only strings are equal to k.
Query(k) ==
    IF coll.secondary # None
    THEN {p \in Live(docs) : \E n \in DOMAIN coll.secondary[k] : coll.secondary[k][n] = docs[p].id}
    ELSE {p \in Live(docs) : docs[p].body.kind = "string" /\ docs[p].body.key = k}

Compares(j, op, k) ==
    CASE op = ">" -> j > k [] op = "<" -> j < k [] op = ">=" -> j >= k [] op = "<=" -> j <= k

\* The scan of query_range.
ScanRange(op, k) == {p \in Live(docs) : HasKey(p) /\ Compares(docs[p].body.key, op, k)}

\* The walk over the index: > skips every key with the ids of k itself, and
\* looks at the document again.
IndexRange(op, k) ==
    {p \in Live(docs) : \E j \in Keys :
       /\ IF op = ">" THEN j >= k /\ coll.secondary[j] # coll.secondary[k] ELSE Compares(j, op, k)
       /\ \E n \in DOMAIN coll.secondary[j] :
            LET i == coll.secondary[j][n] IN Find(i) # {} /\ p = FirstOf(Find(i))
       /\ op = ">" => docs[p].body.key > k}

\* search, for one word.
Search(k) ==
    {p \in Live(docs) : \E i \in Ids : <<k, i>> \in coll.inverted /\ Find(i) # {} /\ p = FirstOf(Find(i))}

-----------------------------------------------------------------------------
(* Properties.                                                             *)

\* After any mix of inserts, updates, deletes, index creations, compactions,
\* saves and reopens, as long as no two documents have the same id: a query by
\* the index returns the documents with that key, a range query by the index
\* those the scan would, none of them twice, and a search the live documents
\* with the word (db.rs:320, db.rs:342, db.rs:258).  Without the index a query
\* misses the values that are not strings.
QueriesExact ==
    ~collided => \A k \in Keys :
      /\ Search(k) = {p \in Live(docs) : docs[p].body.kind = "string" /\ docs[p].body.key = k}
      /\ coll.secondary # None =>
           /\ Query(k) = {p \in Live(docs) : HasKey(p) /\ docs[p].body.key = k}
           /\ \A op \in {">", "<", ">=", "<="} : IndexRange(op, k) = ScanRange(op, k)
           /\ \A m, n \in DOMAIN coll.secondary[k] :
                m # n => coll.secondary[k][m] # coll.secondary[k][n]

\* Whatever call a crash interrupts, the database file holds the last save that
\* completed, also when open_with_wal takes that file for a log, unless a
\* buffered write was lost or the machine died (db.rs:104, db.rs:74).
SavedSurvives == saved # None /\ ~lost => path = saved
=============================================================================
