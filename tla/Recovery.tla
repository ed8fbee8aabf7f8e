------------------------------ MODULE Recovery ------------------------------
(* The recovery loop of CassetteEngine::open as the code runs it: record by *)
(* record over the WAL, building map and index.                             *)
EXTENDS Engine

\* Mutant: uncommitted records are handed out too.
HandedOut_All(r) == TRUE
\* WalIter::next passes over records whose flag is not set.
HandedOut(r) == r.flag

\* One round of the loop: insert and update re-index the document, delete
\* removes it if it is there.
ReplayRecord(s, r) ==
    LET old == s.docs[r.id] IN
      IF r.op = "delete" /\ old = None THEN s
      ELSE [docs  |-> [s.docs EXCEPT ![r.id] = r.val],
            index |-> (s.index \ Entries(r.id, old)) \cup Entries(r.id, r.val)]

Replay(w) ==
    LET f[k \in 0 .. Len(w)] ==
          IF k = 0 THEN [docs |-> NoDocs, index |-> {}]
          ELSE IF HandedOut(w[k]) THEN ReplayRecord(f[k - 1], w[k]) ELSE f[k - 1]
    IN  f[Len(w)]

\* The loop computes what the last committed record of each document says,
\* and an index with exactly the words of those documents.
ReplayIsLastCommitted ==
    Replay(wal) = [docs |-> Recovered(wal), index |-> IndexOf(Recovered(wal))]
=============================================================================
