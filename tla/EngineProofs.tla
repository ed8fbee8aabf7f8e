---------------------------- MODULE EngineProofs ----------------------------
(***************************************************************************)
(* Proofs about Engine and the modules that extend it, for every set of    *)
(* documents, bodies and words and every bound.                            *)
(*                                                                         *)
(* Engine: the types, that the documents survive process crashes, that     *)
(* search finds every document, that the change log has no gaps and holds  *)
(* committed operations only, that a compaction writes its image before it *)
(* drops the WAL, that what was written since a compaction survives, that  *)
(* only a commit flag makes an operation durable, and that the steps of    *)
(* the engine are steps of DurableStore.                                   *)
(* Recovery: the replay of the WAL, record by record, yields what Engine   *)
(* takes it to yield.  Replication: a follower without faults agrees with  *)
(* its primary.  Backup: what a restore brings back.                       *)
(***************************************************************************)
EXTENDS EngineRefinement, Recovery, Replication, Backup, Induction

(* A non-empty set of numbers up to n has a largest member: Largest is what *)
(* its name says on the sets of positions recovery takes it of.             *)
LEMMA LargestExists ==
    ASSUME NEW n \in Nat, NEW S \in SUBSET (1 .. n), S # {}
    PROVE  Largest(S) \in S /\ \A j \in S : j <= Largest(S)
<1> DEFINE T == {n - k : k \in S}
<1>1. T \subseteq Nat /\ T # {}
  <2>1. \A k \in S : k \in Nat /\ k <= n /\ n - k \in Nat
    OBVIOUS
  <2> QED BY <2>1
<1>2. PICK m \in T : \A y \in T : ~(<<y, m>> \in OpToRel(<, Nat))
  BY <1>1, NatLessThanWellFounded, WFMin
<1>3. PICK k \in S : m = n - k
  OBVIOUS
<1>4. \A j \in S : j <= k
  <2> SUFFICES ASSUME NEW j \in S PROVE j <= k
    OBVIOUS
  <2>1. ~(<<n - j, m>> \in OpToRel(<, Nat))
    BY <1>2
  <2>2. ~(n - j < m)
    BY <2>1, <1>1, <1>2 DEF OpToRel
  <2> QED BY <2>2, <1>3
<1> QED BY <1>4 DEF Largest

(* The largest member of a set is determined by being one. *)
LEMMA LargestUnique ==
    ASSUME NEW S \in SUBSET Nat, NEW n \in S, \A j \in S : j <= n
    PROVE  Largest(S) = n
<1>1. \E k \in S : \A j \in S : j <= k
  OBVIOUS
<1>2. Largest(S) \in S /\ \A j \in S : j <= Largest(S)
  BY <1>1 DEF Largest
<1>3. n \in Nat /\ Largest(S) \in Nat
  BY <1>2
<1>4. n <= Largest(S) /\ Largest(S) <= n
  BY <1>2
<1> HIDE DEF Largest
<1> QED BY <1>3, <1>4

(* An uncommitted record, whole or torn, does not change what recovery of   *)
(* the WAL yields (WalIter::next skips it).                                 *)
LEMMA AppendUncommitted ==
    ASSUME NEW w \in Seq(WalRecord), NEW r \in WalRecord, r.flag = FALSE
    PROVE  Recovered(Append(w, r)) = Recovered(w)
<1> DEFINE v == Append(w, r)
<1>1. \A i \in Ids : CommittedAt(v, i) = CommittedAt(w, i)
  BY DEF CommittedAt, WalRecord
<1>2. ASSUME NEW i \in Ids, CommittedAt(w, i) # {}
      PROVE  v[Largest(CommittedAt(w, i))] = w[Largest(CommittedAt(w, i))]
  <2>1. CommittedAt(w, i) \in SUBSET (1 .. Len(w)) /\ Len(w) \in Nat
    BY DEF CommittedAt
  <2>2. Largest(CommittedAt(w, i)) \in 1 .. Len(w)
    BY <1>2, <2>1, LargestExists
  <2> QED BY <2>2
<1>3. \A i \in Ids : Recovered(v)[i] = Recovered(w)[i]
  BY <1>1, <1>2 DEF Recovered
<1> QED BY <1>3 DEF Recovered

(* Setting the commit flag of the last record applies that record, and      *)
(* nothing else, to what recovery yields.                                   *)
LEMMA CommitLast ==
    ASSUME NEW w \in Seq(WalRecord), w # <<>>, w[Len(w)].flag = FALSE
    PROVE  Recovered([w EXCEPT ![Len(w)].flag = TRUE])
             = [Recovered(w) EXCEPT ![w[Len(w)].id] = w[Len(w)].val]
<1> DEFINE n == Len(w)
           v == [w EXCEPT ![n].flag = TRUE]
           r == w[n]
<1>1. n \in Nat \ {0} /\ n \in DOMAIN w /\ r \in WalRecord /\ r.id \in Ids
  <2>1. n \in Nat /\ n # 0
    OBVIOUS
  <2>2. n \in 1 .. Len(w) /\ w[n] \in WalRecord
    BY <2>1
  <2> QED BY <2>1, <2>2 DEF WalRecord
<1>2. Len(v) = n /\ DOMAIN v = 1 .. n
  BY <1>1
<1>3. /\ \A k \in 1 .. n : k # n => v[k] = w[k]
      /\ v[n] = [r EXCEPT !.flag = TRUE]
  BY <1>1
<1>4. v[n].flag = TRUE /\ v[n].id = r.id /\ v[n].val = r.val
  BY <1>1, <1>3 DEF WalRecord
<1> HIDE DEF v, n, r
<1>5. ASSUME NEW i \in Ids, i # r.id
      PROVE  Recovered(v)[i] = Recovered(w)[i]
  <2>1. CommittedAt(v, i) = CommittedAt(w, i)
    BY <1>2, <1>3, <1>4, <1>5 DEF CommittedAt, n, r
  <2>2. CASE CommittedAt(w, i) = {}
    BY <2>1, <2>2 DEF Recovered
  <2>3. CASE CommittedAt(w, i) # {}
    <3>1. CommittedAt(w, i) \in SUBSET (1 .. n)
      BY DEF CommittedAt, n
    <3>2. Largest(CommittedAt(w, i)) \in CommittedAt(w, i)
      BY <1>1, <2>3, <3>1, LargestExists
    <3>3. Largest(CommittedAt(w, i)) \in 1 .. n /\ Largest(CommittedAt(w, i)) # n
      BY <3>1, <3>2, <1>5 DEF CommittedAt, r
    <3> QED BY <2>1, <2>3, <3>3, <1>3 DEF Recovered
  <2> QED BY <2>2, <2>3
<1>6. Recovered(v)[r.id] = r.val
  <2>1. n \in CommittedAt(v, r.id)
    BY <1>1, <1>2, <1>4 DEF CommittedAt
  <2>2. CommittedAt(v, r.id) \in SUBSET Nat /\ \A j \in CommittedAt(v, r.id) : j <= n
    BY <1>1, <1>2 DEF CommittedAt
  <2>3. Largest(CommittedAt(v, r.id)) = n
    BY <2>1, <2>2, LargestUnique
  <2> QED BY <1>1, <1>4, <2>1, <2>3 DEF Recovered
<1>7. Recovered(v) = [i \in Ids |-> Recovered(v)[i]]
  BY DEF Recovered
<1>8. Recovered(w) = [i \in Ids |-> Recovered(w)[i]]
  BY DEF Recovered
<1>9. Recovered(v) = [Recovered(w) EXCEPT ![r.id] = r.val]
  BY <1>1, <1>5, <1>6, <1>7, <1>8
<1> QED BY <1>9 DEF v, n, r

-----------------------------------------------------------------------------
(* Types.                                                                  *)

(* The number of live documents is a number. *)
LEMMA LiveCount ==
    ASSUME NEW d
    PROVE  Cardinality(Live(d)) \in Nat
<1>1. IsFiniteSet(Ids) /\ Live(d) \in SUBSET Ids
  BY EngineAssumptions DEF Live
<1> QED BY <1>1, FS_Subset, FS_CardinalityType

(* What recovery and the index make of documents has the right type. *)
LEMMA RecoveredType ==
    ASSUME NEW w \in Seq(WalRecord)
    PROVE  Recovered(w) \in Docs
<1>1. ASSUME NEW i \in Ids, CommittedAt(w, i) # {}
      PROVE  w[Largest(CommittedAt(w, i))].val \in Vals \cup {None}
  <2>1. CommittedAt(w, i) \in SUBSET (1 .. Len(w)) /\ Len(w) \in Nat
    BY DEF CommittedAt
  <2>2. Largest(CommittedAt(w, i)) \in 1 .. Len(w)
    BY <1>1, <2>1, LargestExists
  <2>3. w[Largest(CommittedAt(w, i))] \in WalRecord
    BY <2>2
  <2> QED BY <2>3 DEF WalRecord
<1> QED BY <1>1 DEF Recovered, Docs

(* Index entries are word and id pairs. *)
LEMMA EntriesType ==
    ASSUME NEW i \in Ids, NEW v \in Vals \cup {None}
    PROVE  Entries(i, v) \subseteq Words \X Ids
BY EngineAssumptions DEF Entries

(* So is an index built from documents. *)
LEMMA IndexOfType ==
    ASSUME NEW d \in Docs
    PROVE  IndexOf(d) \subseteq Words \X Ids
BY EntriesType DEF IndexOf, Docs

(* The empty database is a set of documents. *)
LEMMA NoDocsType == NoDocs \in Docs
BY DEF NoDocs, Docs

(* The change log is numbered from 1 without gaps, so the number after the  *)
(* largest one in it is one more than its length.                           *)
LEMMA NextSequence ==
    ASSUME feed \in Seq(ChangeRecord), feedBad = 0, NEW S \in Scans,
           \A k \in 1 .. Len(feed) : feed[k].sequence = k
    PROVE  ComputeNextSequence(S) = Len(feed) + 1
<1>1. S = 1 .. Len(feed)
  BY DEF Scans
<1>2. {0} \cup {feed[k].sequence : k \in S} = 0 .. Len(feed) /\ Len(feed) \in Nat
  <2>1. {feed[k].sequence : k \in S} = 1 .. Len(feed)
    BY <1>1
  <2> QED BY <2>1
<1>3. Largest(0 .. Len(feed)) = Len(feed)
  BY <1>2, LargestUnique
<1> QED BY <1>2, <1>3 DEF ComputeNextSequence

(* Whatever records a scan finds, the next number is a number.              *)
LEMMA NextSequenceType ==
    ASSUME feed \in Seq(ChangeRecord), feedBad \in Nat, NEW S \in Scans
    PROVE  ComputeNextSequence(S) \in Nat
<1> DEFINE P(n) == {0} \cup {feed[k].sequence : k \in S \cap (1 .. n)}
           U == {n \in Nat : n <= Len(feed) => \E m \in P(n) : \A j \in P(n) : j <= m}
<1>1. S \subseteq 1 .. Len(feed) /\ Len(feed) \in Nat
  BY DEF Scans
<1>2. \A k \in 1 .. Len(feed) : feed[k].sequence \in Nat
  <2>1. \A k \in 1 .. Len(feed) : feed[k] \in ChangeRecord
    OBVIOUS
  <2> QED BY <2>1 DEF ChangeRecord
<1>3. \A n \in Nat : n <= Len(feed) => P(n) \in SUBSET Nat
  BY <1>1, <1>2
<1>4. 0 \in U
  <2>1. P(0) = {0}
    OBVIOUS
  <2> QED BY <2>1
<1>5. ASSUME NEW n \in Nat, n \in U PROVE n + 1 \in U
  <2> SUFFICES ASSUME n + 1 <= Len(feed) PROVE \E m \in P(n + 1) : \A j \in P(n + 1) : j <= m
    OBVIOUS
  <2>1. PICK m \in P(n) : \A j \in P(n) : j <= m
    BY <1>1, <1>5
  <2> DEFINE x == feed[n + 1].sequence
  <2>2. P(n + 1) = IF n + 1 \in S THEN P(n) \cup {x} ELSE P(n)
    <3>1. 1 .. (n + 1) = (1 .. n) \cup {n + 1}
      OBVIOUS
    <3> QED BY <3>1
  <2>3. m \in Nat /\ P(n) \in SUBSET Nat /\ x \in Nat
    BY <1>1, <1>2, <1>3
  <2> HIDE DEF P, x
  <2>4. CASE n + 1 \in S /\ m < x
    BY <2>1, <2>2, <2>3, <2>4
  <2>5. CASE ~(n + 1 \in S /\ m < x)
    BY <2>1, <2>2, <2>3, <2>5
  <2> QED BY <2>4, <2>5
<1> HIDE DEF U
<1>6. Len(feed) \in U
  BY <1>1, <1>4, <1>5, Induct
<1>7. P(Len(feed)) = {0} \cup {feed[k].sequence : k \in S}
  BY <1>1
<1>8. PICK m \in P(Len(feed)) : \A j \in P(Len(feed)) : j <= m
  <2>1. \A k \in U : k <= Len(feed) => \E m \in P(k) : \A j \in P(k) : j <= m
    BY DEF U
  <2> HIDE DEF P
  <2> QED BY <1>1, <1>6, <2>1
<1>9. Largest(P(Len(feed))) = m /\ m \in Nat
  <2>1. P(Len(feed)) \in SUBSET Nat
    BY <1>1, <1>3
  <2> HIDE DEF P
  <2> QED BY <1>8, <2>1, LargestUnique
<1> HIDE DEF P
<1> QED BY <1>7, <1>9 DEF ComputeNextSequence

(* An idle engine's call, the call of a mutation, and what Goto leaves of a *)
(* call.                                                                    *)
LEMMA IdleCall == Idle \in CallRecord /\ Idle.step = "done"
BY DEF Idle, CallRecord

(* A new mutation starts at its append step. *)
LEMMA NewCall ==
    ASSUME NEW op \in Mutations, NEW i \in Ids, NEW v \in Vals \cup {None},
           NEW old \in Vals \cup {None}
    PROVE  /\ MutationCall(op, i, v, old) \in CallRecord
           /\ MutationCall(op, i, v, old).step = "append"
           /\ MutationCall(op, i, v, old).op = op
           /\ MutationCall(op, i, v, old).id = i
           /\ MutationCall(op, i, v, old).val = v
BY DEF MutationCall, CallRecord, Serving

(* Moving to the next step keeps the rest of the call. *)
LEMMA NextStep ==
    ASSUME call \in CallRecord, NEW s \in Serving \cup Compacting, Goto(s)
    PROVE  /\ call' \in CallRecord /\ call'.step = s
           /\ call'.op = call.op /\ call'.id = call.id /\ call'.val = call.val
BY DEF Goto, CallRecord

(* A WAL record keeps its type when its commit flag is written or lost. *)
LEMMA FlagType ==
    ASSUME NEW r \in WalRecord, NEW f \in BOOLEAN
    PROVE  [r EXCEPT !.flag = f] \in WalRecord
BY DEF WalRecord

(* Every step keeps the shape of the call in progress. *)
LEMMA CallPreserved ==
    ASSUME TypeOK, CallOK, [Next]_vars
    PROVE  call' \in CallRecord /\ compactions' \in Nat /\ CallOK'
<1>0. call \in CallRecord /\ compactions \in Nat /\ docs \in Docs
  BY DEF TypeOK
<1> USE <1>0, IdleCall DEF CallOK
<1>1. CASE OpenOk
  BY <1>1 DEF OpenOk, Start, counters
<1>2. CASE OpenFails
  BY <1>2 DEF OpenFails, counters, history
<1>3. ASSUME NEW i \in Ids, NEW v \in Vals, Insert(i, v)
      PROVE  call' \in CallRecord /\ compactions' \in Nat /\ CallOK'
  BY <1>3, NewCall DEF Insert, Ready, counters, Serving, Compacting, Mutations, history
<1>4. ASSUME NEW i \in Ids, NEW v \in Vals, Update(i, v)
      PROVE  call' \in CallRecord /\ compactions' \in Nat /\ CallOK'
  <2>1. docs[i] \in Vals \cup {None}
    BY DEF Docs
  <2> QED BY <1>4, <2>1, NewCall DEF Update, Ready, counters, Serving, Compacting, Mutations,
     history
<1>5. ASSUME NEW i \in Ids, Delete(i)
      PROVE  call' \in CallRecord /\ compactions' \in Nat /\ CallOK'
  <2>1. docs[i] \in Vals \cup {None}
    BY DEF Docs
  <2> QED BY <1>5, <2>1, NewCall DEF Delete, Ready, counters, Serving, Compacting, Mutations,
     history
<1>6. CASE Compact
  <2>1. call' \in CallRecord /\ call'.step = "alloc"
    BY <1>6 DEF Compact, Idle, CallRecord, Compacting, history
  <2> QED BY <1>6, <2>1 DEF Compact, Serving, Compacting, history
<1>7. CASE AppendRecord
  BY <1>7, NextStep DEF AppendRecord, counters, Serving, Compacting, mainFile, feedFile,
     history
<1>8. CASE CommitRecord
  BY <1>8, NextStep DEF CommitRecord, counters, Serving, Compacting, mainFile, feedFile
<1>9. CASE Apply
  <2>1. Goto("publish") /\ mode' = mode /\ call.step = "apply" /\ compactions' = compactions
    BY <1>9 DEF Apply, counters, feedFile, history, Reindexed
  <2> QED BY <2>1, NextStep DEF Serving, Compacting
<1>10. CASE PublishLength
  BY <1>10, NextStep DEF PublishLength, counters, Serving, Compacting, mainFile, history
<1>11. CASE PublishBody
  BY <1>11 DEF PublishBody, counters, Serving, Compacting, mainFile, history, Published
<1>12. CASE AllocateHeader
  BY <1>12, NextStep DEF AllocateHeader, counters, Serving, Compacting, feedFile, history,
     Grown
<1>13. CASE AllocateZero
  BY <1>13, NextStep DEF AllocateZero, counters, Serving, Compacting, feedFile, history,
     PutPage
<1>14. CASE WriteChunk
  <2>1. call.step \in Compacting /\ mode' = mode /\ compactions' = compactions
    BY <1>14 DEF WriteChunk, counters, Compacting, feedFile, history, PutPage, AtChunk,
       ThisPage
  <2>2. PICK s \in {"write", "trailer"} : call' = [call EXCEPT !.page = call.page + 1, !.step = s]
    BY <1>14 DEF WriteChunk, feedFile, history, PutPage, AtChunk, ThisPage
  <2>3. call' \in CallRecord /\ call'.step \in {"write", "trailer"}
    <3>1. call.page + 1 \in Nat /\ s \in Compacting
      BY DEF CallRecord, Compacting
    <3> QED BY <2>2, <3>1 DEF CallRecord
  <2> QED BY <2>1, <2>3 DEF Serving, Compacting
<1>15. CASE WriteTrailer
  BY <1>15, NextStep DEF WriteTrailer, counters, Serving, Compacting, feedFile, history,
     PutPage
<1>16. CASE ResetWal
  BY <1>16, NextStep DEF ResetWal, counters, Serving, Compacting, mainFile, feedFile
<1>17. CASE ResetFeed
  BY <1>17 DEF ResetFeed, counters, Serving, Compacting, mainFile, Emptied
<1>18. CASE Crash
  BY <1>18 DEF Crash, Stopped, Serving, Compacting, mainFile, feedFile, history
<1>19. CASE PowerLoss
  BY <1>19 DEF PowerLoss, Stopped, Serving, Compacting, mainFile, feedFile, history
<1>20. CASE IoError
  BY <1>20 DEF IoError, Serving, Compacting
<1>21. CASE UNCHANGED vars
  BY <1>21 DEF vars
<1> QED
  BY <1>1, <1>2, <1>3, <1>4, <1>5, <1>6, <1>7, <1>8, <1>9, <1>10, <1>11, <1>12, <1>13,
     <1>14, <1>15, <1>16, <1>17, <1>18, <1>19, <1>20, <1>21 DEF Next, CallStep

(* The record a change log gets. *)
LEMMA ChangeType ==
    ASSUME call \in CallRecord, CallOK, call.step = "body", nextSeq \in Nat
    PROVE  [sequence |-> nextSeq, op |-> call.op, id |-> call.id, val |-> call.val] \in ChangeRecord
BY DEF CallOK, CallRecord, ChangeRecord, Serving

\* What a failing write does to each file, and to map and index.
WalEffect ==
    \/ wal' = wal
    \/ call.step = "append" /\ \E whole \in BOOLEAN : wal' = Append(wal, Record(whole))
    \/ call.step = "walreset" /\ wal' = <<>>
FeedEffect ==
    \/ UNCHANGED <<feedFile, feedFailed>>
    \/ feedFailed' = TRUE /\ (UNCHANGED feedFile \/ Emptied)
    \/ call.step = "body" /\ feedFailed' = TRUE /\ Published
MapEffect ==
    \/ UNCHANGED <<docs, index>>
    \/ /\ call.step = "apply" /\ index' = Reindexed
       /\ docs' = [docs EXCEPT ![call.id] = call.val]
PagesEffect ==
    \/ pages' = pages
    \/ call.step = "zero" /\ pages' = [pages EXCEPT ![pageCount - 1] = Zero]
    \/ AtChunk /\ pages' = [pages EXCEPT ![ThisPage] = DataPage(docs, ThisPage)]
    \/ /\ call.step = "trailer"
       /\ pages' = [pages EXCEPT ![PagesNeeded + 1] = Trailer(Cardinality(Live(docs)))]
CountEffect ==
    \/ UNCHANGED <<numPages, pageCount>>
    \/ pageCount' = pageCount /\ numPages' = pageCount
    \/ /\ call.step = "alloc" /\ pageCount < PagesNeeded + 1
       /\ pageCount' = pageCount + 1 /\ numPages' \in {numPages, pageCount + 1}

(* A failing write ends the call; only what was being written may change.   *)
LEMMA IoErrorEffect ==
    ASSUME IoError
    PROVE  /\ mode = "up" /\ call' = Idle /\ ioErrors' = ioErrors + 1
           /\ UNCHANGED <<mode, content, overruled, nextSeq, crashes, powerLosses, compactions>>
           /\ WalEffect /\ FeedEffect /\ MapEffect /\ PagesEffect /\ CountEffect
<1> DEFINE Goal == /\ UNCHANGED nextSeq
                   /\ WalEffect /\ FeedEffect /\ MapEffect /\ PagesEffect /\ CountEffect
<1>1. ASSUME FailedLogWrite PROVE Goal
  BY <1>1 DEF FailedLogWrite, mainFile, WalEffect, FeedEffect, MapEffect, PagesEffect,
     CountEffect
<1>2. ASSUME FailedApply PROVE Goal
  BY <1>2 DEF FailedApply, WalEffect, FeedEffect, MapEffect, PagesEffect, CountEffect
<1>3. ASSUME FailedPublish PROVE Goal
  BY <1>3 DEF FailedPublish, mainFile, WalEffect, FeedEffect, MapEffect, PagesEffect,
     CountEffect
<1>4. ASSUME FailedAllocation PROVE Goal
  BY <1>4 DEF FailedAllocation, Grown, WalEffect, FeedEffect, MapEffect, PagesEffect,
     CountEffect
<1>5. ASSUME FailedPage PROVE Goal
  BY <1>5 DEF FailedPage, WalEffect, FeedEffect, MapEffect, PagesEffect, CountEffect
<1>6. ASSUME FailedWalReset PROVE Goal
  BY <1>6 DEF FailedWalReset, mainFile, WalEffect, FeedEffect, MapEffect, PagesEffect,
     CountEffect
<1>7. ASSUME FailedFeedReset PROVE Goal
  BY <1>7 DEF FailedFeedReset, mainFile, WalEffect, FeedEffect, MapEffect, PagesEffect,
     CountEffect
<1>8. Goal
  BY <1>1, <1>2, <1>3, <1>4, <1>5, <1>6, <1>7 DEF IoError
<1> QED BY <1>8 DEF IoError

(* Every step keeps the change log numbered without gaps, and an open       *)
(* engine's next number right.                                              *)
LEMMA FeedPreserved ==
    ASSUME TypeOK, CallOK, FeedFileOK, FeedGapless, [Next]_vars
    PROVE  feed' \in Seq(ChangeRecord) /\ nextSeq' \in Nat /\ FeedGapless'
<1>0. feed \in Seq(ChangeRecord) /\ feedBad \in Nat /\ nextSeq \in Nat /\ call \in CallRecord
  BY DEF TypeOK
<1> USE <1>0 DEF FeedGapless
<1>1. CASE OpenOk
  <2>1. UNCHANGED <<feed, feedFailed>> /\ \E S \in Scans : nextSeq' = ComputeNextSequence(S)
    BY <1>1 DEF OpenOk, Start, disk, feedFile
  <2>2. PICK S \in Scans : nextSeq' = ComputeNextSequence(S)
    BY <2>1
  <2>3. nextSeq' \in Nat
    BY <2>2, NextSequenceType
  <2>4. ~feedFailed => nextSeq' = Len(feed) + 1
    BY <2>2, NextSequence DEF FeedFileOK
  <2> QED BY <2>1, <2>3, <2>4
<1>2. CASE OpenFails
  BY <1>2 DEF OpenFails, disk, mainFile, feedFile, history
<1>3. ASSUME NEW i \in Ids, NEW v \in Vals, Insert(i, v)
      PROVE  feed' \in Seq(ChangeRecord) /\ nextSeq' \in Nat /\ FeedGapless'
  BY <1>3 DEF Insert, disk, mainFile, feedFile, history
<1>4. ASSUME NEW i \in Ids, NEW v \in Vals, Update(i, v)
      PROVE  feed' \in Seq(ChangeRecord) /\ nextSeq' \in Nat /\ FeedGapless'
  BY <1>4 DEF Update, disk, mainFile, feedFile, history
<1>5. ASSUME NEW i \in Ids, Delete(i)
      PROVE  feed' \in Seq(ChangeRecord) /\ nextSeq' \in Nat /\ FeedGapless'
  BY <1>5 DEF Delete, disk, mainFile, feedFile, history
<1>6. CASE Compact
  BY <1>6 DEF Compact, disk, mainFile, feedFile, history
<1>7. CASE AppendRecord
  BY <1>7 DEF AppendRecord, mainFile, feedFile, history
<1>8. CASE CommitRecord
  BY <1>8 DEF CommitRecord, mainFile, feedFile
<1>9. CASE Apply
  <2>1. UNCHANGED <<feed, feedFailed, mode, nextSeq>>
    BY <1>9 DEF Apply, feedFile, history, Reindexed
  <2> QED BY <2>1
<1>10. CASE PublishLength
  BY <1>10 DEF PublishLength, mainFile, history
<1>11. CASE PublishBody
  <2>1. call.step = "body" /\ mode = "up"
    BY <1>11, IdleCall DEF PublishBody, CallOK
  <2>2. [sequence |-> nextSeq, op |-> call.op, id |-> call.id, val |-> call.val] \in ChangeRecord
    BY <2>1, ChangeType
  <2>3. ~feedFailed => nextSeq = Len(feed) + 1
    BY <2>1
  <2> QED BY <1>11, <2>1, <2>2, <2>3 DEF PublishBody, history, Published
<1>12. CASE AllocateHeader
  BY <1>12 DEF AllocateHeader, feedFile, history, Grown
<1>13. CASE AllocateZero
  BY <1>13 DEF AllocateZero, feedFile, history, PutPage
<1>14. CASE WriteChunk
  BY <1>14 DEF WriteChunk, feedFile, history, PutPage, AtChunk, ThisPage
<1>15. CASE WriteTrailer
  BY <1>15 DEF WriteTrailer, feedFile, history, PutPage
<1>16. CASE ResetWal
  BY <1>16 DEF ResetWal, mainFile, feedFile
<1>17. CASE ResetFeed
  BY <1>17 DEF ResetFeed, mainFile, Emptied
<1>18. CASE Crash
  BY <1>18 DEF Crash, Stopped, mainFile, feedFile, history
<1>19. CASE PowerLoss
  BY <1>19 DEF PowerLoss, Stopped, mainFile, feedFile, history
<1>20. CASE IoError
  <2>1. UNCHANGED <<mode, nextSeq>>
    BY <1>20, IoErrorEffect
  <2>2. CASE UNCHANGED <<feedFile, feedFailed>>
    BY <2>1, <2>2 DEF feedFile
  <2>3. CASE feedFailed' = TRUE /\ (UNCHANGED feedFile \/ Emptied)
    <3>1. feed' = feed \/ feed' = <<>>
      BY <2>3, Zenon DEF feedFile, Emptied
    <3>2. feed' \in Seq(ChangeRecord)
      <4>1. <<>> \in Seq(ChangeRecord)
        OBVIOUS
      <4> QED BY <1>0, <3>1, <4>1, Zenon
    <3>3. ~(~feedFailed')
      BY <2>3, Zenon
    <3> QED BY <2>1, <3>2, <3>3
  <2>4. CASE call.step = "body" /\ feedFailed' = TRUE /\ Published
    BY <2>1, <2>4, ChangeType DEF Published
  <2> QED BY <1>20, <2>2, <2>3, <2>4, IoErrorEffect DEF FeedEffect
<1>21. CASE UNCHANGED vars
  BY <1>21 DEF vars
<1> QED
  BY <1>1, <1>2, <1>3, <1>4, <1>5, <1>6, <1>7, <1>8, <1>9, <1>10, <1>11, <1>12, <1>13,
     <1>14, <1>15, <1>16, <1>17, <1>18, <1>19, <1>20, <1>21 DEF Next, CallStep

(* The change log is cut off, or has a record behind such a cut, only after *)
(* a failed write or while a record is being written.                       *)
LEMMA FeedFilePreserved ==
    ASSUME TypeOK, CallOK, FeedFileOK, [Next]_vars
    PROVE  FeedFileOK' /\ feedTorn' \in BOOLEAN /\ feedBad' \in Nat /\ feedFailed' \in BOOLEAN
<1> DEFINE Goal == /\ FeedFileOK' /\ feedTorn' \in BOOLEAN
                   /\ feedBad' \in Nat /\ feedFailed' \in BOOLEAN
<1>0. /\ feedTorn \in BOOLEAN /\ feedBad \in Nat /\ feedFailed \in BOOLEAN
      /\ feed \in Seq(ChangeRecord) /\ ioErrors \in Nat /\ call \in CallRecord
  BY DEF TypeOK
<1> USE <1>0 DEF FeedFileOK
<1>a. (UNCHANGED <<feedFile, feedFailed, ioErrors, mode>> /\ call.step # "body") => Goal
  BY DEF feedFile
<1>1. CASE OpenOk
  BY <1>1 DEF OpenOk, Start, disk, counters, feedFile, ScanOk
<1>2. CASE OpenFails
  BY <1>2 DEF OpenFails, disk, counters, feedFile, history
<1>3. ASSUME NEW i \in Ids, NEW v \in Vals, Insert(i, v) \/ Update(i, v)
      PROVE  Goal
  BY <1>3, <1>a, IdleCall DEF Insert, Update, Ready, disk, counters, history
<1>17. ASSUME NEW i \in Ids, Delete(i)
      PROVE  Goal
  BY <1>17, <1>a, IdleCall DEF Delete, Ready, disk, counters, history
<1>4. CASE Compact
  BY <1>4, <1>a, IdleCall DEF Compact, disk, history
<1>5. CASE AppendRecord
  BY <1>5, <1>a DEF AppendRecord, counters, history
<1>6. CASE CommitRecord
  BY <1>6, <1>a DEF CommitRecord, counters
<1>7. CASE Apply
  <2>1. UNCHANGED <<feedFile, feedFailed, ioErrors, mode>> /\ call.step # "body"
    BY <1>7 DEF Apply, counters, history
  <2> QED BY <2>1, <1>a
<1>8. CASE PublishLength
  <2>1. mode = "up" /\ call.step = "publish"
    BY <1>8, IdleCall DEF PublishLength, CallOK
  <2>2. UNCHANGED <<feedFailed, ioErrors, mode>> /\ feedTorn' = TRUE /\ call'.step = "body"
    BY <1>8, NextStep DEF PublishLength, counters, history, Serving
  <2>3. feedBad' \in Nat /\ (feedBad' # 0 => feedFailed)
    BY <1>8, <2>1 DEF PublishLength
  <2> QED BY <2>2, <2>3
<1>9. CASE PublishBody
  <2>1. UNCHANGED <<feedBad, feedFailed, ioErrors, mode>> /\ feedTorn' = FALSE
    BY <1>9 DEF PublishBody, Published, counters, history
  <2> QED BY <2>1
<1>10. CASE AllocateHeader \/ AllocateZero
  BY <1>10, <1>a DEF AllocateHeader, AllocateZero, PutPage, counters, history
<1>11. CASE WriteChunk \/ WriteTrailer
  BY <1>11, <1>a DEF WriteChunk, WriteTrailer, AtChunk, PutPage, counters, history
<1>12. CASE ResetWal
  BY <1>12, <1>a DEF ResetWal, counters
<1>13. CASE ResetFeed
  <2>1. UNCHANGED <<ioErrors, mode>> /\ feedTorn' = FALSE /\ feedBad' = 0 /\ feedFailed' = FALSE
    BY <1>13 DEF ResetFeed, Emptied, counters
  <2> QED BY <2>1
<1>14. CASE Crash \/ PowerLoss
  <2>1. UNCHANGED <<feedTorn, feedBad, feedFailed, ioErrors>> /\ mode' = "down"
    BY <1>14 DEF Crash, PowerLoss, Stopped, feedFile, history
  <2> QED BY <2>1
<1>15. CASE IoError
  <2>1. ioErrors' > 0 /\ mode' = mode /\ call'.step = "done"
    BY <1>15, IoErrorEffect, IdleCall
  <2>2. CASE UNCHANGED <<feedFile, feedFailed>> /\ call.step # "body"
    BY <2>1, <2>2 DEF feedFile
  <2>3. CASE feedFailed' = TRUE /\ UNCHANGED feedFile
    BY <2>1, <2>3 DEF feedFile
  <2>4. CASE feedFailed' = TRUE /\ (Emptied \/ Published)
    <3>1. feedTorn' = FALSE /\ feedBad' \in Nat
      BY <2>4 DEF Emptied, Published
    <3> QED BY <2>1, <2>4, <3>1
  <2>5. call.step = "body" => feedFailed' = TRUE
    BY <1>15 DEF IoError, FailedLogWrite, FailedApply, FailedPublish, FailedAllocation,
       FailedPage, FailedWalReset, FailedFeedReset, AtChunk
  <2> QED BY <1>15, <2>2, <2>3, <2>4, <2>5, IoErrorEffect DEF FeedEffect
<1>16. CASE UNCHANGED vars
  <2>1. UNCHANGED <<feedTorn, feedBad, feedFailed, ioErrors, mode, call>>
    BY <1>16 DEF vars
  <2> QED BY <2>1
<1> QED
  BY <1>1, <1>2, <1>3, <1>4, <1>5, <1>6, <1>7, <1>8, <1>9, <1>10, <1>11, <1>12, <1>13,
     <1>14, <1>15, <1>16, <1>17 DEF Next, CallStep

(* Every step keeps the types of the files and of the counters. *)
LEMMA DiskType ==
    ASSUME TypeOK, CallOK, [Next]_vars
    PROVE  /\ wal' \in Seq(WalRecord) /\ pages' \in [PageNos -> Page]
           /\ numPages' \in Nat /\ pageCount' \in Nat
           /\ crashes' \in Nat /\ powerLosses' \in Nat /\ ioErrors' \in Nat
<1> DEFINE Goal == /\ wal' \in Seq(WalRecord) /\ pages' \in [PageNos -> Page]
                   /\ numPages' \in Nat /\ pageCount' \in Nat
                   /\ crashes' \in Nat /\ powerLosses' \in Nat /\ ioErrors' \in Nat
<1>0. /\ wal \in Seq(WalRecord) /\ pages \in [PageNos -> Page]
      /\ numPages \in Nat /\ pageCount \in Nat
      /\ crashes \in Nat /\ powerLosses \in Nat /\ ioErrors \in Nat
      /\ call \in CallRecord /\ docs \in Docs
  BY DEF TypeOK
<1> USE <1>0
<1>a. call.step = "append" => Record(TRUE) \in WalRecord /\ Record(FALSE) \in WalRecord
  BY DEF CallOK, CallRecord, Serving, WalRecord, Record
<1>1. CASE OpenOk
  BY <1>1 DEF OpenOk, Start, disk, counters, mainFile, feedFile
<1>2. CASE OpenFails
  BY <1>2 DEF OpenFails, disk, counters, mainFile, feedFile, history
<1>3. ASSUME NEW i \in Ids, NEW v \in Vals, Insert(i, v)
      PROVE  Goal
  BY <1>3 DEF Insert, disk, counters, mainFile, feedFile, history
<1>4. ASSUME NEW i \in Ids, NEW v \in Vals, Update(i, v)
      PROVE  Goal
  BY <1>4 DEF Update, disk, counters, mainFile, feedFile, history
<1>5. ASSUME NEW i \in Ids, Delete(i)
      PROVE  Goal
  BY <1>5 DEF Delete, disk, counters, mainFile, feedFile, history
<1>6. CASE Compact
  BY <1>6 DEF Compact, disk, mainFile, feedFile, history
<1>7. CASE AppendRecord
  <2> DEFINE r == Record(TRUE)
  <2>1. wal' = Append(wal, r) /\ r \in WalRecord
    BY <1>7, <1>a DEF AppendRecord, mainFile, feedFile, history
  <2>2. UNCHANGED <<numPages, pageCount, pages, crashes, powerLosses, ioErrors>>
    BY <1>7 DEF AppendRecord, counters, mainFile, feedFile, history
  <2> HIDE DEF r
  <2> QED BY <2>1, <2>2
<1>8. CASE CommitRecord
  <2>1. wal' \in Seq(WalRecord)
    <3> DEFINE r == [wal[Len(wal)] EXCEPT !.flag = TRUE]
    <3>1. wal' = [wal EXCEPT ![Len(wal)] = r]
      BY <1>8 DEF CommitRecord, mainFile, feedFile
    <3>2. wal # <<>> => r \in WalRecord
      <4>1. wal # <<>> => wal[Len(wal)] \in WalRecord
        OBVIOUS
      <4> QED BY <4>1, FlagType
    <3> HIDE DEF r
    <3>3. CASE wal = <<>>
      <4>1. Len(wal) = 0 /\ wal' = wal
        BY <3>1, <3>3
      <4> QED BY <4>1
    <3>4. CASE wal # <<>>
      BY <3>1, <3>2, <3>4
    <3> QED BY <3>3, <3>4
  <2> QED BY <1>8, <2>1 DEF CommitRecord, counters, mainFile, feedFile
<1>9. CASE Apply
  <2>1. UNCHANGED <<wal, pages, pageCount, crashes, powerLosses, ioErrors>>
    BY <1>9 DEF Apply, counters, feedFile, history
  <2>2. numPages' = numPages \/ numPages' = pageCount
    BY <1>9 DEF Apply
  <2> QED BY <2>1, <2>2
<1>10. CASE PublishLength
  BY <1>10 DEF PublishLength, counters, mainFile, history
<1>11. CASE PublishBody
  BY <1>11 DEF PublishBody, counters, mainFile, history, Published
<1>12. CASE AllocateHeader
  BY <1>12 DEF AllocateHeader, counters, feedFile, history, Grown
<1>13. CASE AllocateZero
  <2>1. Zero \in Page
    BY NoDocsType DEF Zero, Page
  <2> QED BY <1>13, <2>1 DEF AllocateZero, counters, feedFile, history, PutPage
<1>14. CASE WriteChunk
  <2>1. \A p \in Nat : DataPage(docs, p) \in Page
    BY DEF DataPage, Page
  <2>2. call.page + 1 \in Nat
    BY DEF CallRecord
  <2> QED BY <1>14, <2>1, <2>2 DEF WriteChunk, counters, feedFile, history, PutPage, AtChunk,
     ThisPage
<1>15. CASE WriteTrailer
  <2>1. Trailer(Cardinality(Live(docs))) \in Page
    BY NoDocsType, LiveCount DEF Trailer, Page
  <2> QED BY <1>15, <2>1 DEF WriteTrailer, counters, feedFile, history, PutPage
<1>16. CASE ResetWal
  BY <1>16 DEF ResetWal, counters, mainFile, feedFile
<1>17. CASE ResetFeed
  BY <1>17 DEF ResetFeed, counters, mainFile, Emptied
<1>18. CASE Crash
  <2> DEFINE r == Record(FALSE)
  <2>1. wal' = wal \/ (wal' = Append(wal, r) /\ r \in WalRecord)
    BY <1>18, <1>a DEF Crash, mainFile, feedFile, history
  <2>2. /\ UNCHANGED <<numPages, pages, powerLosses, ioErrors>>
        /\ crashes' = crashes + 1 /\ pageCount' = 1
    BY <1>18 DEF Crash, Stopped, mainFile, feedFile, history
  <2> HIDE DEF r
  <2> QED BY <2>1, <2>2
<1>19. CASE PowerLoss
  <2>1. wal' \in Seq(WalRecord)
    <3>1. PICK n \in 0 .. Len(wal) : \E lost \in SUBSET (1 .. n) :
            wal' = [k \in 1 .. n |-> IF k \in lost THEN [wal[k] EXCEPT !.flag = FALSE] ELSE wal[k]]
      BY <1>19 DEF PowerLoss, mainFile, feedFile, history
    <3>2. \A k \in 1 .. n : wal[k] \in WalRecord
      OBVIOUS
    <3>3. \A k \in 1 .. n : [wal[k] EXCEPT !.flag = FALSE] \in WalRecord
      BY <3>2, FlagType, Zenon
    <3>4. \E t \in [1 .. n -> WalRecord] : wal' = t
      BY <3>1, <3>2, <3>3, Zenon
    <3> QED BY <3>4
  <2> QED BY <1>19, <2>1 DEF PowerLoss, Stopped, mainFile, feedFile, history
<1>20. CASE IoError
  <2>1. UNCHANGED <<crashes, powerLosses>> /\ ioErrors' = ioErrors + 1
    BY <1>20, IoErrorEffect
  <2>2. numPages' \in Nat /\ pageCount' \in Nat
    BY <1>20, IoErrorEffect DEF CountEffect
  <2>3. wal' \in Seq(WalRecord)
    <3>1. CASE wal' = wal
      BY <3>1
    <3>3. CASE wal' = <<>>
      BY <3>3
    <3>2. ASSUME call.step = "append", NEW whole \in BOOLEAN, wal' = Append(wal, Record(whole))
          PROVE  wal' \in Seq(WalRecord)
      <4>1. PICK x \in WalRecord : x = Record(whole)
        BY <1>a, <3>2
      <4> QED BY <3>2, <4>1
    <3> QED BY <1>20, <3>1, <3>2, <3>3, IoErrorEffect, Zenon DEF WalEffect
  <2>4. pages' \in [PageNos -> Page]
    <3>1. Zero \in Page /\ Trailer(Cardinality(Live(docs))) \in Page
      BY NoDocsType, LiveCount DEF Zero, Trailer, Page
    <3>2. DataPage(docs, ThisPage) \in Page
      <4>1. ThisPage \in Nat
        BY DEF ThisPage, CallRecord
      <4> QED BY <4>1 DEF DataPage, Page
    <3> QED BY <1>20, <3>1, <3>2, IoErrorEffect DEF PagesEffect
  <2> QED BY <2>1, <2>2, <2>3, <2>4
<1>21. CASE UNCHANGED vars
  BY <1>21 DEF vars
<1> QED
  BY <1>1, <1>2, <1>3, <1>4, <1>5, <1>6, <1>7, <1>8, <1>9, <1>10, <1>11, <1>12, <1>13,
     <1>14, <1>15, <1>16, <1>17, <1>18, <1>19, <1>20, <1>21 DEF Next, CallStep

(* Every step keeps the types of what the engine holds in memory. *)
LEMMA MemoryType ==
    ASSUME TypeOK, CallOK, [Next]_vars
    PROVE  /\ mode' \in {"down", "up", "refused"} /\ docs' \in Docs
           /\ index' \subseteq Words \X Ids /\ content' \in Docs /\ overruled' \subseteq Ids
<1> DEFINE Goal == /\ mode' \in {"down", "up", "refused"} /\ docs' \in Docs
                   /\ index' \subseteq Words \X Ids /\ content' \in Docs /\ overruled' \subseteq Ids
<1>0. /\ mode \in {"down", "up", "refused"} /\ docs \in Docs
      /\ index \subseteq Words \X Ids /\ content \in Docs /\ overruled \subseteq Ids
      /\ wal \in Seq(WalRecord) /\ call \in CallRecord
  BY DEF TypeOK
<1> USE <1>0
<1>a. call.step \in Serving =>
        call.id \in Ids /\ call.val \in Vals \cup {None} /\ call.old \in Vals \cup {None}
  BY DEF CallOK, CallRecord
<1>1. CASE OpenOk
  <2>1. PICK d \in Docs : Start(d)
    BY <1>1, RecoveredType DEF OpenOk
  <2>2. overruled' = {} \/ overruled' = Deleted
    BY <1>1 DEF OpenOk
  <2> QED BY <2>1, <2>2, IndexOfType DEF Start, Logged, Deleted
<1>2. CASE OpenFails
  BY <1>2 DEF OpenFails, history
<1>3. ASSUME NEW i \in Ids, NEW v \in Vals, Insert(i, v)
      PROVE  Goal
  BY <1>3 DEF Insert, history
<1>4. ASSUME NEW i \in Ids, NEW v \in Vals, Update(i, v)
      PROVE  Goal
  BY <1>4 DEF Update, history
<1>5. ASSUME NEW i \in Ids, Delete(i)
      PROVE  Goal
  BY <1>5 DEF Delete, Docs, history
<1>6. CASE Compact
  BY <1>6 DEF Compact, history
<1>7. CASE AppendRecord
  BY <1>7 DEF AppendRecord, mainFile, feedFile, history
<1>8. CASE CommitRecord
  <2>1. /\ content' = [content EXCEPT ![call.id] = call.val]
        /\ UNCHANGED <<mode, docs, index>>
        /\ overruled' = overruled \ {call.id}
    BY <1>8 DEF CommitRecord, mainFile, feedFile
  <2>2. call.step \in Serving
    BY <1>8 DEF CommitRecord, Serving, mainFile, feedFile
  <2> QED BY <1>a, <2>1, <2>2 DEF Docs
<1>9. CASE Apply
  <2>1. /\ docs' = [docs EXCEPT ![call.id] = call.val]
        /\ index' = (index \ Entries(call.id, call.old)) \cup Entries(call.id, call.val)
        /\ UNCHANGED <<mode, content, overruled>> /\ call.step \in Serving
    BY <1>9 DEF Apply, Serving, feedFile, history, Reindexed
  <2>2. Entries(call.id, call.val) \subseteq Words \X Ids
    BY <1>a, <2>1, EntriesType
  <2>3. docs' \in Docs
    BY <1>a, <2>1 DEF Docs
  <2> QED BY <2>1, <2>2, <2>3
<1>10. CASE PublishLength
  BY <1>10 DEF PublishLength, mainFile, history
<1>11. CASE PublishBody
  BY <1>11 DEF PublishBody, mainFile, history, Published
<1>12. CASE AllocateHeader
  BY <1>12 DEF AllocateHeader, feedFile, history, Grown
<1>13. CASE AllocateZero
  BY <1>13 DEF AllocateZero, feedFile, history, PutPage
<1>14. CASE WriteChunk
  BY <1>14 DEF WriteChunk, feedFile, history, PutPage, AtChunk, ThisPage
<1>15. CASE WriteTrailer
  BY <1>15 DEF WriteTrailer, feedFile, history, PutPage
<1>16. CASE ResetWal
  BY <1>16 DEF ResetWal, mainFile, feedFile
<1>17. CASE ResetFeed
  BY <1>17 DEF ResetFeed, mainFile, Emptied
<1>18. CASE Crash
  BY <1>18, NoDocsType DEF Crash, Stopped, mainFile, feedFile, history
<1>19. CASE PowerLoss
  BY <1>19, NoDocsType DEF PowerLoss, Stopped, mainFile, feedFile, history
<1>20. CASE IoError
  <2>1. UNCHANGED <<mode, content, overruled>> /\ MapEffect
    BY <1>20, IoErrorEffect
  <2>2. CASE UNCHANGED <<docs, index>>
    BY <2>1, <2>2
  <2>3. CASE /\ call.step = "apply" /\ index' = Reindexed
             /\ docs' = [docs EXCEPT ![call.id] = call.val]
    <3>1. call.step \in Serving
      BY <2>3 DEF Serving
    <3>2. docs' \in Docs
      BY <1>a, <2>3, <3>1 DEF Docs
    <3>3. Entries(call.id, call.val) \subseteq Words \X Ids
      BY <1>a, <3>1, EntriesType
    <3>4. index' \subseteq Words \X Ids
      BY <2>3, <3>3 DEF Reindexed
    <3> QED BY <2>1, <3>2, <3>4
  <2> QED BY <2>1, <2>2, <2>3 DEF MapEffect
<1>21. CASE UNCHANGED vars
  BY <1>21 DEF vars
<1> QED
  BY <1>1, <1>2, <1>3, <1>4, <1>5, <1>6, <1>7, <1>8, <1>9, <1>10, <1>11, <1>12, <1>13,
     <1>14, <1>15, <1>16, <1>17, <1>18, <1>19, <1>20, <1>21 DEF Next, CallStep

-----------------------------------------------------------------------------
(* Search.                                                                 *)

(* Entries of different documents are different. *)
LEMMA EntriesApart ==
    ASSUME NEW i \in Ids, NEW j \in Ids, i # j,
           NEW v \in Vals \cup {None}, NEW w \in Vals \cup {None}
    PROVE  Entries(i, v) \cap Entries(j, w) = {}
BY DEF Entries

(* Every step keeps each document's words in the index: the steps between   *)
(* a change of the map and the change of the index never lose an entry of a *)
(* document that stays.                                                     *)
LEMMA IndexPreserved ==
    ASSUME TypeOK, CallOK, IndexOK, [Next]_vars
    PROVE  IndexOK'
<1>0. docs \in Docs /\ call \in CallRecord /\ wal \in Seq(WalRecord)
  BY DEF TypeOK
<1> USE <1>0 DEF IndexOK
<1>1. CASE OpenOk
  <2>1. PICK d : Start(d)
    BY <1>1 DEF OpenOk
  <2> QED BY <2>1 DEF Start, IndexOf
<1>2. CASE OpenFails
  BY <1>2 DEF OpenFails, history
<1>3. ASSUME NEW i \in Ids, NEW v \in Vals, Insert(i, v)
      PROVE  IndexOK'
  BY <1>3 DEF Insert, history
<1>4. ASSUME NEW i \in Ids, NEW v \in Vals, Update(i, v)
      PROVE  IndexOK'
  BY <1>4 DEF Update, history
<1>5. ASSUME NEW i \in Ids, Delete(i)
      PROVE  IndexOK'
  <2>1. docs' = [docs EXCEPT ![i] = None] /\ UNCHANGED <<mode, index>>
    BY <1>5 DEF Delete, history
  <2>2. Entries(i, None) = {}
    BY DEF Entries
  <2>3. \A j \in Ids : docs'[j] = IF j = i THEN None ELSE docs[j]
    BY <2>1 DEF Docs
  <2> QED BY <2>1, <2>2, <2>3
<1>6. CASE Compact
  BY <1>6 DEF Compact, history
<1>7. CASE AppendRecord
  BY <1>7 DEF AppendRecord, mainFile, feedFile, history
<1>8. CASE CommitRecord
  BY <1>8 DEF CommitRecord, mainFile, feedFile
<1>a. ASSUME call.step = "apply", index' = Reindexed, mode' = mode,
             docs' = [docs EXCEPT ![call.id] = call.val]
      PROVE  IndexOK'
  <2> DEFINE new == Entries(call.id, call.val)
             old == Entries(call.id, call.old)
  <2>1. /\ docs' = [docs EXCEPT ![call.id] = call.val] /\ index' = (index \ old) \cup new
        /\ mode' = mode /\ call.step \in Serving
    BY <1>a DEF Serving, Reindexed
  <2>2. call.id \in Ids /\ call.old \in Vals \cup {None}
    BY <2>1 DEF CallOK, CallRecord
  <2>3. ASSUME NEW j \in Ids, mode = "up" PROVE Entries(j, docs'[j]) \subseteq index'
    <3>1. CASE j = call.id
      BY <2>1, <2>2, <3>1 DEF Docs
    <3>2. CASE j # call.id
      <4>1. docs'[j] = docs[j] /\ docs[j] \in Vals \cup {None}
        BY <2>1, <2>2, <3>2 DEF Docs
      <4>2. Entries(j, docs[j]) \cap old = {}
        BY <2>2, <3>2, <4>1, EntriesApart
      <4>3. Entries(j, docs[j]) \subseteq index
        BY <2>3
      <4> HIDE DEF old, new
      <4> QED BY <2>1, <4>1, <4>2, <4>3
    <3> QED BY <3>1, <3>2
  <2> QED BY <2>1, <2>3
<1>9. CASE Apply
  <2>1. /\ call.step = "apply" /\ index' = Reindexed /\ mode' = mode
        /\ docs' = [docs EXCEPT ![call.id] = call.val]
    BY <1>9 DEF Apply
  <2> QED BY <2>1, <1>a
<1>10. CASE PublishLength
  BY <1>10 DEF PublishLength, mainFile, history
<1>11. CASE PublishBody
  BY <1>11 DEF PublishBody, mainFile, history, Published
<1>12. CASE AllocateHeader
  BY <1>12 DEF AllocateHeader, feedFile, history, Grown
<1>13. CASE AllocateZero
  BY <1>13 DEF AllocateZero, feedFile, history, PutPage
<1>14. CASE WriteChunk
  BY <1>14 DEF WriteChunk, feedFile, history, PutPage, AtChunk, ThisPage
<1>15. CASE WriteTrailer
  BY <1>15 DEF WriteTrailer, feedFile, history, PutPage
<1>16. CASE ResetWal
  BY <1>16 DEF ResetWal, mainFile, feedFile
<1>17. CASE ResetFeed
  BY <1>17 DEF ResetFeed, mainFile, Emptied
<1>18. CASE Crash
  BY <1>18 DEF Crash, Stopped, mainFile, feedFile, history
<1>19. CASE PowerLoss
  BY <1>19 DEF PowerLoss, Stopped, mainFile, feedFile, history
<1>20. CASE IoError
  <2>1. mode' = mode /\ MapEffect
    BY <1>20, IoErrorEffect
  <2>2. CASE UNCHANGED <<docs, index>>
    BY <2>1, <2>2
  <2>3. CASE /\ call.step = "apply" /\ index' = Reindexed
             /\ docs' = [docs EXCEPT ![call.id] = call.val]
    BY <1>a, <2>1, <2>3
  <2> QED BY <2>1, <2>2, <2>3 DEF MapEffect
<1>21. CASE UNCHANGED vars
  BY <1>21 DEF vars
<1> QED
  BY <1>1, <1>2, <1>3, <1>4, <1>5, <1>6, <1>7, <1>8, <1>9, <1>10, <1>11, <1>12, <1>13,
     <1>14, <1>15, <1>16, <1>17, <1>18, <1>19, <1>20, <1>21 DEF Next, CallStep

-----------------------------------------------------------------------------
(* Durability.                                                             *)

(* The record a mutation appends is uncommitted. *)
LEMMA RecordUncommitted ==
    ASSUME call \in CallRecord, CallOK, call.step \in Serving, NEW w \in BOOLEAN
    PROVE  /\ Record(w) \in WalRecord /\ Record(w).flag = FALSE
           /\ Record(w).id = call.id /\ Record(w).val = call.val
BY DEF Record, CallRecord, CallOK, WalRecord

(* Every step keeps the WAL and the documents in step: what recovery would  *)
(* yield is the committed content, and the map of documents is it, but for  *)
(* the operation the call in progress is about to commit or to apply.       *)
LEMMA LogPreserved ==
    ASSUME TypeOK, CallOK, LogOK, [Next]_vars
    PROVE  LogOK'
<1>0. /\ wal \in Seq(WalRecord) /\ call \in CallRecord /\ docs \in Docs /\ content \in Docs
      /\ powerLosses \in Nat /\ ioErrors \in Nat /\ compactions \in Nat
  BY DEF TypeOK
<1> USE <1>0
<1>1. CASE OpenOk
  <2>1. UNCHANGED <<wal, numPages, content, call, powerLosses, ioErrors, compactions>>
    BY <1>1 DEF OpenOk, Start, disk, counters, mainFile, feedFile
  <2>2. ASSUME Unfaulted PROVE docs' = Recovered(wal)
    <3>1. CASE FromWal /\ Start(Recovered(wal))
      BY <3>1 DEF Start
    <3>2. ASSUME ~FromWal, NEW d \in Docs, LoadedFrom(d), Start(d)
          PROVE  docs' = Recovered(wal)
      <4>1. numPages = 1
        BY <2>2 DEF LogOK
      <4>2. docs' = NoDocs
        BY <3>2, <4>1 DEF LoadedFrom, Start
      <4>3. \A i \in Ids : Recovered(wal)[i] = None
        BY <3>2 DEF FromWal, Live
      <4>4. Recovered(wal) = [i \in Ids |-> Recovered(wal)[i]]
        BY DEF Recovered
      <4> QED BY <4>2, <4>3, <4>4 DEF NoDocs
    <3> QED BY <1>1, <3>1, <3>2 DEF OpenOk
  <2>3. call.step = "done"
    BY <1>1, IdleCall DEF OpenOk, CallOK
  <2>4. Unfaulted' = Unfaulted /\ pageCount' = numPages
    BY <1>1, <2>1 DEF Unfaulted, OpenOk, Start
  <2> QED BY <2>1, <2>2, <2>3, <2>4 DEF LogOK
<1>2. CASE OpenFails
  <2>1. UNCHANGED <<wal, numPages, pageCount, content, call, powerLosses, ioErrors, compactions>> /\ mode' # "up"
    BY <1>2 DEF OpenFails, disk, counters, mainFile, feedFile, history
  <2> QED BY <2>1 DEF LogOK, Unfaulted
<1>3. ASSUME NEW i \in Ids, NEW v \in Vals, Insert(i, v)
      PROVE  LogOK'
  <2>1. /\ UNCHANGED <<wal, numPages, pageCount, content, docs, mode, powerLosses, ioErrors, compactions>>
        /\ mode = "up" /\ call.step = "done"
    BY <1>3, IdleCall DEF Insert, Ready, disk, counters, mainFile, feedFile, history
  <2>2. call'.step = "append" /\ call'.op = "insert"
    BY <1>3, NewCall DEF Insert, Mutations, history
  <2> QED BY <2>1, <2>2 DEF LogOK, Unfaulted
<1>4. ASSUME NEW i \in Ids, NEW v \in Vals, Update(i, v)
      PROVE  LogOK'
  <2>1. /\ UNCHANGED <<wal, numPages, pageCount, content, docs, mode, powerLosses, ioErrors, compactions>>
        /\ mode = "up" /\ call.step = "done"
    BY <1>4, IdleCall DEF Update, Ready, disk, counters, mainFile, feedFile, history
  <2>2. docs[i] \in Vals \cup {None}
    BY DEF Docs
  <2>3. call'.step = "append" /\ call'.op = "update"
    BY <1>4, <2>2, NewCall DEF Update, Mutations, history
  <2> QED BY <2>1, <2>3 DEF LogOK, Unfaulted
<1>5. ASSUME NEW i \in Ids, Delete(i)
      PROVE  LogOK'
  <2>1. /\ UNCHANGED <<wal, numPages, pageCount, content, mode, powerLosses, ioErrors, compactions>>
        /\ mode = "up" /\ call.step = "done" /\ docs' = [docs EXCEPT ![i] = None]
    BY <1>5, IdleCall DEF Delete, Ready, disk, counters, mainFile, feedFile, history
  <2>2. docs[i] \in Vals \cup {None}
    BY DEF Docs
  <2>3. call'.step = "append" /\ call'.op = "delete" /\ call'.id = i
    <3>1. call' = MutationCall("delete", i, None, docs[i])
      BY <1>5 DEF Delete, history
    <3>2. /\ MutationCall("delete", i, None, docs[i]).step = "append"
          /\ MutationCall("delete", i, None, docs[i]).op = "delete"
          /\ MutationCall("delete", i, None, docs[i]).id = i
      BY DEF MutationCall
    <3> QED BY <3>1, <3>2
  <2> QED BY <2>1, <2>3 DEF LogOK, Unfaulted
<1>6. CASE Compact
  BY <1>6 DEF Compact, LogOK, Unfaulted, history
<1>7. CASE AppendRecord
  <2> DEFINE r == Record(TRUE)
  <2>1. /\ UNCHANGED <<numPages, pageCount, content, docs, mode, powerLosses, ioErrors, compactions>>
        /\ call.step = "append" /\ wal' = Append(wal, r)
    BY <1>7 DEF AppendRecord, counters, mainFile, feedFile, history
  <2>2. call'.step = "commit" /\ call'.op = call.op /\ call'.id = call.id /\ call'.val = call.val
    BY <1>7, NextStep DEF AppendRecord, Serving, mainFile, feedFile, history
  <2>3. r \in WalRecord /\ r.flag = FALSE
    BY <2>1, RecordUncommitted DEF Serving
  <2>4. Recovered(wal') = Recovered(wal)
    BY <2>1, <2>3, AppendUncommitted
  <2>5. Record(TRUE)' = r
    BY <2>2 DEF Record
  <2> HIDE DEF r
  <2>6. wal' # <<>> /\ wal'[Len(wal')] = r
    BY <2>1, <2>3
  <2> QED BY <2>1, <2>2, <2>4, <2>5, <2>6 DEF LogOK, Unfaulted
<1>8. CASE CommitRecord
  <2>1. /\ UNCHANGED <<numPages, pageCount, docs, mode, powerLosses, ioErrors, compactions>>
        /\ call.step = "commit" /\ wal' = [wal EXCEPT ![Len(wal)].flag = TRUE]
        /\ content' = [content EXCEPT ![call.id] = call.val]
    BY <1>8 DEF CommitRecord, counters, mainFile, feedFile
  <2>2. call'.step = "apply" /\ call'.op = call.op /\ call'.id = call.id /\ call'.val = call.val
    BY <1>8, NextStep DEF CommitRecord, Serving, mainFile, feedFile
  <2>3. SUFFICES ASSUME Unfaulted
                 PROVE  /\ numPages = 1 /\ pageCount = 1 /\ content' = Recovered(wal')
                        /\ content' = [docs EXCEPT ![call.id] = call.val]
    BY <2>1, <2>2 DEF LogOK, Unfaulted
  <2>4. mode = "up" /\ call.id \in Ids
    BY <2>1, IdleCall DEF CallOK, Serving
  <2>5. /\ numPages = 1 /\ pageCount = 1 /\ content = Recovered(wal)
        /\ docs = IF call.op = "delete" THEN [content EXCEPT ![call.id] = None] ELSE content
        /\ wal # <<>> /\ wal[Len(wal)] = Record(TRUE)
    BY <2>1, <2>3, <2>4 DEF LogOK
  <2>6. Record(TRUE).flag = FALSE /\ Record(TRUE).id = call.id /\ Record(TRUE).val = call.val
    BY <2>1, RecordUncommitted DEF Serving
  <2>7. content' = Recovered(wal')
    <3>1. wal[Len(wal)].flag = FALSE /\ wal[Len(wal)].id = call.id /\ wal[Len(wal)].val = call.val
      BY <2>5, <2>6
    <3>2. Recovered([wal EXCEPT ![Len(wal)].flag = TRUE])
            = [Recovered(wal) EXCEPT ![wal[Len(wal)].id] = wal[Len(wal)].val]
      BY <2>5, <3>1, CommitLast
    <3> QED BY <2>1, <2>5, <3>1, <3>2
  <2>8. [docs EXCEPT ![call.id] = call.val] = [content EXCEPT ![call.id] = call.val]
    BY <2>4, <2>5 DEF Docs
  <2> QED BY <2>1, <2>5, <2>7, <2>8
<1>9. CASE Apply
  <2>1. /\ UNCHANGED <<wal, pageCount, mode, content, powerLosses, ioErrors, compactions>>
        /\ call.step = "apply" /\ docs' = [docs EXCEPT ![call.id] = call.val]
        /\ numPages' = numPages \/ numPages' = pageCount
    BY <1>9 DEF Apply, counters, feedFile, history, Reindexed
  <2>2. call'.step = "publish"
    BY <1>9, NextStep DEF Apply, Serving, feedFile, history, Reindexed
  <2> QED BY <2>1, <2>2 DEF LogOK, Unfaulted
<1>10. CASE PublishLength
  <2>1. UNCHANGED <<wal, numPages, pageCount, docs, mode, content, powerLosses, ioErrors, compactions>>
    BY <1>10 DEF PublishLength, counters, mainFile, history
  <2>2. call.step = "publish" /\ call'.step = "body"
    BY <1>10, NextStep DEF PublishLength, Serving, mainFile, history
  <2> QED BY <2>1, <2>2 DEF LogOK, Unfaulted
<1>11. CASE PublishBody
  <2>1. UNCHANGED <<wal, numPages, pageCount, docs, mode, content, powerLosses, ioErrors, compactions>>
    BY <1>11 DEF PublishBody, counters, mainFile, history, Published
  <2>2. call.step = "body" /\ call'.step = "done"
    BY <1>11, IdleCall DEF PublishBody, mainFile, history, Published
  <2> QED BY <2>1, <2>2 DEF LogOK, Unfaulted
<1>a. call.step \in Compacting /\ UNCHANGED compactions => LogOK'
  BY DEF CallOK, LogOK, Unfaulted
<1>12. CASE AllocateHeader
  BY <1>12, <1>a DEF AllocateHeader, counters, Compacting, feedFile, history, Grown
<1>13. CASE AllocateZero
  BY <1>13, <1>a DEF AllocateZero, counters, Compacting, feedFile, history, PutPage
<1>14. CASE WriteChunk
  BY <1>14, <1>a DEF WriteChunk, counters, Compacting, feedFile, history, PutPage, AtChunk,
     ThisPage
<1>15. CASE WriteTrailer
  BY <1>15, <1>a DEF WriteTrailer, counters, Compacting, feedFile, history, PutPage
<1>16. CASE ResetWal
  BY <1>16, <1>a DEF ResetWal, counters, Compacting, mainFile, feedFile
<1>17. CASE ResetFeed
  BY <1>17, <1>a DEF ResetFeed, counters, Compacting, mainFile, Emptied
<1>18. CASE Crash
  <2> DEFINE r == Record(FALSE)
  <2>1. /\ UNCHANGED <<numPages, content, powerLosses, ioErrors, compactions>>
        /\ mode' = "down" /\ pageCount' = 1 /\ (wal' = wal \/ (call.step = "append" /\ wal' = Append(wal, r)))
    BY <1>18 DEF Crash, Stopped, mainFile, feedFile, history
  <2>2. call.step = "append" => r \in WalRecord /\ r.flag = FALSE
    BY RecordUncommitted DEF Serving
  <2>3. Recovered(wal') = Recovered(wal)
    <3> HIDE DEF r
    <3> QED BY <2>1, <2>2, AppendUncommitted
  <2> QED BY <2>1, <2>3 DEF LogOK, Unfaulted
<1>19. CASE PowerLoss
  BY <1>19 DEF PowerLoss, LogOK, Unfaulted, mainFile, feedFile, history
<1>20. CASE IoError
  BY <1>20, IoErrorEffect DEF LogOK, Unfaulted
<1>21. CASE UNCHANGED vars
  BY <1>21 DEF vars, LogOK, Unfaulted, Record
<1> QED
  BY <1>1, <1>2, <1>3, <1>4, <1>5, <1>6, <1>7, <1>8, <1>9, <1>10, <1>11, <1>12, <1>13,
     <1>14, <1>15, <1>16, <1>17, <1>18, <1>19, <1>20, <1>21 DEF Next, CallStep

-----------------------------------------------------------------------------
(* The theorems.                                                           *)

(* The invariant holds initially and every step preserves it. *)
LEMMA EngineInvInit == Init => EngineInv
<1> SUFFICES ASSUME Init PROVE EngineInv
  OBVIOUS
<1>1. TypeOK
  <2>1. Eof \in Page
    BY NoDocsType DEF Eof, Page
  <2>2. pages \in [PageNos -> Page] /\ wal \in Seq(WalRecord) /\ feed \in Seq(ChangeRecord)
    BY <2>1 DEF Init
  <2>3. docs \in Docs /\ content \in Docs /\ call \in CallRecord
    BY NoDocsType, IdleCall DEF Init
  <2> QED BY <2>2, <2>3 DEF Init, TypeOK
<1>2. CallOK
  BY IdleCall DEF Init, CallOK, Serving, Compacting
<1>3. LogOK
  <2>1. Recovered(<<>>) = NoDocs
    BY DEF Recovered, CommittedAt, NoDocs
  <2> QED BY <2>1 DEF Init, LogOK
<1>4. IndexOK /\ FeedGapless /\ FeedFileOK
  BY DEF Init, IndexOK, FeedGapless, FeedFileOK
<1> QED BY <1>1, <1>2, <1>3, <1>4 DEF EngineInv

(* Every step of the engine keeps the inductive invariant. *)
LEMMA EngineInvNext == EngineInv /\ [Next]_vars => EngineInv'
<1> SUFFICES ASSUME EngineInv, [Next]_vars PROVE EngineInv'
  OBVIOUS
<1> USE DEF EngineInv
<1>1. call' \in CallRecord /\ compactions' \in Nat /\ CallOK'
  BY CallPreserved
<1>2. feed' \in Seq(ChangeRecord) /\ nextSeq' \in Nat /\ FeedGapless'
  BY FeedPreserved
<1>a. FeedFileOK' /\ feedTorn' \in BOOLEAN /\ feedBad' \in Nat /\ feedFailed' \in BOOLEAN
  BY FeedFilePreserved
<1>3. TypeOK'
  BY <1>1, <1>2, <1>a, DiskType, MemoryType DEF TypeOK
<1>4. LogOK' /\ IndexOK'
  BY LogPreserved, IndexPreserved
<1> QED BY <1>1, <1>2, <1>a, <1>3, <1>4

(* The inductive invariant holds in every reachable state of the engine,    *)
(* crashes, power losses, failed writes and compactions included.           *)
THEOREM Invariance == Spec => []EngineInv
<1> QED BY EngineInvInit, EngineInvNext, PTL DEF Spec

(* Every variable of the engine keeps its type. *)
THEOREM TypeCorrect == Spec => []TypeOK
<1>1. EngineInv => TypeOK
  BY DEF EngineInv
<1> QED BY <1>1, Invariance, PTL

(* Between calls the engine shows exactly the committed operations, through *)
(* any number of process crashes at any step of any call, torn WAL records  *)
(* included, while no power fails, no write fails and nothing is compacted. *)
THEOREM DurableCorrect == Spec => []DurableThroughCrashes
<1>1. EngineInv => DurableThroughCrashes
  <2> SUFFICES ASSUME EngineInv, Unfaulted, mode = "up", call = Idle PROVE docs = content
    BY DEF DurableThroughCrashes, Durable, Unfaulted
  <2> QED BY IdleCall DEF EngineInv, LogOK
<1> QED BY <1>1, Invariance, PTL

(* Every word of every document finds it, whatever happened before. *)
THEOREM SearchCorrect == Spec => []SearchComplete
<1>1. EngineInv => SearchComplete
  <2> SUFFICES ASSUME EngineInv, mode = "up", NEW i \in Ids, docs[i] # None,
                      NEW t \in Tokens[docs[i]]
               PROVE  i \in Search(t)
    BY DEF SearchComplete
  <2>1. Entries(i, docs[i]) \subseteq index
    BY DEF EngineInv, IndexOK
  <2>2. <<t, i>> \in Entries(i, docs[i])
    BY DEF Entries
  <2> QED BY <2>1, <2>2 DEF Search
<1> QED BY <1>1, Invariance, PTL

(* The change log is numbered without gaps and an open engine continues it, *)
(* through every crash, compaction and failed write but one behind the      *)
(* length of a change record and one of the sync of a reset.                *)
THEOREM FeedCorrect == Spec => []FeedGapless
<1>1. EngineInv => FeedGapless
  BY DEF EngineInv
<1> QED BY <1>1, Invariance, PTL

(* What recovery would find changes only when a commit flag is written, the *)
(* WAL is dropped by compact, or the machine loses power.                   *)
THEOREM OnlyCommits == Spec => OnlyCommitIsDurable
<1> DEFINE A == Recovered(wal') # Recovered(wal) =>
                  call.step \in {"commit", "walreset"} \/ powerLosses' # powerLosses
<1>1. EngineInv /\ [Next]_vars => [A]_vars
  <2> SUFFICES ASSUME EngineInv, Next, call.step \notin {"commit", "walreset"},
                      powerLosses' = powerLosses
               PROVE  Recovered(wal') = Recovered(wal)
    OBVIOUS
  <2>1. /\ TypeOK /\ CallOK /\ wal \in Seq(WalRecord) /\ call \in CallRecord
        /\ powerLosses \in Nat
    BY DEF EngineInv, TypeOK
  <2>2. wal' = wal \/ (call.step = "append" /\ (wal' = Append(wal, Record(TRUE))
                                                 \/ wal' = Append(wal, Record(FALSE))))
    <3>1. ASSUME NEW i \in Ids, NEW v \in Vals, Insert(i, v) \/ Update(i, v) PROVE wal' = wal
      BY <3>1 DEF Insert, Update, disk, mainFile, feedFile, history
    <3>2. ASSUME NEW i \in Ids, Delete(i) PROVE wal' = wal
      BY <3>2 DEF Delete, disk, mainFile, feedFile, history
    <3>3. CASE OpenOk \/ OpenFails \/ Compact
      BY <3>3, Zenon DEF OpenOk, Start, OpenFails, Compact, disk, mainFile, feedFile, history
    <3>4. CASE Apply \/ PublishLength \/ PublishBody
      BY <3>4, Zenon DEF Apply, PublishLength, PublishBody, mainFile, feedFile, history,
         Reindexed, Published
    <3>5. CASE AllocateHeader \/ AllocateZero \/ WriteChunk \/ WriteTrailer \/ ResetFeed
      BY <3>5, Zenon DEF AllocateHeader, AllocateZero, WriteChunk, WriteTrailer, ResetFeed,
         mainFile, feedFile, history, Grown, PutPage, AtChunk, ThisPage, Emptied
    <3>6. CASE AppendRecord \/ CommitRecord \/ ResetWal
      BY <3>6 DEF AppendRecord, CommitRecord, ResetWal, mainFile, feedFile, history
    <3>7. CASE Crash
      BY <3>7 DEF Crash, mainFile, feedFile, history
    <3>9. CASE IoError
      BY <3>9, IoErrorEffect, Zenon DEF WalEffect
    <3>8. ~PowerLoss
      BY <2>1 DEF PowerLoss, mainFile, feedFile, history
    <3> QED BY <3>1, <3>2, <3>3, <3>4, <3>5, <3>6, <3>7, <3>8, <3>9 DEF Next, CallStep
  <2>3. call.step = "append" => /\ Record(TRUE) \in WalRecord /\ Record(TRUE).flag = FALSE
                                /\ Record(FALSE) \in WalRecord /\ Record(FALSE).flag = FALSE
    BY <2>1, RecordUncommitted DEF Serving
  <2> QED BY <2>1, <2>2, <2>3, AppendUncommitted
<1> QED BY <1>1, Invariance, PTL DEF Spec, OnlyCommitIsDurable

-----------------------------------------------------------------------------
(* The WAL ahead of the change log, the image ahead of the reset.           *)

\* The record a call is about to commit is the last one of the WAL.
CommitOK == call.step = "commit" => wal # <<>> /\ wal[Len(wal)] = Record(TRUE)

\* A committed record of the WAL holds the change.
InLog(w, op, i, v) ==
    \E j \in 1 .. Len(w) : w[j].flag /\ w[j].op = op /\ w[j].id = i /\ w[j].val = v

FeedOK ==
    powerLosses = 0 /\ compactions = 0 =>
      /\ \A k \in 1 .. Len(feed) : InLog(wal, feed[k].op, feed[k].id, feed[k].val)
      /\ call.step \in {"apply", "publish", "body"} => InLog(wal, call.op, call.id, call.val)

\* How much of the image a compaction has written.
ImageOK ==
    /\ call.step \in {"alloc", "zero"} => call.page = 0
    /\ call.step = "write" => call.page < PagesNeeded
    /\ call.step = "trailer" => call.page = PagesNeeded
    /\ call.step \in {"write", "trailer"} => \A p \in 1 .. call.page : pages[p] = DataPage(docs, p)
    /\ ImageBeforeTruncation

\* Where the WAL has a document it has what was last done to it, and so has the
\* map, but for the document of the call in progress and those an image overruled.
SurvivesOK ==
    powerLosses = 0 /\ ioErrors = 0 =>
      /\ \A i \in Ids : CommittedAt(wal, i) # {} => content[i] = Recovered(wal)[i]
      /\ mode = "up" =>
           /\ call.step = "apply" => content[call.id] = call.val
           /\ \A i \in Ids : CommittedAt(wal, i) # {} /\ i \notin overruled =>
                docs[i] = content[i] \/ (call.step \in {"append", "commit", "apply"} /\ i = call.id)

MoreInv == EngineInv /\ CommitOK /\ FeedOK /\ ImageOK /\ SurvivesOK

(* An uncommitted record commits nothing. *)
LEMMA AppendCommitted ==
    ASSUME NEW w \in Seq(WalRecord), NEW r \in WalRecord, r.flag = FALSE, NEW i \in Ids
    PROVE  CommittedAt(Append(w, r), i) = CommittedAt(w, i)
BY DEF CommittedAt, WalRecord

(* Every step but the loss of power and the reset keeps the committed records. *)
LEMMA InLogKept ==
    ASSUME NEW w \in Seq(WalRecord), NEW u,
           \/ u = w
           \/ \E r \in WalRecord : u = Append(w, r)
           \/ w # <<>> /\ u = [w EXCEPT ![Len(w)].flag = TRUE],
           NEW op, NEW i, NEW v, InLog(w, op, i, v)
    PROVE  InLog(u, op, i, v)
<1>1. PICK j \in 1 .. Len(w) : w[j].flag /\ w[j].op = op /\ w[j].id = i /\ w[j].val = v
  BY DEF InLog
<1>2. CASE u = w
  BY <1>1, <1>2 DEF InLog
<1>3. ASSUME NEW r \in WalRecord, u = Append(w, r) PROVE InLog(u, op, i, v)
  <2>1. j \in 1 .. Len(u) /\ u[j] = w[j]
    BY <1>1, <1>3
  <2> QED BY <1>1, <2>1 DEF InLog
<1>4. CASE w # <<>> /\ u = [w EXCEPT ![Len(w)].flag = TRUE]
  <2>1. Len(w) \in Nat /\ Len(w) \in DOMAIN w /\ j \in DOMAIN w /\ w[j] \in WalRecord
    BY <1>1, <1>4
  <2>2. Len(u) = Len(w)
    BY <1>4, <2>1
  <2>3. j # Len(w) => u[j] = w[j]
    BY <1>4, <2>1
  <2>4. j = Len(w) => u[j] = [w[j] EXCEPT !.flag = TRUE]
    BY <1>4, <2>1
  <2>5. u[j].flag /\ u[j].op = op /\ u[j].id = i /\ u[j].val = v
    <3>1. CASE j = Len(w)
      BY <1>1, <2>1, <2>4, <3>1 DEF WalRecord
    <3>2. CASE j # Len(w)
      BY <1>1, <2>3, <3>2
    <3> QED BY <3>1, <3>2
  <2> QED BY <1>1, <2>2, <2>5 DEF InLog
<1> QED BY <1>2, <1>3, <1>4

(* A commit logs the change of the call. *)
LEMMA CommitLogs ==
    ASSUME TypeOK, CallOK, CommitOK, call.step = "commit",
           wal' = [wal EXCEPT ![Len(wal)].flag = TRUE]
    PROVE  /\ wal # <<>> /\ wal[Len(wal)].flag = FALSE /\ wal[Len(wal)].id = call.id
           /\ wal[Len(wal)].val = call.val /\ call.id \in Ids
           /\ InLog(wal', call.op, call.id, call.val)
<1>1. wal \in Seq(WalRecord) /\ call \in CallRecord /\ wal # <<>> /\ wal[Len(wal)] = Record(TRUE)
  BY DEF TypeOK, CommitOK
<1>2. /\ Record(TRUE) \in WalRecord /\ Record(TRUE).flag = FALSE /\ call.id \in Ids
      /\ Record(TRUE).id = call.id /\ Record(TRUE).val = call.val /\ Record(TRUE).op = call.op
  BY <1>1, RecordUncommitted DEF Serving, Record, CallOK
<1>3. Len(wal) \in Nat /\ Len(wal) \in 1 .. Len(wal) /\ Len(wal) \in DOMAIN wal
  BY <1>1
<1>4. Len(wal') = Len(wal) /\ wal'[Len(wal)] = [wal[Len(wal)] EXCEPT !.flag = TRUE]
  BY <1>1, <1>3
<1>5. /\ wal'[Len(wal)].flag /\ wal'[Len(wal)].op = call.op
      /\ wal'[Len(wal)].id = call.id /\ wal'[Len(wal)].val = call.val
  <2>1. PICK r \in WalRecord : r = Record(TRUE)
    BY <1>2
  <2>2. wal'[Len(wal)] = [r EXCEPT !.flag = TRUE]
    BY <1>1, <1>4, <2>1
  <2>3. PICK s : s = [r EXCEPT !.flag = TRUE]
    OBVIOUS
  <2>4. s.flag = TRUE /\ s.op = r.op /\ s.id = r.id /\ s.val = r.val
    BY ONLY r \in WalRecord, <2>3 DEF WalRecord
  <2> QED BY <1>2, <2>1, <2>2, <2>3, <2>4
<1> QED BY <1>1, <1>2, <1>3, <1>4, <1>5 DEF InLog

(* Every step leaves the record of the call at the end of the WAL until it is
   committed. *)
LEMMA CommitPreserved ==
    ASSUME TypeOK, CallOK, CommitOK, [Next]_vars
    PROVE  CommitOK'
<1>0. wal \in Seq(WalRecord) /\ call \in CallRecord /\ docs \in Docs
  BY DEF TypeOK
<1> USE <1>0
<1>a. UNCHANGED <<call, wal>> => CommitOK'
  BY DEF CommitOK, Record
<1>b. call'.step # "commit" => CommitOK'
  BY DEF CommitOK
<1>1. CASE OpenOk \/ OpenFails
  BY <1>1, <1>a DEF OpenOk, OpenFails, Start, disk, mainFile, feedFile, history
<1>2. ASSUME NEW i \in Ids, NEW v \in Vals, Insert(i, v) \/ Update(i, v)
      PROVE  CommitOK'
  BY <1>2, <1>b DEF Insert, Update, MutationCall, history
<1>3. ASSUME NEW i \in Ids, Delete(i) PROVE CommitOK'
  BY <1>3, <1>b DEF Delete, MutationCall, history
<1>4. CASE Compact
  <2>1. [Idle EXCEPT !.op = "compact", !.step = "alloc"].step = "alloc"
    BY DEF Idle
  <2> QED BY <1>4, <1>b, <2>1 DEF Compact, history
<1>5. CASE AppendRecord
  <2>1. call.step = "append" /\ wal' = Append(wal, Record(TRUE))
    BY <1>5 DEF AppendRecord, mainFile, feedFile, history
  <2>2. Record(TRUE) \in WalRecord
    BY <2>1, RecordUncommitted DEF Serving
  <2>3. call'.op = call.op /\ call'.id = call.id /\ call'.val = call.val
    BY <1>5, NextStep DEF AppendRecord, Serving, mainFile, feedFile, history
  <2>4. Record(TRUE)' = Record(TRUE)
    BY <2>3 DEF Record
  <2>5. PICK r \in WalRecord : r = Record(TRUE)
    BY <2>2
  <2>6. wal' = Append(wal, r)
    BY <2>1, <2>5, Zenon
  <2>7. wal' # <<>> /\ wal'[Len(wal')] = r
    BY <2>6
  <2> QED BY <2>4, <2>5, <2>7 DEF CommitOK
<1>6. CASE CommitRecord
  BY <1>6, <1>b, NextStep DEF CommitRecord, Serving, mainFile, feedFile
<1>7. CASE Apply
  BY <1>7, <1>b, NextStep DEF Apply, Serving, feedFile, history, Reindexed
<1>8. CASE PublishLength
  BY <1>8, <1>b, NextStep DEF PublishLength, Serving, mainFile, history
<1>9. CASE PublishBody \/ ResetFeed \/ Crash \/ PowerLoss \/ IoError
  BY <1>9, <1>b, IdleCall, IoErrorEffect DEF PublishBody, ResetFeed, Crash, PowerLoss, IoError, Stopped,
     mainFile, feedFile, history, Published, Emptied
<1>10. CASE AllocateHeader
  BY <1>10, <1>b, NextStep DEF AllocateHeader, Compacting, feedFile, history, Grown
<1>11. CASE AllocateZero
  BY <1>11, <1>b, NextStep DEF AllocateZero, Compacting, feedFile, history, PutPage
<1>12. CASE WriteChunk
  BY <1>12, <1>b DEF WriteChunk, CallRecord, feedFile, history, PutPage, AtChunk, ThisPage
<1>13. CASE WriteTrailer
  BY <1>13, <1>b, NextStep DEF WriteTrailer, Compacting, feedFile, history, PutPage
<1>14. CASE ResetWal
  BY <1>14, <1>b, NextStep DEF ResetWal, Compacting, mainFile, feedFile
<1>15. CASE UNCHANGED vars
  BY <1>15, <1>a DEF vars
<1> QED BY <1>1, <1>2, <1>3, <1>4, <1>5, <1>6, <1>7, <1>8, <1>9, <1>10, <1>11, <1>12, <1>13,
           <1>14, <1>15 DEF Next, CallStep

(* Every step keeps the change log behind the committed records of the WAL. *)
LEMMA FeedOKPreserved ==
    ASSUME TypeOK, CallOK, CommitOK, FeedOK, [Next]_vars
    PROVE  FeedOK'
<1>0. /\ wal \in Seq(WalRecord) /\ call \in CallRecord /\ docs \in Docs /\ feed \in Seq(ChangeRecord)
      /\ powerLosses \in Nat /\ compactions \in Nat
  BY DEF TypeOK
<1> USE <1>0
\* The WAL keeps what it has committed and the call asks for nothing new.
<1>a. ASSUME UNCHANGED <<feed, powerLosses, compactions>>,
             wal' = wal \/ \E r \in WalRecord : wal' = Append(wal, r),
             call'.step \in {"apply", "publish", "body"} =>
               /\ call.step \in {"apply", "publish", "body"}
               /\ call'.op = call.op /\ call'.id = call.id /\ call'.val = call.val
      PROVE  FeedOK'
  <2>1. \A op, i, v : InLog(wal, op, i, v) => InLog(wal', op, i, v)
    BY <1>a, InLogKept
  <2> QED BY <1>a, <2>1 DEF FeedOK
<1>b. call.step = "append" => Record(TRUE) \in WalRecord /\ Record(FALSE) \in WalRecord
  BY RecordUncommitted DEF Serving
<1>1. CASE OpenOk \/ OpenFails
  BY <1>1, <1>a DEF OpenOk, OpenFails, Start, disk, counters, mainFile, feedFile, history
<1>2. ASSUME NEW i \in Ids, NEW v \in Vals, Insert(i, v) \/ Update(i, v)
      PROVE  FeedOK'
  BY <1>2, <1>a DEF Insert, Update, MutationCall, disk, counters, mainFile, feedFile, history
<1>3. ASSUME NEW i \in Ids, Delete(i) PROVE FeedOK'
  BY <1>3, <1>a DEF Delete, MutationCall, disk, counters, mainFile, feedFile, history
<1>4. CASE Compact
  BY <1>4 DEF Compact, FeedOK, history
<1>5. CASE AppendRecord
  <2>1. call'.step = "commit"
    BY <1>5, NextStep DEF AppendRecord, Serving, mainFile, feedFile, history
  <2>2. \E r \in WalRecord : wal' = Append(wal, r)
    BY <1>5, <1>b DEF AppendRecord, mainFile, feedFile, history
  <2> QED BY <1>5, <1>a, <2>1, <2>2 DEF AppendRecord, counters, mainFile, feedFile, history
<1>6. CASE CommitRecord
  <2>1. /\ call.step = "commit" /\ wal' = [wal EXCEPT ![Len(wal)].flag = TRUE]
        /\ UNCHANGED <<feed, powerLosses, compactions>>
    BY <1>6 DEF CommitRecord, counters, mainFile, feedFile
  <2>2. call'.op = call.op /\ call'.id = call.id /\ call'.val = call.val
    BY <1>6, NextStep DEF CommitRecord, Serving, mainFile, feedFile
  <2>3. wal # <<>> /\ InLog(wal', call.op, call.id, call.val)
    BY <2>1, CommitLogs
  <2>4. \A op, i, v : InLog(wal, op, i, v) => InLog(wal', op, i, v)
    BY <2>1, <2>3, InLogKept
  <2> QED BY <2>1, <2>2, <2>3, <2>4 DEF FeedOK
<1>7. CASE Apply
  BY <1>7, <1>a, NextStep DEF Apply, Serving, counters, feedFile, history, Reindexed
<1>8. CASE PublishLength
  BY <1>8, <1>a, NextStep DEF PublishLength, Serving, counters, mainFile, history
\* The change log gets the change of the call.
<1>d. ASSUME Published, call'.step = "done", call.step = "body",
             UNCHANGED <<wal, powerLosses, compactions>>
      PROVE  FeedOK'
  <2> DEFINE r == [sequence |-> nextSeq, op |-> call.op, id |-> call.id, val |-> call.val]
  <2>1. feed' = Append(feed, r)
    BY <1>d DEF Published
  <2>2. r \in ChangeRecord /\ r.op = call.op /\ r.id = call.id /\ r.val = call.val
    BY <1>d, ChangeType DEF TypeOK
  <2> HIDE DEF r
  <2>3. /\ Len(feed') = Len(feed) + 1 /\ feed'[Len(feed) + 1] = r
        /\ \A k \in 1 .. Len(feed) : feed'[k] = feed[k]
        /\ Len(feed) \in Nat
    BY <2>1, <2>2
  <2>4. \A k \in 1 .. Len(feed') : k \in 1 .. Len(feed) \/ k = Len(feed) + 1
    BY <2>3
  <2> QED BY <1>d, <2>2, <2>3, <2>4 DEF FeedOK
<1>9. CASE PublishBody
  BY <1>9, <1>d, IdleCall DEF PublishBody, counters, mainFile, history
<1>c. call.step \in Compacting /\ UNCHANGED compactions => FeedOK'
  BY DEF CallOK, FeedOK
<1>10. CASE AllocateHeader \/ AllocateZero \/ WriteChunk \/ WriteTrailer \/ ResetWal \/ ResetFeed
  BY <1>10, <1>c DEF AllocateHeader, AllocateZero, WriteChunk, WriteTrailer, ResetWal,
     ResetFeed,
                     counters, Compacting, mainFile, feedFile, history, Grown, PutPage, AtChunk, ThisPage, Emptied
<1>11. CASE Crash
  <2>1. wal' = wal \/ \E r \in WalRecord : wal' = Append(wal, r)
    BY <1>11, <1>b DEF Crash, mainFile, feedFile, history
  <2> QED BY <1>11, <1>a, <2>1, IdleCall DEF Crash, Stopped, mainFile, feedFile, history
<1>14. CASE IoError
  <2>1. /\ UNCHANGED <<powerLosses, compactions>> /\ call'.step = "done"
        /\ WalEffect /\ FeedEffect
    BY <1>14, IdleCall, IoErrorEffect
  <2>2. CASE call.step \in Compacting
    BY <2>1, <2>2, <1>c
  <2>3. CASE Emptied
    BY <2>1, <2>3 DEF Emptied, FeedOK
  <2>4. CASE call.step \notin Compacting /\ ~Emptied
    <3>1. wal' = wal \/ \E r \in WalRecord : wal' = Append(wal, r)
      <4>1. \A whole \in BOOLEAN : call.step = "append" => Record(whole) \in WalRecord
        BY RecordUncommitted DEF Serving
      <4> QED BY <2>1, <2>4, <4>1, Zenon DEF WalEffect, Compacting
    <3>2. CASE UNCHANGED feedFile
      BY <1>a, <2>1, <3>1, <3>2 DEF feedFile
    <3>3. CASE call.step = "body" /\ Published
      <4>1. wal' = wal
        BY <2>1, <3>3 DEF WalEffect
      <4> QED BY <1>d, <2>1, <3>3, <4>1
    <3> QED BY <2>1, <2>4, <3>2, <3>3, Zenon DEF FeedEffect
  <2> QED BY <2>2, <2>3, <2>4
<1>12. CASE PowerLoss
  BY <1>12 DEF PowerLoss, FeedOK, mainFile, feedFile, history
<1>13. CASE UNCHANGED vars
  BY <1>13, <1>a DEF vars
<1> QED BY <1>1, <1>2, <1>3, <1>4, <1>5, <1>6, <1>7, <1>8, <1>9, <1>10, <1>11, <1>12, <1>13, <1>14
        DEF Next, CallStep

(* The pages of any set of documents, and the trailer after them, are pages of
   the file. *)
LEMMA PagesBound ==
    ASSUME NEW d
    PROVE  /\ PagesOf(Cardinality(Live(d))) \in Nat \ {0}
           /\ 1 .. PagesOf(Cardinality(Live(d))) + 1 \subseteq PageNos
<1> DEFINE len == Cardinality(Live(d))
           q == (len + DocsPerPage - 1) \div DocsPerPage
<1>1. IsFiniteSet(Ids) /\ Live(d) \in SUBSET Ids /\ Ids # {} /\ DocsPerPage \in Nat \ {0}
  BY EngineAssumptions DEF Live
<1>2. len \in Nat /\ Cardinality(Ids) \in Nat /\ len <= Cardinality(Ids)
  BY <1>1, FS_Subset, FS_CardinalityType
<1>3. Cardinality(Ids) # 0
  BY <1>1, FS_EmptySet
<1>4. len # 0 => q \in Nat \ {0} /\ q <= len
  <2> SUFFICES ASSUME len # 0 PROVE q \in Nat \ {0} /\ q <= len
    OBVIOUS
  <2>1. PICK D \in Nat \ {0}, l \in Nat \ {0} : D = DocsPerPage /\ l = len
    BY <1>1, <1>2
  <2>2. (l + D - 1) \div D \in Nat \ {0} /\ (l + D - 1) \div D <= l
    OBVIOUS
  <2> QED BY <2>1, <2>2
<1> HIDE DEF q
<1>5. PagesOf(len) = IF len = 0 THEN 1 ELSE q
  BY DEF PagesOf, q
<1> HIDE DEF len
<1>6. PagesOf(len) \in Nat \ {0} /\ PagesOf(len) <= Cardinality(Ids)
  BY <1>2, <1>3, <1>4, <1>5
<1> QED BY <1>2, <1>6 DEF PageNos, len

(* Every step of a compaction writes the image further, and no other step of the
   engine runs meanwhile. *)
LEMMA ImagePreserved ==
    ASSUME TypeOK, CallOK, ImageOK, [Next]_vars
    PROVE  ImageOK'
<1>0. call \in CallRecord /\ docs \in Docs /\ pages \in [PageNos -> Page] /\ call.page \in Nat
  BY DEF TypeOK, CallRecord
<1> USE <1>0
<1>p. PICK N \in Nat \ {0} : N = PagesNeeded /\ 1 .. N + 1 \subseteq PageNos
  BY PagesBound DEF PagesNeeded
<1>q. docs' = docs => PagesNeeded' = N
  BY <1>p DEF PagesNeeded
<1>a. call'.step \notin Compacting => ImageOK'
  BY DEF ImageOK, ImageBeforeTruncation, Compacting
<1>b. UNCHANGED <<call, docs, pages>> => ImageOK'
  BY DEF ImageOK, ImageBeforeTruncation, Holds, PagesNeeded
<1>1. CASE OpenOk
  <2>1. call' = call /\ call = Idle
    BY <1>1 DEF OpenOk, Start, CallOK
  <2> QED BY <2>1, <1>a, IdleCall DEF Compacting
<1>2. CASE OpenFails
  BY <1>2, <1>b DEF OpenFails, disk, mainFile, feedFile, history
<1>3. ASSUME NEW i \in Ids, NEW v \in Vals, Insert(i, v) \/ Update(i, v)
      PROVE  ImageOK'
  BY <1>3, <1>a DEF Insert, Update, MutationCall, Compacting, history
<1>4. ASSUME NEW i \in Ids, Delete(i) PROVE ImageOK'
  BY <1>4, <1>a DEF Delete, MutationCall, Compacting, history
<1>5. CASE Compact
  <2>1. call'.step = "alloc" /\ call'.page = 0
    BY <1>5 DEF Compact, Idle, history
  <2> QED BY <2>1 DEF ImageOK, ImageBeforeTruncation
<1>6. CASE AppendRecord
  BY <1>6, <1>a, NextStep DEF AppendRecord, Serving, Compacting, mainFile, feedFile, history
<1>7. CASE CommitRecord
  BY <1>7, <1>a, NextStep DEF CommitRecord, Serving, Compacting, mainFile, feedFile
<1>8. CASE Apply
  BY <1>8, <1>a, NextStep DEF Apply, Serving, Compacting, feedFile, history, Reindexed
<1>9. CASE PublishLength
  BY <1>9, <1>a, NextStep DEF PublishLength, Serving, Compacting, mainFile, history
<1>10. CASE PublishBody \/ ResetFeed \/ Crash \/ PowerLoss \/ IoError
  BY <1>10, <1>a, IdleCall, IoErrorEffect DEF PublishBody, ResetFeed, Crash, PowerLoss, IoError, Stopped,
     Compacting, mainFile, feedFile, history, Published, Emptied
<1>c. ASSUME NEW s \in Compacting, Goto(s) PROVE call'.page = call.page /\ call'.step = s
  BY <1>c DEF Goto, CallRecord
<1>11. CASE AllocateHeader
  <2>1. call'.page = 0 /\ call'.step = "zero"
    BY <1>11, <1>c DEF AllocateHeader, ImageOK, Compacting, feedFile, history, Grown
  <2> QED BY <2>1 DEF ImageOK, ImageBeforeTruncation
<1>12. CASE AllocateZero
  <2>1. call'.page = 0 /\ call'.step = "alloc"
    BY <1>12, <1>c DEF AllocateZero, ImageOK, Compacting, feedFile, history, PutPage
  <2> QED BY <2>1 DEF ImageOK, ImageBeforeTruncation
<1>13. CASE WriteChunk
  <2>1. PICK p \in Nat : p = call.page + 1
    OBVIOUS
  <2>2. /\ docs' = docs /\ pages' = [pages EXCEPT ![p] = DataPage(docs, p)]
        /\ call'.page = p /\ call'.step = IF p < N THEN "write" ELSE "trailer"
    BY <1>13, <1>p, <2>1 DEF WriteChunk, CallRecord, feedFile, history, PutPage, AtChunk,
       ThisPage
  <2>3. p \in 1 .. N /\ \A k \in 1 .. call.page : pages[k] = DataPage(docs, k)
    <3>1. CASE call.step = "alloc"
      BY <1>p, <2>1, <3>1 DEF ImageOK
    <3>2. CASE call.step = "write"
      BY <1>p, <2>1, <3>2 DEF ImageOK
    <3> QED BY <1>13, <3>1, <3>2 DEF WriteChunk, feedFile, history, PutPage, AtChunk, ThisPage
  <2>4. 1 .. N \subseteq PageNos
    BY <1>p
  <2>5. \A k \in 1 .. p : pages'[k] = DataPage(docs, k)
    <3>1. \A k \in 1 .. p : k \in PageNos /\ (k \in 1 .. call.page \/ k = p)
      BY <2>1, <2>3, <2>4
    <3> QED BY <2>2, <2>3, <3>1
  <2>6. \A k : DataPage(docs, k)' = DataPage(docs, k)
    BY <2>2 DEF DataPage
  <2> QED BY <1>q, <2>2, <2>3, <2>5 DEF ImageOK, ImageBeforeTruncation, DataPage
<1>14. CASE WriteTrailer
  <2> DEFINE t == Trailer(Cardinality(Live(docs)))
  <2>1. docs' = docs /\ pages' = [pages EXCEPT ![N + 1] = t] /\ call.step = "trailer"
    BY <1>14, <1>p DEF WriteTrailer, feedFile, history, PutPage
  <2>2. call'.step = "walreset"
    BY <1>14, <1>c DEF WriteTrailer, Compacting, feedFile, history, PutPage
  <2>3. pages'[N + 1] = t /\ \A k \in 1 .. N : pages'[k] = pages[k]
    <3>1. N + 1 \in PageNos /\ \A k \in 1 .. N : k \in PageNos /\ k # N + 1
      BY <1>p
    <3> HIDE DEF t
    <3> QED BY <1>p, <2>1, <3>1
  <2>4. \A k \in 1 .. N : pages'[k] = DataPage(docs, k)
    BY <1>p, <2>1, <2>3 DEF ImageOK
  <2>5. ImageBeforeTruncation'
    BY <1>p, <1>q, <2>1, <2>3, <2>4 DEF ImageBeforeTruncation, Holds, PagesNeeded, DataPage,
       Trailer
  <2> QED BY <2>2, <2>5 DEF ImageOK
<1>15. CASE ResetWal
  <2>1. call.step = "walreset" /\ UNCHANGED <<docs, pages>>
    BY <1>15 DEF ResetWal, mainFile, feedFile
  <2>2. call'.step = "feedreset"
    BY <1>15, <1>c DEF ResetWal, Compacting, mainFile, feedFile
  <2>3. ImageBeforeTruncation'
    BY <2>1 DEF ImageOK, ImageBeforeTruncation, Holds, PagesNeeded
  <2> QED BY <2>2, <2>3 DEF ImageOK
<1>16. CASE UNCHANGED vars
  BY <1>16, <1>b DEF vars
<1> QED BY <1>1, <1>2, <1>3, <1>4, <1>5, <1>6, <1>7, <1>8, <1>9, <1>10, <1>11, <1>12, <1>13,
           <1>14, <1>15, <1>16 DEF Next, CallStep

(* Every step keeps the committed bodies and the map together. *)
LEMMA SurvivesPreserved ==
    ASSUME TypeOK, CallOK, CommitOK, SurvivesOK, [Next]_vars
    PROVE  SurvivesOK'
<1>0. /\ wal \in Seq(WalRecord) /\ call \in CallRecord /\ docs \in Docs /\ content \in Docs
      /\ powerLosses \in Nat /\ ioErrors \in Nat
  BY DEF TypeOK
<1> USE <1>0
<1> DEFINE Free(i, c) == ~(c.step \in {"append", "commit", "apply"} /\ i = c.id)
\* The WAL commits nothing new and the map keeps the documents of no call.
<1>a. ASSUME UNCHANGED <<content, powerLosses, ioErrors>>,
             wal' = wal \/ \E r \in WalRecord : r.flag = FALSE /\ wal' = Append(wal, r),
             mode' = "up" =>
               /\ mode = "up" /\ overruled' = overruled /\ (call'.step = "apply" => call.step = "apply" /\ call' = call)
               /\ \A i \in Ids : Free(i, call') => Free(i, call) /\ docs'[i] = docs[i]
      PROVE  SurvivesOK'
  <2>1. Recovered(wal') = Recovered(wal) /\ \A i \in Ids : CommittedAt(wal', i) = CommittedAt(wal, i)
    BY <1>a, AppendUncommitted, AppendCommitted
  <2>2. ASSUME powerLosses = 0, ioErrors = 0, mode' = "up"
        PROVE  /\ call'.step = "apply" => content[call'.id] = call'.val
               /\ \A i \in Ids : CommittedAt(wal, i) # {} /\ i \notin overruled' /\ Free(i, call') =>
                    docs'[i] = content[i]
    BY <1>a, <2>2 DEF SurvivesOK
  <2> QED BY <1>a, <2>1, <2>2 DEF SurvivesOK
<1>b. call.step = "append" => /\ Record(TRUE) \in WalRecord /\ Record(FALSE) \in WalRecord
                              /\ Record(TRUE).flag = FALSE /\ Record(FALSE).flag = FALSE
  BY RecordUncommitted DEF Serving
<1>1. CASE OpenOk
  <2>1. /\ UNCHANGED <<wal, content, powerLosses, ioErrors, call>> /\ call.step = "done"
        /\ docs' = Recovered(wal) \/ (overruled' = Deleted /\ ~FromWal)
    BY <1>1, IdleCall DEF OpenOk, Start, disk, counters, CallOK
  <2>2. ~FromWal => \A i \in Ids : CommittedAt(wal, i) # {} => i \in Deleted
    BY DEF FromWal, Live, Logged, Deleted
  <2> QED BY <2>1, <2>2 DEF SurvivesOK
<1>2. CASE OpenFails
  <2>1. UNCHANGED <<wal, content, powerLosses, ioErrors>> /\ mode' # "up"
    BY <1>2 DEF OpenFails, disk, counters, mainFile, feedFile, history
  <2> QED BY <1>a, <2>1
<1>3. ASSUME NEW i \in Ids, NEW v \in Vals, Insert(i, v) \/ Update(i, v)
      PROVE  SurvivesOK'
  <2>1. /\ UNCHANGED <<wal, content, docs, mode, overruled, powerLosses, ioErrors>>
        /\ call.step = "done" /\ call'.step = "append"
    BY <1>3, IdleCall DEF Insert, Update, Ready, MutationCall, disk, counters, mainFile,
       feedFile, history
  <2> QED BY <1>a, <2>1
<1>4. ASSUME NEW i \in Ids, Delete(i) PROVE SurvivesOK'
  <2>1. /\ UNCHANGED <<wal, content, mode, overruled, powerLosses, ioErrors>>
        /\ call.step = "done" /\ call'.step = "append" /\ call'.id = i
        /\ docs' = [docs EXCEPT ![i] = None]
    BY <1>4, IdleCall DEF Delete, Ready, MutationCall, disk, counters, mainFile, feedFile,
       history
  <2>2. \A j \in Ids : Free(j, call') => docs'[j] = docs[j]
    BY <2>1 DEF Docs
  <2> QED BY <1>a, <2>1, <2>2
<1>5. CASE Compact
  <2>1. /\ UNCHANGED <<wal, content, docs, mode, overruled, powerLosses, ioErrors>>
        /\ call.step = "done" /\ call'.step = "alloc"
    BY <1>5, IdleCall DEF Compact, Idle, disk, mainFile, feedFile, history
  <2> QED BY <1>a, <2>1
<1>6. CASE AppendRecord
  <2>1. UNCHANGED <<content, docs, mode, overruled, powerLosses, ioErrors>> /\ call.step = "append"
    BY <1>6 DEF AppendRecord, counters, mainFile, feedFile, history
  <2>2. call'.step = "commit" /\ call'.id = call.id
    BY <1>6, NextStep DEF AppendRecord, Serving, mainFile, feedFile, history
  <2>3. \E r \in WalRecord : r.flag = FALSE /\ wal' = Append(wal, r)
    BY <1>6, <1>b, <2>1 DEF AppendRecord, mainFile, feedFile, history
  <2> QED BY <1>a, <2>1, <2>2, <2>3
<1>7. CASE CommitRecord
  <2>1. /\ UNCHANGED <<docs, mode, powerLosses, ioErrors>> /\ call.step = "commit"
        /\ wal' = [wal EXCEPT ![Len(wal)].flag = TRUE]
        /\ content' = [content EXCEPT ![call.id] = call.val]
        /\ overruled' = overruled \ {call.id}
    BY <1>7 DEF CommitRecord, counters, mainFile, feedFile
  <2>2. call'.step = "apply" /\ call'.id = call.id /\ call'.val = call.val
    BY <1>7, NextStep DEF CommitRecord, Serving, mainFile, feedFile
  <2>3. /\ wal # <<>> /\ wal[Len(wal)].flag = FALSE /\ wal[Len(wal)].id = call.id
        /\ wal[Len(wal)].val = call.val /\ call.id \in Ids
    BY <2>1, CommitLogs
  <2>4. Recovered(wal') = [Recovered(wal) EXCEPT ![call.id] = call.val]
    <3>1. Recovered([wal EXCEPT ![Len(wal)].flag = TRUE])
            = [Recovered(wal) EXCEPT ![wal[Len(wal)].id] = wal[Len(wal)].val]
      BY <2>3, CommitLast
    <3> QED BY <2>1, <2>3, <3>1
  <2>5. /\ content'[call.id] = call.val /\ Recovered(wal')[call.id] = call.val
        /\ \A i \in Ids : i # call.id =>
             content'[i] = content[i] /\ Recovered(wal')[i] = Recovered(wal)[i]
    <3>1. Recovered(wal) \in Docs
      BY RecoveredType
    <3> QED BY <2>1, <2>3, <2>4, <3>1 DEF Docs
  <2>6. \A i \in Ids : i # call.id => CommittedAt(wal', i) = CommittedAt(wal, i)
    <3> SUFFICES ASSUME NEW i \in Ids, i # call.id PROVE CommittedAt(wal', i) = CommittedAt(wal, i)
      OBVIOUS
    <3>1. PICK n \in Nat, r \in WalRecord : n = Len(wal) /\ r = wal[n] /\ n \in DOMAIN wal
      BY <2>3
    <3>2. Len(wal') = n /\ wal'[n] = [r EXCEPT !.flag = TRUE]
      BY <2>1, <3>1
    <3>3. \A k \in 1 .. n : k # n => wal'[k] = wal[k]
      BY <2>1, <3>1
    <3>4. wal'[n].id = call.id /\ wal[n].id = call.id
      BY <2>3, <3>1, <3>2 DEF WalRecord
    <3>5. \A k : k \in CommittedAt(wal', i) <=> k \in CommittedAt(wal, i)
      BY <3>1, <3>2, <3>3, <3>4 DEF CommittedAt
    <3> QED BY <3>5
  <2> QED BY <2>1, <2>2, <2>5, <2>6 DEF SurvivesOK
<1>8. CASE Apply
  <2>1. /\ UNCHANGED <<wal, content, mode, overruled, powerLosses, ioErrors>> /\ call.step = "apply"
        /\ docs' = [docs EXCEPT ![call.id] = call.val]
    BY <1>8 DEF Apply, counters, feedFile, history, Reindexed
  <2>2. call'.step = "publish" /\ call.id \in Ids
    BY <1>8, <2>1, NextStep DEF Apply, Serving, CallOK, feedFile, history, Reindexed
  <2>3. docs'[call.id] = call.val /\ \A i \in Ids : i # call.id => docs'[i] = docs[i]
    BY <2>1, <2>2 DEF Docs
  <2> QED BY <2>1, <2>2, <2>3 DEF SurvivesOK
<1>9. CASE PublishLength
  <2>1. UNCHANGED <<wal, content, docs, mode, overruled, powerLosses, ioErrors>> /\ call.step = "publish"
    BY <1>9 DEF PublishLength, counters, mainFile, history
  <2>2. call'.step = "body"
    BY <1>9, NextStep DEF PublishLength, Serving, mainFile, history
  <2> QED BY <1>a, <2>1, <2>2
<1>10. CASE PublishBody \/ ResetFeed
  <2>1. /\ UNCHANGED <<wal, content, docs, mode, overruled, powerLosses, ioErrors>>
        /\ call.step \in {"body", "feedreset"} /\ call'.step = "done"
    BY <1>10, IdleCall DEF PublishBody, ResetFeed, counters, mainFile, history, Published,
       Emptied
  <2> QED BY <1>a, <2>1
<1>11. CASE AllocateHeader \/ AllocateZero \/ WriteTrailer
  <2>1. /\ UNCHANGED <<wal, content, docs, mode, overruled, powerLosses, ioErrors>>
        /\ call.step \in {"alloc", "zero", "trailer"}
    BY <1>11 DEF AllocateHeader, AllocateZero, WriteTrailer, counters, feedFile, history,
       Grown, PutPage
  <2>2. call'.step \in {"alloc", "zero", "walreset"}
    BY <1>11, NextStep DEF AllocateHeader, AllocateZero, WriteTrailer, Compacting, feedFile,
       history, Grown, PutPage
  <2> QED BY <1>a, <2>1, <2>2
<1>12. CASE WriteChunk
  <2>1. /\ UNCHANGED <<wal, content, docs, mode, overruled, powerLosses, ioErrors>>
        /\ call.step \in {"alloc", "write"} /\ call'.step \in {"write", "trailer"}
    BY <1>12 DEF WriteChunk, counters, CallRecord, feedFile, history, PutPage, AtChunk,
       ThisPage
  <2> QED BY <1>a, <2>1
<1>13. CASE ResetWal
  <2>1. wal' = <<>> /\ call'.step = "feedreset"
    BY <1>13, NextStep DEF ResetWal, Compacting, mainFile, feedFile
  <2>2. \A i \in Ids : CommittedAt(wal', i) = {}
    BY <2>1 DEF CommittedAt
  <2> QED BY <2>1, <2>2 DEF SurvivesOK
<1>14. CASE Crash
  <2>1. UNCHANGED <<content, powerLosses, ioErrors>> /\ mode' # "up"
    BY <1>14 DEF Crash, Stopped, mainFile, feedFile, history
  <2>2. wal' = wal \/ \E r \in WalRecord : r.flag = FALSE /\ wal' = Append(wal, r)
    BY <1>14, <1>b DEF Crash, mainFile, feedFile, history
  <2> QED BY <1>a, <2>1, <2>2
<1>15. CASE PowerLoss \/ IoError
  <2>1. powerLosses' = powerLosses + 1 \/ ioErrors' = ioErrors + 1
    BY <1>15 DEF PowerLoss, IoError, mainFile, feedFile, history
  <2>2. ~(powerLosses' = 0 /\ ioErrors' = 0)
    BY <2>1
  <2> QED BY <2>2 DEF SurvivesOK
<1>16. CASE UNCHANGED vars
  BY <1>16 DEF vars, SurvivesOK
<1> QED BY <1>1, <1>2, <1>3, <1>4, <1>5, <1>6, <1>7, <1>8, <1>9, <1>10, <1>11, <1>12, <1>13,
           <1>14, <1>15, <1>16 DEF Next, CallStep

(* The second invariant, on top of the first. *)
LEMMA MoreInvariance == Spec => []MoreInv
<1>1. Init => MoreInv
  <2> SUFFICES ASSUME Init PROVE MoreInv
    OBVIOUS
  <2>1. EngineInv /\ call.step = "done" /\ wal = <<>> /\ feed = <<>> /\ mode = "down"
    BY EngineInvInit, IdleCall DEF Init
  <2>2. \A i \in Ids : CommittedAt(wal, i) = {}
    BY <2>1 DEF CommittedAt
  <2> QED BY <2>1, <2>2 DEF MoreInv, CommitOK, FeedOK, ImageOK, ImageBeforeTruncation,
     SurvivesOK
<1>2. MoreInv /\ [Next]_vars => MoreInv'
  BY EngineInvNext, CommitPreserved, FeedOKPreserved, ImagePreserved, SurvivesPreserved
     DEF MoreInv, EngineInv
<1> QED BY <1>1, <1>2, PTL DEF Spec

(* A change is in the change log only after the WAL holds it committed (engine.rs
   insert, update and delete: commit_record before publish). *)
THEOREM FeedBehindWal == Spec => []FeedOnlyCommitted
<1>1. MoreInv => FeedOnlyCommitted
  BY DEF MoreInv, FeedOK, FeedOnlyCommitted, InLog
<1> QED BY <1>1, MoreInvariance, PTL

(* compact drops the WAL only when the main file holds every document and the
   trailer, for any number of documents per page. *)
THEOREM ImageFirst == Spec => []ImageBeforeTruncation
<1>1. MoreInv => ImageBeforeTruncation
  BY DEF MoreInv, ImageOK
<1> QED BY <1>1, MoreInvariance, PTL

(* What was done to a document since the last compaction, a delete included, is
   never lost to a crash, unless the last open loaded an image over it. *)
THEOREM RecentWrites == Spec => []RecentWritesSurvive
<1>1. MoreInv => RecentWritesSurvive
  <2> SUFFICES ASSUME MoreInv, powerLosses = 0, ioErrors = 0, mode = "up", call = Idle,
                      NEW i \in Logged \ overruled
               PROVE  docs[i] = content[i]
    BY DEF RecentWritesSurvive
  <2> QED BY IdleCall DEF MoreInv, SurvivesOK, Logged
<1> QED BY <1>1, MoreInvariance, PTL

-----------------------------------------------------------------------------
(* Engine implements DurableStore.                                          *)

(* Every step of the engine, while no power and no write fails and nothing is
   compacted, is a step of the durable store or none it can see. *)
LEMMA Refines ==
    ASSUME EngineInv, EngineInv', Unfaulted, Unfaulted', [Next]_vars
    PROVE  [Durability!Next]_(Durability!svars)
<1> USE DEF EngineInv
<1> DEFINE View == IF mode = "up" /\ ~InCall THEN docs ELSE NoDocs
           Pending == IF InCall THEN <<call.id, call.val>> ELSE <<>>
           Done == call.step \in {"apply", "publish", "body"}
<1>0. /\ wal \in Seq(WalRecord) /\ call \in CallRecord /\ docs \in Docs
      /\ powerLosses = 0 /\ ioErrors = 0 /\ compactions = 0
      /\ powerLosses' = 0 /\ ioErrors' = 0 /\ compactions' = 0
  BY DEF TypeOK, Unfaulted
<1> USE <1>0
<1>k. Stored = Recovered(wal) /\ Stored' = Recovered(wal')
  BY DEF Stored
<1>1. /\ content = Recovered(wal)
      /\ mode = "up" =>
           /\ call.step \in {"done", "publish", "body"} => docs = Recovered(wal)
           /\ call.step = "commit" => wal # <<>> /\ wal[Len(wal)] = Record(TRUE)
  BY DEF LogOK
<1>2. mode' = "up" /\ call'.step = "done" => docs' = Recovered(wal')
  BY DEF LogOK
<1>3. call.step \notin Compacting
  BY DEF CallOK
<1>4. Idle.op \notin Mutations /\ ~(Idle.step \in {"apply", "publish", "body"})
  BY DEF Idle, Mutations
<1>5. call.step \in Serving => InCall /\ mode = "up" /\ call.id \in Ids /\ call.val \in Vals \cup {None}
  BY <1>4, IdleCall DEF CallOK, InCall, CallRecord, Serving
<1>s. ASSUME (mode' = "up") = (mode = "up"), Recovered(wal') = Recovered(wal), View' = View, Pending' = Pending,
             Done' = Done
      PROVE  UNCHANGED Durability!svars
  BY <1>k, <1>s DEF Durability!svars
<1>6. CASE OpenOk
  <2>1. mode # "up" /\ mode' = "up" /\ call' = call /\ wal' = wal /\ call = Idle
    BY <1>6 DEF OpenOk, Start, disk, CallOK, mainFile, feedFile
  <2>2. docs' = Recovered(wal)
    BY <1>2, <2>1, IdleCall
  <2>3. Durability!Start
    BY <1>k, <1>4, <2>1, <2>2 DEF Durability!Start, InCall
  <2> QED BY <2>3 DEF Durability!Next
<1>7. CASE OpenFails
  <2>1. mode # "up" /\ mode' # "up" /\ call' = call /\ wal' = wal
    BY <1>7 DEF OpenFails, disk, mainFile, feedFile, history
  <2> QED BY <1>s, <2>1 DEF InCall
<1>c. ASSUME NEW i \in Ids, NEW v \in Vals \cup {None}, mode = "up", mode' = "up", call = Idle, wal' = wal,
             call'.op \in Mutations, call'.id = i, call'.val = v, call'.step = "append"
      PROVE  Durability!Next
  <2>1. Durability!Call(i, v)
    BY <1>k, <1>4, <1>c DEF Durability!Call, Durability!Hidden, InCall, NoDocs
  <2> QED BY <2>1 DEF Durability!Next
<1>8. ASSUME NEW i \in Ids, NEW v \in Vals, Insert(i, v) PROVE Durability!Next
  <2>1. call'.op = "insert" /\ call'.id = i /\ call'.val = v /\ call'.step = "append"
    BY <1>8 DEF Insert, MutationCall, history
  <2> QED BY <1>8, <1>c, <2>1 DEF Insert, Ready, disk, Mutations, mainFile, feedFile, history
<1>9. ASSUME NEW i \in Ids, NEW v \in Vals, Update(i, v) PROVE Durability!Next
  <2>1. call'.op = "update" /\ call'.id = i /\ call'.val = v /\ call'.step = "append"
    BY <1>9 DEF Update, MutationCall, history
  <2> QED BY <1>9, <1>c, <2>1 DEF Update, Ready, disk, Mutations, mainFile, feedFile, history
<1>10. ASSUME NEW i \in Ids, Delete(i) PROVE Durability!Next
  <2>1. call'.op = "delete" /\ call'.id = i /\ call'.val = None /\ call'.step = "append"
    BY <1>10 DEF Delete, MutationCall, history
  <2> QED BY <1>10, <1>c, <2>1 DEF Delete, Ready, disk, Mutations, mainFile, feedFile, history
<1>11. CASE AppendRecord
  <2>1. mode' = mode /\ docs' = docs /\ call.step = "append" /\ wal' = Append(wal, Record(TRUE))
    BY <1>11 DEF AppendRecord, mainFile, feedFile, history
  <2>2. call'.step = "commit" /\ call'.op = call.op /\ call'.id = call.id /\ call'.val = call.val
    BY <1>11, NextStep DEF AppendRecord, Serving, mainFile, feedFile, history
  <2>3. Recovered(wal') = Recovered(wal)
    BY <2>1, RecordUncommitted, AppendUncommitted DEF Serving
  <2> QED BY <1>s, <2>1, <2>2, <2>3 DEF InCall
<1>12. CASE CommitRecord
  <2>1. /\ mode' = mode /\ docs' = docs /\ call.step = "commit"
        /\ wal' = [wal EXCEPT ![Len(wal)].flag = TRUE]
    BY <1>12 DEF CommitRecord, mainFile, feedFile
  <2>2. call'.step = "apply" /\ call'.op = call.op /\ call'.id = call.id /\ call'.val = call.val
    BY <1>12, NextStep DEF CommitRecord, Serving, mainFile, feedFile
  <2>3. InCall /\ mode = "up" /\ InCall'
    BY <1>5, <2>1, <2>2 DEF InCall, Serving
  <2>4. Recovered(wal') = [Recovered(wal) EXCEPT ![call.id] = call.val]
    <3>1. /\ wal # <<>> /\ wal[Len(wal)].flag = FALSE /\ wal[Len(wal)].id = call.id
          /\ wal[Len(wal)].val = call.val
      BY <1>1, <2>1, <2>3, RecordUncommitted DEF Serving
    <3>2. Recovered([wal EXCEPT ![Len(wal)].flag = TRUE])
            = [Recovered(wal) EXCEPT ![wal[Len(wal)].id] = wal[Len(wal)].val]
      BY <3>1, CommitLast
    <3> QED BY <2>1, <3>1, <3>2
  <2>5. Durability!Effect
    BY <1>k, <2>1, <2>2, <2>3, <2>4 DEF Durability!Effect
  <2> QED BY <2>5 DEF Durability!Next
<1>13. CASE Apply
  <2>1. mode' = mode /\ wal' = wal /\ call.step = "apply"
    BY <1>13 DEF Apply, feedFile, history, Reindexed
  <2>2. call'.step = "publish" /\ call'.op = call.op /\ call'.id = call.id /\ call'.val = call.val
    BY <1>13, NextStep DEF Apply, Serving, feedFile, history, Reindexed
  <2>3. InCall /\ InCall'
    BY <1>5, <2>1, <2>2 DEF InCall, Serving
  <2> QED BY <1>s, <2>1, <2>2, <2>3
<1>14. CASE PublishLength
  <2>1. mode' = mode /\ wal' = wal /\ call.step = "publish"
    BY <1>14 DEF PublishLength, mainFile, history
  <2>2. call'.step = "body" /\ call'.op = call.op /\ call'.id = call.id /\ call'.val = call.val
    BY <1>14, NextStep DEF PublishLength, Serving, mainFile, history
  <2>3. InCall /\ InCall'
    BY <1>5, <2>1, <2>2 DEF InCall, Serving
  <2> QED BY <1>s, <2>1, <2>2, <2>3
<1>15. CASE PublishBody
  <2>1. mode' = mode /\ wal' = wal /\ docs' = docs /\ call.step = "body" /\ call' = Idle
    BY <1>15 DEF PublishBody, mainFile, history, Published
  <2>2. InCall /\ mode = "up" /\ ~InCall'
    BY <1>4, <1>5, <2>1 DEF InCall, Serving
  <2>3. docs' = Recovered(wal)
    BY <1>1, <2>1, <2>2
  <2>4. Durability!Return
    BY <1>k, <1>4, <2>1, <2>2, <2>3 DEF Durability!Return
  <2> QED BY <2>4 DEF Durability!Next
<1>16. CASE Crash
  <2>1. /\ mode = "up" /\ mode' = "down" /\ call' = Idle
        /\ wal' = wal \/ (call.step = "append" /\ wal' = Append(wal, Record(FALSE)))
    BY <1>16 DEF Crash, Stopped, mainFile, feedFile, history
  <2>2. Recovered(wal') = Recovered(wal)
    BY <2>1, RecordUncommitted, AppendUncommitted DEF Serving
  <2>3. Durability!Crash
    BY <1>k, <1>4, <2>1, <2>2 DEF Durability!Crash, Durability!Hidden, InCall, NoDocs
  <2> QED BY <2>3 DEF Durability!Next
<1>17. ~Compact /\ ~PowerLoss /\ ~IoError
  BY IoErrorEffect DEF Compact, PowerLoss, IoError, mainFile, feedFile, history
<1>18. ~(AllocateHeader \/ AllocateZero \/ WriteChunk \/ WriteTrailer \/ ResetWal \/ ResetFeed)
  BY <1>3 DEF AllocateHeader, AllocateZero, WriteChunk, WriteTrailer, ResetWal, ResetFeed,
     Compacting, mainFile, feedFile, history, Grown, PutPage, AtChunk, ThisPage, Emptied
<1>19. CASE UNCHANGED vars
  BY <1>s, <1>19 DEF vars, InCall
<1> QED BY <1>6, <1>7, <1>8, <1>9, <1>10, <1>11, <1>12, <1>13, <1>14, <1>15, <1>16, <1>17, <1>18,
           <1>19 DEF Next, CallStep

(* engine.rs and wal.rs: "The WAL guarantees durability and atomicity".  Through
   any number of process crashes, between any two writes, the engine is a durable
   store with atomic writes: the safety part of ImplementsDurableStore. *)
THEOREM Refinement == Spec /\ []Unfaulted => Durability!Safety
<1>1. Init => Durability!Init
  <2> SUFFICES ASSUME Init PROVE Durability!Init
    OBVIOUS
  <2>1. Stored = NoDocs
    BY DEF Init, Stored, Recovered, CommittedAt, NoDocs
  <2>2. call.op \notin Mutations /\ call.step \notin {"apply", "publish", "body"}
    BY DEF Init, Idle, Mutations
  <2> QED BY <2>1, <2>2 DEF Init, Durability!Init, Durability!Hidden, InCall, NoDocs
<1>2. EngineInv /\ EngineInv' /\ Unfaulted /\ Unfaulted' /\ [Next]_vars
        => [Durability!Next]_(Durability!svars)
  BY Refines
<1> QED BY <1>1, <1>2, Invariance, PTL DEF Spec, Durability!Safety
-----------------------------------------------------------------------------
(* The recovery loop.                                                       *)

\* The record of a delete has no payload.
DeletesEmpty(w) == \A k \in 1 .. Len(w) : w[k].op = "delete" => w[k].val = None

(* A committed record at the end sets its document. *)
LEMMA RecoveredAppend ==
    ASSUME NEW w \in Seq(WalRecord), NEW r \in WalRecord, r.flag
    PROVE  Recovered(Append(w, r)) = [Recovered(w) EXCEPT ![r.id] = r.val]
<1>1. PICK u : u = [r EXCEPT !.flag = FALSE]
  OBVIOUS
<1>2. /\ u \in WalRecord /\ u.flag = FALSE /\ u.id = r.id /\ u.val = r.val
      /\ [u EXCEPT !.flag = TRUE] = r
  BY <1>1 DEF WalRecord
<1>3. PICK v : v = Append(w, u)
  OBVIOUS
<1>4. v \in Seq(WalRecord) /\ v # <<>> /\ Len(v) = Len(w) + 1 /\ v[Len(v)] = u
  BY <1>2, <1>3
<1>5. [v EXCEPT ![Len(v)].flag = TRUE] = Append(w, r)
  <2>1. PICK n \in Nat \ {0} : n = Len(v)
    BY <1>4
  <2>2. PICK x : x = [v EXCEPT ![n] = r]
    OBVIOUS
  <2>3. n = Len(w) + 1 /\ DOMAIN v = 1 .. n /\ \A k \in 1 .. Len(w) : v[k] = w[k]
    BY <1>2, <1>3, <1>4, <2>1
  <2>4. /\ x \in Seq(WalRecord) /\ Len(x) = n /\ x[n] = r
        /\ \A k \in 1 .. n : k # n => x[k] = v[k]
    BY <1>4, <2>1, <2>2, <2>3
  <2>5. /\ Append(w, r) \in Seq(WalRecord) /\ Len(Append(w, r)) = n
        /\ \A k \in 1 .. n : Append(w, r)[k] = x[k]
    BY <2>1, <2>3, <2>4
  <2>6. Append(w, r) = x
    BY <2>4, <2>5
  <2> QED BY <1>2, <1>4, <2>1, <2>2, <2>6
<1>6. Recovered(Append(w, r)) = [Recovered(v) EXCEPT ![u.id] = u.val]
  BY <1>2, <1>4, <1>5, CommitLast
<1>7. Recovered(v) = Recovered(w)
  BY <1>2, <1>3, AppendUncommitted
<1> QED BY <1>2, <1>6, <1>7

(* Replacing one document in the index replaces its entries. *)
LEMMA IndexOfExcept ==
    ASSUME NEW d \in Docs, NEW i \in Ids, NEW v \in Vals \cup {None}
    PROVE  IndexOf([d EXCEPT ![i] = v]) = (IndexOf(d) \ Entries(i, d[i])) \cup Entries(i, v)
<1>1. PICK e : e = [d EXCEPT ![i] = v]
  OBVIOUS
<1>2. e[i] = v /\ \A j \in Ids : j # i => e[j] = d[j]
  BY <1>1 DEF Docs
<1>3. \A j \in Ids : j # i => Entries(j, d[j]) \cap Entries(i, d[i]) = {}
  BY EntriesApart DEF Docs
<1>4. ASSUME NEW x
      PROVE  x \in IndexOf(e) <=> x \in (IndexOf(d) \ Entries(i, d[i])) \cup Entries(i, v)
  <2>1. x \in IndexOf(e) <=> x \in Entries(i, v) \/ \E j \in Ids : j # i /\ x \in Entries(j, d[j])
    BY <1>2 DEF IndexOf
  <2>2. x \in IndexOf(d) \ Entries(i, d[i]) <=> \E j \in Ids : j # i /\ x \in Entries(j, d[j])
    BY <1>3 DEF IndexOf
  <2> QED BY <2>1, <2>2
<1> QED BY <1>1, <1>4

\* Map and index as recovery of w should leave them.
Rebuilt(w) == [docs |-> Recovered(w), index |-> IndexOf(Recovered(w))]

(* One round of the loop does to map and index what one more record does to *)
(* what is recovered.                                                       *)
LEMMA ReplayStep ==
    ASSUME NEW w \in Seq(WalRecord), NEW r \in WalRecord, r.op = "delete" => r.val = None
    PROVE  /\ HandedOut(r) => ReplayRecord(Rebuilt(w), r) = Rebuilt(Append(w, r))
           /\ ~HandedOut(r) => Rebuilt(w) = Rebuilt(Append(w, r))
<1>1. PICK d : d = Recovered(w)
  OBVIOUS
<1>2. PICK v : v = Append(w, r)
  OBVIOUS
<1>3. d \in Docs /\ r.id \in Ids /\ r.val \in Vals \cup {None} /\ r.flag \in BOOLEAN
  BY <1>1, RecoveredType DEF WalRecord
<1>4. Rebuilt(w) = [docs |-> d, index |-> IndexOf(d)]
  BY <1>1 DEF Rebuilt
<1>5. CASE r.flag
  <2>1. Recovered(v) = [d EXCEPT ![r.id] = r.val]
    BY <1>1, <1>2, <1>5, RecoveredAppend
  <2>2. IndexOf(Recovered(v)) = (IndexOf(d) \ Entries(r.id, d[r.id])) \cup Entries(r.id, r.val)
    <3>1. PICK i \in Ids : i = r.id
      BY <1>3
    <3>2. PICK x \in Vals \cup {None} : x = r.val
      BY <1>3
    <3>3. IndexOf([d EXCEPT ![i] = x]) = (IndexOf(d) \ Entries(i, d[i])) \cup Entries(i, x)
      BY <1>3, IndexOfExcept
    <3> QED BY <2>1, <3>1, <3>2, <3>3
  <2>3. CASE r.op = "delete" /\ d[r.id] = None
    <3>1. Recovered(v) = d
      BY <1>3, <2>1, <2>3 DEF Docs
    <3> QED BY <1>2, <1>4, <1>5, <2>3, <3>1 DEF HandedOut, ReplayRecord, Rebuilt
  <2>4. CASE ~(r.op = "delete" /\ d[r.id] = None)
    BY <1>2, <1>4, <1>5, <2>1, <2>2, <2>4 DEF HandedOut, ReplayRecord, Rebuilt
  <2> QED BY <2>3, <2>4
<1>6. CASE ~r.flag
  <2>1. r.flag = FALSE
    BY <1>3, <1>6
  <2>2. Recovered(v) = d
    BY <1>1, <1>2, <2>1, AppendUncommitted
  <2> QED BY <1>1, <1>2, <1>6, <2>2 DEF HandedOut, Rebuilt
<1> QED BY <1>5, <1>6

(* The loop over a whole WAL. *)
LEMMA ReplayOf ==
    ASSUME NEW w \in Seq(WalRecord), DeletesEmpty(w)
    PROVE  Replay(w) = Rebuilt(w)
<1> DEFINE N == Len(w)
           At(k) == Rebuilt(SubSeq(w, 1, k))
           a == [docs |-> NoDocs, index |-> {}]
           Round(x, k) == IF HandedOut(w[k]) THEN ReplayRecord(x, w[k]) ELSE x
           Def(f) == [k \in 0 .. N |-> IF k = 0 THEN a ELSE Round(f[k - 1], k)]
           f == CHOOSE f : f = Def(f)
           g == [k \in 0 .. N |-> At(k)]
<1>1. N \in Nat /\ Replay(w) = f[N]
  BY DEF Replay
<1>2. ASSUME NEW k \in 1 .. N PROVE Round(At(k - 1), k) = At(k)
  <2>1. k - 1 \in 0 .. N /\ k \in Nat \ {0} /\ w[k] \in WalRecord
    OBVIOUS
  <2>2. PICK u : u = SubSeq(w, 1, k - 1)
    OBVIOUS
  <2>3. PICK v : v = SubSeq(w, 1, k)
    OBVIOUS
  <2>4. u \in Seq(WalRecord) /\ Len(u) = k - 1 /\ \A j \in 1 .. k - 1 : u[j] = w[j]
    BY <2>1, <2>2
  <2>5. v \in Seq(WalRecord) /\ Len(v) = k /\ \A j \in 1 .. k : v[j] = w[j]
    BY <2>1, <2>3
  <2>6. v = Append(u, w[k])
    BY <2>1, <2>4, <2>5
  <2>7. w[k].op = "delete" => w[k].val = None
    BY DEF DeletesEmpty
  <2>8. /\ HandedOut(w[k]) => ReplayRecord(Rebuilt(u), w[k]) = Rebuilt(v)
        /\ ~HandedOut(w[k]) => Rebuilt(u) = Rebuilt(v)
    BY <2>1, <2>4, <2>6, <2>7, ReplayStep
  <2> QED BY <2>2, <2>3, <2>8
<1>3. At(0) = a
  <2>1. SubSeq(w, 1, 0) = <<>>
    OBVIOUS
  <2>2. Recovered(<<>>) = NoDocs
    BY DEF Recovered, NoDocs, CommittedAt
  <2>3. IndexOf(NoDocs) = {}
    BY DEF IndexOf, NoDocs, Entries
  <2> QED BY <2>1, <2>2, <2>3 DEF Rebuilt
<1>4. At(N) = Rebuilt(w)
  <2>1. SubSeq(w, 1, N) = w
    OBVIOUS
  <2> QED BY <2>1
<1> HIDE DEF N, At, a, Round
<1>5. g = Def(g)
  BY <1>1, <1>2, <1>3
<1>6. f = Def(f)
  BY <1>5
<1> HIDE DEF f
<1> DEFINE Good == {k \in Nat : k <= N => f[k] = At(k)}
<1>7. 0 \in Good
  BY <1>1, <1>3, <1>6
<1>8. ASSUME NEW k \in Nat, k \in Good PROVE k + 1 \in Good
  <2> SUFFICES ASSUME k + 1 <= N PROVE f[k + 1] = At(k + 1)
    OBVIOUS
  <2>1. f[k] = At(k)
    BY <1>1, <1>8
  <2>2. f[k + 1] = Round(f[k], k + 1)
    BY <1>1, <1>6
  <2>3. k + 1 \in 1 .. N /\ (k + 1) - 1 = k
    BY <1>1
  <2>4. Round(At(k), k + 1) = At(k + 1)
    BY <1>2, <2>3
  <2> QED BY <2>1, <2>2, <2>4
<1> HIDE DEF Good
<1>9. N \in Good
  BY <1>1, <1>7, <1>8, Induct
<1>10. f[N] = At(N)
  BY <1>1, <1>9 DEF Good
<1> QED BY <1>1, <1>4, <1>10

(* Every step keeps the payloads of deletes empty. *)
LEMMA DeletesPreserved ==
    ASSUME TypeOK, CallOK, DeletesEmpty(wal), [Next]_vars
    PROVE  DeletesEmpty(wal)'
<1>0. wal \in Seq(WalRecord) /\ call \in CallRecord
  BY DEF TypeOK
<1>1. wal' = wal => DeletesEmpty(wal)'
  BY DEF DeletesEmpty
<1>2. ASSUME NEW b \in BOOLEAN, call.step = "append", wal' = Append(wal, Record(b))
      PROVE  DeletesEmpty(wal)'
  <2>1. PICK r : r = Record(b)
    OBVIOUS
  <2>2. r.op = "delete" => r.val = None
    BY <1>2, <2>1 DEF Record, CallOK, Serving
  <2>3. /\ Len(wal') = Len(wal) + 1 /\ wal'[Len(wal) + 1] = r
        /\ \A k \in 1 .. Len(wal) : wal'[k] = wal[k]
    BY <1>0, <1>2, <2>1
  <2>4. ASSUME NEW k \in 1 .. Len(wal')
        PROVE  k \in 1 .. Len(wal) \/ k = Len(wal) + 1
    BY <1>0, <2>3
  <2> QED BY <2>2, <2>3, <2>4 DEF DeletesEmpty
<1>3. ASSUME NEW n \in 0 .. Len(wal), Len(wal') = n,
             \A k \in 1 .. n : wal'[k].op = wal[k].op /\ wal'[k].val = wal[k].val
      PROVE  DeletesEmpty(wal)'
  BY <1>0, <1>3 DEF DeletesEmpty
<1>4. CASE AppendRecord
  BY <1>2, <1>4 DEF AppendRecord, mainFile, feedFile, history
<1>5. CASE Crash
  BY <1>1, <1>2, <1>5 DEF Crash, mainFile, feedFile, history
<1>6. CASE IoError
  <2>1. wal' = <<>> => DeletesEmpty(wal)'
    BY DEF DeletesEmpty
  <2> QED BY <1>1, <1>2, <1>6, <2>1, IoErrorEffect, Zenon DEF WalEffect
<1>7. CASE CommitRecord
  <2>1. CASE wal = <<>>
    BY <1>0, <1>1, <1>7, <2>1 DEF CommitRecord, mainFile, feedFile
  <2>2. CASE wal # <<>>
    <3>1. PICK n \in Nat \ {0} : n = Len(wal)
      BY <1>0, <2>2
    <3>2. PICK r : r = [wal[n] EXCEPT !.flag = TRUE]
      OBVIOUS
    <3>3. wal' = [wal EXCEPT ![n] = r] /\ DOMAIN wal = 1 .. n
      BY <1>0, <1>7, <3>1, <3>2 DEF CommitRecord, mainFile, feedFile
    <3>4. r \in WalRecord /\ r.op = wal[n].op /\ r.val = wal[n].val
      <4>1. wal[n] \in WalRecord
        BY <1>0, <3>1
      <4> QED BY <3>2, <4>1 DEF WalRecord
    <3>5. Len(wal') = n /\ wal'[n] = r /\ \A k \in 1 .. n : k # n => wal'[k] = wal[k]
      BY <1>0, <3>1, <3>3, <3>4
    <3>6. \A k \in 1 .. n : wal'[k].op = wal[k].op /\ wal'[k].val = wal[k].val
      BY <3>4, <3>5
    <3>7. n \in 0 .. Len(wal)
      BY <3>1
    <3> QED BY <1>3, <3>5, <3>6, <3>7
  <2> QED BY <2>1, <2>2
<1>8. CASE PowerLoss
  <2>1. PICK n \in 0 .. Len(wal) : \E lost \in SUBSET (1 .. n) :
          wal' = [k \in 1 .. n |-> IF k \in lost THEN [wal[k] EXCEPT !.flag = FALSE] ELSE wal[k]]
    BY <1>8 DEF PowerLoss, mainFile, feedFile, history
  <2>2. PICK lost \in SUBSET (1 .. n) :
          wal' = [k \in 1 .. n |-> IF k \in lost THEN [wal[k] EXCEPT !.flag = FALSE] ELSE wal[k]]
    BY <2>1
  <2>3. Len(wal') = n
    BY <1>0, <2>2
  <2>4. ASSUME NEW k \in 1 .. n PROVE wal'[k].op = wal[k].op /\ wal'[k].val = wal[k].val
    <3>1. wal[k] \in WalRecord
      BY <1>0
    <3>2. wal'[k] = wal[k] \/ wal'[k] = [wal[k] EXCEPT !.flag = FALSE]
      BY <2>2
    <3> QED BY <3>1, <3>2 DEF WalRecord
  <2> QED BY <1>3, <2>3, <2>4
<1>9. CASE ResetWal
  BY <1>9 DEF ResetWal, DeletesEmpty, mainFile, feedFile
<1>10. CASE OpenOk \/ OpenFails \/ Compact \/ UNCHANGED vars
  BY <1>1, <1>10 DEF OpenOk, Start, OpenFails, Compact, disk, vars, mainFile, feedFile, history
<1>11. CASE \E i \in Ids : Delete(i) \/ \E v \in Vals : Insert(i, v) \/ Update(i, v)
  BY <1>1, <1>11 DEF Delete, Insert, Update, disk, mainFile, feedFile, history
<1>12. CASE Apply \/ PublishLength \/ PublishBody \/ ResetFeed
  BY <1>1, <1>12 DEF Apply, PublishLength, PublishBody, ResetFeed, mainFile, feedFile,
     history, Reindexed, Published, Emptied
<1>13. CASE AllocateHeader \/ AllocateZero \/ WriteChunk \/ WriteTrailer
  BY <1>1, <1>13 DEF AllocateHeader, AllocateZero, WriteChunk, WriteTrailer, feedFile,
     history, Grown, PutPage, AtChunk, ThisPage
<1> QED BY <1>4, <1>5, <1>6, <1>7, <1>8, <1>9, <1>10, <1>11, <1>12, <1>13 DEF Next, CallStep

(* The loop of open rebuilds, from whatever WAL the engine can leave behind, *)
(* the last committed body of every document and exactly their words,       *)
(* however often documents are updated, deleted and stored again.            *)
THEOREM ReplayCorrect == Spec => []ReplayIsLastCommitted
<1>1. Init => DeletesEmpty(wal)
  BY DEF Init, DeletesEmpty
<1>2. EngineInv /\ DeletesEmpty(wal) /\ [Next]_vars => DeletesEmpty(wal)'
  BY DeletesPreserved DEF EngineInv
<1>3. EngineInv /\ DeletesEmpty(wal) => ReplayIsLastCommitted
  BY ReplayOf DEF EngineInv, TypeOK, ReplayIsLastCommitted, Rebuilt
<1> QED BY <1>1, <1>2, <1>3, Invariance, PTL DEF Spec

-----------------------------------------------------------------------------
(* The follower.  One that has read every change holds the primary's       *)
(* documents, for any interleaving of the engine's steps with the open and *)
(* the read of a poll, while the primary neither fails nor compacts and no *)
(* poll met half a record.                                                 *)

\* What the first n records of a change log leave of the documents.
ChangesOf(f, n, i) == {k \in 1 .. n : f[k].id = i}
Fed(f, n) ==
    [i \in Ids |-> IF ChangesOf(f, n, i) = {} THEN None ELSE f[Largest(ChangesOf(f, n, i))].val]

Faultless == crashes = 0 /\ powerLosses = 0 /\ ioErrors = 0 /\ compactions = 0

\* The change log is behind the commits by the operation that is being applied
\* and published, and by nothing else.
PrimaryOK ==
    Faultless =>
      content = IF call.step \in {"apply", "publish", "body"}
                THEN [Fed(feed, Len(feed)) EXCEPT ![call.id] = call.val]
                ELSE Fed(feed, Len(feed))

\* The replica is what the records up to the follower's position say.
FollowerOK ==
    Faultless /\ ~torn =>
      lastSeq \in Nat /\ lastSeq <= Len(feed) /\ replica = Fed(feed, lastSeq)

FollowerInv == EngineInv /\ PrimaryOK /\ FollowerOK

-----------------------------------------------------------------------------
(* The change log as a state.                                              *)

\* A record after the n-th does not change what the first n say.
LEMMA FedPrefix ==
    ASSUME NEW f \in Seq(ChangeRecord), NEW r \in ChangeRecord, NEW n \in Nat, n <= Len(f)
    PROVE  Fed(Append(f, r), n) = Fed(f, n)
<1> DEFINE g == Append(f, r)
<1>1. \A k \in 1 .. n : g[k] = f[k]
  OBVIOUS
<1> HIDE DEF g
<1>2. ASSUME NEW i \in Ids PROVE Fed(g, n)[i] = Fed(f, n)[i]
  <2>1. ChangesOf(g, n, i) = ChangesOf(f, n, i)
    BY <1>1 DEF ChangesOf
  <2>2. ChangesOf(f, n, i) \in SUBSET (1 .. n)
    BY DEF ChangesOf
  <2>3. ChangesOf(f, n, i) # {} => Largest(ChangesOf(f, n, i)) \in 1 .. n
    BY <2>2, LargestExists
  <2> QED BY <1>1, <2>1, <2>3 DEF Fed
<1>3. Fed(g, n) = Fed(f, n)
  BY <1>2 DEF Fed
<1> QED BY <1>3 DEF g

\* One more record sets its document.
LEMMA FedAppend ==
    ASSUME NEW f \in Seq(ChangeRecord), NEW r \in ChangeRecord
    PROVE  Fed(Append(f, r), Len(f) + 1) = [Fed(f, Len(f)) EXCEPT ![r.id] = r.val]
<1> DEFINE g == Append(f, r)
           n == Len(f)
<1>1. n \in Nat /\ g[n + 1] = r /\ r.id \in Ids /\ \A k \in 1 .. n : g[k] = f[k]
  BY DEF ChangeRecord
<1> HIDE DEF g, n
<1>2. ASSUME NEW i \in Ids, i # r.id PROVE Fed(g, n + 1)[i] = Fed(f, n)[i]
  <2>1. ChangesOf(g, n + 1, i) = ChangesOf(f, n, i)
    BY <1>1, <1>2 DEF ChangesOf
  <2>2. ChangesOf(f, n, i) \in SUBSET (1 .. n)
    BY DEF ChangesOf
  <2>3. ChangesOf(f, n, i) # {} => Largest(ChangesOf(f, n, i)) \in 1 .. n
    BY <1>1, <2>2, LargestExists
  <2> QED BY <1>1, <2>1, <2>3 DEF Fed
<1>3. Fed(g, n + 1)[r.id] = r.val
  <2>1. n + 1 \in ChangesOf(g, n + 1, r.id)
    BY <1>1 DEF ChangesOf
  <2>2. ChangesOf(g, n + 1, r.id) \in SUBSET Nat /\ \A j \in ChangesOf(g, n + 1, r.id) : j <= n + 1
    BY <1>1 DEF ChangesOf
  <2>3. Largest(ChangesOf(g, n + 1, r.id)) = n + 1
    BY <2>1, <2>2, LargestUnique
  <2> QED BY <1>1, <2>1, <2>3 DEF Fed
<1>4. Fed(g, n + 1) = [i \in Ids |-> Fed(g, n + 1)[i]] /\ Fed(f, n) = [i \in Ids |-> Fed(f, n)[i]]
  BY DEF Fed
<1>5. Fed(g, n + 1) = [Fed(f, n) EXCEPT ![r.id] = r.val]
  BY <1>1, <1>2, <1>3, <1>4
<1> QED BY <1>5 DEF g, n

\* With numbers that have no gap, the unread records are those after the follower's
\* position, and applying the last one of each document brings the replica up to
\* the end of the log.
LEMMA ReadsAll ==
    ASSUME EngineInv, ~feedFailed, lastSeq \in Nat, lastSeq <= Len(feed), replica = Fed(feed, lastSeq)
    PROVE  /\ Unread = (lastSeq + 1) .. Len(feed)
           /\ [i \in Ids |-> IF \E k \in Unread : feed[k].id = i
                             THEN feed[LastUnread(i)].val ELSE replica[i]] = Fed(feed, Len(feed))
<1>1. /\ feed \in Seq(ChangeRecord) /\ \A k \in 1 .. Len(feed) : feed[k].sequence = k
      /\ Reachable = 1 .. Len(feed)
  BY DEF EngineInv, TypeOK, FeedGapless, FeedFileOK, Reachable
<1>2. PICK n \in Nat : n = Len(feed)
  BY <1>1
<1>3. PICK l \in Nat : l = lastSeq /\ l <= n
  BY <1>2
<1>4. Unread = (l + 1) .. n
  BY <1>1, <1>2, <1>3 DEF Unread
<1>5. ASSUME NEW i \in Ids, NEW k \in Unread, feed[k].id = i
      PROVE  feed[LastUnread(i)].val = Fed(feed, n)[i]
  <2>1. ChangesOf(feed, n, i) \in SUBSET (1 .. n) /\ k \in ChangesOf(feed, n, i)
    BY <1>3, <1>4, <1>5 DEF ChangesOf
  <2>2. PICK m \in ChangesOf(feed, n, i) :
          m = Largest(ChangesOf(feed, n, i)) /\ \A j \in ChangesOf(feed, n, i) : j <= m
    BY <2>1, LargestExists
  <2>3. m \in Unread /\ feed[m].id = i /\ \A j \in Unread : feed[j].id = i => j <= m
    BY <1>3, <1>4, <2>1, <2>2 DEF ChangesOf
  <2>4. /\ LastUnread(i) \in Unread /\ feed[LastUnread(i)].id = i
        /\ \A j \in Unread : feed[j].id = i => j <= LastUnread(i)
    BY <2>3 DEF LastUnread
  <2>5. LastUnread(i) = m
    BY <1>3, <1>4, <2>3, <2>4
  <2> QED BY <2>1, <2>2, <2>5 DEF Fed
<1>6. ASSUME NEW i \in Ids, \A k \in Unread : feed[k].id # i
      PROVE  replica[i] = Fed(feed, n)[i]
  <2>1. ChangesOf(feed, n, i) = ChangesOf(feed, l, i)
    BY <1>3, <1>4, <1>6 DEF ChangesOf
  <2> QED BY <1>3, <2>1 DEF Fed
<1>7. Fed(feed, n) = [i \in Ids |-> Fed(feed, n)[i]]
  BY DEF Fed
<1> QED BY <1>2, <1>3, <1>4, <1>5, <1>6, <1>7

-----------------------------------------------------------------------------
(* The invariant.                                                          *)

\* A follower of nothing.
LEMMA FollowerInit ==
    ASSUME RInit PROVE FollowerInv
<1>1. EngineInv
  BY EngineInvInit DEF RInit
<1>2. Fed(<<>>, 0) = NoDocs
  BY DEF Fed, ChangesOf, NoDocs
<1>3. /\ feed = <<>> /\ Len(feed) = 0 /\ content = NoDocs /\ call.step = "done"
      /\ lastSeq = 0 /\ replica = NoDocs
  BY IdleCall DEF RInit, Init
<1>4. PrimaryOK /\ FollowerOK
  BY <1>2, <1>3 DEF PrimaryOK, FollowerOK
<1> QED BY <1>1, <1>4 DEF FollowerInv

\* While nothing fails and nothing is compacted, a step of the engine leaves the
\* change log alone or appends the record of its call.
LEMMA FaultlessSteps ==
    ASSUME EngineInv, Next, Faultless'
    PROVE  /\ Faultless
           /\ \/ feed' = feed /\ content' = content
                 /\ \/ call' = call
                    \/ call.step \in {"done", "append"} /\ call'.step \in {"append", "commit"}
                    \/ /\ call.step \in {"apply", "publish"} /\ call'.step \in {"publish", "body"}
                       /\ call'.id = call.id /\ call'.val = call.val
              \/ /\ call.step = "commit" /\ call'.step = "apply" /\ feed' = feed
                 /\ call'.id = call.id /\ call'.val = call.val
                 /\ content' = [content EXCEPT ![call.id] = call.val]
              \/ /\ call.step = "body" /\ call'.step = "done" /\ content' = content
                 /\ \E r \in ChangeRecord :
                      r.id = call.id /\ r.val = call.val /\ feed' = Append(feed, r)
<1>0. /\ call \in CallRecord /\ CallOK /\ nextSeq \in Nat
      /\ crashes \in Nat /\ powerLosses \in Nat /\ ioErrors \in Nat /\ compactions \in Nat
  BY DEF EngineInv, TypeOK
<1> USE <1>0, IdleCall
<1>1. CASE OpenOk \/ OpenFails
  BY <1>1 DEF OpenOk, OpenFails, Start, disk, counters, Faultless, mainFile, feedFile, history
<1>2. ASSUME NEW i \in Ids, NEW v \in Vals, Insert(i, v) \/ Update(i, v)
      PROVE  /\ Faultless /\ feed' = feed /\ content' = content
             /\ call.step = "done" /\ call'.step = "append"
  <2>1. call = Idle /\ UNCHANGED <<disk, content, counters>>
    BY <1>2 DEF Insert, Update, Ready, history
  <2>2. call'.step = "append"
    BY <1>2 DEF Insert, Update, MutationCall, history
  <2> QED BY <2>1, <2>2 DEF Faultless, counters, disk, mainFile, feedFile
<1>3. ASSUME NEW i \in Ids, Delete(i)
      PROVE  /\ Faultless /\ feed' = feed /\ content' = content
             /\ call.step = "done" /\ call'.step = "append"
  <2>1. call = Idle /\ UNCHANGED <<disk, content, counters>>
    BY <1>3 DEF Delete, Ready, history
  <2>2. call'.step = "append"
    BY <1>3 DEF Delete, MutationCall, history
  <2> QED BY <2>1, <2>2 DEF Faultless, counters, disk, mainFile, feedFile
<1>4. CASE Compact \/ Crash \/ PowerLoss \/ IoError
  <2>1. \/ compactions' = compactions + 1 \/ crashes' = crashes + 1
        \/ powerLosses' = powerLosses + 1 \/ ioErrors' = ioErrors + 1
    BY <1>4, IoErrorEffect DEF Compact, Crash, PowerLoss, mainFile, feedFile, history
  <2> QED BY <2>1 DEF Faultless
<1>5. CASE AppendRecord
  BY <1>5, NextStep DEF AppendRecord, Faultless, counters, Serving, mainFile, feedFile, history
<1>6. CASE CommitRecord
  BY <1>6, NextStep DEF CommitRecord, Faultless, counters, Serving, mainFile, feedFile
<1>7. CASE Apply
  <2>1. call.step = "apply" /\ Goto("publish") /\ UNCHANGED <<feed, content, counters>>
    BY <1>7 DEF Apply, feedFile, history, Reindexed
  <2> QED BY <2>1, NextStep DEF Faultless, counters, Serving
<1>8. CASE PublishLength
  BY <1>8, NextStep DEF PublishLength, Faultless, counters, Serving, mainFile, history
<1>9. CASE PublishBody
  <2>2. PICK r : r = [sequence |-> nextSeq, op |-> call.op, id |-> call.id, val |-> call.val]
    OBVIOUS
  <2>3. r \in ChangeRecord /\ r.id = call.id /\ r.val = call.val
    BY <1>9, <2>2, ChangeType DEF PublishBody
  <2> QED BY <1>9, <2>2, <2>3 DEF PublishBody, Faultless, counters, mainFile, history,
     Published
<1>10. CASE AllocateHeader \/ AllocateZero \/ WriteChunk \/ WriteTrailer \/ ResetWal \/ ResetFeed
  <2>1. call.step \in Compacting /\ compactions' = compactions
    BY <1>10 DEF AllocateHeader, AllocateZero, WriteChunk, WriteTrailer, ResetWal, ResetFeed,
                 Compacting, counters, mainFile, feedFile, history, Grown, PutPage, AtChunk, ThisPage, Emptied
  <2> QED BY <2>1 DEF CallOK, Faultless
<1> QED
  BY <1>1, <1>2, <1>3, <1>4, <1>5, <1>6, <1>7, <1>8, <1>9, <1>10 DEF Next, CallStep

\* A step of the engine: the log grows by what was committed.
LEMMA PrimaryStep ==
    ASSUME FollowerInv, PrimaryNext PROVE FollowerInv'
<1>1. Next /\ UNCHANGED <<lastSeq, replica, torn>>
  BY DEF PrimaryNext, followerVars
<1>2. EngineInv /\ EngineInv'
  BY <1>1, EngineInvNext DEF FollowerInv
<1>3. feed \in Seq(ChangeRecord) /\ Len(feed) \in Nat
  BY <1>2 DEF EngineInv, TypeOK
<1>4. SUFFICES ASSUME Faultless' PROVE PrimaryOK' /\ FollowerOK'
  BY <1>1, <1>2, <1>3 DEF FollowerInv, PrimaryOK, FollowerOK
<1>5. Faultless
  BY <1>1, <1>2, <1>4, FaultlessSteps
<1>6. CASE feed' = feed
  <2>1. PrimaryOK'
    BY <1>1, <1>2, <1>3, <1>4, <1>5, <1>6, FaultlessSteps DEF FollowerInv, PrimaryOK
  <2>2. FollowerOK'
    BY <1>1, <1>5, <1>6 DEF FollowerInv, FollowerOK
  <2> QED BY <2>1, <2>2
<1>7. CASE feed' # feed
  <2>1. /\ call.step = "body" /\ call'.step = "done" /\ content' = content
        /\ \E r \in ChangeRecord : r.id = call.id /\ r.val = call.val /\ feed' = Append(feed, r)
    BY <1>1, <1>2, <1>4, <1>7, FaultlessSteps
  <2>2. PICK r \in ChangeRecord : r.id = call.id /\ r.val = call.val /\ feed' = Append(feed, r)
    BY <2>1
  <2>3. Len(feed') = Len(feed) + 1
    BY <1>3, <2>2
  <2>4. Fed(feed', Len(feed')) = [Fed(feed, Len(feed)) EXCEPT ![call.id] = call.val]
    BY <1>3, <2>2, <2>3, FedAppend
  <2>5. PrimaryOK'
    BY <1>5, <2>1, <2>4 DEF FollowerInv, PrimaryOK
  <2>6. lastSeq \in Nat /\ lastSeq <= Len(feed) => Fed(feed', lastSeq) = Fed(feed, lastSeq)
    BY <1>3, <2>2, FedPrefix
  <2>7. FollowerOK'
    BY <1>1, <1>3, <1>5, <2>3, <2>6 DEF FollowerInv, FollowerOK
  <2> QED BY <2>5, <2>7
<1> QED BY <1>6, <1>7

\* A poll: the replica catches up with the log, unless it met half a record.
LEMMA PollStep ==
    ASSUME FollowerInv, PollRead PROVE FollowerInv'
<1>1. vars' = vars
  BY DEF PollRead
<1>2. EngineInv /\ EngineInv' /\ PrimaryOK' /\ (Faultless' <=> Faultless) /\ feed' = feed
  <2>1. EngineInv /\ EngineInv'
    BY <1>1, EngineInvNext DEF FollowerInv
  <2> QED BY <1>1, <2>1 DEF FollowerInv, PrimaryOK, Faultless, vars
<1>3. SUFFICES ASSUME Faultless, ~torn'
               PROVE  lastSeq' \in Nat /\ lastSeq' <= Len(feed) /\ replica' = Fed(feed, lastSeq')
  BY <1>2 DEF FollowerInv, FollowerOK
<1>4. ~ScanFails /\ ~torn /\ Deliver
  BY <1>3 DEF PollRead
<1>5. ~feedFailed
  BY <1>2, <1>3 DEF EngineInv, TypeOK, FeedFileOK, Faultless
<1>6. /\ feed \in Seq(ChangeRecord) /\ Len(feed) \in Nat
      /\ \A k \in 1 .. Len(feed) : feed[k].sequence = k
  BY <1>2, <1>5 DEF EngineInv, TypeOK, FeedGapless
<1>7. lastSeq \in Nat /\ lastSeq <= Len(feed) /\ replica = Fed(feed, lastSeq)
  BY <1>3, <1>4 DEF FollowerInv, FollowerOK
<1>8. Unread = (lastSeq + 1) .. Len(feed) /\ replica' = Fed(feed, Len(feed))
  BY <1>2, <1>4, <1>5, <1>7, ReadsAll DEF Deliver
<1>9. lastSeq' = Len(feed)
  <2>1. CASE Unread = {}
    BY <1>6, <1>7, <1>8, <2>1 DEF PollRead
  <2>2. CASE Unread # {}
    <3>1. Largest(Unread) \in Unread /\ \A j \in Unread : j <= Largest(Unread)
      <4>1. Unread \in SUBSET (1 .. Len(feed))
        BY <1>6, <1>7, <1>8
      <4> QED BY <1>6, <2>2, <4>1, LargestExists
    <3>2. Largest(Unread) = Len(feed)
      BY <1>6, <1>7, <1>8, <2>2, <3>1
    <3>3. lastSeq' = feed[Largest(Unread)].sequence
      BY <2>2 DEF PollRead, Largest
    <3> QED BY <1>6, <1>7, <1>8, <2>2, <3>1, <3>2, <3>3
  <2> QED BY <2>1, <2>2
<1> QED BY <1>6, <1>8, <1>9

LEMMA FollowerNext ==
    ASSUME FollowerInv, [RNext]_allVars PROVE FollowerInv'
<1>1. CASE PollOpen \/ UNCHANGED allVars
  <2>1. vars' = vars /\ UNCHANGED <<lastSeq, replica, torn>>
    BY <1>1 DEF PollOpen, allVars, followerVars
  <2>2. EngineInv'
    BY <2>1, EngineInvNext DEF FollowerInv
  <2> QED BY <2>1, <2>2 DEF FollowerInv, PrimaryOK, FollowerOK, Faultless, vars
<1> QED BY <1>1, PrimaryStep, PollStep DEF RNext

-----------------------------------------------------------------------------
(* Theorems.                                                               *)

\* FollowerInv is an invariant of the engine and its follower together.
THEOREM FollowerInvariance == RSpec => []FollowerInv
<1>1. RInit => FollowerInv
  BY FollowerInit
<1>2. FollowerInv /\ [RNext]_allVars => FollowerInv'
  BY FollowerNext
<1> QED BY <1>1, <1>2, PTL DEF RSpec

\* A follower that has read every change holds the primary's documents, however the
\* primary's writes fall between the open and the read of its polls.
THEOREM FollowerCorrect == RSpec => []InSyncWithoutFaults
<1>1. ASSUME FollowerInv PROVE InSyncWithoutFaults
  <2> SUFFICES ASSUME Faultless, ~torn, mode = "up", call = Idle, CaughtUp
               PROVE  replica = docs
    BY DEF InSyncWithoutFaults, NoFailures, FollowerInSync, Faultless
  <2>1. docs = content
    BY <1>1, IdleCall DEF FollowerInv, EngineInv, LogOK, Unfaulted, Faultless
  <2>2. content = Fed(feed, Len(feed))
    BY <1>1, IdleCall DEF FollowerInv, PrimaryOK
  <2>3. lastSeq \in Nat /\ lastSeq <= Len(feed) /\ replica = Fed(feed, lastSeq)
    BY <1>1 DEF FollowerInv, FollowerOK
  <2>a. ~feedFailed
    BY <1>1 DEF FollowerInv, EngineInv, TypeOK, FeedFileOK, Faultless
  <2>4. Len(feed) \in Nat /\ (lastSeq + 1) .. Len(feed) = {}
    BY <1>1, <2>3, <2>a, ReadsAll DEF FollowerInv, EngineInv, TypeOK, CaughtUp
  <2>5. lastSeq = Len(feed)
    BY <2>3, <2>4
  <2> QED BY <2>1, <2>2, <2>3, <2>5
<1> QED BY <1>1, FollowerInvariance, PTL

-----------------------------------------------------------------------------
(* Snapshots.  What an open would show, as a function of the two files.    *)

HoldsIn(P, d, len) ==
    /\ len = Cardinality(Live(d))
    /\ \A p \in 1 .. PagesOf(len) : P[p] = DataPage(d, p)
AbortsIn(P, n) == n > 1 /\ P[n - 1].kind = "data" /\ Live(P[n - 1].image) # {}
ReturnsIn(P, n) == ~(AbortsIn(P, n) /\ P[n - 1].part = 1)
LoadsIn(P, n, d) ==
    IF n > 1 /\ P[n - 1].kind = "trailer" /\ \E e \in Docs : HoldsIn(P, e, P[n - 1].part)
    THEN HoldsIn(P, d, P[n - 1].part)
    ELSE d = NoDocs
ShownIn(r, P, n) ==
    IF Live(r) # {} THEN {r} ELSE IF ReturnsIn(P, n) THEN {d \in Docs : LoadsIn(P, n, d)} ELSE {}

\* It is what Shown says, before and after a step.
LEMMA ShownIs ==
    /\ Shown = ShownIn(Recovered(wal), pages, numPages)
    /\ Shown' = ShownIn(Recovered(wal'), pages', numPages')
<1>1. Shown = ShownIn(Recovered(wal), pages, numPages)
  BY DEF Shown, ShownIn, FromWal, LoadReturns, LoadAborts, TrailerPage, LoadedFrom, Holds,
         ReturnsIn, AbortsIn, LoadsIn, HoldsIn
<1>2. Shown' = ShownIn(Recovered(wal'), pages', numPages')
  BY DEF Shown, ShownIn, FromWal, LoadReturns, LoadAborts, TrailerPage, LoadedFrom, Holds,
         ReturnsIn, AbortsIn, LoadsIn, HoldsIn
<1> QED BY <1>1, <1>2

\* It is a set of documents.
LEMMA ShownInType ==
    ASSUME NEW r \in Docs, NEW P, NEW n
    PROVE  ShownIn(r, P, n) \in SUBSET Docs
BY DEF ShownIn

\* A file that was never compacted has no image: the WAL says everything.
LEMMA ShownWithoutImage ==
    ASSUME NEW r \in Docs, NEW P
    PROVE  ShownIn(r, P, 1) = {r}
<1>1. CASE Live(r) # {}
  BY <1>1 DEF ShownIn
<1>2. CASE Live(r) = {}
  <2>1. r = NoDocs
    BY <1>2 DEF Live, NoDocs, Docs
  <2>2. ReturnsIn(P, 1) /\ \A d : LoadsIn(P, 1, d) <=> d = NoDocs
    BY DEF ReturnsIn, AbortsIn, LoadsIn
  <2> QED BY <1>2, <2>1, <2>2 DEF ShownIn
<1> QED BY <1>1, <1>2

\* Pages a load looks into, and files that agree on them.
Written(pg) == pg.kind = "data" \/ pg.kind = "trailer"
SameImage(P, Q) == \A p \in PageNos : Written(P[p]) \/ Written(Q[p]) => P[p] = Q[p]
NumOK(n) == n > 1 => n - 1 \in PageNos

\* Such files show the same documents.
LEMMA SameShown ==
    ASSUME NEW P, NEW Q, SameImage(P, Q), NEW n \in Nat, NumOK(n), NEW r
    PROVE  ShownIn(r, P, n) = ShownIn(r, Q, n)
<1>1. ASSUME NEW d, NEW len PROVE HoldsIn(P, d, len) <=> HoldsIn(Q, d, len)
  <2>1. 1 .. PagesOf(Cardinality(Live(d))) \subseteq PageNos
    BY PagesBound
  <2>2. \A p : Written(DataPage(d, p))
    BY DEF Written, DataPage
  <2>3. ASSUME len = Cardinality(Live(d)), NEW p \in 1 .. PagesOf(len)
        PROVE  P[p] = DataPage(d, p) <=> Q[p] = DataPage(d, p)
    BY <2>1, <2>2, <2>3 DEF SameImage
  <2> QED BY <2>3, Zenon DEF HoldsIn
<1>2. CASE ~(n > 1)
  BY <1>2 DEF ShownIn, ReturnsIn, AbortsIn, LoadsIn
<1>3. CASE n > 1 /\ ~Written(P[n - 1]) /\ ~Written(Q[n - 1])
  <2>1. ReturnsIn(P, n) /\ ReturnsIn(Q, n)
    BY <1>3, Zenon DEF ReturnsIn, AbortsIn, Written
  <2>2. \A d : LoadsIn(P, n, d) <=> LoadsIn(Q, n, d)
    BY <1>3, Zenon DEF LoadsIn, Written
  <2> QED BY <2>1, <2>2 DEF ShownIn
<1>4. CASE n > 1 /\ (Written(P[n - 1]) \/ Written(Q[n - 1]))
  <2>1. P[n - 1] = Q[n - 1]
    BY <1>4 DEF SameImage, NumOK
  <2>2. ReturnsIn(P, n) <=> ReturnsIn(Q, n)
    BY <2>1, Zenon DEF ReturnsIn, AbortsIn
  <2>3. ASSUME NEW d PROVE LoadsIn(P, n, d) <=> LoadsIn(Q, n, d)
    BY <1>1, <2>1, Zenon DEF LoadsIn
  <2> QED BY <2>2, <2>3 DEF ShownIn
<1> QED BY <1>2, <1>3, <1>4

-----------------------------------------------------------------------------
(* What a step of the engine does to the two files.                        *)

\* While the machine stays up the WAL grows by uncommitted records, its last
\* record is committed, or a compaction drops it.
LEMMA WalSteps ==
    ASSUME TypeOK, CallOK, CommitOK, [Next]_vars, powerLosses' = powerLosses
    PROVE  \/ wal' = wal
           \/ \E r \in WalRecord : r.flag = FALSE /\ wal' = Append(wal, r)
           \/ /\ wal # <<>> /\ wal[Len(wal)].flag = FALSE
              /\ wal' = [wal EXCEPT ![Len(wal)].flag = TRUE]
           \/ call.step = "walreset" /\ wal' = <<>>
<1>0. wal \in Seq(WalRecord) /\ call \in CallRecord /\ powerLosses \in Nat
  BY DEF TypeOK
<1>a. call.step = "append" => /\ Record(TRUE) \in WalRecord /\ Record(TRUE).flag = FALSE
                              /\ Record(FALSE) \in WalRecord /\ Record(FALSE).flag = FALSE
  BY <1>0, RecordUncommitted DEF Serving
<1>1. ASSUME NEW i \in Ids, NEW v \in Vals, Insert(i, v) \/ Update(i, v) PROVE wal' = wal
  BY <1>1 DEF Insert, Update, disk, mainFile, feedFile, history
<1>2. ASSUME NEW i \in Ids, Delete(i) PROVE wal' = wal
  BY <1>2 DEF Delete, disk, mainFile, feedFile, history
<1>3. CASE OpenOk \/ OpenFails \/ Compact \/ UNCHANGED vars
  BY <1>3, Zenon DEF OpenOk, Start, OpenFails, Compact, disk, vars, mainFile, feedFile, history
<1>4. CASE Apply \/ PublishLength \/ PublishBody
  BY <1>4, Zenon DEF Apply, PublishLength, PublishBody, mainFile, feedFile, history,
     Reindexed, Published
<1>5. CASE AllocateHeader \/ AllocateZero \/ WriteChunk \/ WriteTrailer \/ ResetFeed
  BY <1>5, Zenon DEF AllocateHeader, AllocateZero, WriteChunk, WriteTrailer, ResetFeed,
     mainFile, feedFile, history, Grown, PutPage, AtChunk, ThisPage, Emptied
<1>6. CASE AppendRecord
  BY <1>6, <1>a DEF AppendRecord, mainFile, feedFile, history
<1>7. CASE CommitRecord
  BY <1>0, <1>7, CommitLogs DEF CommitRecord, mainFile, feedFile
<1>8. CASE ResetWal
  BY <1>8 DEF ResetWal, mainFile, feedFile
<1>9. CASE Crash
  <2>1. wal' = wal \/ (call.step = "append" /\ wal' = Append(wal, Record(FALSE)))
    BY <1>9 DEF Crash, mainFile, feedFile, history
  <2> QED BY <1>a, <2>1
<1>11. CASE IoError
  <2>1. WalEffect
    BY <1>11, IoErrorEffect
  <2>2. ASSUME NEW whole \in BOOLEAN, call.step = "append", wal' = Append(wal, Record(whole))
        PROVE  \E r \in WalRecord : r.flag = FALSE /\ wal' = Append(wal, r)
    <3>1. Record(whole) \in WalRecord /\ Record(whole).flag = FALSE
      BY <1>0, <2>2, RecordUncommitted DEF Serving
    <3> QED BY <2>2, <3>1
  <2> QED BY <2>1, <2>2 DEF WalEffect
<1>10. ~PowerLoss
  BY <1>0 DEF PowerLoss, mainFile, feedFile, history
<1> QED BY <1>1, <1>2, <1>3, <1>4, <1>5, <1>6, <1>7, <1>8, <1>9, <1>10, <1>11 DEF Next, CallStep

\* num_pages in the file and in the header the engine keeps: a header is written
\* at the end of a mutation and by an allocation, and read by open.
NumEffect ==
    \/ numPages' = numPages
    \/ call.step = "apply" /\ numPages' = pageCount
    \/ call.step = "alloc" /\ pageCount < PagesNeeded + 1 /\ numPages' = pageCount + 1
HeaderEffect ==
    \/ pageCount' \in {pageCount, numPages, 1}
    \/ call.step = "alloc" /\ pageCount < PagesNeeded + 1 /\ pageCount' = pageCount + 1

\* The two are the same unless a write failed.
Counted == mode = "up" => pageCount = numPages
CountOK == ioErrors = 0 => Counted

\* What a step of the engine does to the main file.
LEMMA PageSteps ==
    ASSUME [Next]_vars
    PROVE  PagesEffect /\ NumEffect /\ HeaderEffect
<1> DEFINE Goal == PagesEffect /\ NumEffect /\ HeaderEffect
<1>a. ASSUME pages' = pages, numPages' = numPages, pageCount' = pageCount PROVE Goal
  BY <1>a DEF PagesEffect, NumEffect, HeaderEffect
<1>1. ASSUME NEW i \in Ids, NEW v \in Vals, Insert(i, v) \/ Update(i, v) PROVE Goal
  BY <1>1, <1>a, Zenon DEF Insert, Update, disk, mainFile
<1>2. ASSUME NEW i \in Ids, Delete(i) PROVE Goal
  BY <1>2, <1>a, Zenon DEF Delete, disk, mainFile
<1>3. CASE OpenFails \/ Compact \/ UNCHANGED vars
  BY <1>3, <1>a, Zenon DEF OpenFails, Compact, disk, vars, mainFile
<1>4. CASE OpenOk
  <2>1. pages' = pages /\ numPages' = numPages /\ pageCount' = numPages
    BY <1>4, Zenon DEF OpenOk, Start, disk, mainFile
  <2> QED BY <2>1 DEF PagesEffect, NumEffect, HeaderEffect
<1>5. CASE AppendRecord \/ CommitRecord \/ PublishLength \/ PublishBody \/ ResetWal \/ ResetFeed
  BY <1>5, <1>a, Zenon DEF AppendRecord, CommitRecord, PublishLength, PublishBody, ResetWal,
     ResetFeed, mainFile
<1>6. CASE Apply
  BY <1>6 DEF Apply, PagesEffect, NumEffect, HeaderEffect
<1>7. CASE AllocateHeader
  BY <1>7 DEF AllocateHeader, Grown, PagesEffect, NumEffect, HeaderEffect
<1>8. CASE AllocateZero
  BY <1>8 DEF AllocateZero, PutPage, PagesEffect, NumEffect, HeaderEffect
<1>9. CASE WriteChunk
  BY <1>9 DEF WriteChunk, PutPage, PagesEffect, NumEffect, HeaderEffect
<1>10. CASE WriteTrailer
  BY <1>10 DEF WriteTrailer, PutPage, PagesEffect, NumEffect, HeaderEffect
<1>11. CASE Crash \/ PowerLoss
  <2>1. pages' = pages /\ numPages' = numPages /\ pageCount' = 1
    BY <1>11, Zenon DEF Crash, PowerLoss, Stopped, mainFile
  <2> QED BY <2>1 DEF PagesEffect, NumEffect, HeaderEffect
<1>12. CASE IoError
  <2>1. PagesEffect /\ (FailedLogWrite \/ FailedApply \/ FailedPublish \/ FailedAllocation
                        \/ FailedPage \/ FailedWalReset \/ FailedFeedReset)
    BY <1>12, IoErrorEffect DEF IoError
  <2>2. CASE FailedLogWrite \/ FailedPublish \/ FailedPage \/ FailedWalReset \/ FailedFeedReset
    <3>1. numPages' = numPages /\ pageCount' = pageCount
      BY <2>2, Zenon DEF FailedLogWrite, FailedPublish, FailedPage, FailedWalReset,
         FailedFeedReset, mainFile
    <3> QED BY <2>1, <3>1 DEF NumEffect, HeaderEffect
  <2>3. CASE FailedApply
    BY <2>1, <2>3 DEF FailedApply, NumEffect, HeaderEffect
  <2>4. CASE FailedAllocation
    BY <2>1, <2>4 DEF FailedAllocation, Grown, NumEffect, HeaderEffect
  <2> QED BY <2>1, <2>2, <2>3, <2>4
<1> QED BY <1>1, <1>2, <1>3, <1>4, <1>5, <1>6, <1>7, <1>8, <1>9, <1>10, <1>11, <1>12 DEF Next, CallStep

\* And keeps the counts together.
LEMMA CountKept ==
    ASSUME TypeOK, CountOK, [Next]_vars
    PROVE  CountOK'
<1>0. ioErrors \in Nat
  BY DEF TypeOK
<1>a. ASSUME numPages' = numPages, pageCount' = pageCount, mode' = mode, ioErrors' = ioErrors
      PROVE  CountOK'
  BY <1>a DEF CountOK, Counted
<1>1. ASSUME NEW i \in Ids, NEW v \in Vals, Insert(i, v) \/ Update(i, v) PROVE CountOK'
  BY <1>1, <1>a, Zenon DEF Insert, Update, disk, mainFile, counters
<1>2. ASSUME NEW i \in Ids, Delete(i) PROVE CountOK'
  BY <1>2, <1>a, Zenon DEF Delete, disk, mainFile, counters
<1>3. CASE Compact \/ UNCHANGED vars
  BY <1>3, <1>a, Zenon DEF Compact, disk, vars, mainFile
<1>4. CASE OpenOk
  <2>1. numPages' = numPages /\ pageCount' = numPages
    BY <1>4, Zenon DEF OpenOk, Start, disk, mainFile
  <2> QED BY <2>1 DEF CountOK, Counted
<1>5. CASE AppendRecord \/ CommitRecord \/ PublishLength \/ PublishBody \/ ResetWal \/ ResetFeed
  BY <1>5, <1>a, Zenon DEF AppendRecord, CommitRecord, PublishLength, PublishBody, ResetWal,
     ResetFeed, mainFile, counters
<1>6. CASE Apply
  <2>1. numPages' \in {numPages, pageCount} /\ pageCount' = pageCount /\ mode' = mode /\ ioErrors' = ioErrors
    BY <1>6 DEF Apply, counters
  <2> QED BY <2>1 DEF CountOK, Counted
<1>7. CASE AllocateHeader
  BY <1>7 DEF AllocateHeader, Grown, CountOK, Counted
<1>8. CASE AllocateZero \/ WriteChunk \/ WriteTrailer
  BY <1>8, <1>a, Zenon DEF AllocateZero, WriteChunk, WriteTrailer, PutPage, counters
<1>9. CASE Crash \/ PowerLoss
  <2>1. mode' = "down"
    BY <1>9, Zenon DEF Crash, PowerLoss, Stopped
  <2> QED BY <2>1 DEF CountOK, Counted
<1>10. CASE OpenFails
  <2>1. mode' = "refused"
    BY <1>10 DEF OpenFails
  <2> QED BY <2>1 DEF CountOK, Counted
<1>11. CASE IoError
  <2>1. ioErrors' # 0
    BY <1>0, <1>11 DEF IoError
  <2> QED BY <2>1 DEF CountOK
<1> QED BY <1>1, <1>2, <1>3, <1>4, <1>5, <1>6, <1>7, <1>8, <1>9, <1>10, <1>11 DEF Next, CallStep

\* Only a compaction changes the pages.
LEMMA PagesStay ==
    ASSUME CallOK, [Next]_vars, Counted, call.step \notin Compacting
    PROVE  /\ pages' = pages /\ numPages' = numPages
           /\ pageCount' \in {pageCount, numPages, 1}
<1>0. mode # "up" => call.step = "done"
  BY IdleCall DEF CallOK
<1>1. PagesEffect /\ NumEffect /\ HeaderEffect
  BY PageSteps
<1>2. pages' = pages
  BY <1>1 DEF PagesEffect, AtChunk, Compacting
<1>3. call.step # "alloc" /\ (call.step = "apply" => mode = "up")
  BY <1>0 DEF Compacting
<1> QED BY <1>1, <1>2, <1>3 DEF NumEffect, HeaderEffect, Counted

Contiguous(P) == \A p, q \in PageNos : q < p /\ Written(P[p]) => P[q] # Eof

\* One page more, after pages that are there.
LEMMA WriteNext ==
    ASSUME NEW P \in [PageNos -> Page], Contiguous(P), NEW n \in PageNos, NEW pg, pg # Eof,
           Written(pg) => \A q \in PageNos : q < n => P[q] # Eof
    PROVE  Contiguous([P EXCEPT ![n] = pg])
<1>1. PICK Q : Q = [P EXCEPT ![n] = pg]
  OBVIOUS
<1>2. Q[n] = pg /\ \A q \in PageNos : q # n => Q[q] = P[q]
  BY <1>1
<1> SUFFICES ASSUME NEW p \in PageNos, NEW q \in PageNos, q < p, Written(Q[p]) PROVE Q[q] # Eof
  BY <1>1 DEF Contiguous
<1>3. CASE q = n
  BY <1>2, <1>3
<1>4. CASE q # n /\ p = n
  BY <1>2, <1>4
<1>5. CASE q # n /\ p # n
  BY <1>2, <1>5 DEF Contiguous
<1> QED BY <1>3, <1>4, <1>5

FileOK(P, n) == Contiguous(P) /\ NumOK(n)

\* The engine writes its pages in order, and counts no page it will not write.
LEMMA FileKept ==
    ASSUME TypeOK, CallOK, ImageOK, FileOK(pages, numPages), NumOK(pageCount), [Next]_vars
    PROVE  FileOK(pages', numPages') /\ NumOK(pageCount')
<1>0. /\ call \in CallRecord /\ docs \in Docs /\ pages \in [PageNos -> Page] /\ call.page \in Nat
      /\ numPages \in Nat /\ pageCount \in Nat
  BY DEF TypeOK, CallRecord
<1>p. PICK N \in Nat \ {0} : N = PagesNeeded /\ 1 .. N + 1 \subseteq PageNos
  BY PagesBound DEF PagesNeeded
<1>q. Contiguous(pages) /\ NumOK(numPages) /\ PageNos \subseteq Nat /\ \A q \in PageNos : q >= 1
  BY DEF FileOK, PageNos
<1>r. PagesEffect /\ NumEffect /\ HeaderEffect
  BY PageSteps
<1>1. ASSUME pageCount < N + 1 PROVE NumOK(pageCount + 1)
  <2>1. (pageCount + 1) - 1 = pageCount /\ (pageCount + 1 > 1 => pageCount \in 1 .. N + 1)
    BY <1>0, <1>1
  <2> QED BY <1>p, <2>1 DEF NumOK
<1>2. NumOK(numPages') /\ NumOK(pageCount')
  <2>1. NumOK(1)
    BY DEF NumOK
  <2> QED BY <1>p, <1>q, <1>r, <1>1, <2>1 DEF NumEffect, HeaderEffect
<1>3. CASE pages' = pages
  BY <1>q, <1>2, <1>3 DEF FileOK
<1>4. CASE call.step = "zero" /\ pages' = [pages EXCEPT ![pageCount - 1] = Zero]
  <2>2. Zero # Eof /\ ~Written(Zero)
    BY DEF Zero, Eof, Written
  <2>3. CASE pageCount - 1 \in PageNos
    BY <1>0, <1>q, <1>2, <1>4, <2>2, <2>3, WriteNext DEF FileOK
  <2>4. CASE pageCount - 1 \notin PageNos
    <3>1. pages' = pages
      BY <1>0, <1>4, <2>4
    <3> QED BY <1>3, <3>1
  <2> QED BY <2>3, <2>4
<1>5. CASE AtChunk /\ pages' = [pages EXCEPT ![ThisPage] = DataPage(docs, ThisPage)]
  <2>1. PICK p \in Nat \ {0} : p = call.page + 1
    BY <1>0
  <2>2. pages' = [pages EXCEPT ![p] = DataPage(docs, p)]
    BY <1>5, <2>1 DEF ThisPage
  <2>3. call.page = 0 \/ (call.page < N /\ call.step = "write")
    BY <1>5, <1>p DEF ImageOK, AtChunk
  <2>4. p \in 1 .. N + 1
    BY <1>0, <2>1, <2>3
  <2>5. \A q \in PageNos : q < p => q \in 1 .. call.page
    BY <1>0, <1>q, <2>1
  <2>6. \A q \in 1 .. call.page : pages[q] = DataPage(docs, q)
    BY <1>0, <2>3 DEF ImageOK
  <2>7. \A q : DataPage(docs, q) # Eof
    BY DEF DataPage, Eof
  <2>8. p \in PageNos
    BY <1>p, <2>4
  <2>9. Contiguous(pages')
    BY <1>0, <1>q, <2>2, <2>5, <2>6, <2>7, <2>8, WriteNext
  <2> QED BY <1>2, <2>9 DEF FileOK
<1>6. CASE /\ call.step = "trailer"
           /\ pages' = [pages EXCEPT ![PagesNeeded + 1] = Trailer(Cardinality(Live(docs)))]
  <2>1. PICK pg : pg = Trailer(Cardinality(Live(docs)))
    OBVIOUS
  <2>2. pages' = [pages EXCEPT ![N + 1] = pg]
    BY <1>6, <1>p, <2>1
  <2>3. call.page = N /\ \A q \in 1 .. N : pages[q] = DataPage(docs, q)
    BY <1>6, <1>p DEF ImageOK
  <2>4. \A q \in PageNos : q < N + 1 => q \in 1 .. N
    BY <1>q
  <2>5. pg # Eof /\ \A q : DataPage(docs, q) # Eof
    BY <2>1 DEF DataPage, Eof, Trailer
  <2>6. N + 1 \in PageNos
    BY <1>p
  <2>7. Contiguous(pages')
    BY <1>0, <1>q, <2>2, <2>3, <2>4, <2>5, <2>6, WriteNext
  <2> QED BY <1>2, <2>7 DEF FileOK
<1> QED BY <1>r, <1>3, <1>4, <1>5, <1>6 DEF PagesEffect

-----------------------------------------------------------------------------
(* The types, and the shape of the backup call in progress.                *)

MainFile == [numPages : Nat, pages : [PageNos -> Page]]
Unwritten == {r \in WalRecord : r.flag = FALSE}
WalFile == Seq(WalRecord) \cup {None}
TailFile == Unwritten \cup {None}
SnapFiles == [main : MainFile \cup {None}, wal : WalFile, tail : TailFile, meta : BOOLEAN]
TakenRecord == [moments : SUBSET (SUBSET Docs), commits : Nat, compacted : BOOLEAN,
                whole : BOOLEAN, logged : BOOLEAN]
JobRecord == [kind : {"none", "create", "restore", "delete"}, id : SnapIds \cup {0},
              step : {"done", "main", "wal", "remove"}, pos : Nat]

EngineBase ==
    /\ TypeOK /\ CallOK /\ FeedFileOK /\ FeedGapless /\ CommitOK /\ ImageOK
    /\ FileOK(pages, numPages) /\ NumOK(pageCount) /\ CountOK

BackupTypes ==
    /\ now \in SnapIds /\ restored \in SnapIds \cup {0} /\ job \in JobRecord
    /\ snaps \in [SnapIds -> SnapFiles] /\ taken \in [SnapIds -> TakenRecord]

\* An engine has its WAL, and a database without one has no records; the WAL of
\* a database that is copied stays.  A copy without a WAL has nothing of one.
WalFileOK ==
    /\ "wal" \notin files => wal = <<>> /\ mode # "up"
    /\ job.kind = "create" /\ taken[job.id].logged => "wal" \in files
    /\ job.kind = "create" /\ job.step = "main" /\ taken[job.id].whole =>
         snaps[job.id].wal = None

\* A call has its snapshot; the files a copy fills exist; the engine is stopped
\* during a restore; delete removes the main file first.
JobOK ==
    /\ job.kind # "none" => job.id \in SnapIds
    /\ job.kind = "create" =>
         /\ job.step \in {"main", "wal"} /\ snaps[job.id].main \in MainFile
         /\ job.step = "wal" => snaps[job.id].wal \in Seq(WalRecord)
    /\ job.kind = "restore" =>
         mode # "up" /\ snaps[job.id].main \in MainFile /\ snaps[job.id].main # None
    /\ job.kind = "delete" => job.pos \in 0 .. 2 /\ (job.pos > 0 => snaps[job.id].main = None)

\* The pages before one that is there are there: what a copy has.
Shape(P) == \A p, q \in PageNos : q < p /\ P[p] # Eof => P[q] # Eof
MainsOK ==
    \A s \in SnapIds : snaps[s].main # None =>
      Shape(snaps[s].main.pages) /\ NumOK(snaps[s].main.numPages)

\* A copy of the main file has the pages before its position.
CopyShape ==
    job.kind = "create" /\ job.step = "main" =>
      /\ NumOK(snaps[job.id].main.numPages)
      /\ \A p \in PageNos : snaps[job.id].main.pages[p] = Eof <=> p >= job.pos
RestoreShape ==
    job.kind = "restore" =>
      LET from == snaps[job.id].main IN
        /\ numPages = IF job.pos = 0 THEN 1 ELSE from.numPages
        /\ \A p \in PageNos : pages[p] = IF p < job.pos THEN from.pages[p] ELSE Eof

BaseInv ==
    EngineBase /\ BackupTypes /\ WalFileOK /\ JobOK /\ MainsOK /\ CopyShape /\ RestoreShape

\* The engine's part is kept by its own steps.
LEMMA EngineBaseNext ==
    ASSUME EngineBase, [Next]_vars
    PROVE  EngineBase'
<1> USE DEF EngineBase
<1>1. call' \in CallRecord /\ compactions' \in Nat /\ CallOK'
  BY CallPreserved
<1>2. feed' \in Seq(ChangeRecord) /\ nextSeq' \in Nat /\ FeedGapless'
  BY FeedPreserved
<1>a. FeedFileOK' /\ feedTorn' \in BOOLEAN /\ feedBad' \in Nat /\ feedFailed' \in BOOLEAN
  BY FeedFilePreserved
<1>3. TypeOK'
  BY <1>1, <1>2, <1>a, DiskType, MemoryType DEF TypeOK
<1>4. CommitOK' /\ ImageOK'
  BY CommitPreserved, ImagePreserved
<1>5. FileOK(pages', numPages') /\ NumOK(pageCount') /\ CountOK'
  BY FileKept, CountKept
<1> QED BY <1>1, <1>2, <1>a, <1>3, <1>4, <1>5

\* What a step of the engine adds to the history of the copy in progress.
LEMMA TakenStep ==
    ASSUME BackupTypes, JobOK, EngineStep, job.kind = "create", Shown' \in SUBSET Docs
    PROVE  /\ taken' \in [SnapIds -> TakenRecord]
           /\ \A s \in SnapIds : s # job.id => taken'[s] = taken[s]
           /\ taken'[job.id].moments = taken[job.id].moments \cup {Shown'}
           /\ taken'[job.id].whole = taken[job.id].whole
           /\ taken'[job.id].logged = taken[job.id].logged
           /\ ~taken'[job.id].compacted => ~taken[job.id].compacted /\ call'.step \notin Compacting
           /\ Recovered(wal') = Recovered(wal) => taken'[job.id].commits = taken[job.id].commits
           /\ Recovered(wal') # Recovered(wal) => taken'[job.id].commits = taken[job.id].commits + 1
<1>0. job.id \in SnapIds /\ taken \in [SnapIds -> TakenRecord]
  BY DEF BackupTypes, JobOK
<1>1. PICK t \in TakenRecord : t = taken[job.id]
  BY <1>0
<1>2. PICK u : u = Seen(t)
  OBVIOUS
<1>3. taken' = [taken EXCEPT ![job.id] = u]
  BY <1>1, <1>2, Zenon DEF EngineStep
<1>4. u.moments = t.moments \cup {Shown'} /\ u.whole = t.whole /\ u.logged = t.logged
  BY <1>2 DEF Seen
<1>5. /\ Recovered(wal') = Recovered(wal) => u.commits = t.commits
      /\ Recovered(wal') # Recovered(wal) => u.commits = t.commits + 1
  BY <1>2 DEF Seen
<1>6. u.compacted = (t.compacted \/ call'.step \in Compacting)
  BY <1>2 DEF Seen
<1>7. u = [moments |-> u.moments, commits |-> u.commits, compacted |-> u.compacted,
             whole |-> u.whole, logged |-> u.logged]
  BY <1>2 DEF Seen
<1>8. /\ t.moments \in SUBSET (SUBSET Docs) /\ t.commits \in Nat /\ t.whole \in BOOLEAN /\ t.logged \in BOOLEAN
  BY DEF TakenRecord
<1>9. u.moments \in SUBSET (SUBSET Docs) /\ u.commits \in Nat /\ u.whole \in BOOLEAN /\ u.logged \in BOOLEAN
  BY <1>4, <1>5, <1>8
<1>10. u.compacted \in BOOLEAN
  BY <1>6, Zenon
<1>11. u \in TakenRecord
  BY <1>7, <1>9, <1>10 DEF TakenRecord
<1>12. /\ taken' \in [SnapIds -> TakenRecord] /\ taken'[job.id] = u
       /\ \A s \in SnapIds : s # job.id => taken'[s] = taken[s]
  BY <1>0, <1>3, <1>11
<1>13. ~u.compacted => ~t.compacted /\ call'.step \notin Compacting
  BY <1>6, Zenon
<1> QED BY <1>1, <1>4, <1>5, <1>12, <1>13

\* What is shown after a step is a set of documents.
LEMMA ShownType ==
    ASSUME EngineBase, [Next]_vars
    PROVE  Shown \in SUBSET Docs /\ Shown' \in SUBSET Docs
<1>1. wal \in Seq(WalRecord)
  BY DEF EngineBase, TypeOK
<1>2. wal' \in Seq(WalRecord)
  BY DiskType DEF EngineBase
<1> QED BY <1>1, <1>2, RecoveredType, ShownInType, ShownIs

\* While the machine is up a stopped engine only opens.
LEMMA EngineStaysDown ==
    ASSUME CallOK, TypeOK, Next, powerLosses' = powerLosses, mode # "up"
    PROVE  mode' # "down"
<1>0. call.step = "done" /\ powerLosses \in Nat
  BY IdleCall DEF CallOK, TypeOK
<1>1. CASE OpenOk
  BY <1>1 DEF OpenOk, Start
<1>2. CASE OpenFails
  BY <1>2 DEF OpenFails
<1>3. ~CallStep
  BY <1>0 DEF CallStep, AppendRecord, CommitRecord, Apply, PublishLength, PublishBody,
     AllocateHeader, AllocateZero, WriteChunk, AtChunk, WriteTrailer, ResetWal, ResetFeed
<1>4. ~Compact /\ ~Crash /\ ~IoError
  BY DEF Compact, Crash, IoError
<1>5. ~PowerLoss
  BY <1>0 DEF PowerLoss
<1>6. \A i \in Ids : ~Delete(i) /\ \A v \in Vals : ~Insert(i, v) /\ ~Update(i, v)
  BY DEF Delete, Insert, Update, Ready
<1> QED BY <1>1, <1>2, <1>3, <1>4, <1>5, <1>6 DEF Next

\* A step of the engine keeps the shape of the backup call.
LEMMA BaseEngineStep ==
    ASSUME BaseInv, EngineStep
    PROVE  BaseInv' /\ [Next]_vars
<1>n. Next /\ powerLosses' = powerLosses
  BY DEF EngineStep, Next
<1>1. [Next]_vars
  BY <1>n
<1>2. EngineBase'
  BY <1>1, EngineBaseNext DEF BaseInv
<1>3. UNCHANGED <<now, snaps, job, jobs>> /\ job.kind # "restore" /\ (restored' = restored \/ restored' = 0)
  BY DEF EngineStep
<1>4. taken' \in [SnapIds -> TakenRecord]
  <2>1. CASE job.kind = "create"
    BY <1>1, <2>1, ShownType, TakenStep DEF BaseInv
  <2>2. CASE job.kind # "create"
    BY <2>2 DEF EngineStep, BaseInv, BackupTypes
  <2> QED BY <2>1, <2>2
<1>5. BackupTypes'
  BY <1>3, <1>4 DEF BaseInv, BackupTypes
<1>6. JobOK'
  BY <1>3 DEF BaseInv, JobOK
<1>7. MainsOK' /\ CopyShape'
  BY <1>3 DEF BaseInv, MainsOK, CopyShape
<1>8. RestoreShape'
  BY <1>3 DEF RestoreShape
<1>9. WalFileOK'
  <2>0. WalFileOK /\ EngineBase /\ JobOK /\ BackupTypes
    BY DEF BaseInv
  <2>1. "wal" \notin files' => wal' = <<>> /\ mode' # "up"
    <3> SUFFICES ASSUME "wal" \notin files' PROVE wal' = <<>> /\ mode' # "up"
      OBVIOUS
    <3>1. mode' = "down" /\ files' = files
      BY DEF EngineStep
    <3>2. wal = <<>> /\ mode # "up"
      BY <2>0, <3>1 DEF WalFileOK
    <3>3. FALSE
      BY <1>n, <2>0, <3>1, <3>2, EngineStaysDown DEF EngineBase
    <3> QED BY <3>3
  <2>2. "wal" \in files => "wal" \in files'
    BY DEF EngineStep
  <2>3. job.kind = "create" =>
          taken'[job.id].logged = taken[job.id].logged /\ taken'[job.id].whole = taken[job.id].whole
    BY <1>1, <2>0, ShownType, TakenStep
  <2> QED BY <1>3, <2>0, <2>1, <2>2, <2>3 DEF WalFileOK
<1> QED BY <1>1, <1>2, <1>5, <1>6, <1>7, <1>8, <1>9 DEF BaseInv

\* A copy of a chunk: the pages before the new position, of the file copied.
LEMMA ChunkCopied ==
    ASSUME NEW from, NEW to, from.pages \in [PageNos -> Page], to.pages \in [PageNos -> Page],
           job.pos \in Nat, ~AtEof(from)
    PROVE  LET file == CopyChunk(from, to) IN
             /\ file.numPages = IF job.pos = 0 THEN from.numPages ELSE to.numPages
             /\ file.pages \in [PageNos -> Page]
             /\ NextPos(from) \in Nat /\ NextPos(from) > job.pos
             /\ \A p \in PageNos : p < job.pos => file.pages[p] = to.pages[p]
             /\ \A p \in PageNos : p >= job.pos /\ p < NextPos(from) =>
                    file.pages[p] = from.pages[p] /\ from.pages[p] # Eof
             /\ \A p \in PageNos : p >= NextPos(from) /\ to.pages[p] = Eof => file.pages[p] = Eof
<1>1. PICK n \in Nat : n = job.pos
  OBVIOUS
<1>2. PageNos \subseteq Nat \ {0}
  BY DEF PageNos
<1>3. ChunkPages = {p \in PageNos : p = n \/ p = n + 1}
  BY <1>1 DEF ChunkPages
<1>4. PICK F : F = CopyChunk(from, to)
  OBVIOUS
<1>5. /\ F.numPages = IF job.pos = 0 THEN from.numPages ELSE to.numPages
      /\ F.pages = [p \in PageNos |-> IF p \in ChunkPages THEN from.pages[p] ELSE to.pages[p]]
  BY <1>4 DEF CopyChunk
<1>6. /\ F.pages \in [PageNos -> Page]
      /\ \A p \in PageNos : p = n \/ p = n + 1 => F.pages[p] = from.pages[p]
      /\ \A p \in PageNos : p # n /\ p # n + 1 => F.pages[p] = to.pages[p]
  BY <1>3, <1>5
<1>7. n \in PageNos => from.pages[n] # Eof
  BY <1>1, <1>2 DEF AtEof
<1>8. \/ n + 1 \in PageNos /\ from.pages[n + 1] # Eof /\ NextPos(from) = n + 2
      \/ (n + 1 \in PageNos => from.pages[n + 1] = Eof) /\ NextPos(from) = n + 1
  BY <1>1 DEF NextPos
<1>9. NextPos(from) \in Nat /\ NextPos(from) > n
  BY <1>8
<1>10. ASSUME NEW p \in PageNos, p < n PROVE F.pages[p] = to.pages[p]
  BY <1>2, <1>6, <1>10
<1>11. ASSUME NEW p \in PageNos, p >= n, p < NextPos(from)
       PROVE  F.pages[p] = from.pages[p] /\ from.pages[p] # Eof
  <2>1. p = n \/ (p = n + 1 /\ NextPos(from) = n + 2 /\ from.pages[n + 1] # Eof)
    BY <1>2, <1>8, <1>11
  <2> QED BY <1>6, <1>7, <2>1
<1>12. ASSUME NEW p \in PageNos, p >= NextPos(from), to.pages[p] = Eof PROVE F.pages[p] = Eof
  <2>1. p # n
    BY <1>2, <1>9, <1>12
  <2>2. CASE p = n + 1
    <3>1. from.pages[n + 1] = Eof
      BY <1>8, <1>12, <2>2
    <3> QED BY <1>6, <2>2, <3>1
  <2>3. CASE p # n + 1
    BY <1>6, <1>12, <2>1, <2>3
  <2> QED BY <2>2, <2>3
<1> QED BY <1>1, <1>4, <1>5, <1>6, <1>9, <1>10, <1>11, <1>12

\* A restore changes the files of a stopped engine.
LEMMA RestoreKeepsEngine ==
    ASSUME EngineBase, mode # "up",
           UNCHANGED <<feedFile, memory, history, counters>>,
           wal' \in Seq(WalRecord), numPages' \in Nat,
           pages' \in [PageNos -> Page], FileOK(pages', numPages')
    PROVE  EngineBase'
<1> USE DEF EngineBase
<1>1. /\ mode' = mode /\ docs' = docs /\ index' = index /\ nextSeq' = nextSeq /\ call' = call
      /\ pageCount' = pageCount /\ feed' = feed /\ feedTorn' = feedTorn /\ feedBad' = feedBad
      /\ content' = content /\ overruled' = overruled /\ feedFailed' = feedFailed
      /\ crashes' = crashes /\ powerLosses' = powerLosses /\ ioErrors' = ioErrors
      /\ compactions' = compactions
  BY DEF memory, counters, feedFile, history
<1>2. TypeOK'
  BY <1>1 DEF TypeOK
<1>3. CallOK' /\ FeedGapless' /\ FeedFileOK'
  BY <1>1 DEF CallOK, FeedGapless, FeedFileOK
<1>4. call = Idle /\ Idle.step = "done"
  BY IdleCall DEF CallOK
<1>5. CommitOK'
  BY <1>1, <1>4 DEF CommitOK
<1>6. ImageOK'
  BY <1>1, <1>4 DEF ImageOK, ImageBeforeTruncation
<1>7. NumOK(pageCount') /\ CountOK'
  BY <1>1 DEF CountOK, Counted
<1> QED BY <1>2, <1>3, <1>5, <1>6, <1>7

LEMMA EmptyFile ==
    /\ Empty \in MainFile /\ Empty.numPages = 1 /\ Empty.pages \in [PageNos -> Page]
    /\ \A p \in PageNos : Empty.pages[p] = Eof
    /\ Shape(Empty.pages) /\ FileOK(Empty.pages, 1) /\ NumOK(1)
<1>1. Eof \in Page /\ ~Written(Eof)
  BY NoDocsType DEF Eof, Page, Written
<1>2. /\ Empty.pages = [p \in PageNos |-> Eof] /\ Empty.numPages = 1
      /\ Empty = [numPages |-> 1, pages |-> [p \in PageNos |-> Eof]]
  BY DEF Empty
<1>3. Empty \in MainFile /\ Empty.pages \in [PageNos -> Page]
  BY <1>1, <1>2 DEF MainFile
<1>4. \A p \in PageNos : Empty.pages[p] = Eof
  BY <1>2
<1>5. Shape(Empty.pages) /\ Contiguous(Empty.pages) /\ NumOK(1)
  BY <1>1, <1>4 DEF Shape, Contiguous, NumOK
<1> QED BY <1>2, <1>3, <1>4, <1>5 DEF FileOK

\* A copy begins with the pages there are.
LEMMA ShapeFile ==
    ASSUME NEW P, Shape(P)
    PROVE  Contiguous(P)
<1>1. ~Written(Eof)
  BY DEF Written, Eof
<1> QED BY <1>1 DEF Shape, Contiguous

\* Nothing is written yet.
LEMMA BaseInit == BInit => BaseInv
<1> SUFFICES ASSUME BInit PROVE BaseInv
  OBVIOUS
<1>1. Init
  BY DEF BInit
<1>2. TypeOK /\ CallOK /\ FeedFileOK /\ FeedGapless
  BY <1>1, EngineInvInit DEF EngineInv
<1>3. /\ call.step = "done" /\ pages = Empty.pages /\ numPages = 1 /\ pageCount = 1
      /\ wal = <<>> /\ mode = "down"
  BY <1>1 DEF Init, Idle, Empty
<1>c. CountOK
  BY <1>3 DEF CountOK, Counted
<1>4. CommitOK /\ ImageOK
  BY <1>3 DEF CommitOK, ImageOK, ImageBeforeTruncation
<1>5. EngineBase
  BY <1>2, <1>3, <1>c, <1>4, EmptyFile DEF EngineBase
<1>6. NoSnap \in SnapFiles /\ NoSnap.main = None
  BY DEF NoSnap, SnapFiles, NoFile, NoTail, WalFile, TailFile
<1>7. NotTaken \in TakenRecord
  BY DEF NotTaken, TakenRecord
<1>8. NoJob \in JobRecord /\ NoJob.kind = "none"
  BY DEF NoJob, JobRecord
<1>9. 1 \in SnapIds
  BY BackupAssumptions DEF SnapIds
<1>10. BackupTypes
  BY <1>6, <1>7, <1>8, <1>9 DEF BInit, BackupTypes
<1>11. job = NoJob /\ \A s \in SnapIds : snaps[s] = NoSnap
  BY DEF BInit
<1>12. JobOK /\ CopyShape /\ RestoreShape
  BY <1>8, <1>11 DEF JobOK, CopyShape, RestoreShape
<1>13. MainsOK
  BY <1>6, <1>11 DEF MainsOK
<1>14. WalFileOK
  BY <1>3, <1>8, <1>11 DEF WalFileOK
<1> QED BY <1>5, <1>10, <1>12, <1>13, <1>14 DEF BaseInv

-----------------------------------------------------------------------------
(* The steps of the backup calls.                                          *)

\* One file of a snapshot.
SetMain(S, s, M) == [S EXCEPT ![s].main = M]
SetWal(S, s, W, t) == [S EXCEPT ![s].wal = W, ![s].tail = t]
SetMeta(S, s, b) == [S EXCEPT ![s].meta = b]

\* The main file of a snapshot is written.
LEMMA WriteMainFile ==
    ASSUME NEW S \in [SnapIds -> SnapFiles], NEW s \in SnapIds, NEW M \in MainFile \cup {None}
    PROVE  /\ SetMain(S, s, M) \in [SnapIds -> SnapFiles] /\ SetMain(S, s, M)[s].main = M /\ SetMain(S, s, M)[s].wal = S[s].wal
           /\ \A t \in SnapIds : t # s => SetMain(S, s, M)[t] = S[t]
           /\ \A t \in SnapIds : SetMain(S, s, M)[t].wal = S[t].wal
<1>1. PICK f \in SnapFiles : f = S[s]
  OBVIOUS
<1>2. PICK g : g = [f EXCEPT !.main = M]
  OBVIOUS
<1>3. g \in SnapFiles /\ g.main = M /\ g.wal = f.wal
  BY <1>2 DEF SnapFiles
<1>t. PICK T : T = SetMain(S, s, M)
  OBVIOUS
<1>4. T = [S EXCEPT ![s] = g]
  BY <1>1, <1>2, <1>t DEF SetMain
<1>5. T \in [SnapIds -> SnapFiles] /\ T[s] = g /\ \A t \in SnapIds : t # s => T[t] = S[t]
  BY <1>3, <1>4
<1> QED BY <1>1, <1>3, <1>5, <1>t

\* Its WAL is written.
LEMMA WriteWalFile ==
    ASSUME NEW S \in [SnapIds -> SnapFiles], NEW s \in SnapIds, NEW W \in WalFile, NEW e \in TailFile, NEW T, T = SetWal(S, s, W, e)
    PROVE  /\ T \in [SnapIds -> SnapFiles] /\ T[s].wal = W /\ T[s].tail = e /\ T[s].main = S[s].main
           /\ \A t \in SnapIds : t # s => T[t] = S[t]
           /\ \A t \in SnapIds : T[t].main = S[t].main
<1>1. PICK f \in SnapFiles : f = S[s]
  OBVIOUS
<1>2. PICK g : g = [f EXCEPT !.wal = W, !.tail = e]
  OBVIOUS
<1>3. g \in SnapFiles /\ g.wal = W /\ g.tail = e /\ g.main = f.main
  BY <1>2 DEF SnapFiles
<1>4. T = [S EXCEPT ![s] = g]
  BY <1>1, <1>2 DEF SetWal
<1>5. T \in [SnapIds -> SnapFiles] /\ T[s] = g /\ \A t \in SnapIds : t # s => T[t] = S[t]
  BY <1>3, <1>4
<1> QED BY <1>1, <1>3, <1>5

LEMMA WriteMetaFile ==
    ASSUME NEW S \in [SnapIds -> SnapFiles], NEW s \in SnapIds, NEW b \in BOOLEAN
    PROVE  /\ SetMeta(S, s, b) \in [SnapIds -> SnapFiles] /\ SetMeta(S, s, b)[s].main = S[s].main /\ SetMeta(S, s, b)[s].wal = S[s].wal
           /\ \A t \in SnapIds : t # s => SetMeta(S, s, b)[t] = S[t]
           /\ \A t \in SnapIds : SetMeta(S, s, b)[t].main = S[t].main /\ SetMeta(S, s, b)[t].wal = S[t].wal
<1>1. PICK f \in SnapFiles : f = S[s]
  OBVIOUS
<1>2. PICK g : g = [f EXCEPT !.meta = b]
  OBVIOUS
<1>3. g \in SnapFiles /\ g.main = f.main /\ g.wal = f.wal
  BY <1>2 DEF SnapFiles
<1>t. PICK T : T = SetMeta(S, s, b)
  OBVIOUS
<1>4. T = [S EXCEPT ![s] = g]
  BY <1>1, <1>2, <1>t DEF SetMeta
<1>5. T \in [SnapIds -> SnapFiles] /\ T[s] = g /\ \A t \in SnapIds : t # s => T[t] = S[t]
  BY <1>3, <1>4
<1> QED BY <1>1, <1>3, <1>5, <1>t

\* A call that begins.
LEMMA BeginJob ==
    ASSUME BackupTypes, NEW kind \in {"create", "restore", "delete"}, NEW s \in SnapIds,
           NEW step \in {"main", "remove"}, Begin(kind, s, step)
    PROVE  /\ job = NoJob /\ job.kind = "none" /\ job' \in JobRecord
           /\ job'.kind = kind /\ job'.id = s /\ job'.step = step /\ job'.pos = 0
<1>1. job = NoJob /\ job' = [kind |-> kind, id |-> s, step |-> step, pos |-> 0]
  BY DEF Begin
<1>2. job.kind = "none"
  BY <1>1 DEF NoJob
<1> QED BY <1>1, <1>2 DEF JobRecord

\* create_snapshot starts.
LEMMA BaseCreate ==
    ASSUME BaseInv, CreateSnapshot
    PROVE  BaseInv'
<1>0. /\ BackupTypes /\ EngineBase /\ now \in SnapIds /\ snaps \in [SnapIds -> SnapFiles]
      /\ taken \in [SnapIds -> TakenRecord] /\ MainsOK /\ WalFileOK
  BY DEF BaseInv, BackupTypes
<1>1. /\ job = NoJob /\ job' \in JobRecord /\ job'.kind = "create" /\ job'.id = now
      /\ job'.step = "main" /\ job'.pos = 0
  BY <1>0, BeginJob DEF CreateSnapshot
<1>2. UNCHANGED vars /\ now' = now /\ restored' = restored /\ snaps' = SetMain(snaps, now, Empty)
  BY DEF CreateSnapshot, SetMain
<1>3. EngineBase'
  BY <1>0, <1>2, EngineBaseNext
<1>4. /\ snaps' \in [SnapIds -> SnapFiles] /\ snaps'[now].main = Empty
      /\ \A t \in SnapIds : t # now => snaps'[t] = snaps[t]
  BY <1>0, <1>2, EmptyFile, WriteMainFile
<1>5. /\ taken' \in [SnapIds -> TakenRecord]
      /\ taken'[now].logged => "wal" \in files
      /\ taken'[now].whole => snaps[now] = NoSnap
  <2>1. PICK u : u = [moments |-> {Shown}, commits |-> 0, compacted |-> call.step \in Compacting,
                      whole |-> snaps[now] = NoSnap, logged |-> "wal" \in files]
    OBVIOUS
  <2>2. Shown \in SUBSET Docs
    BY <1>0, <1>2, ShownType
  <2>3. /\ (call.step \in Compacting) \in BOOLEAN /\ (snaps[now] = NoSnap) \in BOOLEAN
        /\ ("wal" \in files) \in BOOLEAN
    OBVIOUS
  <2>4. u \in TakenRecord
    BY <2>1, <2>2, <2>3 DEF TakenRecord
  <2>5. taken' = [taken EXCEPT ![now] = u]
    BY <2>1, Zenon DEF CreateSnapshot
  <2>6. (u.logged => "wal" \in files) /\ (u.whole => snaps[now] = NoSnap)
    BY <2>1
  <2> QED BY <1>0, <2>4, <2>5, <2>6
<1>6. BackupTypes'
  BY <1>0, <1>1, <1>2, <1>4, <1>5 DEF BackupTypes
<1>7. JobOK'
  BY <1>0, <1>1, <1>4, EmptyFile DEF JobOK
<1>8. MainsOK'
  <2> SUFFICES ASSUME NEW s \in SnapIds, snaps'[s].main # None
               PROVE  Shape(snaps'[s].main.pages) /\ NumOK(snaps'[s].main.numPages)
    BY DEF MainsOK
  <2>1. CASE s = now
    BY <1>4, <2>1, EmptyFile
  <2>2. CASE s # now
    BY <1>0, <1>4, <2>2 DEF MainsOK
  <2> QED BY <2>1, <2>2
<1>9. CopyShape' /\ RestoreShape'
  <2>1. \A p \in PageNos : p >= 0
    BY DEF PageNos
  <2> QED BY <1>1, <1>4, <2>1, EmptyFile DEF CopyShape, RestoreShape
<1>10. WalFileOK'
  <2>1. files' = files /\ wal' = wal /\ mode' = mode
    BY <1>2 DEF CreateSnapshot, vars
  <2>2. snaps'[now].wal = snaps[now].wal /\ (snaps[now] = NoSnap => snaps[now].wal = None)
    BY <1>0, <1>2, EmptyFile, WriteMainFile DEF NoSnap, NoFile
  <2> QED BY <1>0, <1>1, <1>5, <2>1, <2>2 DEF WalFileOK
<1> QED BY <1>3, <1>6, <1>7, <1>8, <1>9, <1>10 DEF BaseInv

\* What the parts of the invariant say during a call, for the steps below.
LEMMA BaseFacts ==
    ASSUME BaseInv
    PROVE  /\ BackupTypes /\ EngineBase /\ JobOK /\ MainsOK /\ CopyShape /\ RestoreShape
           /\ WalFileOK
           /\ now \in SnapIds /\ snaps \in [SnapIds -> SnapFiles] /\ job \in JobRecord
           /\ taken \in [SnapIds -> TakenRecord] /\ job.pos \in Nat
           /\ wal \in Seq(WalRecord) /\ pages \in [PageNos -> Page] /\ Main \in MainFile
           /\ Main.pages = pages /\ Main.numPages = numPages /\ FileOK(pages, numPages)
           /\ job.kind # "none" => job.id \in SnapIds /\ snaps[job.id] \in SnapFiles
           /\ NoJob \in JobRecord /\ NoJob.kind = "none"
<1>1. /\ BackupTypes /\ EngineBase /\ JobOK /\ MainsOK /\ CopyShape /\ RestoreShape /\ WalFileOK
      /\ now \in SnapIds /\ snaps \in [SnapIds -> SnapFiles] /\ job \in JobRecord
      /\ taken \in [SnapIds -> TakenRecord]
  BY DEF BaseInv, BackupTypes
<1>2. job.pos \in Nat
  BY <1>1 DEF JobRecord
<1>3. /\ wal \in Seq(WalRecord) /\ pages \in [PageNos -> Page] /\ numPages \in Nat
      /\ FileOK(pages, numPages)
  BY <1>1 DEF EngineBase, TypeOK
<1>4. Main \in MainFile /\ Main.pages = pages /\ Main.numPages = numPages
  BY <1>3 DEF Main, MainFile
<1>5. job.kind # "none" => job.id \in SnapIds /\ snaps[job.id] \in SnapFiles
  BY <1>1 DEF JobOK
<1>6. NoJob \in JobRecord /\ NoJob.kind = "none"
  BY DEF NoJob, JobRecord
<1> QED BY <1>1, <1>2, <1>3, <1>4, <1>5, <1>6

\* Steps that keep the WAL and the engine keep what its file says.
LEMMA WalFileKept ==
    ASSUME WalFileOK, UNCHANGED <<files, vars, taken>>,
           job'.kind = "create" => job.kind = "create" /\ job'.id = job.id,
           job'.kind = "create" /\ job'.step = "main" =>
             job.step = "main" /\ snaps'[job.id].wal = snaps[job.id].wal
    PROVE  WalFileOK'
<1>1. wal' = wal /\ mode' = mode
  BY DEF vars
<1> QED BY <1>1 DEF WalFileOK

\* A chunk of the main file is copied.
LEMMA BaseCopyMain ==
    ASSUME BaseInv, CopyMain
    PROVE  BaseInv'
<1>0. /\ BackupTypes /\ EngineBase /\ JobOK /\ MainsOK /\ CopyShape /\ RestoreShape
      /\ snaps \in [SnapIds -> SnapFiles] /\ job \in JobRecord /\ job.pos \in Nat
      /\ Main \in MainFile /\ Main.pages = pages /\ Main.numPages = numPages
      /\ pages \in [PageNos -> Page] /\ FileOK(pages, numPages)
  BY BaseFacts
<1>1. /\ job.kind = "create" /\ job.step = "main" /\ ~AtEof(Main) /\ job.id \in SnapIds
      /\ UNCHANGED <<vars, now, taken, restored>>
  BY BaseFacts DEF CopyMain
<1>2. PICK to \in MainFile : to = snaps[job.id].main
  BY <1>0, <1>1 DEF JobOK
<1>3. PICK F : F = CopyChunk(Main, to)
  OBVIOUS
<1>4. PICK n : n = NextPos(Main)
  OBVIOUS
<1>5. to.pages \in [PageNos -> Page] /\ to.numPages \in Nat
  BY DEF MainFile
<1>6. /\ F.numPages = IF job.pos = 0 THEN Main.numPages ELSE to.numPages
      /\ F.pages \in [PageNos -> Page]
      /\ n \in Nat /\ n > job.pos
      /\ \A p \in PageNos : p < job.pos => F.pages[p] = to.pages[p]
      /\ \A p \in PageNos : p >= job.pos /\ p < n =>
             F.pages[p] = Main.pages[p] /\ Main.pages[p] # Eof
      /\ \A p \in PageNos : p >= n /\ to.pages[p] = Eof => F.pages[p] = Eof
  BY <1>0, <1>1, <1>3, <1>4, <1>5, ChunkCopied
<1>7. F \in MainFile
  <2>1. F = [numPages |-> F.numPages, pages |-> F.pages]
    BY <1>3 DEF CopyChunk
  <2>2. F.numPages \in Nat
    BY <1>0, <1>5, <1>6 DEF MainFile
  <2> QED BY <1>6, <2>1, <2>2 DEF MainFile
<1>8. snaps' = SetMain(snaps, job.id, F) /\ job' = [job EXCEPT !.pos = n]
  BY <1>2, <1>3, <1>4 DEF CopyMain, SetMain
<1>9. /\ job' \in JobRecord /\ job'.kind = "create" /\ job'.id = job.id /\ job'.step = "main"
      /\ job'.pos = n
  BY <1>0, <1>1, <1>6, <1>8 DEF JobRecord
<1>10. /\ snaps' \in [SnapIds -> SnapFiles] /\ snaps'[job.id].main = F
       /\ \A t \in SnapIds : t # job.id => snaps'[t] = snaps[t]
  BY <1>0, <1>1, <1>7, <1>8, WriteMainFile
<1>11. EngineBase' /\ BackupTypes'
  BY <1>0, <1>1, <1>9, <1>10, EngineBaseNext DEF BackupTypes
<1>12. JobOK'
  BY <1>1, <1>7, <1>9, <1>10 DEF JobOK
<1>13. PageNos \subseteq Nat
  BY DEF PageNos
<1>14. \A p \in PageNos : to.pages[p] = Eof <=> p >= job.pos
  BY <1>0, <1>1, <1>2 DEF CopyShape
<1>15. ASSUME NEW p \in PageNos PROVE F.pages[p] = Eof <=> p >= n
  <2>1. CASE p < job.pos
    BY <1>0, <1>6, <1>13, <1>14, <2>1
  <2>2. CASE p >= job.pos /\ p < n
    BY <1>0, <1>6, <1>13, <2>2
  <2>3. CASE p >= n
    BY <1>0, <1>6, <1>13, <1>14, <2>3
  <2> QED BY <1>0, <1>6, <1>13, <2>1, <2>2, <2>3
<1>b. NumOK(F.numPages)
  <2>1. CASE job.pos = 0
    BY <1>0, <1>6, <2>1 DEF FileOK
  <2>2. CASE job.pos # 0
    BY <1>0, <1>1, <1>2, <1>6, <2>2 DEF CopyShape
  <2> QED BY <2>1, <2>2
<1>16. CopyShape' /\ RestoreShape'
  BY <1>9, <1>10, <1>15, <1>b DEF CopyShape, RestoreShape
<1>17. MainsOK'
  <2> SUFFICES ASSUME NEW s \in SnapIds, snaps'[s].main # None
               PROVE  Shape(snaps'[s].main.pages) /\ NumOK(snaps'[s].main.numPages)
    BY DEF MainsOK
  <2>1. CASE s = job.id
    <3>1. Shape(F.pages)
      BY <1>6, <1>13, <1>15 DEF Shape
    <3> QED BY <1>b, <1>10, <2>1, <3>1
  <2>2. CASE s # job.id
    BY <1>0, <1>10, <2>2 DEF MainsOK
  <2> QED BY <2>1, <2>2
<1>18. WalFileOK'
  <2>1. snaps'[job.id].wal = snaps[job.id].wal
    BY <1>0, <1>1, <1>7, <1>8, WriteMainFile
  <2>2. WalFileOK /\ UNCHANGED <<files, vars, taken>>
    BY BaseFacts DEF CopyMain
  <2> QED BY <1>1, <1>9, <2>1, <2>2, WalFileKept
<1> QED BY <1>11, <1>12, <1>16, <1>17, <1>18 DEF BaseInv

\* Steps that leave the main files alone.
LEMMA MainsKept ==
    ASSUME MainsOK, \A t \in SnapIds : snaps'[t].main = snaps[t].main
    PROVE  MainsOK'
BY DEF MainsOK

\* The copy of the WAL is created.
LEMMA BaseCreateWalCopy ==
    ASSUME BaseInv, CreateWalCopy
    PROVE  /\ BaseInv' /\ job'.kind = "create" /\ job'.id = job.id /\ job'.step = "wal" /\ job'.pos = 0
           /\ snaps'[job.id].wal = <<>>
           /\ \A t \in SnapIds : snaps'[t].main = snaps[t].main
           /\ \A t \in SnapIds : t # job.id => snaps'[t] = snaps[t]
<1>0. /\ BackupTypes /\ EngineBase /\ JobOK /\ MainsOK /\ CopyShape /\ RestoreShape
      /\ snaps \in [SnapIds -> SnapFiles] /\ job \in JobRecord
  BY BaseFacts
<1>1. /\ job.kind = "create" /\ job.step = "main" /\ job.id \in SnapIds
      /\ snaps' = SetWal(snaps, job.id, <<>>, None)
      /\ job' = [job EXCEPT !.step = "wal", !.pos = 0]
      /\ UNCHANGED <<vars, now, taken, restored>>
  BY BaseFacts DEF CreateWalCopy, SetWal, NoTail
<1>2. /\ job' \in JobRecord /\ job'.kind = "create" /\ job'.id = job.id /\ job'.step = "wal"
      /\ job'.pos = 0
  BY <1>0, <1>1 DEF JobRecord
<1>3. <<>> \in Seq(WalRecord)
  OBVIOUS
<1>4. /\ snaps' \in [SnapIds -> SnapFiles] /\ snaps'[job.id].wal = <<>>
      /\ \A t \in SnapIds : snaps'[t].main = snaps[t].main
      /\ \A t \in SnapIds : t # job.id => snaps'[t] = snaps[t]
  <2>1. PICK e \in WalFile : e = <<>>
    BY <1>3 DEF WalFile
  <2>2. snaps' = SetWal(snaps, job.id, e, None) /\ None \in TailFile
    BY <1>1, <2>1 DEF TailFile
  <2>3. /\ snaps' \in [SnapIds -> SnapFiles] /\ snaps'[job.id].wal = e
        /\ \A t \in SnapIds : snaps'[t].main = snaps[t].main
        /\ \A t \in SnapIds : t # job.id => snaps'[t] = snaps[t]
    BY <1>0, <1>1, <2>2, WriteWalFile
  <2> QED BY <2>1, <2>3
<1>5. EngineBase' /\ BackupTypes'
  BY <1>0, <1>1, <1>2, <1>4, EngineBaseNext DEF BackupTypes
<1>6. JobOK' /\ CopyShape' /\ RestoreShape' /\ MainsOK'
  BY <1>0, <1>1, <1>2, <1>3, <1>4, MainsKept DEF JobOK, CopyShape, RestoreShape
<1>7. WalFileOK'
  <2>1. WalFileOK /\ UNCHANGED <<files, vars, taken>>
    BY BaseFacts DEF CreateWalCopy
  <2> QED BY <1>1, <1>2, <2>1, WalFileKept
<1> QED BY <1>2, <1>4, <1>5, <1>6, <1>7 DEF BaseInv

\* A part of a record lacks its flag, whether it is in the WAL or being written.
LEMMA PartType ==
    ASSUME NEW r \in WalRecord
    PROVE  Part(r) \in Unwritten
BY DEF Part, Unwritten, WalRecord

LEMMA TailType ==
    ASSUME EngineBase, NEW n \in Nat, NEW tail \in Tails(n)
    PROVE  tail \in Unwritten \cup {None}
<1>0. wal \in Seq(WalRecord) /\ call \in CallRecord /\ CallOK
  BY DEF EngineBase, TypeOK
<1>1. CASE n < Len(wal) /\ tail = Part(wal[n + 1])
  <2>1. wal[n + 1] \in WalRecord
    BY <1>0, <1>1
  <2> QED BY <1>1, <2>1, PartType
<1>2. CASE call.step = "append" /\ tail = Record(FALSE)
  BY <1>0, <1>2, RecordUncommitted DEF Serving, Unwritten
<1> QED BY <1>1, <1>2 DEF Tails, NoTail

\* Records of the WAL are copied.
LEMMA BaseCopyWal ==
    ASSUME BaseInv, CopyWal
    PROVE  /\ BaseInv' /\ job'.kind = "create" /\ job'.id = job.id /\ job'.step = "wal"
           /\ job.kind = "create" /\ job.step = "wal"
           /\ \A t \in SnapIds : snaps'[t].main = snaps[t].main
           /\ \A t \in SnapIds : t # job.id => snaps'[t] = snaps[t]
           /\ \E n \in job.pos .. Len(wal) :
                job'.pos = n /\ snaps'[job.id].wal = snaps[job.id].wal \o SubSeq(wal, job.pos + 1, n)
<1>0. /\ BackupTypes /\ EngineBase /\ JobOK /\ MainsOK /\ CopyShape /\ RestoreShape
      /\ snaps \in [SnapIds -> SnapFiles] /\ job \in JobRecord /\ wal \in Seq(WalRecord)
      /\ job.pos \in Nat
  BY BaseFacts
<1>1. /\ job.kind = "create" /\ job.step = "wal" /\ job.id \in SnapIds
      /\ UNCHANGED <<vars, now, taken, restored>>
  BY BaseFacts DEF CopyWal, Copied
<1>2. PICK n, tail :
        /\ n \in job.pos .. Len(wal) /\ tail \in Tails(n)
        /\ snaps' = SetWal(snaps, job.id, snaps[job.id].wal \o SubSeq(wal, job.pos + 1, n), tail)
        /\ job' = [job EXCEPT !.pos = n]
  BY DEF CopyWal, SetWal, Copied
<1>3. PICK W : W = snaps[job.id].wal \o SubSeq(wal, job.pos + 1, n)
  OBVIOUS
<1>4. W \in Seq(WalRecord)
  <2>1. snaps[job.id].wal \in Seq(WalRecord)
    BY <1>0, <1>1 DEF JobOK
  <2>2. SubSeq(wal, job.pos + 1, n) \in Seq(WalRecord)
    <3>1. \A k \in (job.pos + 1) .. n : wal[k] \in WalRecord
      BY <1>0, <1>2
    <3> QED BY <1>0, <1>2, <3>1
  <2> QED BY <1>3, <2>1, <2>2
<1>t. tail \in Unwritten \cup {None}
  BY <1>0, <1>2, TailType
<1>5. /\ job' \in JobRecord /\ job'.kind = "create" /\ job'.id = job.id /\ job'.step = "wal"
      /\ job'.pos = n
  BY <1>0, <1>1, <1>2 DEF JobRecord
<1>6. /\ snaps' \in [SnapIds -> SnapFiles] /\ snaps'[job.id].wal = W
      /\ \A t \in SnapIds : snaps'[t].main = snaps[t].main
      /\ \A t \in SnapIds : t # job.id => snaps'[t] = snaps[t]
  <2>0. PICK e \in TailFile : e = tail
    BY <1>t DEF TailFile
  <2>1. PICK V \in WalFile : V = W
    BY <1>4 DEF WalFile
  <2>2. PICK s \in SnapIds : s = job.id
    BY <1>1
  <2>3. PICK S \in [SnapIds -> SnapFiles] : S = snaps
    BY <1>0
  <2>4. PICK X : X = snaps'
    OBVIOUS
  <2>5. X = SetWal(S, s, V, e)
    BY <1>2, <1>3, <2>0, <2>1, <2>2, <2>3, <2>4
  <2>6. /\ X \in [SnapIds -> SnapFiles] /\ X[s].wal = V
        /\ \A t \in SnapIds : X[t].main = S[t].main
        /\ \A t \in SnapIds : t # s => X[t] = S[t]
    BY <2>5, WriteWalFile
  <2> QED BY <2>1, <2>2, <2>3, <2>4, <2>6
<1>7. EngineBase' /\ BackupTypes'
  BY <1>0, <1>1, <1>5, <1>6, EngineBaseNext DEF BackupTypes
<1>8. JobOK' /\ CopyShape' /\ RestoreShape' /\ MainsOK'
  BY <1>0, <1>1, <1>4, <1>5, <1>6, MainsKept DEF JobOK, CopyShape, RestoreShape
<1>9. WalFileOK'
  <2>1. WalFileOK /\ UNCHANGED <<files, vars, taken>>
    BY BaseFacts DEF CopyWal
  <2> QED BY <1>1, <1>5, <2>1, WalFileKept
<1> QED BY <1>1, <1>2, <1>3, <1>5, <1>6, <1>7, <1>8, <1>9 DEF BaseInv

LEMMA BaseEnd ==
    ASSUME BaseInv, UNCHANGED <<vars, now>>, job' = NoJob, restored' \in SnapIds \cup {0},
           snaps' \in [SnapIds -> SnapFiles], taken' \in [SnapIds -> TakenRecord],
           files' = files,
           \A t \in SnapIds : snaps'[t].main = snaps[t].main
    PROVE  BaseInv'
<1>1. NoJob \in JobRecord /\ NoJob.kind = "none" /\ EngineBase /\ MainsOK /\ BackupTypes
  BY BaseFacts
<1>2. EngineBase' /\ BackupTypes'
  BY <1>1, EngineBaseNext DEF BackupTypes
<1>3. JobOK' /\ CopyShape' /\ RestoreShape' /\ MainsOK'
  BY <1>1, MainsKept DEF JobOK, CopyShape, RestoreShape
<1>4. WalFileOK'
  <2>1. wal' = wal /\ mode' = mode /\ job'.kind = "none" /\ WalFileOK
    BY <1>1, BaseFacts DEF vars
  <2> QED BY <2>1 DEF WalFileOK
<1> QED BY <1>2, <1>3, <1>4 DEF BaseInv

\* The description is written.
LEMMA BaseWriteMeta ==
    ASSUME BaseInv, WriteMeta
    PROVE  BaseInv' /\ \A t \in SnapIds : snaps'[t].main = snaps[t].main /\ snaps'[t].wal = snaps[t].wal
<1>1. /\ job.id \in SnapIds /\ snaps \in [SnapIds -> SnapFiles] /\ taken \in [SnapIds -> TakenRecord]
      /\ BackupTypes
  BY BaseFacts DEF WriteMeta
<1>2. /\ snaps' = SetMeta(snaps, job.id, TRUE) /\ job' = NoJob
      /\ UNCHANGED <<vars, now, taken, restored, files>>
  BY DEF WriteMeta, SetMeta
<1>3. /\ snaps' \in [SnapIds -> SnapFiles]
      /\ \A t \in SnapIds : snaps'[t].main = snaps[t].main /\ snaps'[t].wal = snaps[t].wal
  <2>1. TRUE \in BOOLEAN
    OBVIOUS
  <2> QED BY <1>1, <1>2, <2>1, WriteMetaFile
<1>4. restored' \in SnapIds \cup {0}
  BY <1>1, <1>2 DEF BackupTypes
<1> QED BY <1>1, <1>2, <1>3, <1>4, BaseEnd

\* The call is cut off: a copy is no longer whole.
LEMMA BaseCutOff ==
    ASSUME BaseInv, JobCutOff
    PROVE  /\ BaseInv'
           /\ job.kind # "create" => taken' = taken
           /\ job.kind = "create" =>
                /\ ~taken'[job.id].whole
                /\ \A t \in SnapIds : t # job.id => taken'[t] = taken[t]
<1>1. /\ job.kind # "none" => job.id \in SnapIds
      /\ snaps \in [SnapIds -> SnapFiles] /\ taken \in [SnapIds -> TakenRecord] /\ BackupTypes
  BY BaseFacts
<1>2. job' = NoJob /\ UNCHANGED <<vars, now, snaps, restored, files>>
  BY DEF JobCutOff
<1>3. CASE job.kind # "create"
  <2>1. taken' = taken
    BY <1>3 DEF JobCutOff
  <2> QED BY <1>1, <1>2, <1>3, <2>1, BaseEnd DEF BackupTypes
<1>4. CASE job.kind = "create"
  <2>1. PICK u : u = [taken[job.id] EXCEPT !.whole = FALSE]
    OBVIOUS
  <2>2. u \in TakenRecord /\ u.whole = FALSE
    BY <1>1, <1>4, <2>1 DEF TakenRecord
  <2>3. taken' = [taken EXCEPT ![job.id] = u]
    BY <1>4, <2>1 DEF JobCutOff
  <2>4. /\ taken' \in [SnapIds -> TakenRecord] /\ ~taken'[job.id].whole
        /\ \A t \in SnapIds : t # job.id => taken'[t] = taken[t]
    BY <1>1, <1>4, <2>2, <2>3
  <2> QED BY <1>1, <1>2, <1>4, <2>4, BaseEnd DEF BackupTypes
<1> QED BY <1>3, <1>4

\* restore_snapshot empties the main file,
LEMMA BaseRestore ==
    ASSUME BaseInv, NEW s \in SnapIds, RestoreSnapshot(s)
    PROVE  BaseInv' /\ job'.kind = "restore"
<1>0. /\ BackupTypes /\ EngineBase /\ JobOK /\ MainsOK /\ snaps \in [SnapIds -> SnapFiles]
      /\ wal \in Seq(WalRecord) /\ job \in JobRecord
  BY BaseFacts
<1>1. /\ mode # "up" /\ snaps[s].main # None /\ numPages' = 1
      /\ pages' = Empty.pages /\ restored' = 0
      /\ files' = files \cup {"main"}
      /\ UNCHANGED <<wal, feedFile, memory, history, counters, now, snaps, taken>>
  BY DEF RestoreSnapshot, NoFile
<1>2. /\ job' \in JobRecord /\ job'.kind = "restore" /\ job'.id = s
      /\ job'.step = "main" /\ job'.pos = 0
  BY <1>0, BeginJob DEF RestoreSnapshot
<1>3. EngineBase'
  BY <1>0, <1>1, EmptyFile, RestoreKeepsEngine
<1>4. BackupTypes'
  BY <1>0, <1>1, <1>2 DEF BackupTypes
<1>5. snaps[s].main \in MainFile
  BY <1>0, <1>1 DEF SnapFiles
<1>6. mode' = mode
  BY <1>1 DEF memory
<1>7. JobOK' /\ MainsOK' /\ CopyShape'
  BY <1>0, <1>1, <1>2, <1>5, <1>6 DEF JobOK, MainsOK, CopyShape
<1>8. RestoreShape'
  <2>1. \A p \in PageNos : ~(p < 0)
    BY DEF PageNos
  <2> QED BY <1>1, <1>2, <2>1, EmptyFile DEF RestoreShape
<1>9. WalFileOK'
  <2>1. WalFileOK /\ wal' = wal
    BY <1>1, BaseFacts
  <2> QED BY <1>1, <1>2, <1>6, <2>1 DEF WalFileOK
<1> QED BY <1>2, <1>3, <1>4, <1>7, <1>8, <1>9 DEF BaseInv

\* copies its pages,
LEMMA BaseRestoreMain ==
    ASSUME BaseInv, RestoreMain
    PROVE  BaseInv' /\ job'.kind = "restore" /\ job'.id = job.id
<1>0. /\ BackupTypes /\ EngineBase /\ JobOK /\ MainsOK /\ CopyShape /\ RestoreShape
      /\ snaps \in [SnapIds -> SnapFiles] /\ job \in JobRecord /\ job.pos \in Nat
      /\ Main \in MainFile /\ Main.pages = pages /\ Main.numPages = numPages
      /\ pages \in [PageNos -> Page] /\ wal \in Seq(WalRecord)
  BY BaseFacts
<1>1. /\ job.kind = "restore" /\ job.step = "main" /\ ~AtEof(snaps[job.id].main) /\ job.id \in SnapIds
      /\ mode # "up" /\ snaps[job.id].main # None
      /\ UNCHANGED <<wal, feedFile, memory, history, counters, files, now, snaps, taken, restored>>
  BY BaseFacts DEF RestoreMain, JobOK
<1>2. PICK from \in MainFile : from = snaps[job.id].main
  BY <1>0, <1>1 DEF JobOK
<1>3. PICK F : F = CopyChunk(from, Main)
  OBVIOUS
<1>4. PICK n : n = NextPos(from)
  OBVIOUS
<1>5. from.pages \in [PageNos -> Page] /\ from.numPages \in Nat
  BY DEF MainFile
<1>6. /\ F.numPages = IF job.pos = 0 THEN from.numPages ELSE Main.numPages
      /\ F.pages \in [PageNos -> Page]
      /\ n \in Nat /\ n > job.pos
      /\ \A p \in PageNos : p < job.pos => F.pages[p] = Main.pages[p]
      /\ \A p \in PageNos : p >= job.pos /\ p < n =>
             F.pages[p] = from.pages[p] /\ from.pages[p] # Eof
      /\ \A p \in PageNos : p >= n /\ Main.pages[p] = Eof => F.pages[p] = Eof
  BY <1>0, <1>1, <1>2, <1>3, <1>4, <1>5, ChunkCopied
<1>7. numPages' = F.numPages /\ pages' = F.pages
  BY <1>2, <1>3 DEF RestoreMain
<1>8. F.numPages \in Nat
  BY <1>0, <1>5, <1>6 DEF MainFile
<1>9. job' = [job EXCEPT !.pos = n]
  BY <1>2, <1>4 DEF RestoreMain
<1>10. /\ job' \in JobRecord /\ job'.kind = "restore" /\ job'.id = job.id /\ job'.step = "main"
       /\ job'.pos = n
  BY <1>0, <1>1, <1>6, <1>9 DEF JobRecord
<1>11. PageNos \subseteq Nat
  BY DEF PageNos
<1>12. /\ numPages = IF job.pos = 0 THEN 1 ELSE from.numPages
       /\ \A p \in PageNos : pages[p] = IF p < job.pos THEN from.pages[p] ELSE Eof
  BY <1>0, <1>1, <1>2 DEF RestoreShape
<1>13. F.numPages = from.numPages
  BY <1>0, <1>6, <1>12
<1>14. ASSUME NEW p \in PageNos PROVE F.pages[p] = IF p < n THEN from.pages[p] ELSE Eof
  <2>1. CASE p < job.pos
    BY <1>0, <1>6, <1>11, <1>12, <2>1
  <2>2. CASE p >= job.pos /\ p < n
    BY <1>0, <1>6, <1>11, <2>2
  <2>3. CASE p >= n
    BY <1>0, <1>6, <1>11, <1>12, <2>3
  <2> QED BY <1>0, <1>6, <1>11, <2>1, <2>2, <2>3
<1>15. Shape(from.pages) /\ NumOK(from.numPages)
  BY <1>0, <1>1, <1>2 DEF MainsOK
<1>16. Shape(F.pages)
  <2> SUFFICES ASSUME NEW p \in PageNos, NEW q \in PageNos, q < p, F.pages[p] # Eof
               PROVE  F.pages[q] # Eof
    BY DEF Shape
  <2>1. p < n /\ F.pages[p] = from.pages[p]
    BY <1>14
  <2>2. q < n
    BY <1>6, <1>11, <2>1
  <2>3. F.pages[q] = from.pages[q]
    BY <1>14, <2>2
  <2> QED BY <1>15, <2>1, <2>3 DEF Shape
<1>17. FileOK(F.pages, F.numPages)
  BY <1>13, <1>15, <1>16, ShapeFile DEF FileOK
<1>18. EngineBase'
  BY <1>0, <1>1, <1>6, <1>7, <1>8, <1>17, RestoreKeepsEngine
<1>19. BackupTypes'
  BY <1>0, <1>1, <1>10 DEF BackupTypes
<1>20. mode' = mode
  BY <1>1 DEF memory
<1>21. JobOK' /\ MainsOK' /\ CopyShape'
  BY <1>0, <1>1, <1>10, <1>20 DEF JobOK, MainsOK, CopyShape
<1>22. RestoreShape'
  <2>1. n # 0
    BY <1>0, <1>6
  <2> QED BY <1>1, <1>2, <1>7, <1>10, <1>13, <1>14, <2>1 DEF RestoreShape
<1>23. WalFileOK'
  <2>1. WalFileOK /\ wal' = wal /\ files' = files
    BY <1>1, BaseFacts
  <2> QED BY <1>10, <1>20, <2>1 DEF WalFileOK
<1> QED BY <1>10, <1>18, <1>19, <1>21, <1>22, <1>23 DEF BaseInv

\* Once every page is copied the main file is that of the snapshot.
LEMMA MainRestored ==
    ASSUME BaseInv, job.kind = "restore", AtEof(snaps[job.id].main)
    PROVE  pages = snaps[job.id].main.pages /\ numPages = snaps[job.id].main.numPages
<1>0. /\ JobOK /\ MainsOK /\ RestoreShape /\ job.pos \in Nat /\ pages \in [PageNos -> Page]
      /\ job.id \in SnapIds
  BY BaseFacts
<1>1. snaps[job.id].main # None
  BY <1>0 DEF JobOK
<1>2. PICK from \in MainFile : from = snaps[job.id].main
  BY <1>0 DEF JobOK
<1>8. PageNos \subseteq Nat
  BY DEF PageNos
<1>9. job.pos > 0 /\ (job.pos \notin PageNos \/ from.pages[job.pos] = Eof)
  BY <1>2 DEF AtEof
<1>10. /\ numPages = from.numPages
       /\ \A p \in PageNos : pages[p] = IF p < job.pos THEN from.pages[p] ELSE Eof
  BY <1>0, <1>2, <1>9 DEF RestoreShape
<1>11. Shape(from.pages)
  BY <1>0, <1>1, <1>2 DEF MainsOK
<1>12. ASSUME NEW p \in PageNos, ~(p < job.pos) PROVE from.pages[p] = Eof
  <2>1. job.pos \in PageNos
    <3>1. PICK top \in Nat : PageNos = 1 .. top
      BY EngineAssumptions, FS_CardinalityType DEF PageNos
    <3> QED BY <1>0, <1>9, <1>12, <3>1
  <2>2. CASE p = job.pos
    BY <1>9, <2>1, <2>2
  <2>3. CASE p # job.pos
    BY <1>0, <1>8, <1>9, <1>11, <1>12, <2>1, <2>3 DEF Shape
  <2> QED BY <2>2, <2>3
<1>13. from.pages \in [PageNos -> Page]
  BY DEF MainFile
<1>14. \A p \in PageNos : pages[p] = from.pages[p]
  BY <1>10, <1>12
<1>15. pages = from.pages
  BY <1>0, <1>13, <1>14
<1> QED BY <1>2, <1>10, <1>15

\* What is there of the WAL of a snapshot is a WAL, and recovery finds the same
\* documents in it whether or not a part of a record follows.
WalOf(snap) == IF snap.wal = None THEN <<>> ELSE snap.wal
LEMMA RestoredWalType ==
    ASSUME BaseInv, job.kind = "restore"
    PROVE  /\ RestoredWal \in Seq(WalRecord)
           /\ WalOf(snaps[job.id]) \in Seq(WalRecord)
           /\ Recovered(RestoredWal) = Recovered(WalOf(snaps[job.id]))
           /\ snaps[job.id].wal = None => RestoredWal = <<>>
<1>1. PICK snap \in SnapFiles : snap = snaps[job.id]
  BY BaseFacts
<1>2. snap.wal \in Seq(WalRecord) \cup {None} /\ snap.tail \in Unwritten \cup {None}
  BY DEF SnapFiles, WalFile, TailFile
<1>3. <<>> \in Seq(WalRecord)
  OBVIOUS
<1>4. CASE snap.wal = None
  BY <1>1, <1>3, <1>4 DEF RestoredWal, WalOf, NoFile
<1>5. CASE snap.wal # None /\ snap.tail = None
  <2>1. RestoredWal = snap.wal /\ WalOf(snap) = snap.wal /\ snap.wal \in Seq(WalRecord)
    BY <1>1, <1>2, <1>5 DEF RestoredWal, WalOf, NoFile, NoTail
  <2> QED BY <1>1, <1>5, <2>1
<1>6. CASE snap.wal # None /\ snap.tail # None
  <2>1. PICK w \in Seq(WalRecord) : w = snap.wal
    BY <1>2, <1>6
  <2>2. PICK r \in WalRecord : r = snap.tail /\ r.flag = FALSE
    BY <1>2, <1>6 DEF Unwritten
  <2>3. RestoredWal = Append(w, r) /\ WalOf(snap) = w
    BY <1>1, <1>6, <2>1, <2>2 DEF RestoredWal, WalOf, NoFile, NoTail
  <2>4. Append(w, r) \in Seq(WalRecord)
    OBVIOUS
  <2>5. Recovered(Append(w, r)) = Recovered(w)
    BY <2>2, AppendUncommitted
  <2> QED BY <1>1, <1>6, <2>1, <2>3, <2>4, <2>5
<1> QED BY <1>4, <1>5, <1>6

\* The last step of a restore writes the WAL and nothing else of the database.
LEMMA BaseWalWritten ==
    ASSUME BaseInv, job.kind = "restore", wal' \in Seq(WalRecord), job' = NoJob,
           restored' \in SnapIds \cup {0}, "wal" \notin files' => wal' = <<>>,
           UNCHANGED <<mainFile, feedFile, memory, history, counters, now, snaps, taken>>
    PROVE  BaseInv'
<1>0. /\ BackupTypes /\ EngineBase /\ JobOK /\ MainsOK /\ CopyShape /\ RestoreShape /\ WalFileOK
      /\ pages \in [PageNos -> Page] /\ FileOK(pages, numPages)
      /\ NoJob \in JobRecord /\ NoJob.kind = "none" /\ mode # "up"
  BY BaseFacts DEF JobOK
<1>1. numPages' = numPages /\ pages' = pages /\ mode' = mode
  BY DEF mainFile, memory
<1>4. numPages \in Nat
  BY <1>0 DEF EngineBase, TypeOK
<1>5. EngineBase'
  BY <1>0, <1>1, <1>4, RestoreKeepsEngine
<1>6. BackupTypes'
  BY <1>0 DEF BackupTypes
<1>7. JobOK' /\ MainsOK' /\ CopyShape' /\ RestoreShape'
  BY <1>0 DEF JobOK, MainsOK, CopyShape, RestoreShape
<1>8. WalFileOK'
  BY <1>0, <1>1 DEF WalFileOK
<1> QED BY <1>5, <1>6, <1>7, <1>8 DEF BaseInv

\* It is copied, or removed: the database has the pages of the snapshot.
LEMMA BaseRestoreWal ==
    ASSUME BaseInv, RestoreWal
    PROVE  /\ BaseInv' /\ job'.kind = "none" /\ job.kind = "restore" /\ job.id \in SnapIds
           /\ restored' = job.id /\ snaps' = snaps /\ taken' = taken
           /\ UNCHANGED <<pages, numPages, pageCount, mode, ioErrors, compactions>>
           /\ pages' = snaps[job.id].main.pages /\ numPages' = snaps[job.id].main.numPages
           /\ Recovered(wal') = Recovered(WalOf(snaps[job.id]))
<1>1. /\ job.kind = "restore" /\ AtEof(snaps[job.id].main) /\ job.id \in SnapIds
      /\ wal' = RestoredWal /\ job' = NoJob /\ restored' = job.id
      /\ files' = IF snaps[job.id].wal = None THEN files \ {"wal"} ELSE files \cup {"wal"}
      /\ UNCHANGED <<mainFile, feedFile, memory, history, counters, now, snaps, taken>>
  BY BaseFacts DEF RestoreWal, NoFile
<1>2. "wal" \notin files' => wal' = <<>>
  BY <1>1, RestoredWalType
<1>3. wal' \in Seq(WalRecord) /\ Recovered(wal') = Recovered(WalOf(snaps[job.id]))
  BY <1>1, RestoredWalType
<1>4. BaseInv'
  BY <1>1, <1>2, <1>3, BaseWalWritten
<1>5. UNCHANGED <<pages, numPages, pageCount, mode, ioErrors, compactions>>
  BY <1>1 DEF mainFile, memory, counters
<1>6. pages = snaps[job.id].main.pages /\ numPages = snaps[job.id].main.numPages
  BY <1>1, MainRestored
<1> QED BY <1>1, <1>3, <1>4, <1>5, <1>6, BaseFacts

\* Its copying is cut off: nothing is restored.
LEMMA BaseRestoreWalCutOff ==
    ASSUME BaseInv, RestoreWalCutOff
    PROVE  /\ BaseInv' /\ job'.kind = "none" /\ job.kind = "restore"
           /\ UNCHANGED <<restored, snaps, taken>>
           /\ UNCHANGED <<pages, numPages, pageCount, mode, ioErrors, compactions>>
<1>1. /\ job.kind = "restore" /\ job' = NoJob /\ job.id \in SnapIds /\ snaps[job.id].wal # None
      /\ files' = files \cup {"wal"} /\ restored' = restored
      /\ UNCHANGED <<mainFile, feedFile, memory, history, counters, now, snaps, taken>>
  BY BaseFacts DEF RestoreWalCutOff, NoFile
<1>2. PICK w \in Seq(WalRecord) : w = snaps[job.id].wal
  BY <1>1, BaseFacts DEF SnapFiles, WalFile
<1>3. PICK n \in 0 .. Len(w) : \/ wal' = SubSeq(w, 1, n)
                               \/ n < Len(w) /\ wal' = Append(SubSeq(w, 1, n), Part(w[n + 1]))
  BY <1>2 DEF RestoreWalCutOff
<1>4. SubSeq(w, 1, n) \in Seq(WalRecord)
  OBVIOUS
<1>5. n < Len(w) => Part(w[n + 1]) \in WalRecord
  <2>1. n < Len(w) => w[n + 1] \in WalRecord
    OBVIOUS
  <2> QED BY <2>1, PartType DEF Unwritten
<1>6. wal' \in Seq(WalRecord)
  BY <1>3, <1>4, <1>5
<1>7. restored' \in SnapIds \cup {0}
  BY <1>1, BaseFacts DEF BackupTypes
<1>8. BaseInv'
  BY <1>1, <1>6, <1>7, BaseWalWritten
<1>9. UNCHANGED <<pages, numPages, pageCount, mode, ioErrors, compactions>>
  BY <1>1 DEF mainFile, memory, counters
<1> QED BY <1>1, <1>8, <1>9, BaseFacts

LEMMA BaseDelete ==
    ASSUME BaseInv, NEW s \in SnapIds, DeleteSnapshot(s)
    PROVE  BaseInv' /\ job'.kind = "delete"
<1>0. /\ BackupTypes /\ EngineBase /\ JobOK /\ MainsOK
  BY BaseFacts
<1>1. UNCHANGED <<vars, now, snaps, taken, restored>>
  BY DEF DeleteSnapshot
<1>2. /\ job' \in JobRecord /\ job'.kind = "delete" /\ job'.id = s
      /\ job'.step = "remove" /\ job'.pos = 0
  BY <1>0, BeginJob DEF DeleteSnapshot
<1>3. EngineBase' /\ BackupTypes'
  BY <1>0, <1>1, <1>2, EngineBaseNext DEF BackupTypes
<1>4. JobOK' /\ MainsOK' /\ CopyShape' /\ RestoreShape'
  BY <1>0, <1>1, <1>2 DEF JobOK, MainsOK, CopyShape, RestoreShape
<1>5. WalFileOK'
  <2>1. files' = files
    BY DEF DeleteSnapshot
  <2> QED BY <1>1, <1>2, <2>1, BaseFacts, WalFileKept
<1> QED BY <1>2, <1>3, <1>4, <1>5 DEF BaseInv

\* The files are removed in their order: without its main file the snapshot is
\* nothing to the other calls.
LEMMA BaseRemove ==
    ASSUME BaseInv, RemoveFile
    PROVE  /\ BaseInv' /\ job'.kind # "create" /\ job'.kind # "restore" /\ job.kind = "delete"
           /\ snaps'[job.id].main = None
           /\ \A t \in SnapIds : t # job.id => snaps'[t] = snaps[t]
<1>0. /\ BackupTypes /\ EngineBase /\ JobOK /\ MainsOK /\ snaps \in [SnapIds -> SnapFiles]
      /\ job \in JobRecord /\ job.pos \in Nat /\ NoJob \in JobRecord /\ NoJob.kind = "none"
  BY BaseFacts
<1>1. /\ job.kind = "delete" /\ job.id \in SnapIds /\ UNCHANGED <<vars, now, taken, restored>>
      /\ job' = IF job.pos = 2 THEN NoJob ELSE [job EXCEPT !.pos = job.pos + 1]
  BY BaseFacts DEF RemoveFile
<1>2. job.pos \in 0 .. 2 /\ (job.pos > 0 => snaps[job.id].main = None)
  BY <1>0, <1>1 DEF JobOK
<1>3. /\ snaps' \in [SnapIds -> SnapFiles] /\ snaps'[job.id].main = None
      /\ \A t \in SnapIds : t # job.id => snaps'[t] = snaps[t]
  <2>0. NoSnap["main"] = None /\ NoSnap["wal"] = None /\ NoSnap["meta"] = FALSE
    BY DEF NoSnap, NoFile
  <2>f. PICK f : f = DeleteOrder[job.pos + 1]
    OBVIOUS
  <2>g. snaps' = [snaps EXCEPT ![job.id][f] = NoSnap[f],
                               ![job.id].tail = IF f = "wal" THEN None ELSE @]
    BY <2>f DEF RemoveFile, NoTail
  <2>h. /\ job.pos = 0 => f = "main"
        /\ job.pos = 1 => f = "wal"
        /\ job.pos = 2 => f = "meta"
    BY <2>f DEF DeleteOrder
  <2>1. CASE job.pos = 0
    <3>1. snaps' = [snaps EXCEPT ![job.id]["main"] = None]
      BY <1>0, <1>1, <2>0, <2>g, <2>h, <2>1 DEF SnapFiles
    <3>2. snaps' = SetMain(snaps, job.id, None)
      BY <3>1 DEF SetMain
    <3> QED BY <1>0, <1>1, <3>2, WriteMainFile
  <2>2. CASE job.pos = 1
    <3>1. snaps' = [snaps EXCEPT ![job.id].wal = None, ![job.id].tail = None]
      BY <2>0, <2>g, <2>h, <2>2
    <3>2. snaps' = SetWal(snaps, job.id, None, None) /\ None \in WalFile /\ None \in TailFile
      BY <3>1 DEF SetWal, WalFile, TailFile
    <3> QED BY <1>0, <1>1, <1>2, <2>2, <3>2, WriteWalFile
  <2>3. CASE job.pos = 2
    <3>1. snaps' = [snaps EXCEPT ![job.id]["meta"] = FALSE]
      BY <1>0, <1>1, <2>0, <2>g, <2>h, <2>3 DEF SnapFiles
    <3>2. snaps' = SetMeta(snaps, job.id, FALSE)
      BY <3>1 DEF SetMeta
    <3>3. FALSE \in BOOLEAN /\ snaps[job.id].main = None
      BY <1>2, <2>3
    <3> QED BY <1>0, <1>1, <3>2, <3>3, WriteMetaFile
  <2> QED BY <1>2, <2>1, <2>2, <2>3
<1>4. job' \in JobRecord /\ (job'.kind = "none" \/ job'.kind = "delete")
      /\ (job'.kind = "delete" => job'.id = job.id /\ job'.pos \in 0 .. 2)
  <2>1. CASE job.pos = 2
    BY <1>0, <1>1, <2>1
  <2>2. CASE job.pos # 2
    BY <1>0, <1>1, <1>2, <2>2 DEF JobRecord
  <2> QED BY <2>1, <2>2
<1>5. EngineBase' /\ BackupTypes'
  BY <1>0, <1>1, <1>3, <1>4, EngineBaseNext DEF BackupTypes
<1>6. JobOK' /\ CopyShape' /\ RestoreShape'
  BY <1>1, <1>3, <1>4 DEF JobOK, CopyShape, RestoreShape
<1>7. MainsOK'
  BY <1>0, <1>3 DEF MainsOK
<1>8. WalFileOK'
  <2>1. files' = files
    BY DEF RemoveFile
  <2> QED BY <1>1, <1>4, <2>1, BaseFacts, WalFileKept
<1> QED BY <1>1, <1>3, <1>4, <1>5, <1>6, <1>7, <1>8 DEF BaseInv

\* A second passes.
LEMMA BaseTick ==
    ASSUME BaseInv, Tick
    PROVE  BaseInv'
<1>1. UNCHANGED <<vars, snaps, job, taken, restored>> /\ now' = now + 1 /\ now < MaxSeconds
  BY DEF Tick
<1>2. now' \in SnapIds
  BY <1>1, BackupAssumptions DEF BaseInv, BackupTypes, SnapIds
<1>3. EngineBase' /\ BackupTypes'
  BY <1>1, <1>2, EngineBaseNext DEF BaseInv, BackupTypes
<1>4. JobOK' /\ MainsOK' /\ CopyShape'
  BY <1>1 DEF BaseInv, JobOK, MainsOK, CopyShape, vars
<1>5. RestoreShape'
  BY <1>1 DEF BaseInv, RestoreShape, vars
<1>6. WalFileOK'
  <2>1. files' = files
    BY DEF Tick
  <2> QED BY <1>1, <2>1, BaseFacts, WalFileKept
<1> QED BY <1>3, <1>4, <1>5, <1>6 DEF BaseInv

\* Every step keeps the shape.
LEMMA BaseNext == BaseInv /\ [BNext]_bvars => BaseInv'
<1> SUFFICES ASSUME BaseInv, [BNext]_bvars PROVE BaseInv'
  OBVIOUS
<1>1. CASE UNCHANGED bvars
  <2>1. UNCHANGED <<vars, now, snaps, job, taken, restored, files>>
    BY <1>1 DEF bvars, backupVars
  <2>2. EngineBase' /\ BackupTypes'
    BY <2>1, EngineBaseNext DEF BaseInv, BackupTypes
  <2>3. JobOK' /\ MainsOK' /\ CopyShape'
    BY <2>1 DEF BaseInv, JobOK, MainsOK, CopyShape, vars
  <2>4. RestoreShape'
    BY <2>1 DEF BaseInv, RestoreShape, vars
  <2>5. WalFileOK'
    BY <2>1, BaseFacts, WalFileKept
  <2> QED BY <2>2, <2>3, <2>4, <2>5 DEF BaseInv
<1>2. CASE CreateSnapshot \/ CopyMain \/ CreateWalCopy \/ CopyWal \/ WriteMeta
  BY <1>2, BaseCreate, BaseCopyMain, BaseCreateWalCopy, BaseCopyWal, BaseWriteMeta
<1>3. ASSUME NEW s \in SnapIds, RestoreSnapshot(s) \/ DeleteSnapshot(s) PROVE BaseInv'
  BY <1>3, BaseRestore, BaseDelete
<1>4. CASE RestoreMain \/ RestoreWal \/ RestoreWalCutOff \/ RemoveFile
  BY <1>4, BaseRestoreMain, BaseRestoreWal, BaseRestoreWalCutOff, BaseRemove
<1>5. CASE JobCutOff \/ Tick \/ EngineStep
  BY <1>5, BaseCutOff, BaseTick, BaseEngineStep
<1> QED BY <1>1, <1>2, <1>3, <1>4, <1>5 DEF BNext

\* What an action does to the history of the copies: an engine step leaves
\* their wholeness alone.
LEMMA EngineStepTaken ==
    ASSUME BaseInv, EngineStep
    PROVE  /\ UNCHANGED <<now, snaps, job>> /\ job.kind # "restore"
           /\ job.kind # "create" => taken' = taken
           /\ \A s \in SnapIds : taken'[s].whole = taken[s].whole
           /\ \A s \in SnapIds : ~(job.kind = "create" /\ job.id = s) => taken'[s] = taken[s]
<1>1. UNCHANGED <<now, snaps, job>> /\ job.kind # "restore"
  BY DEF EngineStep
<1>2. CASE job.kind # "create"
  BY <1>1, <1>2 DEF EngineStep
<1>3. CASE job.kind = "create"
  <2>1. Shown' \in SUBSET Docs
    BY BaseEngineStep, ShownType DEF BaseInv
  <2>2. /\ \A s \in SnapIds : s # job.id => taken'[s] = taken[s]
        /\ taken'[job.id].whole = taken[job.id].whole
    BY <1>3, <2>1, TakenStep DEF BaseInv
  <2> QED BY <1>1, <1>3, <2>2
<1> QED BY <1>2, <1>3

\* The files and the history of a whole snapshot that is not being made change
\* only when its making ends.
LEMMA SnapStep ==
    ASSUME BaseInv, [BNext]_bvars, NEW s \in SnapIds,
           snaps'[s].main # None, taken'[s].whole, ~(job'.kind = "create" /\ job'.id = s)
    PROVE  \/ WriteMeta /\ s = job.id
           \/ /\ ~(job.kind = "create" /\ job.id = s) /\ taken'[s] = taken[s]
              /\ snaps'[s].main = snaps[s].main /\ snaps'[s].wal = snaps[s].wal
<1>0. /\ BackupTypes /\ JobOK /\ now \in SnapIds /\ taken \in [SnapIds -> TakenRecord]
      /\ job.kind # "none" => job.id \in SnapIds
  BY BaseFacts
<1>1. CASE UNCHANGED bvars
  BY <1>0, <1>1 DEF bvars, backupVars
<1>2. CASE CreateSnapshot
  <2>1. job'.kind = "create" /\ job'.id = now /\ job.kind = "none"
    BY <1>0, <1>2, BeginJob DEF CreateSnapshot
  <2>2. snaps'[s] = snaps[s] /\ taken'[s] = taken[s]
    <3>1. s # now
      BY <2>1
    <3>2. snaps' = [snaps EXCEPT ![now].main = Empty] /\ snaps \in [SnapIds -> SnapFiles]
      BY <1>0, <1>2 DEF CreateSnapshot, BackupTypes
    <3>3. PICK u : taken' = [taken EXCEPT ![now] = u]
      BY <1>2 DEF CreateSnapshot
    <3> QED BY <1>0, <3>1, <3>2, <3>3
  <2> QED BY <1>0, <2>1, <2>2
<1>3. CASE CopyMain
  <2>1. job' = [job EXCEPT !.pos = NextPos(Main)] /\ job.kind = "create" /\ job \in JobRecord
    BY <1>0, <1>3 DEF CopyMain, BackupTypes
  <2>2. job'.kind = "create" /\ job'.id = job.id
    BY <2>1 DEF JobRecord
  <2>3. PICK F : snaps' = [snaps EXCEPT ![job.id].main = F]
    BY <1>3 DEF CopyMain
  <2>4. snaps'[s] = snaps[s] /\ taken' = taken
    <3>1. snaps \in [SnapIds -> SnapFiles] /\ s # job.id
      BY <1>0, <2>2 DEF BackupTypes
    <3> QED BY <1>3, <2>3, <3>1 DEF CopyMain
  <2> QED BY <1>0, <2>2, <2>4
<1>4. CASE CreateWalCopy
  <2>1. job'.kind = "create" /\ job'.id = job.id /\ s # job.id => snaps'[s] = snaps[s]
    BY <1>4, BaseCreateWalCopy
  <2>2. job'.kind = "create" /\ job'.id = job.id /\ taken' = taken
    BY <1>4, BaseCreateWalCopy DEF CreateWalCopy
  <2> QED BY <1>0, <2>1, <2>2
<1>5. CASE CopyWal
  <2>1. job'.kind = "create" /\ job'.id = job.id
    BY <1>5, BaseCopyWal
  <2>2. s # job.id => snaps'[s] = snaps[s]
    BY <1>5, BaseCopyWal
  <2>3. taken' = taken
    BY <1>5 DEF CopyWal
  <2> QED BY <1>0, <2>1, <2>2, <2>3
<1>6. CASE WriteMeta
  <2>1. snaps'[s].main = snaps[s].main /\ snaps'[s].wal = snaps[s].wal
    BY <1>6, BaseWriteMeta
  <2>2. taken' = taken
    BY <1>6 DEF WriteMeta
  <2> QED BY <1>6, <2>1, <2>2
<1>7. ASSUME NEW t \in SnapIds, RestoreSnapshot(t) \/ DeleteSnapshot(t)
      PROVE  /\ ~(job.kind = "create" /\ job.id = s) /\ taken'[s] = taken[s]
             /\ snaps'[s].main = snaps[s].main /\ snaps'[s].wal = snaps[s].wal
  <2>1. snaps' = snaps /\ taken' = taken
    BY <1>7 DEF RestoreSnapshot, DeleteSnapshot, feedFile, history
  <2>2. job = NoJob
    BY <1>7 DEF RestoreSnapshot, DeleteSnapshot, Begin, feedFile, history
  <2>3. job.kind # "create"
    BY <2>2 DEF NoJob
  <2> QED BY <1>0, <2>1, <2>3
<1>8. CASE RestoreMain \/ RestoreWal \/ RestoreWalCutOff
  <2>1. snaps' = snaps /\ taken' = taken /\ job.kind = "restore"
    BY <1>8 DEF RestoreMain, RestoreWal, RestoreWalCutOff
  <2> QED BY <1>0, <2>1
<1>9. CASE RemoveFile
  <2>1. s # job.id
    BY <1>9, BaseRemove
  <2>2. snaps'[s] = snaps[s] /\ job.kind = "delete"
    BY <1>9, <2>1, BaseRemove
  <2>3. taken' = taken
    BY <1>9 DEF RemoveFile
  <2> QED BY <1>0, <2>2, <2>3
<1>10. CASE JobCutOff
  <2>1. snaps' = snaps
    BY <1>10 DEF JobCutOff
  <2>2. CASE job.kind = "create" /\ s = job.id
    BY <1>10, <2>2, BaseCutOff
  <2>3. CASE ~(job.kind = "create" /\ s = job.id)
    BY <1>0, <1>10, <2>1, <2>3, BaseCutOff
  <2> QED BY <2>2, <2>3
<1>11. CASE Tick
  BY <1>0, <1>11 DEF Tick
<1>12. CASE EngineStep
  BY <1>0, <1>12, EngineStepTaken
<1> QED BY <1>1, <1>2, <1>3, <1>4, <1>5, <1>6, <1>7, <1>8, <1>9, <1>10, <1>11, <1>12 DEF BNext

\* A snapshot a restore accepts has its WAL: only the copy in progress may lack
\* it, and a deletion takes the main file first.
LEMMA HasWalNext == BaseInv /\ RestorableHasWal /\ [BNext]_bvars => RestorableHasWal'
<1> SUFFICES ASSUME BaseInv, RestorableHasWal, [BNext]_bvars, NEW s \in SnapIds,
                    snaps'[s].main # None, taken'[s].whole, taken'[s].logged,
                    ~(job'.kind = "create" /\ job'.id = s)
             PROVE  snaps'[s].wal # None
  BY DEF RestorableHasWal, NoFile
<1>1. CASE WriteMeta /\ s = job.id
  <2>1. snaps'[s].wal = snaps[s].wal /\ taken' = taken
    BY <1>1, BaseWriteMeta DEF WriteMeta
  <2>2. "wal" \in files
    BY <1>1, <2>1, BaseFacts DEF WriteMeta, WalFileOK
  <2>3. snaps[s].wal \in Seq(WalRecord)
    BY <1>1, <2>2, BaseFacts DEF WriteMeta, JobOK
  <2> QED BY <2>1, <2>3, BackupAssumptions
<1>2. CASE /\ ~(job.kind = "create" /\ job.id = s) /\ taken'[s] = taken[s]
           /\ snaps'[s].main = snaps[s].main /\ snaps'[s].wal = snaps[s].wal
  BY <1>2 DEF RestorableHasWal, NoFile
<1> QED BY <1>1, <1>2, SnapStep

-----------------------------------------------------------------------------
(* The WAL of the copy.  Rs are the documents recovery would have found at  *)
(* the moments of the copy, w is the WAL and W what of it is copied.        *)

\* A copied record may lack the flag that was set after it was read.
Behind(W, w) ==
    /\ Len(W) <= Len(w)
    /\ \A k \in 1 .. Len(W) : W[k].id = w[k].id /\ W[k].val = w[k].val /\ (W[k].flag => w[k].flag)

\* A committed record the copy has, or will have, as committed.
Kept(W, w, j) == w[j].flag /\ (j <= Len(W) => W[j].flag)

\* What a committed record says was true at some moment, or the copy has a later
\* one; a document the copy will not have was missing at some moment.
Covers(Rs, W, w) ==
    /\ \A k \in 1 .. Len(w) : w[k].flag =>
         \/ \E m \in Rs : m[w[k].id] = w[k].val
         \/ \E j \in 1 .. Len(w) : j > k /\ w[j].id = w[k].id /\ Kept(W, w, j)
    /\ \A i \in Ids :
         \/ \E m \in Rs : m[i] = None
         \/ \E j \in 1 .. Len(w) : w[j].id = i /\ Kept(W, w, j)

\* The value recovery finds for a document is that of its last committed record.
LEMMA RecoveredAt ==
    ASSUME NEW w \in Seq(WalRecord), NEW i \in Ids
    PROVE  \/ /\ \A k \in 1 .. Len(w) : w[k].flag => w[k].id # i
              /\ Recovered(w)[i] = None
           \/ \E k \in 1 .. Len(w) :
                /\ w[k].flag /\ w[k].id = i /\ Recovered(w)[i] = w[k].val
                /\ \A j \in 1 .. Len(w) : w[j].flag /\ w[j].id = i => j <= k
<1>1. PICK S \in SUBSET (1 .. Len(w)) : S = CommittedAt(w, i)
  BY DEF CommittedAt
<1>2. \A k \in 1 .. Len(w) : k \in S <=> w[k].flag /\ w[k].id = i
  BY <1>1 DEF CommittedAt
<1>3. Recovered(w)[i] = IF S = {} THEN None ELSE w[Largest(S)].val
  BY <1>1 DEF Recovered
<1>4. CASE S = {}
  BY <1>2, <1>3, <1>4
<1>5. CASE S # {}
  <2>1. Len(w) \in Nat
    OBVIOUS
  <2>2. PICK k \in S : k = Largest(S) /\ \A j \in S : j <= k
    BY <1>5, <2>1, LargestExists
  <2>3. /\ k \in 1 .. Len(w) /\ w[k].flag /\ w[k].id = i /\ Recovered(w)[i] = w[k].val
        /\ \A j \in 1 .. Len(w) : w[j].flag /\ w[j].id = i => j <= k
    BY <1>2, <1>3, <1>5, <2>2
  <2> QED BY <2>3
<1> QED BY <1>4, <1>5

\* Nothing is copied yet: recovery finds what the records say.
LEMMA CoversStart ==
    ASSUME NEW w \in Seq(WalRecord), NEW r, r = Recovered(w)
    PROVE  Covers({r}, <<>>, w) /\ Behind(<<>>, w)
<1>z. Len(w) \in Nat /\ \A k \in 1 .. Len(w) : w[k] \in WalRecord
  OBVIOUS
<1>0. Len(w) \in Nat /\ \A k \in 1 .. Len(w) : w[k] \in WalRecord /\ w[k].id \in Ids
  BY <1>z DEF WalRecord
<1>1. Behind(<<>>, w)
  BY <1>0 DEF Behind
<1>2. \A j \in 1 .. Len(w) : w[j].flag => Kept(<<>>, w, j)
  BY <1>0 DEF Kept
<1>3. ASSUME NEW k \in 1 .. Len(w), w[k].flag
      PROVE  \/ \E m \in {r} : m[w[k].id] = w[k].val
             \/ \E j \in 1 .. Len(w) : j > k /\ w[j].id = w[k].id /\ Kept(<<>>, w, j)
  <2>1. PICK i \in Ids : i = w[k].id
    BY <1>0
  <2>2. PICK n \in 1 .. Len(w) :
          /\ w[n].flag /\ w[n].id = i /\ r[i] = w[n].val
          /\ \A j \in 1 .. Len(w) : w[j].flag /\ w[j].id = i => j <= n
    BY <1>3, <2>1, RecoveredAt
  <2>3. CASE n = k
    BY <2>1, <2>2, <2>3
  <2>4. CASE n # k
    <3>1. n > k
      BY <1>3, <2>1, <2>2, <2>4
    <3> QED BY <1>2, <2>1, <2>2, <3>1
  <2> QED BY <2>3, <2>4
<1>4. ASSUME NEW i \in Ids
      PROVE  \/ \E m \in {r} : m[i] = None
             \/ \E j \in 1 .. Len(w) : w[j].id = i /\ Kept(<<>>, w, j)
  <2>1. CASE r[i] = None
    BY <2>1
  <2>2. CASE r[i] # None
    <3>1. PICK n \in 1 .. Len(w) : w[n].flag /\ w[n].id = i
      BY <2>2, RecoveredAt
    <3> QED BY <1>2, <3>1
  <2> QED BY <2>1, <2>2
<1> QED BY <1>1, <1>3, <1>4 DEF Covers

\* The engine appends a record,
LEMMA CoversAppend ==
    ASSUME NEW w \in Seq(WalRecord), NEW W \in Seq(WalRecord), NEW Rs, Covers(Rs, W, w), Behind(W, w),
           NEW r \in WalRecord, r.flag = FALSE
    PROVE  Covers(Rs, W, Append(w, r)) /\ Behind(W, Append(w, r))
<1>1. PICK v : v = Append(w, r)
  OBVIOUS
<1>2. /\ Len(v) = Len(w) + 1 /\ Len(w) \in Nat /\ Len(W) \in Nat /\ Len(W) <= Len(w)
      /\ \A k \in 1 .. Len(w) : v[k] = w[k]
      /\ v[Len(v)] = r
  BY <1>1 DEF Behind
<1>3. Behind(W, v)
  BY <1>2 DEF Behind
<1>4. \A j \in 1 .. Len(w) : Kept(W, w, j) => j \in 1 .. Len(v) /\ Kept(W, v, j) /\ v[j].id = w[j].id
  BY <1>2 DEF Kept
<1>5. ASSUME NEW k \in 1 .. Len(v), v[k].flag
      PROVE  \/ \E m \in Rs : m[v[k].id] = v[k].val
             \/ \E j \in 1 .. Len(v) : j > k /\ v[j].id = v[k].id /\ Kept(W, v, j)
  <2>1. k \in 1 .. Len(w) /\ v[k] = w[k]
    BY <1>2, <1>5
  <2> QED BY <1>4, <1>5, <2>1 DEF Covers
<1>6. ASSUME NEW i \in Ids
      PROVE  \/ \E m \in Rs : m[i] = None
             \/ \E j \in 1 .. Len(v) : v[j].id = i /\ Kept(W, v, j)
  BY <1>4 DEF Covers
<1> QED BY <1>1, <1>3, <1>5, <1>6 DEF Covers

\* commits the last one, which adds what recovery then finds,
LEMMA CoversCommit ==
    ASSUME NEW w \in Seq(WalRecord), NEW W \in Seq(WalRecord), NEW Rs, Covers(Rs, W, w), Behind(W, w),
           w # <<>>, w[Len(w)].flag = FALSE,
           NEW v, v = [w EXCEPT ![Len(w)].flag = TRUE], NEW r \in Docs, r = Recovered(v)
    PROVE  Covers(Rs \cup {r}, W, v) /\ Behind(W, v)
<1>0. PICK n \in Nat \ {0} : n = Len(w)
  OBVIOUS
<1>1. PICK u \in WalRecord : u = w[n]
  BY <1>0
<1>2. PICK t : t = [u EXCEPT !.flag = TRUE]
  OBVIOUS
<1>3. t.id = u.id /\ t.val = u.val /\ t.flag = TRUE /\ t \in WalRecord /\ u.id \in Ids
  BY <1>2 DEF WalRecord
<1>4. v = [w EXCEPT ![n] = t]
  BY <1>0, <1>1, <1>2
<1>5. /\ v \in Seq(WalRecord) /\ Len(v) = n /\ v[n] = t
      /\ \A k \in 1 .. n : k # n => v[k] = w[k]
  <2>1. w \in [1 .. n -> WalRecord] /\ n \in 1 .. n
    BY <1>0
  <2>2. v \in [1 .. n -> WalRecord] /\ v[n] = t /\ \A k \in 1 .. n : k # n => v[k] = w[k]
    BY <1>3, <1>4, <2>1
  <2>3. v \in Seq(WalRecord)
    BY <1>0, <2>2
  <2> QED BY <1>0, <2>2, <2>3
<1>6. \A k \in 1 .. n : v[k].id = w[k].id /\ v[k].val = w[k].val /\ (w[k].flag => v[k].flag)
  BY <1>1, <1>3, <1>5
<1>7. Behind(W, v)
  BY <1>0, <1>5, <1>6 DEF Behind
<1>8. \A j \in 1 .. n : Kept(W, w, j) => Kept(W, v, j)
  BY <1>6 DEF Kept
<1>9. r[u.id] = u.val
  <2>1. r = [Recovered(w) EXCEPT ![u.id] = u.val]
    BY <1>0, <1>1, CommitLast
  <2>2. Recovered(w) \in Docs
    BY RecoveredType
  <2> QED BY <1>3, <2>1, <2>2 DEF Docs
<1>10. ASSUME NEW k \in 1 .. n, v[k].flag
       PROVE  \/ \E m \in Rs \cup {r} : m[v[k].id] = v[k].val
              \/ \E j \in 1 .. n : j > k /\ v[j].id = v[k].id /\ Kept(W, v, j)
  <2>1. CASE k = n
    BY <1>3, <1>5, <1>9, <2>1
  <2>2. CASE k # n
    <3>1. w[k].flag
      BY <1>5, <1>10, <2>2
    <3>2. \/ \E m \in Rs : m[w[k].id] = w[k].val
          \/ \E j \in 1 .. n : j > k /\ w[j].id = w[k].id /\ Kept(W, w, j)
      BY <1>0, <3>1 DEF Covers
    <3> QED BY <1>6, <1>8, <3>2
  <2> QED BY <2>1, <2>2
<1>11. ASSUME NEW i \in Ids
       PROVE  \/ \E m \in Rs \cup {r} : m[i] = None
              \/ \E j \in 1 .. n : v[j].id = i /\ Kept(W, v, j)
  <2>1. \/ \E m \in Rs : m[i] = None
        \/ \E j \in 1 .. n : w[j].id = i /\ Kept(W, w, j)
    BY <1>0 DEF Covers
  <2> QED BY <1>6, <1>8, <2>1
<1> QED BY <1>5, <1>7, <1>10, <1>11 DEF Covers

CopyTo(W, w, n) == W \o SubSeq(w, Len(W) + 1, n)

\* and the copy goes on.
LEMMA CoversCopy ==
    ASSUME NEW w \in Seq(WalRecord), NEW W \in Seq(WalRecord), NEW Rs, Covers(Rs, W, w), Behind(W, w),
           NEW n \in Nat, Len(W) <= n, n <= Len(w)
    PROVE  /\ Covers(Rs, CopyTo(W, w, n), w) /\ Behind(CopyTo(W, w, n), w)
           /\ Len(CopyTo(W, w, n)) = n
<1>v. PICK V : V = CopyTo(W, w, n)
  OBVIOUS
<1>0. PICK l \in Nat : l = Len(W)
  OBVIOUS
<1>1. Len(w) \in Nat /\ n \in Nat /\ n >= l /\ n <= Len(w)
  BY <1>0
<1>2. PICK T : T = SubSeq(w, l + 1, n)
  OBVIOUS
<1>3. T \in Seq(WalRecord) /\ Len(T) = n - l /\ \A k \in 1 .. n - l : T[k] = w[l + k]
  <2>1. \A k \in (l + 1) .. n : w[k] \in WalRecord
    BY <1>1
  <2> QED BY <1>1, <1>2, <2>1
<1>4. /\ Len(V) = n
      /\ \A k \in 1 .. l : V[k] = W[k]
      /\ \A k \in (l + 1) .. n : V[k] = T[k - l]
  <2>1. V = W \o T
    BY <1>v, <1>0, <1>2 DEF CopyTo
  <2>2. Len(V) = n
    <3>0. W \in Seq(WalRecord) /\ T \in Seq(WalRecord)
      BY <1>3
    <3>1. Len(V) = Len(W) + Len(T)
      BY <2>1, <3>0
    <3>2. l + (n - l) = n
      BY <1>0, <1>1
    <3> QED BY <1>0, <1>3, <3>1, <3>2
  <2>3. \A k \in 1 .. l : V[k] = W[k]
    BY <1>0, <1>3, <2>1
  <2>4. ASSUME NEW k \in (l + 1) .. n PROVE V[k] = T[k - l]
    <3>1. k \in 1 .. Len(W) + Len(T) /\ ~(k <= Len(W))
      BY <1>0, <1>1, <1>3
    <3> QED BY <1>0, <1>3, <2>1, <3>1
  <2> QED BY <2>2, <2>3, <2>4
<1>5. \A k \in (l + 1) .. n : V[k] = w[k]
  <2> SUFFICES ASSUME NEW k \in (l + 1) .. n PROVE V[k] = w[k]
    OBVIOUS
  <2>1. k - l \in 1 .. n - l /\ l + (k - l) = k
    BY <1>1
  <2> QED BY <1>3, <1>4, <2>1
<1>6. \A k \in 1 .. n : k \in 1 .. l \/ k \in (l + 1) .. n
  BY <1>1
<1>7. Behind(V, w)
  <2> SUFFICES ASSUME NEW k \in 1 .. n
               PROVE  V[k].id = w[k].id /\ V[k].val = w[k].val /\ (V[k].flag => w[k].flag)
    BY <1>1, <1>4 DEF Behind
  <2>1. CASE k \in 1 .. l
    BY <1>0, <1>4, <2>1 DEF Behind
  <2>2. CASE k \in (l + 1) .. n
    BY <1>5, <2>2
  <2> QED BY <1>6, <2>1, <2>2
<1>8. \A j \in 1 .. Len(w) : Kept(W, w, j) => Kept(V, w, j)
  <2> SUFFICES ASSUME NEW j \in 1 .. Len(w), Kept(W, w, j), j <= n PROVE V[j].flag
    BY <1>4 DEF Kept
  <2>1. CASE j \in 1 .. l
    BY <1>0, <1>4, <2>1 DEF Kept
  <2>2. CASE j \in (l + 1) .. n
    BY <1>5, <2>2 DEF Kept
  <2> QED BY <1>1, <1>6, <2>1, <2>2
<1> QED BY <1>v, <1>4, <1>7, <1>8 DEF Covers

\* When the whole WAL is copied, each document recovered from the copy is as it
\* was at one of the moments.
LEMMA CoversEnd ==
    ASSUME NEW w \in Seq(WalRecord), NEW W \in Seq(WalRecord), NEW Rs, Covers(Rs, W, w), Behind(W, w),
           Len(W) = Len(w), NEW i \in Ids
    PROVE  \E m \in Rs : m[i] = Recovered(W)[i]
<1>0. Len(w) \in Nat
  OBVIOUS
<1>1. CASE \A k \in 1 .. Len(W) : W[k].flag => W[k].id # i
  <2>1. Recovered(W)[i] = None
    BY <1>1, RecoveredAt
  <2>2. \A j \in 1 .. Len(w) : w[j].id = i => ~Kept(W, w, j)
    BY <1>0, <1>1 DEF Behind, Kept
  <2> QED BY <2>1, <2>2 DEF Covers
<1>2. CASE ~\A k \in 1 .. Len(W) : W[k].flag => W[k].id # i
  <2>1. PICK k \in 1 .. Len(W) :
          /\ W[k].flag /\ W[k].id = i /\ Recovered(W)[i] = W[k].val
          /\ \A j \in 1 .. Len(W) : W[j].flag /\ W[j].id = i => j <= k
    BY <1>2, RecoveredAt
  <2>2. w[k].flag /\ w[k].id = i /\ w[k].val = W[k].val /\ k \in 1 .. Len(w)
    BY <2>1 DEF Behind
  <2>3. \A j \in 1 .. Len(w) : j > k /\ w[j].id = i => ~Kept(W, w, j)
    BY <1>0, <2>1 DEF Behind, Kept
  <2>4. \E m \in Rs : m[w[k].id] = w[k].val
    BY <2>2, <2>3 DEF Covers
  <2> QED BY <2>1, <2>2, <2>4
<1> QED BY <1>1, <1>2

\* The documents of a copy with so many commits: one commit changes one of them.
FewCommits(Rs, r, n) ==
    /\ n = 0 => Rs = {r}
    /\ n = 1 => \E q \in Docs, i \in Ids : Rs \subseteq {q, r} /\ \A j \in Ids : j # i => q[j] = r[j]

\* With at most one, documents that are each of some moment are all of one.
LEMMA OneMoment ==
    ASSUME NEW Rs \in SUBSET Docs, NEW r \in Docs, NEW n, n = 0 \/ n = 1, FewCommits(Rs, r, n),
           NEW d \in Docs, \A i \in Ids : \E m \in Rs : m[i] = d[i]
    PROVE  d \in Rs
<1>1. CASE n = 0
  <2>1. Rs = {r}
    BY <1>1 DEF FewCommits
  <2>2. \A i \in Ids : d[i] = r[i]
    BY <2>1
  <2>3. d = r
    BY <2>2 DEF Docs
  <2> QED BY <2>1, <2>3
<1>2. CASE n = 1
  <2>1. PICK q \in Docs, i \in Ids : Rs \subseteq {q, r} /\ \A j \in Ids : j # i => q[j] = r[j]
    BY <1>2 DEF FewCommits
  <2>2. PICK m \in Rs : m[i] = d[i]
    OBVIOUS
  <2>3. ASSUME NEW j \in Ids PROVE d[j] = m[j]
    <3>1. CASE j = i
      BY <2>2, <3>1
    <3>2. CASE j # i
      <4>1. PICK k \in Rs : k[j] = d[j]
        OBVIOUS
      <4> QED BY <2>1, <3>2, <4>1
    <3> QED BY <3>1, <3>2
  <2>4. m \in Docs
    OBVIOUS
  <2>5. d = m
    BY <2>3, <2>4 DEF Docs
  <2> QED BY <2>5
<1> QED BY <1>1, <1>2

-----------------------------------------------------------------------------
(* The main file while its header counts its pages.                        *)

\* A database that was never compacted has no image in its main file, nor has a
\* copy of it.
Has(s) == snaps[s].main # None \/ (job.kind = "create" /\ job.id = s)
NoImage ==
    compactions = 0 =>
      numPages = 1 /\ pageCount = 1 /\ \A s \in SnapIds : Has(s) => snaps[s].main.numPages = 1

\* A page the header does not count (engine.rs:235) takes a compaction and a
\* failing write.
Steady == ioErrors = 0 \/ compactions = 0
LEMMA SteadyCounted ==
    ASSUME BaseInv, NoImage, Steady
    PROVE  Counted
BY DEF BaseInv, EngineBase, CountOK, NoImage, Steady, Counted

\* Both are counted.
LEMMA CountsGrow ==
    ASSUME BaseInv, [BNext]_bvars
    PROVE  (compactions' = 0 => compactions = 0) /\ (ioErrors' = 0 => ioErrors = 0)
<1>0. compactions \in Nat /\ ioErrors \in Nat
  BY DEF BaseInv, EngineBase, TypeOK
<1>s. ASSUME UNCHANGED counters
      PROVE  (compactions' = 0 => compactions = 0) /\ (ioErrors' = 0 => ioErrors = 0)
  BY <1>s DEF counters
<1>1. CASE [Next]_vars
  <2>1. ASSUME NEW i \in Ids, NEW v \in Vals, Insert(i, v) \/ Update(i, v)
        PROVE  UNCHANGED counters
    BY <2>1, Zenon DEF Insert, Update
  <2>2. ASSUME NEW i \in Ids, Delete(i) PROVE UNCHANGED counters
    BY <2>2, Zenon DEF Delete
  <2>3. ASSUME OpenOk \/ OpenFails PROVE compactions' = compactions /\ ioErrors' = ioErrors
    BY <2>3, Zenon DEF OpenOk, OpenFails, Start, counters
  <2>4. CASE UNCHANGED vars
    BY <2>4 DEF counters, vars
  <2>5. CASE Compact
    BY <1>0, <2>5 DEF Compact
  <2>6. ASSUME AppendRecord \/ CommitRecord \/ Apply \/ PublishLength \/ PublishBody
        PROVE  compactions' = compactions /\ ioErrors' = ioErrors
    BY <2>6, Zenon DEF AppendRecord, CommitRecord, Apply, PublishLength, PublishBody, counters
  <2>7. ASSUME AllocateHeader \/ AllocateZero \/ WriteChunk \/ WriteTrailer \/ ResetWal \/ ResetFeed
        PROVE  compactions' = compactions /\ ioErrors' = ioErrors
    BY <2>7, Zenon DEF AllocateHeader, AllocateZero, WriteChunk, WriteTrailer, ResetWal, ResetFeed,
       counters
  <2>8. CASE Crash
    BY <2>8 DEF Crash
  <2>9. CASE PowerLoss
    BY <2>9 DEF PowerLoss
  <2>10. CASE IoError
    <3>1. ioErrors' = ioErrors + 1 /\ compactions' = compactions
      BY <2>10 DEF IoError
    <3> QED BY <1>0, <3>1
  <2> QED BY <1>s, <1>1, <2>1, <2>2, <2>3, <2>4, <2>5, <2>6, <2>7, <2>8, <2>9, <2>10 DEF Next, CallStep
<1>2. CASE EngineStep
  BY <1>1, <1>2, BaseEngineStep
<1>3. CASE UNCHANGED bvars
  BY <1>1, <1>3 DEF bvars
<1>4. CASE CreateSnapshot \/ CopyMain \/ CreateWalCopy \/ CopyWal \/ WriteMeta \/ RemoveFile \/ JobCutOff \/ Tick
  <2>1. UNCHANGED vars
    BY <1>4, Zenon DEF CreateSnapshot, CopyMain, CreateWalCopy, CopyWal, WriteMeta,
       RemoveFile, JobCutOff, Tick
  <2> QED BY <1>1, <2>1
<1>5. ASSUME NEW s \in SnapIds, DeleteSnapshot(s)
      PROVE  UNCHANGED vars
  BY <1>5, Zenon DEF DeleteSnapshot
<1>6. ASSUME NEW s \in SnapIds, RestoreSnapshot(s)
      PROVE  UNCHANGED counters
  BY <1>6, Zenon DEF RestoreSnapshot
<1>7. CASE RestoreMain \/ RestoreWal \/ RestoreWalCutOff
  BY <1>s, <1>7, Zenon DEF RestoreMain, RestoreWal, RestoreWalCutOff
<1> QED BY <1>s, <1>1, <1>2, <1>3, <1>4, <1>5, <1>6, <1>7 DEF BNext

-----------------------------------------------------------------------------
(* The copy in progress.                                                   *)

CopiedWal == IF job.step = "wal" THEN snaps[job.id].wal ELSE <<>>

\* While no compaction runs, the copied pages are those of the main file,
MainCopied ==
    job.kind = "create" /\ ~taken[job.id].compacted /\ Steady =>
      LET main == snaps[job.id].main IN
        /\ call.step \notin Compacting
        /\ job.step = "main" /\ job.pos > 0 =>
             main.numPages = numPages /\ \A p \in PageNos : p < job.pos => main.pages[p] = pages[p]
        /\ job.step = "wal" => main.numPages = numPages /\ SameImage(main.pages, pages)

\* and Rs is what recovery would have found at its moments.
Account(Rs) ==
    /\ Recovered(wal) \in Rs
    /\ \A r \in Rs : ShownIn(r, pages, numPages) \in taken[job.id].moments
    /\ Covers(Rs, CopiedWal, wal) /\ Behind(CopiedWal, wal)
    /\ FewCommits(Rs, Recovered(wal), taken[job.id].commits)
WalCopied ==
    job.kind = "create" /\ ~taken[job.id].compacted /\ Steady =>
      /\ job.step = "wal" => job.pos = Len(snaps[job.id].wal)
      /\ \E Rs \in SUBSET Docs : Account(Rs)

\* What create_snapshot starts from.
LEMMA CreateFacts ==
    ASSUME BaseInv, CreateSnapshot
    PROVE  /\ job'.kind = "create" /\ job'.id = now /\ job'.step = "main" /\ job'.pos = 0
           /\ job.kind = "none" /\ now \in SnapIds
           /\ snaps'[now].main = Empty
           /\ taken'[now].moments = {Shown} /\ taken'[now].commits = 0
           /\ ~taken'[now].compacted => call.step \notin Compacting
           /\ \A t \in SnapIds : t # now => snaps'[t] = snaps[t] /\ taken'[t] = taken[t]
           /\ UNCHANGED <<wal, pages, numPages, docs, mode, call, ioErrors, compactions, restored>>
<1>0. /\ BackupTypes /\ EngineBase /\ now \in SnapIds /\ snaps \in [SnapIds -> SnapFiles]
      /\ taken \in [SnapIds -> TakenRecord]
  BY BaseFacts
<1>1. /\ job.kind = "none" /\ job'.kind = "create" /\ job'.id = now
      /\ job'.step = "main" /\ job'.pos = 0
  BY <1>0, BeginJob DEF CreateSnapshot
<1>2. snaps' = SetMain(snaps, now, Empty)
  BY DEF CreateSnapshot, SetMain
<1>3. snaps'[now].main = Empty /\ \A t \in SnapIds : t # now => snaps'[t] = snaps[t]
  BY <1>0, <1>2, EmptyFile, WriteMainFile
<1>4. PICK u : u = [moments |-> {Shown}, commits |-> 0, compacted |-> call.step \in Compacting,
                    whole |-> snaps[now] = NoSnap, logged |-> "wal" \in files]
  OBVIOUS
<1>5. u.moments = {Shown} /\ u.commits = 0
  BY <1>4
<1>6. ~u.compacted => call.step \notin Compacting
  BY <1>4
<1>7. taken' = [taken EXCEPT ![now] = u]
  BY <1>4, Zenon DEF CreateSnapshot
<1>8. taken'[now] = u /\ \A t \in SnapIds : t # now => taken'[t] = taken[t]
  BY <1>0, <1>7
<1>9. UNCHANGED <<wal, pages, numPages, docs, mode, call, ioErrors, compactions, restored>>
  BY DEF CreateSnapshot, vars
<1> QED BY <1>0, <1>1, <1>3, <1>5, <1>6, <1>8, <1>9

\* It starts,
LEMMA CopyCreate ==
    ASSUME BaseInv, CreateSnapshot
    PROVE  MainCopied' /\ WalCopied'
<1>0. /\ job'.kind = "create" /\ job'.id = now /\ job'.step = "main" /\ job'.pos = 0
      /\ taken'[now].moments = {Shown} /\ taken'[now].commits = 0
      /\ ~taken'[now].compacted => call.step \notin Compacting
      /\ UNCHANGED <<wal, pages, numPages, call>>
  BY CreateFacts
<1>1. MainCopied'
  BY <1>0 DEF MainCopied
<1>2. PICK r : r = Recovered(wal)
  OBVIOUS
<1>3. wal \in Seq(WalRecord) /\ r \in Docs
  BY <1>2, BaseFacts, RecoveredType
<1>4. Covers({r}, <<>>, wal) /\ Behind(<<>>, wal)
  BY <1>2, <1>3, CoversStart
<1>5. CopiedWal' = <<>>
  BY <1>0 DEF CopiedWal
<1>6. ShownIn(r, pages, numPages) \in taken'[now].moments
  BY <1>0, <1>2, ShownIs
<1>7. FewCommits({r}, r, 0)
  BY DEF FewCommits
<1>8. Account({r})'
  BY <1>0, <1>2, <1>4, <1>5, <1>6, <1>7 DEF Account
<1>9. {r} \in SUBSET Docs
  BY <1>3
<1> QED BY <1>0, <1>1, <1>8, <1>9 DEF WalCopied

\* copies a chunk of the main file,
LEMMA CopyMainStep ==
    ASSUME BaseInv, MainCopied, WalCopied, CopyMain
    PROVE  /\ MainCopied' /\ WalCopied' /\ job.kind = "create" /\ job'.kind = "create" /\ job'.id = job.id
           /\ \A t \in SnapIds : t # job.id => snaps'[t] = snaps[t]
           /\ snaps'[job.id].main.numPages =
                IF job.pos = 0 THEN numPages ELSE snaps[job.id].main.numPages
<1>0. /\ JobOK /\ snaps \in [SnapIds -> SnapFiles] /\ job \in JobRecord /\ job.pos \in Nat
      /\ Main \in MainFile /\ Main.pages = pages /\ Main.numPages = numPages
      /\ pages \in [PageNos -> Page]
  BY BaseFacts
<1>1. /\ job.kind = "create" /\ job.step = "main" /\ ~AtEof(Main) /\ job.id \in SnapIds
      /\ UNCHANGED <<wal, pages, numPages, call, taken>> /\ (Steady' <=> Steady)
  BY BaseFacts DEF CopyMain, vars, Steady
<1>2. PICK to \in MainFile : to = snaps[job.id].main
  BY <1>0, <1>1 DEF JobOK
<1>3. PICK F : F = CopyChunk(Main, to)
  OBVIOUS
<1>4. PICK n : n = NextPos(Main)
  OBVIOUS
<1>5. to.pages \in [PageNos -> Page] /\ to.numPages \in Nat
  BY DEF MainFile
<1>6. /\ F.numPages = IF job.pos = 0 THEN Main.numPages ELSE to.numPages
      /\ n \in Nat /\ n > job.pos
      /\ \A p \in PageNos : p < job.pos => F.pages[p] = to.pages[p]
      /\ \A p \in PageNos : p >= job.pos /\ p < n => F.pages[p] = Main.pages[p]
  BY <1>0, <1>1, <1>3, <1>4, <1>5, ChunkCopied
<1>7. snaps' = [snaps EXCEPT ![job.id].main = F] /\ job' = [job EXCEPT !.pos = n]
  BY <1>2, <1>3, <1>4 DEF CopyMain
<1>8. job'.kind = "create" /\ job'.id = job.id /\ job'.step = "main" /\ job'.pos = n
  BY <1>0, <1>1, <1>7 DEF JobRecord
<1>9. snaps'[job.id].main = F /\ \A t \in SnapIds : t # job.id => snaps'[t] = snaps[t]
  BY <1>0, <1>1, <1>7 DEF SnapFiles
<1>10. PageNos \subseteq Nat
  BY DEF PageNos
<1>11. ASSUME ~taken[job.id].compacted, Steady
       PROVE  /\ call.step \notin Compacting /\ F.numPages = numPages
              /\ \A p \in PageNos : p < n => F.pages[p] = pages[p]
  <2>1. /\ call.step \notin Compacting
        /\ job.pos > 0 => to.numPages = numPages /\ \A p \in PageNos : p < job.pos => to.pages[p] = pages[p]
    BY <1>1, <1>2, <1>11 DEF MainCopied
  <2>2. F.numPages = numPages
    BY <1>0, <1>6, <2>1
  <2>3. ASSUME NEW p \in PageNos, p < n PROVE F.pages[p] = pages[p]
    <3>1. CASE p < job.pos
      BY <1>0, <1>6, <1>10, <2>1, <3>1
    <3>2. CASE ~(p < job.pos)
      BY <1>0, <1>6, <1>10, <2>3, <3>2
    <3> QED BY <3>1, <3>2
  <2> QED BY <2>1, <2>2, <2>3
<1>12. MainCopied'
  BY <1>1, <1>8, <1>9, <1>11 DEF MainCopied
<1>13. CopiedWal' = <<>> /\ CopiedWal = <<>>
  BY <1>1, <1>8 DEF CopiedWal
<1>14. \A Rs : Account(Rs) => Account(Rs)'
  BY <1>1, <1>8, <1>13 DEF Account
<1>15. WalCopied'
  BY <1>1, <1>8, <1>14 DEF WalCopied
<1> QED BY <1>0, <1>1, <1>2, <1>6, <1>8, <1>9, <1>12, <1>15

\* has the whole main file when it gets to its end,
LEMMA MainWhole ==
    ASSUME BaseInv, MainCopied, job.kind = "create", job.step = "main", AtEof(Main),
           ~taken[job.id].compacted, Steady
    PROVE  /\ call.step \notin Compacting /\ snaps[job.id].main.numPages = numPages
           /\ SameImage(snaps[job.id].main.pages, pages)
<1>0. JobOK /\ CopyShape /\ FileOK(pages, numPages) /\ job.pos \in Nat /\ Main.pages = pages
  BY BaseFacts
<1>3. PICK M : M = snaps[job.id].main
  OBVIOUS
<1>4. job.pos > 0 /\ (job.pos \notin PageNos \/ pages[job.pos] = Eof)
  BY <1>0 DEF AtEof
<1>5. \A p \in PageNos : M.pages[p] = Eof <=> p >= job.pos
  BY <1>0, <1>3 DEF CopyShape
<1>6. PICK top \in Nat : PageNos = 1 .. top
  BY EngineAssumptions, FS_CardinalityType DEF PageNos
<1>7. ~Written(Eof)
  BY DEF Written, Eof
<1>8. /\ call.step \notin Compacting /\ M.numPages = numPages
      /\ \A p \in PageNos : p < job.pos => M.pages[p] = pages[p]
  BY <1>3, <1>4 DEF MainCopied
<1>9. ASSUME NEW p \in PageNos, ~(p < job.pos) PROVE ~Written(M.pages[p]) /\ ~Written(pages[p])
  <2>1. M.pages[p] = Eof /\ job.pos \in PageNos
    BY <1>0, <1>4, <1>5, <1>6, <1>9
  <2>2. CASE p = job.pos
    BY <1>4, <1>7, <2>1, <2>2
  <2>3. CASE p # job.pos
    <3>1. job.pos < p
      BY <1>0, <1>6, <1>9, <2>3
    <3>2. pages[job.pos] = Eof /\ Contiguous(pages)
      BY <1>0, <1>4, <2>1 DEF FileOK
    <3> QED BY <1>7, <2>1, <3>1, <3>2 DEF Contiguous
  <2> QED BY <2>2, <2>3
<1>10. SameImage(M.pages, pages)
  BY <1>8, <1>9 DEF SameImage
<1> QED BY <1>3, <1>8, <1>10

\* goes on with the WAL,
LEMMA CopyWalCreated ==
    ASSUME BaseInv, MainCopied, WalCopied, CreateWalCopy
    PROVE  MainCopied' /\ WalCopied'
<1>1. /\ job'.kind = "create" /\ job'.id = job.id /\ job'.step = "wal" /\ job'.pos = 0
      /\ snaps'[job.id].wal = <<>> /\ job.id \in SnapIds
      /\ \A t \in SnapIds : snaps'[t].main = snaps[t].main
  BY BaseCreateWalCopy, BaseFacts DEF CreateWalCopy
<1>2. /\ job.kind = "create" /\ job.step = "main" /\ AtEof(Main)
      /\ UNCHANGED <<wal, pages, numPages, call, taken>> /\ (Steady' <=> Steady)
  BY DEF CreateWalCopy, vars, Steady
<1>3. MainCopied'
  BY <1>1, <1>2, MainWhole DEF MainCopied
<1>4. CopiedWal' = <<>> /\ CopiedWal = <<>>
  BY <1>1, <1>2 DEF CopiedWal
<1>5. \A Rs : Account(Rs) => Account(Rs)'
  BY <1>1, <1>2, <1>4 DEF Account
<1>6. Len(<<>>) = 0
  OBVIOUS
<1>7. WalCopied'
  BY <1>1, <1>2, <1>5, <1>6 DEF WalCopied
<1> QED BY <1>3, <1>7

LEMMA CopyWalStep ==
    ASSUME BaseInv, MainCopied, WalCopied, CopyWal
    PROVE  MainCopied' /\ WalCopied'
<1>1. /\ job'.kind = "create" /\ job'.id = job.id /\ job'.step = "wal"
      /\ job.kind = "create" /\ job.step = "wal" /\ job.id \in SnapIds
      /\ \A t \in SnapIds : snaps'[t].main = snaps[t].main
      /\ UNCHANGED <<wal, pages, numPages, call, taken>> /\ (Steady' <=> Steady)
  BY BaseCopyWal, BaseFacts DEF CopyWal, vars, Steady
<1>2. PICK n \in job.pos .. Len(wal) :
        job'.pos = n /\ snaps'[job.id].wal = snaps[job.id].wal \o SubSeq(wal, job.pos + 1, n)
  BY BaseCopyWal
<1>3. MainCopied'
  BY <1>1 DEF MainCopied
<1>4. PICK W \in Seq(WalRecord) : W = snaps[job.id].wal
  BY <1>1, BaseFacts DEF JobOK
<1>5. PICK V : V = snaps'[job.id].wal
  OBVIOUS
<1>6. CopiedWal = W /\ CopiedWal' = V
  BY <1>1, <1>4, <1>5 DEF CopiedWal
<1>7. ASSUME ~taken[job.id].compacted, Steady PROVE job'.pos = Len(V) /\ \E Rs \in SUBSET Docs : Account(Rs)'
  <2>0. job.pos = Len(W) /\ Len(W) \in Nat /\ Len(wal) \in Nat
    BY <1>1, <1>4, <1>7, BaseFacts DEF WalCopied
  <2>1. V = CopyTo(W, wal, n) /\ n \in Nat /\ Len(W) <= n /\ n <= Len(wal)
    BY <1>2, <1>4, <1>5, <2>0 DEF CopyTo
  <2>2. PICK Rs \in SUBSET Docs : Account(Rs)
    BY <1>1, <1>7 DEF WalCopied
  <2>3. wal \in Seq(WalRecord) /\ Covers(Rs, W, wal) /\ Behind(W, wal)
    BY <1>6, <2>2, BaseFacts DEF Account
  <2>4. Covers(Rs, V, wal) /\ Behind(V, wal) /\ Len(V) = n
    BY <2>1, <2>3, CoversCopy
  <2>5. Account(Rs)'
    BY <1>1, <1>6, <2>2, <2>4 DEF Account
  <2> QED BY <1>2, <2>4, <2>5
<1>8. WalCopied'
  BY <1>1, <1>5, <1>7 DEF WalCopied
<1> QED BY <1>3, <1>8

\* A step of the engine commits at most one record, of one document.
LEMMA EngineRecovers ==
    ASSUME BaseInv, EngineStep
    PROVE  \/ wal' = wal
           \/ \E r \in WalRecord : r.flag = FALSE /\ wal' = Append(wal, r)
           \/ /\ wal # <<>> /\ wal[Len(wal)].flag = FALSE
              /\ wal' = [wal EXCEPT ![Len(wal)].flag = TRUE]
           \/ call.step = "walreset" /\ wal' = <<>>
<1>1. powerLosses' = powerLosses
  BY DEF EngineStep
<1> QED BY <1>1, BaseEngineStep, WalSteps DEF BaseInv, EngineBase

\* The engine works on while the copy is made.
LEMMA CopyEngine ==
    ASSUME BaseInv, MainCopied, WalCopied, NoImage, EngineStep
    PROVE  MainCopied' /\ WalCopied'
<1> SUFFICES ASSUME job'.kind = "create", ~taken'[job'.id].compacted, Steady'
             PROVE  MainCopied' /\ WalCopied'
  BY DEF MainCopied, WalCopied
<1>s. Steady /\ Counted
  <2>1. BNext
    BY DEF BNext
  <2> QED BY <2>1, CountsGrow, SteadyCounted DEF Steady
<1>1. UNCHANGED <<now, snaps, job>> /\ job.kind = "create" /\ job.id \in SnapIds
  BY BaseFacts DEF EngineStep
<1>2. [Next]_vars /\ BaseInv'
  BY BaseEngineStep
<1>3. Shown' \in SUBSET Docs
  BY <1>2, ShownType DEF BaseInv
<1>4. /\ taken'[job.id].moments = taken[job.id].moments \cup {Shown'}
      /\ ~taken[job.id].compacted /\ call'.step \notin Compacting
      /\ Recovered(wal') = Recovered(wal) => taken'[job.id].commits = taken[job.id].commits
      /\ Recovered(wal') # Recovered(wal) => taken'[job.id].commits = taken[job.id].commits + 1
  BY <1>1, <1>3, TakenStep DEF BaseInv
<1>5. call.step \notin Compacting
  BY <1>s, <1>1, <1>4 DEF MainCopied
<1>6. pages' = pages /\ numPages' = numPages
  BY <1>s, <1>2, <1>5, PagesStay DEF BaseInv, EngineBase
<1>7. MainCopied'
  BY <1>s, <1>1, <1>4, <1>6 DEF MainCopied
<1>8. CopiedWal' = CopiedWal
  BY <1>1 DEF CopiedWal
<1>9. PICK W \in Seq(WalRecord) : W = CopiedWal
  <2>1. <<>> \in Seq(WalRecord)
    OBVIOUS
  <2> QED BY <1>1, <2>1, BaseFacts DEF CopiedWal, JobOK
<1>10. PICK Rs \in SUBSET Docs : Account(Rs)
  BY <1>s, <1>1, <1>4 DEF WalCopied
<1>11. /\ wal \in Seq(WalRecord) /\ wal' \in Seq(WalRecord) /\ taken[job.id].commits \in Nat
  BY <1>1, <1>2, BaseFacts DEF BaseInv, EngineBase, TypeOK, TakenRecord
<1>12. PICK r \in Docs : r = Recovered(wal)
  BY <1>11, RecoveredType
<1>13. PICK v \in Docs : v = Recovered(wal')
  BY <1>11, RecoveredType
<1>14. PICK n \in Nat : n = taken[job.id].commits
  BY <1>11
<1>15. /\ r \in Rs /\ Covers(Rs, W, wal) /\ Behind(W, wal) /\ FewCommits(Rs, r, n)
       /\ \A q \in Rs : ShownIn(q, pages, numPages) \in taken[job.id].moments
  BY <1>9, <1>10, <1>12, <1>14 DEF Account
<1>16. ShownIn(v, pages, numPages) \in taken'[job.id].moments
  BY <1>4, <1>6, <1>13, ShownIs
<1>17. PICK Vs \in SUBSET Docs : Vs = Rs \cup {v}
  BY <1>10
<1>18. \A q \in Vs : ShownIn(q, pages, numPages) \in taken'[job.id].moments
  BY <1>4, <1>15, <1>16, <1>17
<1>19. /\ Covers(Vs, W, wal') /\ Behind(W, wal')
       /\ v # r => \E i \in Ids : \A j \in Ids : j # i => r[j] = v[j]
  <2>1. CASE wal' = wal
    <3>1. v = r /\ Vs = Rs
      BY <1>12, <1>13, <1>15, <1>17, <2>1
    <3> QED BY <1>15, <2>1, <3>1
  <2>2. ASSUME NEW u \in WalRecord, u.flag = FALSE, wal' = Append(wal, u)
        PROVE  Covers(Vs, W, wal') /\ Behind(W, wal') /\ v = r
    <3>1. v = r
      BY <1>11, <1>12, <1>13, <2>2, AppendUncommitted
    <3>2. Vs = Rs
      BY <1>15, <1>17, <3>1
    <3>3. Covers(Rs, W, Append(wal, u)) /\ Behind(W, Append(wal, u))
      BY <1>9, <1>11, <1>15, <2>2, CoversAppend
    <3> QED BY <2>2, <3>1, <3>2, <3>3
  <2>3. CASE /\ wal # <<>> /\ wal[Len(wal)].flag = FALSE
             /\ wal' = [wal EXCEPT ![Len(wal)].flag = TRUE]
    <3>1. Covers(Rs \cup {v}, W, wal') /\ Behind(W, wal')
      BY <1>9, <1>11, <1>13, <1>15, <2>3, CoversCommit
    <3>2. PICK u \in WalRecord : u = wal[Len(wal)]
      BY <1>11, <2>3
    <3>3. v = [r EXCEPT ![u.id] = u.val]
      BY <1>11, <1>12, <1>13, <2>3, <3>2, CommitLast
    <3>4. u.id \in Ids
      BY DEF WalRecord
    <3>5. \A j \in Ids : j # u.id => r[j] = v[j]
      BY <1>12, <3>3 DEF Docs
    <3> QED BY <1>17, <3>1, <3>4, <3>5
  <2> QED BY <1>5, <2>1, <2>2, <2>3, EngineRecovers DEF Compacting
<1>20. FewCommits(Vs, v, taken'[job.id].commits)
  <2>1. CASE v = r
    <3>1. taken'[job.id].commits = n /\ Vs = Rs
      BY <1>4, <1>12, <1>13, <1>14, <1>15, <1>17, <2>1
    <3> QED BY <1>15, <2>1, <3>1
  <2>2. CASE v # r
    <3>1. taken'[job.id].commits = n + 1
      BY <1>4, <1>12, <1>13, <1>14, <2>2
    <3>2. PICK i \in Ids : \A j \in Ids : j # i => r[j] = v[j]
      BY <1>19, <2>2
    <3>3. n = 0 => Vs \subseteq {r, v}
      BY <1>15, <1>17 DEF FewCommits
    <3>4. n + 1 # 0 /\ (n + 1 = 1 => n = 0)
      BY <1>14
    <3> QED BY <1>12, <3>1, <3>2, <3>3, <3>4 DEF FewCommits
  <2> QED BY <2>1, <2>2
<1>21. Account(Vs)'
  BY <1>1, <1>6, <1>8, <1>9, <1>13, <1>17, <1>18, <1>19, <1>20 DEF Account
<1>22. WalCopied'
  BY <1>s, <1>1, <1>4, <1>17, <1>21 DEF WalCopied
<1> QED BY <1>7, <1>22

-----------------------------------------------------------------------------
(* Finished snapshots, and what a restore makes of them.                   *)

\* Documents d are each as they were at one of the moments.
EachFrom(d, moments) == \A i \in Ids : \E m \in UNION moments : d[i] = m[i]

\* What a whole copy, made without a compaction, would show.
Finished ==
    \A s \in SnapIds :
      Clean(s) /\ snaps[s].main # None /\ ~(job.kind = "create" /\ job.id = s) =>
        /\ ioErrors = 0 /\ taken[s].commits <= 1 =>
             ShownIn(Recovered(WalOf(snaps[s])), snaps[s].main.pages, snaps[s].main.numPages)
               \in taken[s].moments
        /\ compactions = 0 => EachFrom(Recovered(WalOf(snaps[s])), taken[s].moments)

\* What the restored database shows, and what an engine that opened it holds.
RestoredOK ==
    restored # 0 /\ Clean(restored) =>
      /\ ioErrors = 0 /\ taken[restored].commits <= 1 => Shown \in taken[restored].moments
      /\ compactions = 0 => EachFrom(Recovered(wal), taken[restored].moments)
OpenedOK ==
    restored # 0 /\ ioErrors = 0 /\ mode = "up" =>
      /\ call.step \in {"done", "append"} \cup Compacting
      /\ call.step # "append" => docs \in Shown

LEMMA CopyEnds ==
    ASSUME BaseInv, MainCopied, WalCopied, NoImage, WriteMeta, Clean(job.id)
    PROVE  /\ ioErrors = 0 /\ taken[job.id].commits <= 1 =>
                ShownIn(Recovered(WalOf(snaps[job.id])), snaps[job.id].main.pages,
                        snaps[job.id].main.numPages) \in taken[job.id].moments
           /\ compactions = 0 => EachFrom(Recovered(WalOf(snaps[job.id])), taken[job.id].moments)
<1> SUFFICES ASSUME Steady
             PROVE  /\ taken[job.id].commits <= 1 =>
                         ShownIn(Recovered(WalOf(snaps[job.id])), snaps[job.id].main.pages,
                                 snaps[job.id].main.numPages) \in taken[job.id].moments
                    /\ compactions = 0 =>
                         EachFrom(Recovered(WalOf(snaps[job.id])), taken[job.id].moments)
  BY DEF Steady
<1>0. /\ job.kind = "create" /\ job.id \in SnapIds
      /\ ~taken[job.id].compacted /\ taken[job.id].whole
  BY BaseFacts DEF WriteMeta, Clean
<1>1. wal \in Seq(WalRecord) /\ Len(wal) \in Nat /\ numPages \in Nat /\ NumOK(numPages)
  BY DEF BaseInv, EngineBase, TypeOK, FileOK
<1>2. PICK W \in Seq(WalRecord) :
        /\ W = WalOf(snaps[job.id]) /\ W = CopiedWal
        /\ Behind(W, wal) => Len(W) = Len(wal)
        /\ snaps[job.id].main.numPages = numPages /\ SameImage(snaps[job.id].main.pages, pages)
  <2>1. CASE job.step = "main" /\ AtEof(Main) /\ "wal" \notin files
    <3>1. wal = <<>> /\ snaps[job.id].wal = None /\ <<>> \in Seq(WalRecord)
      BY <1>0, <2>1, BaseFacts DEF WalFileOK
    <3>2. WalOf(snaps[job.id]) = <<>> /\ CopiedWal = <<>>
      BY <2>1, <3>1 DEF WalOf, CopiedWal
    <3> QED BY <1>0, <2>1, <3>1, <3>2, MainWhole
  <2>2. CASE job.step = "wal" /\ job.pos >= Len(wal)
    <3>1. PICK W \in Seq(WalRecord) : W = snaps[job.id].wal
      BY <1>0, <2>2, BaseFacts DEF JobOK
    <3>2. WalOf(snaps[job.id]) = W /\ CopiedWal = W /\ job.pos = Len(W)
      BY <1>0, <2>2, <3>1, BackupAssumptions DEF WalOf, CopiedWal, WalCopied
    <3>3. Behind(W, wal) => Len(W) = Len(wal)
      BY <1>1, <2>2, <3>1, <3>2 DEF Behind
    <3>4. snaps[job.id].main.numPages = numPages /\ SameImage(snaps[job.id].main.pages, pages)
      BY <1>0, <2>2 DEF MainCopied
    <3> QED BY <3>1, <3>2, <3>3, <3>4
  <2> QED BY <2>1, <2>2 DEF WriteMeta
<1>4. PICK Rs \in SUBSET Docs : Account(Rs)
  BY <1>0 DEF WalCopied
<1>5. /\ Covers(Rs, W, wal) /\ Behind(W, wal)
      /\ \A q \in Rs : ShownIn(q, pages, numPages) \in taken[job.id].moments
  BY <1>2, <1>4 DEF Account
<1>6. Len(W) = Len(wal)
  BY <1>2, <1>5
<1>7. PICK d \in Docs : d = Recovered(W)
  BY <1>2, RecoveredType
<1>8. \A i \in Ids : \E m \in Rs : m[i] = d[i]
  BY <1>1, <1>2, <1>5, <1>6, <1>7, CoversEnd
<1>9. PICK M : M = snaps[job.id].main
  OBVIOUS
<1>10. M.numPages = numPages /\ SameImage(M.pages, pages)
  BY <1>2, <1>9
<1>11. ASSUME taken[job.id].commits <= 1 PROVE ShownIn(d, M.pages, M.numPages) \in taken[job.id].moments
  <2>1. PICK r \in Docs : r = Recovered(wal)
    BY <1>1, RecoveredType
  <2>2. PICK n \in Nat : n = taken[job.id].commits
    BY <1>0, BaseFacts DEF TakenRecord
  <2>3. FewCommits(Rs, r, n) /\ (n = 0 \/ n = 1)
    BY <1>4, <1>11, <2>1, <2>2 DEF Account
  <2>4. d \in Rs
    BY <1>4, <1>7, <1>8, <2>1, <2>3, OneMoment
  <2>5. ShownIn(d, M.pages, numPages) = ShownIn(d, pages, numPages)
    BY <1>1, <1>10, SameShown
  <2> QED BY <1>5, <1>10, <2>4, <2>5
<1>12. ASSUME compactions = 0 PROVE EachFrom(d, taken[job.id].moments)
  <2>1. numPages = 1
    BY <1>12 DEF NoImage
  <2>2. \A m \in Rs : {m} \in taken[job.id].moments
    BY <1>4, <1>5, <2>1, ShownWithoutImage
  <2>3. \A m \in Rs : m \in UNION taken[job.id].moments
    BY <2>2
  <2> QED BY <1>8, <2>3 DEF EachFrom
<1> QED BY <1>2, <1>7, <1>9, <1>11, <1>12

LEMMA FinishedNext ==
    ASSUME BaseInv, MainCopied, WalCopied, NoImage, Finished, [BNext]_bvars
    PROVE  Finished'
<1> SUFFICES ASSUME NEW s \in SnapIds, Clean(s)', snaps'[s].main # None,
                    ~(job'.kind = "create" /\ job'.id = s)
             PROVE  /\ ioErrors' = 0 /\ taken'[s].commits <= 1 =>
                         ShownIn(Recovered(WalOf(snaps'[s])), snaps'[s].main.pages,
                                 snaps'[s].main.numPages) \in taken'[s].moments
                    /\ compactions' = 0 => EachFrom(Recovered(WalOf(snaps'[s])), taken'[s].moments)
  BY DEF Finished, WalOf
<1>0. taken'[s].whole /\ ~taken'[s].compacted
  BY DEF Clean
<1>1. CASE WriteMeta /\ s = job.id
  <2>1. snaps'[s].main = snaps[s].main /\ snaps'[s].wal = snaps[s].wal /\ taken' = taken
    BY <1>1, BaseWriteMeta DEF WriteMeta
  <2>2. Clean(s) /\ WalOf(snaps'[s]) = WalOf(snaps[s])
    BY <1>0, <2>1 DEF Clean, WalOf
  <2> QED BY <1>1, <2>1, <2>2, CopyEnds, CountsGrow
<1>2. CASE /\ ~(job.kind = "create" /\ job.id = s) /\ taken'[s] = taken[s]
           /\ snaps'[s].main = snaps[s].main /\ snaps'[s].wal = snaps[s].wal
  <2>1. Clean(s) /\ WalOf(snaps'[s]) = WalOf(snaps[s])
    BY <1>0, <1>2 DEF Clean, WalOf
  <2> QED BY <1>2, <2>1, CountsGrow DEF Finished
<1> QED BY <1>0, <1>1, <1>2, SnapStep

LEMMA DatabaseSteps ==
    ASSUME [BNext]_bvars
    PROVE  \/ EngineStep
           \/ UNCHANGED <<vars, restored>> /\ (CreateSnapshot \/ JobCutOff \/ taken' = taken)
           \/ \E s \in SnapIds : RestoreSnapshot(s)
           \/ RestoreMain \/ RestoreWal \/ RestoreWalCutOff
<1>1. CASE UNCHANGED bvars
  BY <1>1 DEF bvars, backupVars
<1>2. CASE CreateSnapshot \/ JobCutOff
  BY <1>2 DEF CreateSnapshot, JobCutOff
<1>3. CASE CopyMain \/ CreateWalCopy \/ CopyWal \/ WriteMeta \/ RemoveFile \/ Tick
  BY <1>3 DEF CopyMain, CreateWalCopy, CopyWal, WriteMeta, RemoveFile, Tick
<1>4. ASSUME NEW s \in SnapIds, DeleteSnapshot(s) PROVE UNCHANGED <<vars, restored, taken>>
  BY <1>4 DEF DeleteSnapshot
<1> QED BY <1>1, <1>2, <1>3, <1>4 DEF BNext

\* The main files stay without an image while there is no compaction.
LEMMA NoImageNext ==
    ASSUME BaseInv, MainCopied, WalCopied, NoImage, [BNext]_bvars
    PROVE  NoImage'
<1> SUFFICES ASSUME compactions' = 0
             PROVE  numPages' = 1 /\ pageCount' = 1 /\ \A s \in SnapIds : Has(s)' => snaps'[s].main.numPages = 1
  BY DEF NoImage
<1>0. /\ compactions = 0 /\ numPages = 1 /\ pageCount = 1 /\ JobOK /\ BackupTypes
      /\ \A s \in SnapIds : snaps[s].main # None \/ (job.kind = "create" /\ job.id = s) =>
           snaps[s].main.numPages = 1
  BY CountsGrow, BaseFacts DEF NoImage, Has
<1>p. ASSUME UNCHANGED vars PROVE numPages' = 1 /\ pageCount' = 1
  BY <1>0, <1>p DEF vars
<1>1. CASE UNCHANGED bvars
  BY <1>0, <1>1 DEF bvars, backupVars, vars, Has
<1>2. CASE CreateSnapshot
  <2>1. /\ job'.kind = "create" /\ job'.id = now /\ snaps'[now].main = Empty /\ UNCHANGED vars
        /\ \A t \in SnapIds : t # now => snaps'[t] = snaps[t]
    BY <1>2, CreateFacts DEF CreateSnapshot
  <2> QED BY <1>0, <1>p, <2>1, EmptyFile DEF Has
<1>3. CASE CopyMain
  <2>1. /\ job.kind = "create" /\ job'.id = job.id /\ job.id \in SnapIds
        /\ \A t \in SnapIds : t # job.id => snaps'[t] = snaps[t]
        /\ snaps'[job.id].main.numPages =
             IF job.pos = 0 THEN numPages ELSE snaps[job.id].main.numPages
    BY <1>3, CopyMainStep, BaseFacts
  <2>2. UNCHANGED vars
    BY <1>3 DEF CopyMain
  <2>3. snaps'[job.id].main.numPages = 1
    BY <1>0, <2>1
  <2> QED BY <1>0, <1>p, <2>1, <2>2, <2>3 DEF Has
<1>4. CASE CreateWalCopy \/ CopyWal
  <2>1. /\ job.kind = "create" /\ job'.id = job.id /\ UNCHANGED vars
        /\ \A t \in SnapIds : snaps'[t].main = snaps[t].main
    BY <1>4, BaseCreateWalCopy, BaseCopyWal DEF CreateWalCopy, CopyWal
  <2> QED BY <1>0, <1>p, <2>1 DEF Has
<1>5. CASE WriteMeta
  <2>1. job'.kind = "none" /\ UNCHANGED vars /\ \A t \in SnapIds : snaps'[t].main = snaps[t].main
    BY <1>5, BaseWriteMeta, BaseFacts DEF WriteMeta
  <2> QED BY <1>0, <1>p, <2>1 DEF Has
<1>6. ASSUME NEW t \in SnapIds, RestoreSnapshot(t) \/ DeleteSnapshot(t)
      PROVE  numPages' = 1 /\ pageCount' = 1 /\ \A s \in SnapIds : Has(s)' => snaps'[s].main.numPages = 1
  <2>1. job'.kind # "create" /\ snaps' = snaps
    BY <1>6, BaseRestore, BaseDelete DEF RestoreSnapshot, DeleteSnapshot
  <2>2. numPages' = 1 /\ pageCount' = 1
    BY <1>0, <1>6 DEF RestoreSnapshot, DeleteSnapshot, vars, memory
  <2> QED BY <1>0, <2>1, <2>2 DEF Has
<1>7. CASE RestoreMain
  <2>1. BaseInv' /\ job'.kind = "restore" /\ job'.id = job.id /\ snaps' = snaps
    BY <1>7, BaseRestoreMain DEF RestoreMain
  <2>2. snaps[job.id].main # None /\ job.id \in SnapIds /\ pageCount' = pageCount
    BY <1>0, <1>7 DEF RestoreMain, JobOK, memory
  <2>3. numPages' = IF job'.pos = 0 THEN 1 ELSE snaps[job.id].main.numPages
    BY <2>1 DEF BaseInv, RestoreShape
  <2>4. numPages' = 1 /\ pageCount' = 1
    BY <1>0, <2>2, <2>3
  <2> QED BY <1>0, <2>1, <2>4 DEF Has
<1>8. CASE RestoreWal \/ RestoreWalCutOff
  <2>1. job'.kind = "none" /\ UNCHANGED <<snaps, numPages, pageCount>>
    BY <1>8, BaseRestoreWal, BaseRestoreWalCutOff
  <2> QED BY <1>0, <2>1 DEF Has
<1>9. CASE RemoveFile
  <2>1. /\ job'.kind # "create" /\ snaps'[job.id].main = None /\ UNCHANGED vars
        /\ \A t \in SnapIds : t # job.id => snaps'[t] = snaps[t]
    BY <1>9, BaseRemove DEF RemoveFile
  <2> QED BY <1>0, <1>p, <2>1 DEF Has
<1>10. CASE JobCutOff
  <2>1. job'.kind = "none" /\ snaps' = snaps /\ UNCHANGED vars
    BY <1>10, BaseFacts DEF JobCutOff
  <2> QED BY <1>0, <1>p, <2>1 DEF Has
<1>11. CASE Tick
  <2>1. UNCHANGED <<vars, snaps, job>>
    BY <1>11 DEF Tick
  <2> QED BY <1>0, <1>p, <2>1 DEF Has
<1>12. CASE EngineStep
  <2>1. call.step \notin Compacting /\ CallOK /\ Counted
    BY <1>0, SteadyCounted DEF BaseInv, EngineBase, CallOK, Steady
  <2>2. numPages' = numPages /\ pageCount' \in {pageCount, numPages, 1}
    BY <1>12, <2>1, BaseEngineStep, PagesStay
  <2> QED BY <1>0, <1>12, <2>2, EngineStepTaken DEF Has
<1> QED BY <1>1, <1>2, <1>3, <1>4, <1>5, <1>6, <1>7, <1>8, <1>9, <1>10, <1>11, <1>12 DEF BNext

Restoring == job.kind = "restore" => restored = 0

\* It begins by forgetting the last one.
LEMMA RestoringNext ==
    ASSUME BaseInv, Restoring, [BNext]_bvars
    PROVE  Restoring'
<1>1. CASE UNCHANGED bvars
  BY <1>1 DEF bvars, backupVars, Restoring
<1>2. CASE CreateSnapshot \/ CreateWalCopy \/ CopyWal
  BY <1>2, CreateFacts, BaseCreateWalCopy, BaseCopyWal DEF Restoring
<1>9. CASE CopyMain
  <2>1. job \in JobRecord /\ job.kind = "create" /\ job' = [job EXCEPT !.pos = NextPos(Main)]
    BY <1>9, BaseFacts DEF CopyMain
  <2> QED BY <2>1 DEF JobRecord, Restoring
<1>3. CASE WriteMeta \/ JobCutOff \/ RestoreWal \/ RestoreWalCutOff
  BY <1>3, BaseFacts DEF WriteMeta, JobCutOff, RestoreWal, RestoreWalCutOff, Restoring
<1>4. ASSUME NEW s \in SnapIds, RestoreSnapshot(s) PROVE Restoring'
  BY <1>4 DEF RestoreSnapshot, Restoring, feedFile, history
<1>5. ASSUME NEW s \in SnapIds, DeleteSnapshot(s) PROVE Restoring'
  BY <1>5, BaseDelete DEF Restoring
<1>6. CASE RestoreMain
  BY <1>6, BaseRestoreMain DEF RestoreMain, Restoring, feedFile, history
<1>7. CASE RemoveFile
  BY <1>7, BaseRemove DEF Restoring
<1>8. CASE Tick \/ EngineStep
  BY <1>8 DEF Tick, EngineStep, Restoring
<1> QED BY <1>1, <1>2, <1>3, <1>4, <1>5, <1>6, <1>7, <1>8, <1>9 DEF BNext

\* The restored files show what the snapshot would, as long as they are.
LEMMA RestoredNext ==
    ASSUME BaseInv, NoImage, Finished, RestoredOK, Restoring, [BNext]_bvars
    PROVE  RestoredOK'
<1> SUFFICES ASSUME restored' # 0, Clean(restored)'
             PROVE  /\ ioErrors' = 0 /\ taken'[restored'].commits <= 1 => Shown' \in taken'[restored'].moments
                    /\ compactions' = 0 => EachFrom(Recovered(wal'), taken'[restored'].moments)
  BY DEF RestoredOK
<1>0. taken'[restored'].whole /\ ~taken'[restored'].compacted
  BY DEF Clean
<1>1. (compactions' = 0 => compactions = 0) /\ (ioErrors' = 0 => ioErrors = 0)
  BY CountsGrow
<1>2. ASSUME restored' = restored, wal' = wal, pages' = pages, numPages' = numPages,
             Clean(restored), taken'[restored].commits = taken[restored].commits,
             taken[restored].moments \subseteq taken'[restored].moments
      PROVE  /\ ioErrors' = 0 /\ taken'[restored'].commits <= 1 => Shown' \in taken'[restored'].moments
             /\ compactions' = 0 => EachFrom(Recovered(wal'), taken'[restored'].moments)
  <2>1. Shown' = Shown
    BY <1>2, ShownIs
  <2> QED BY <1>1, <1>2, <2>1 DEF RestoredOK, EachFrom
<1>3. CASE EngineStep
  <2>1. restored' = restored /\ disk' = disk
    BY <1>3 DEF EngineStep
  <2>2. wal' = wal /\ pages' = pages /\ numPages' = numPages
    BY <2>1 DEF disk, mainFile, feedFile
  <2>3. restored \in SnapIds
    BY <2>1 DEF BaseInv, BackupTypes
  <2>4. CASE job.kind = "create" /\ job.id = restored
    <3>1. Shown' \in SUBSET Docs
      BY <1>3, BaseEngineStep, ShownType DEF BaseInv
    <3>2. /\ taken[restored].moments \subseteq taken'[restored].moments
          /\ taken'[restored].commits = taken[restored].commits
          /\ taken'[restored].whole = taken[restored].whole
          /\ ~taken'[restored].compacted => ~taken[restored].compacted
      BY <1>3, <2>2, <2>4, <3>1, TakenStep DEF BaseInv
    <3>3. Clean(restored)
      BY <1>0, <2>1, <3>2 DEF Clean
    <3> QED BY <1>2, <2>1, <2>2, <3>2, <3>3
  <2>5. CASE ~(job.kind = "create" /\ job.id = restored)
    <3>1. taken'[restored] = taken[restored]
      BY <1>3, <2>3, <2>5, EngineStepTaken
    <3>2. Clean(restored)
      BY <1>0, <2>1, <3>1 DEF Clean
    <3> QED BY <1>2, <2>1, <2>2, <3>1, <3>2
  <2> QED BY <2>4, <2>5
<1>4. CASE UNCHANGED <<vars, restored>> /\ (CreateSnapshot \/ JobCutOff \/ taken' = taken)
  <2>1. restored' = restored /\ wal' = wal /\ pages' = pages /\ numPages' = numPages
    BY <1>4 DEF vars
  <2>2. restored \in SnapIds
    BY <2>1 DEF BaseInv, BackupTypes
  <2>3. CASE taken'[restored] = taken[restored]
    <3>1. Clean(restored)
      BY <1>0, <2>1, <2>3 DEF Clean
    <3> QED BY <1>2, <2>1, <2>3, <3>1
  <2>4. CASE CreateSnapshot /\ now = restored
    <3>1. taken'[restored].moments = {Shown} /\ Shown' = Shown
      BY <2>1, <2>4, CreateFacts, ShownIs
    <3>2. ASSUME compactions = 0 PROVE EachFrom(Recovered(wal), {Shown})
      <4>1. PICK r \in Docs : r = Recovered(wal)
        BY RecoveredType, BaseFacts
      <4>2. Shown = {r}
        BY <3>2, <4>1, ShownIs, ShownWithoutImage DEF NoImage
      <4>3. r \in UNION {Shown}
        BY <4>2
      <4> QED BY <4>1, <4>3 DEF EachFrom
    <3> QED BY <1>1, <2>1, <3>1, <3>2
  <2>5. CASE CreateSnapshot /\ now # restored
    BY <2>2, <2>3, <2>5, CreateFacts
  <2>6. CASE JobCutOff
    <3>1. CASE job.kind = "create" /\ job.id = restored
      BY <1>0, <2>1, <2>6, <3>1, BaseCutOff
    <3>2. CASE ~(job.kind = "create" /\ job.id = restored)
      BY <2>2, <2>3, <2>6, <3>2, BaseCutOff
    <3> QED BY <3>1, <3>2
  <2> QED BY <1>4, <2>3, <2>4, <2>5, <2>6
<1>5. ASSUME NEW s \in SnapIds, RestoreSnapshot(s) PROVE FALSE
  BY <1>5 DEF RestoreSnapshot, feedFile, history
<1>6. CASE RestoreMain
  BY <1>6 DEF RestoreMain, Restoring, feedFile, history
<1>7. CASE RestoreWalCutOff
  BY <1>7, BaseRestoreWalCutOff DEF Restoring
<1>8. CASE RestoreWal
  <2>1. PICK s \in SnapIds : s = job.id /\ restored' = s /\ taken' = taken /\ job.kind = "restore"
    BY <1>8, BaseRestoreWal
  <2>2. Clean(s) /\ taken[s].whole
    BY <1>0, <2>1 DEF Clean
  <2>3. snaps[s].main # None
    BY <2>1, BaseFacts DEF JobOK
  <2>4. /\ pages' = snaps[s].main.pages /\ numPages' = snaps[s].main.numPages
        /\ Recovered(wal') = Recovered(WalOf(snaps[s]))
    BY <1>8, <2>1, BaseRestoreWal
  <2>5. Shown' = ShownIn(Recovered(WalOf(snaps[s])), snaps[s].main.pages, snaps[s].main.numPages)
    BY <2>4, ShownIs
  <2> QED BY <1>1, <2>1, <2>2, <2>3, <2>4, <2>5 DEF Finished
<1> QED BY <1>3, <1>4, <1>5, <1>6, <1>7, <1>8, DatabaseSteps

LEMMA OpenedEngine ==
    ASSUME BaseInv, OpenedOK, EngineStep, restored' # 0, ioErrors' = 0, mode' = "up"
    PROVE  /\ call'.step \in {"done", "append"} \cup Compacting
           /\ call'.step # "append" => docs' \in Shown'
<1>0. /\ restored' = restored /\ disk' = disk /\ Next
  BY DEF EngineStep, Next
<1>1. wal' = wal /\ pages' = pages /\ numPages' = numPages
  BY <1>0 DEF disk, mainFile, feedFile
<1>2. Shown' = Shown
  BY <1>1, ShownIs
<1>3. /\ call \in CallRecord /\ CallOK /\ wal \in Seq(WalRecord) /\ ioErrors \in Nat
      /\ Idle.step = "done"
  BY IdleCall DEF BaseInv, EngineBase, TypeOK
<1>4. mode # "up" => call = Idle
  BY <1>3 DEF CallOK
<1>5. ASSUME ioErrors = 0, call.step # "done"
      PROVE  /\ call.step \in {"append"} \cup Compacting
             /\ call.step # "append" => docs \in Shown
  BY <1>0, <1>3, <1>4, <1>5 DEF OpenedOK
<1>6. CASE OpenOk
  <2>1. call' = Idle
    BY <1>4, <1>6 DEF OpenOk, Start
  <2>2. docs' \in Shown
    <3>1. CASE FromWal /\ Start(Recovered(wal))
      BY <3>1 DEF Shown, Start
    <3>2. CASE ~FromWal /\ LoadReturns /\ \E d \in Docs : LoadedFrom(d) /\ Start(d)
      <4>1. PICK d \in Docs : LoadedFrom(d) /\ Start(d)
        BY <3>2
      <4>2. docs' = d
        BY <4>1 DEF Start
      <4>3. d \in {e \in Docs : LoadedFrom(e)}
        BY <4>1
      <4>4. Shown = {e \in Docs : LoadedFrom(e)}
        BY <3>2 DEF Shown
      <4> QED BY <4>2, <4>3, <4>4
    <3> QED BY <1>6, <3>1, <3>2 DEF OpenOk
  <2> QED BY <1>2, <1>3, <2>1, <2>2
<1>7. ASSUME NEW i \in Ids, NEW v \in Vals, Insert(i, v) \/ Update(i, v) PROVE call'.step = "append"
  BY <1>7 DEF Insert, Update, MutationCall, history
<1>8. ASSUME NEW i \in Ids, Delete(i) PROVE call'.step = "append"
  BY <1>8 DEF Delete, MutationCall, history
<1>9. CASE Compact
  <2>1. call'.step = "alloc" /\ docs' = docs /\ mode = "up" /\ call = Idle /\ ioErrors' = ioErrors
    BY <1>9 DEF Compact, Idle, history
  <2>2. docs \in Shown
    BY <1>0, <1>3, <2>1 DEF OpenedOK
  <2> QED BY <1>2, <2>1, <2>2 DEF Compacting
<1>10. CASE AppendRecord
  <2>1. wal = Append(wal, Record(TRUE)) /\ call.step = "append"
    BY <1>1, <1>10 DEF AppendRecord, mainFile, feedFile, history
  <2>2. Len(Append(wal, Record(TRUE))) = Len(wal) + 1 /\ Len(wal) \in Nat
    <3>1. Record(TRUE) \in WalRecord
      BY <1>3, <2>1, RecordUncommitted DEF Serving
    <3> QED BY <1>3, <3>1
  <2>3. FALSE
    BY <2>1, <2>2
  <2> QED BY <2>3
<1>11. CASE CommitRecord \/ Apply \/ PublishLength \/ PublishBody
  <2>1. ioErrors' = ioErrors /\ call.step \in {"commit", "apply", "publish", "body"}
    BY <1>11 DEF CommitRecord, Apply, PublishLength, PublishBody, counters, mainFile,
       feedFile, history, Reindexed, Published
  <2> QED BY <1>5, <2>1 DEF Compacting
<1>12. CASE AllocateHeader \/ AllocateZero \/ WriteChunk \/ WriteTrailer \/ ResetWal \/ ResetFeed
  <2>1. call.step \in Compacting /\ ioErrors' = ioErrors /\ docs' = docs
    BY <1>12 DEF AllocateHeader, AllocateZero, WriteChunk, WriteTrailer, ResetWal, ResetFeed,
                 counters, Compacting, mainFile, feedFile, history, Grown, PutPage, AtChunk, ThisPage, Emptied
  <2>2. call'.step \in Compacting \cup {"done"}
    BY <1>3, <1>12 DEF AllocateHeader, AllocateZero, WriteChunk, WriteTrailer, ResetWal,
       ResetFeed,
                       Goto, Compacting, CallRecord, mainFile, feedFile, history, Grown, PutPage, AtChunk, ThisPage, Emptied
  <2>3. docs \in Shown
    BY <1>5, <2>1 DEF Compacting
  <2> QED BY <1>2, <2>1, <2>2, <2>3 DEF Compacting
<1>13. ~(OpenFails \/ Crash \/ PowerLoss \/ IoError)
  <2>1. ~OpenFails
    BY DEF OpenFails, history
  <2>2. ~Crash /\ ~PowerLoss
    BY Zenon DEF Crash, PowerLoss, Stopped, mainFile, feedFile, history
  <2>3. IoError => ioErrors' = ioErrors + 1
    BY Zenon DEF IoError
  <2>4. ioErrors + 1 # 0
    BY <1>3
  <2> QED BY <2>1, <2>2, <2>3, <2>4
<1> QED BY <1>0, <1>6, <1>7, <1>8, <1>9, <1>10, <1>11, <1>12, <1>13 DEF Next, CallStep

\* An engine that opened the restored files holds what they show.
LEMMA OpenedNext ==
    ASSUME BaseInv, OpenedOK, Restoring, [BNext]_bvars
    PROVE  OpenedOK'
<1> SUFFICES ASSUME restored' # 0, ioErrors' = 0, mode' = "up"
             PROVE  /\ call'.step \in {"done", "append"} \cup Compacting
                    /\ call'.step # "append" => docs' \in Shown'
  BY DEF OpenedOK
<1>1. CASE EngineStep
  BY <1>1, OpenedEngine
<1>2. CASE UNCHANGED <<vars, restored>>
  <2>1. /\ restored' = restored /\ wal' = wal /\ pages' = pages /\ numPages' = numPages
        /\ call' = call /\ docs' = docs /\ mode' = mode /\ ioErrors' = ioErrors
    BY <1>2 DEF vars
  <2>2. Shown' = Shown
    BY <2>1, ShownIs
  <2> QED BY <2>1, <2>2 DEF OpenedOK
<1>3. ASSUME NEW s \in SnapIds, RestoreSnapshot(s) PROVE FALSE
  BY <1>3 DEF RestoreSnapshot, feedFile, history
<1>4. CASE RestoreMain
  BY <1>4 DEF RestoreMain, Restoring, feedFile, history
<1>5. CASE RestoreWal \/ RestoreWalCutOff
  <2>1. job.kind = "restore" /\ mode' = mode
    BY <1>5, BaseRestoreWal, BaseRestoreWalCutOff
  <2> QED BY <2>1, BaseFacts DEF JobOK
<1> QED BY <1>1, <1>2, <1>3, <1>4, <1>5, DatabaseSteps

-----------------------------------------------------------------------------
\* The inductive invariant of backup and restore.
SnapshotInv ==
    /\ BaseInv /\ RestorableHasWal /\ MainCopied /\ WalCopied
    /\ NoImage /\ Finished /\ Restoring /\ RestoredOK /\ OpenedOK

\* It holds at the start,
LEMMA SnapshotInit == BInit => SnapshotInv
<1> SUFFICES ASSUME BInit PROVE SnapshotInv
  OBVIOUS
<1>1. /\ job = NoJob /\ NoJob.kind = "none" /\ restored = 0 /\ numPages = 1 /\ pageCount = 1
      /\ \A s \in SnapIds : snaps[s] = NoSnap
  BY DEF BInit, Init, NoJob
<1>2. NoSnap.main = None
  BY DEF NoSnap, NoFile
<1>3. RestorableHasWal /\ Finished
  BY <1>1, <1>2 DEF RestorableHasWal, NoFile, Finished
<1>4. MainCopied /\ WalCopied /\ Restoring /\ RestoredOK /\ OpenedOK
  BY <1>1 DEF MainCopied, WalCopied, Restoring, RestoredOK, OpenedOK
<1>5. NoImage
  BY <1>1, <1>2 DEF NoImage, Has
<1> QED BY <1>3, <1>4, <1>5, BaseInit DEF SnapshotInv

\* and every step keeps it.
LEMMA SnapshotNext == SnapshotInv /\ [BNext]_bvars => SnapshotInv'
<1> SUFFICES ASSUME SnapshotInv, [BNext]_bvars PROVE SnapshotInv'
  OBVIOUS
<1>0. /\ BaseInv /\ RestorableHasWal /\ MainCopied /\ WalCopied
      /\ NoImage /\ Finished /\ Restoring /\ RestoredOK /\ OpenedOK
  BY DEF SnapshotInv
<1>1. BaseInv' /\ RestorableHasWal'
  BY <1>0, BaseNext, HasWalNext
<1>2. NoImage' /\ Finished' /\ Restoring' /\ RestoredOK' /\ OpenedOK'
  BY <1>0, NoImageNext, FinishedNext, RestoringNext, RestoredNext, OpenedNext
<1>3. MainCopied' /\ WalCopied'
  <2>1. CASE UNCHANGED bvars
    <3>1. UNCHANGED <<job, snaps, taken, call, wal, pages, numPages>> /\ (Steady' => Steady)
      BY <2>1 DEF bvars, backupVars, vars, Steady
    <3>2. \A Rs : Account(Rs) => Account(Rs)'
      BY <3>1 DEF Account, CopiedWal
    <3> QED BY <1>0, <3>1, <3>2 DEF MainCopied, WalCopied
  <2>2. CASE CreateSnapshot \/ CopyMain \/ CreateWalCopy \/ CopyWal \/ EngineStep
    BY <1>0, <2>2, CopyCreate, CopyMainStep, CopyWalCreated, CopyWalStep, CopyEngine
  <2>3. ASSUME job'.kind # "create" PROVE MainCopied' /\ WalCopied'
    BY <2>3 DEF MainCopied, WalCopied
  <2>4. CASE WriteMeta \/ JobCutOff \/ RestoreWal \/ RestoreWalCutOff \/ RestoreMain \/ RemoveFile
    <3>1. job'.kind # "create"
      BY <1>0, <2>4, BaseFacts, BaseRestoreMain, BaseRestoreWal, BaseRestoreWalCutOff,
         BaseRemove DEF WriteMeta, JobCutOff
    <3> QED BY <2>3, <3>1
  <2>5. ASSUME NEW s \in SnapIds, RestoreSnapshot(s) \/ DeleteSnapshot(s) PROVE job'.kind # "create"
    BY <1>0, <2>5, BaseRestore, BaseDelete
  <2>6. CASE Tick
    <3>1. job' = NoJob /\ NoJob.kind = "none"
      BY <2>6 DEF Tick, NoJob
    <3> QED BY <2>3, <3>1
  <2> QED BY <2>1, <2>2, <2>3, <2>4, <2>5, <2>6 DEF BNext
<1> QED BY <1>1, <1>2, <1>3 DEF SnapshotInv

\* It is an invariant.
THEOREM SnapshotInvariance == BSpec => []SnapshotInv
BY SnapshotInit, SnapshotNext, PTL DEF BSpec

\* What restore_snapshot accepts is both files of a whole snapshot of a database
\* that had both, also while it is deleted and after a deletion was cut off
\* (backup.rs:43, backup.rs:115).
THEOREM RestorableCorrect == BSpec => []RestorableHasWal
<1>1. SnapshotInv => RestorableHasWal
  BY DEF SnapshotInv
<1> QED BY <1>1, SnapshotInvariance, PTL

\* A restore brings back the documents of one moment of the copy, and an engine
\* that opens the files holds them (backup.rs:39), while at most one operation
\* was committed during the copy, which no compaction disturbed, and no write of
\* the engine failed; wherever the reads of the copy end (backup.rs:145), with and
\* without a WAL.
THEOREM RestoreCorrect == BSpec => []RestoreIsAMoment
<1>1. SnapshotInv => RestoreIsAMoment
  <2> SUFFICES ASSUME SnapshotInv, restored # 0, Clean(restored), taken[restored].commits <= 1,
                      ioErrors = 0
               PROVE  /\ Shown \in taken[restored].moments
                      /\ mode = "up" /\ call = Idle => docs \in Shown
    BY DEF RestoreIsAMoment
  <2>1. Shown \in taken[restored].moments
    BY DEF SnapshotInv, RestoredOK
  <2>2. ASSUME mode = "up", call = Idle PROVE docs \in Shown
    <3>1. call.step # "append"
      BY <2>2, IdleCall
    <3> QED BY <2>2, <3>1 DEF SnapshotInv, OpenedOK
  <2> QED BY <2>1, <2>2
<1> QED BY <1>1, SnapshotInvariance, PTL

\* With any number of commits during the copy every restored document has a body
\* it had at one of its moments, on a database without an image (backup.rs:43).
THEOREM RestoredCorrect == BSpec => []RestoredDocsWereStored
<1>1. SnapshotInv => RestoredDocsWereStored
  <2> SUFFICES ASSUME SnapshotInv, restored # 0, Clean(restored), compactions = 0,
                      NEW d \in Shown, NEW i \in Ids
               PROVE  \E m \in UNION taken[restored].moments : d[i] = m[i]
    BY DEF RestoredDocsWereStored
  <2>1. EachFrom(Recovered(wal), taken[restored].moments) /\ numPages = 1
    BY DEF SnapshotInv, RestoredOK, NoImage
  <2>2. PICK r \in Docs : r = Recovered(wal)
    BY RecoveredType, BaseFacts DEF SnapshotInv
  <2>3. Shown = {r}
    BY <2>1, <2>2, ShownIs, ShownWithoutImage
  <2> QED BY <2>1, <2>2, <2>3 DEF EachFrom
<1> QED BY <1>1, SnapshotInvariance, PTL
=============================================================================
