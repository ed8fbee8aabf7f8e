----------------------------- MODULE ShardProofs -----------------------------
(***************************************************************************)
(* Proofs about Shard, for any shards, virtual nodes, hashes and           *)
(* documents: what a cut-off rebalance can lose, what get returns, and     *)
(* that consistent hashing moves documents to the new shard only.          *)
(***************************************************************************)
EXTENDS Shard, Induction

Stored == [Ids -> Vals \cup {None}]
Move == [src : Nat, dst : Nat, todo : SUBSET Ids, doc : Ids \cup {None},
         val : Vals \cup {None}, on : BOOLEAN]

Types ==
    /\ disk \in [Shards -> Stored] /\ mem \in [Shards -> Stored] /\ content \in Stored
    /\ map \in SUBSET Shards /\ shadowed \in SUBSET Ids
    /\ crashes \in Nat /\ errors \in Nat /\ move \in Move

\* A rebalance moves documents the source still has; the one on its way has a body.
MoveOK ==
    /\ ~move.on => move = Still
    /\ move.on => /\ move.src \in Shards /\ move.dst \in Shards
                  /\ \A i \in move.todo : disk[move.src][i] # None
    /\ move.doc # None => move.val # None

\* Apart from the document on its way, every cut-off rebalance has lost one at most.
LossOK == Cardinality(Missing \ {move.doc}) <= crashes + errors

\* A document that was never stored beside an older copy: every copy is what the
\* client stored, the one on its way too.
CopiesOK ==
    \A i \in Ids \ shadowed :
      /\ \A s \in Shards : disk[s][i] \in {None, content[i]}
      /\ move.doc = i => move.val = content[i]

\* The router's engines have what is on disk; what they have beyond it (after a
\* rebalance that failed) is not a document the client has deleted.
EnginesOK ==
    /\ \A s \in map, i \in Ids : disk[s][i] # None => mem[s][i] = disk[s][i]
    /\ map # {} => \A i \in Ids \ shadowed : content[i] = None => mem[ShardFor(i)][i] = None

ShardInv == Types /\ MoveOK /\ LossOK /\ CopiesOK /\ EnginesOK

-----------------------------------------------------------------------------
(* The ring.                                                               *)

\* A finite set of numbers that is not empty has a greatest member: a minimal
\* subset without one would have one after all.
LEMMA GreatestNumber ==
    ASSUME NEW S \in SUBSET Nat, IsFiniteSet(S), S # {}
    PROVE  Max(S) \in S /\ \A y \in S : y <= Max(S)
<1> DEFINE R == StrictSubsetOrdering(S)
           HasMax(U) == \E x \in U : \A y \in U : x >= y
           T == {U \in SUBSET S : U # {} /\ ~ HasMax(U)}
<1>1. ASSUME T # {} PROVE FALSE
  <2>1. IsWellFoundedOn(R, FiniteSubsetsOf(S))
    BY FS_StrictSubsetOrderingWellFounded
  <2>2. T \subseteq FiniteSubsetsOf(S)
    <3> SUFFICES ASSUME NEW U \in SUBSET S PROVE U \in FiniteSubsetsOf(S)
      OBVIOUS
    <3> QED BY FS_Subset DEF FiniteSubsetsOf
  <2> HIDE DEF T, R
  <2>3. PICK U \in T : \A V \in T : ~(<<V, U>> \in R)
    BY <1>1, <2>1, <2>2, WFMin
  <2>4. U \in SUBSET S /\ U # {} /\ ~ HasMax(U)
    BY DEF T
  <2>5. PICK x \in U : TRUE
    BY <2>4
  <2> DEFINE V == U \ {x}
  <2>6. V \in SUBSET S /\ <<V, U>> \in R
    BY <2>4 DEF R, StrictSubsetOrdering
  <2>7. V \notin T
    BY <2>3, <2>6
  <2>8. V = {} \/ HasMax(V)
    BY <2>6, <2>7 DEF T
  <2>9. CASE V = {}
    <3>1. \A y \in U : x >= y
      BY <2>4, <2>9
    <3> QED BY <2>4, <3>1
  <2>10. CASE HasMax(V)
    <3>1. PICK z \in V : \A y \in V : z >= y
      BY <2>10
    <3>2. x \in Nat /\ z \in Nat /\ z \in U /\ \A y \in U : y \in Nat /\ (y = x \/ y \in V)
      BY <2>4
    <3>3. (\A y \in U : x >= y) \/ (\A y \in U : z >= y)
      BY <3>1, <3>2
    <3> QED BY <2>4, <2>5, <3>2, <3>3
  <2> QED BY <2>8, <2>9, <2>10
<1>2. HasMax(S)
  BY <1>1
<1>3. \E x \in S : \A y \in S : x >= y
  BY <1>2
<1>4. Max(S) \in S /\ \A y \in S : Max(S) >= y
  BY <1>3 DEF Max
<1> QED BY <1>4

\* Min is what its name says.
LEMMA SmallestNumber ==
    ASSUME NEW S \in SUBSET Nat, S # {}
    PROVE  Min(S) \in S /\ \A y \in S : Min(S) <= y
<1>1. \E x \in S : \A y \in S : x =< y
  BY LeastNumber
<1> QED BY <1>1 DEF Min

\* The virtual nodes of a shard map, the shards at one of them, and the first one
\* at or after a hash, or else the first.
Points(m) == UNION {VNode[s] : s \in m}
Owners(m, k) == {s \in m : k \in VNode[s]}
First(m, h, k) ==
    /\ k \in Points(m)
    /\ \A y \in Points(m) : IF k >= h THEN y >= h => k <= y ELSE y < h /\ k <= y

\* shard_for names a shard of the map: the last one added that has the first
\* virtual node at or after the hash.
LEMMA RingLookup ==
    ASSUME NEW m \in SUBSET Shards, m # {}, NEW h \in Nat
    PROVE  /\ ShardAt(m, h) \in m
           /\ \E k \in Nat : /\ First(m, h, k) /\ ShardAt(m, h) \in Owners(m, k)
                             /\ \A s \in Owners(m, k) : s <= ShardAt(m, h)
<1> DEFINE P == Points(m)
           after == {k \in P : k >= h}
           from == IF after = {} THEN P ELSE after
<1>1. P \subseteq Nat /\ P # {}
  <2>1. \A s \in m : VNode[s] \subseteq Nat /\ VNode[s] # {}
    BY ShardAssumptions
  <2>2. \A k : k \in P <=> \E s \in m : k \in VNode[s]
    BY DEF Points
  <2>3. P \subseteq Nat
    BY <2>1, <2>2
  <2> QED BY <2>1, <2>2, <2>3
<1>2. from \in SUBSET Nat /\ from # {}
  BY <1>1
<1>3. PICK k : k = Min(from)
  OBVIOUS
<1>4. k \in from /\ \A y \in from : k <= y
  BY <1>2, <1>3, SmallestNumber
<1>5. k \in P /\ k \in Nat /\ First(m, h, k)
  BY <1>1, <1>4 DEF First
<1>6. ShardAt(m, h) = Max(Owners(m, k))
  BY <1>3, <1>5 DEF ShardAt, Ring, Points, Owners
<1>7. Owners(m, k) \in SUBSET Nat /\ Owners(m, k) # {} /\ Owners(m, k) \subseteq m
  BY <1>5, ShardAssumptions DEF Owners, Points
<1>8. IsFiniteSet(Owners(m, k))
  <2>1. Owners(m, k) \in SUBSET Shards
    BY <1>7
  <2> QED BY <2>1, ShardAssumptions, FS_Subset
<1>9. Max(Owners(m, k)) \in Owners(m, k) /\ \A s \in Owners(m, k) : s <= Max(Owners(m, k))
  BY <1>7, <1>8, GreatestNumber
<1> QED BY <1>5, <1>6, <1>7, <1>9

\* Consistent hashing, for every ring: with one more shard an id keeps its shard or
\* goes to the new one.
LEMMA OneMoreShard ==
    ASSUME NEW m \in SUBSET Shards, m # {}, NEW s \in Shards \ m, NEW h \in Nat
    PROVE  ShardAt(m \cup {s}, h) \in {ShardAt(m, h), s}
<1> DEFINE n == m \cup {s}
<1>1. n \in SUBSET Shards /\ n # {}
  OBVIOUS
<1>2. PICK k \in Nat : /\ First(m, h, k) /\ ShardAt(m, h) \in Owners(m, k)
                       /\ \A t \in Owners(m, k) : t <= ShardAt(m, h)
  BY RingLookup
<1>3. PICK l \in Nat : /\ First(n, h, l) /\ ShardAt(n, h) \in Owners(n, l)
                       /\ \A t \in Owners(n, l) : t <= ShardAt(n, h)
  <2> HIDE DEF n
  <2> QED BY <1>1, RingLookup
<1>4. SUFFICES ASSUME ShardAt(n, h) # s PROVE ShardAt(n, h) = ShardAt(m, h)
  OBVIOUS
<1>5. ShardAt(n, h) \in Owners(m, l)
  BY <1>3, <1>4 DEF Owners
<1>6. l \in Points(m) /\ k \in Points(n)
  BY <1>2, <1>5 DEF Owners, Points, First
<1>7. l = k
  BY <1>2, <1>3, <1>6 DEF First
<1>8. ShardAt(m, h) \in Owners(n, l)
  BY <1>2, <1>7 DEF Owners
<1>9. ShardAt(m, h) \in Nat /\ ShardAt(n, h) \in Nat
  BY <1>2, <1>3, <1>1, ShardAssumptions DEF Owners
<1>10. ShardAt(n, h) <= ShardAt(m, h) /\ ShardAt(m, h) <= ShardAt(n, h)
  BY <1>2, <1>3, <1>5, <1>7, <1>8
<1> HIDE DEF n
<1> QED BY <1>9, <1>10

-----------------------------------------------------------------------------
(* The invariant, action by action.                                        *)

\* Fewer documents missing is a smaller number; one more is one more at most.
LEMMA Fewer ==
    ASSUME NEW A, NEW B \in SUBSET Ids, A \subseteq B
    PROVE  /\ Cardinality(A) \in Nat /\ Cardinality(B) \in Nat
           /\ Cardinality(A) <= Cardinality(B)
<1>1. IsFiniteSet(B)
  BY ShardAssumptions, FS_Subset
<1>2. IsFiniteSet(A) /\ Cardinality(A) <= Cardinality(B)
  BY <1>1, FS_Subset
<1> QED BY <1>1, <1>2, FS_CardinalityType

\* All but one are one fewer at most.
LEMMA AllButOne ==
    ASSUME NEW B \in SUBSET Ids, NEW x
    PROVE  /\ Cardinality(B \ {x}) \in Nat /\ Cardinality(B) \in Nat
           /\ Cardinality(B) <= Cardinality(B \ {x}) + 1
<1>1. IsFiniteSet(B)
  BY ShardAssumptions, FS_Subset
<1>2. IsFiniteSet(B \ {x})
      /\ Cardinality(B \ {x}) = IF x \in B THEN Cardinality(B) - 1 ELSE Cardinality(B)
  BY <1>1, FS_RemoveElement
<1>3. Cardinality(B) \in Nat /\ Cardinality(B \ {x}) \in Nat
  BY <1>1, <1>2, FS_CardinalityType
<1> QED BY <1>2, <1>3

\* No document, no router.
LEMMA InitInv ==
    ASSUME Init PROVE ShardInv
<1>1. Types
  BY DEF Init, Types, Stored, Move, Still, NoDocs
<1>2. Missing = {}
  BY DEF Init, Missing, Live, NoDocs
<1>3. LossOK
  <2>1. Missing \ {move.doc} = {} /\ crashes = 0 /\ errors = 0
    BY <1>2 DEF Init
  <2> QED BY <2>1, FS_EmptySet DEF LossOK
<1>4. MoveOK /\ CopiesOK /\ EnginesOK
  BY ShardAssumptions DEF Init, MoveOK, CopiesOK, EnginesOK, Still, NoDocs
<1> QED BY <1>1, <1>3, <1>4 DEF ShardInv

\* insert, update and delete: the write is to a shard of the map, and a delete to
\* the one the id hashes to.
LEMMA WriteInv ==
    ASSUME ShardInv, Ready, NEW s \in map, NEW i \in Ids, NEW v \in Vals \cup {None},
           Write(s, i, v), v = None => s = ShardFor(i)
    PROVE  ShardInv'
<1> USE DEF ShardInv
<1>1. /\ disk' \in [Shards -> Stored] /\ mem' \in [Shards -> Stored]
      /\ \A t \in Shards, j \in Ids :
           /\ disk'[t][j] = IF t = s /\ j = i THEN v ELSE disk[t][j]
           /\ mem'[t][j] = IF t = s /\ j = i THEN v ELSE mem[t][j]
  <2>1. s \in Shards /\ disk \in [Shards -> Stored] /\ mem \in [Shards -> Stored]
    BY DEF Types
  <2>2. disk' = [disk EXCEPT ![s][i] = v] /\ mem' = [mem EXCEPT ![s][i] = v]
    BY DEF Write
  <2>3. /\ disk' \in [Shards -> Stored]
        /\ \A t \in Shards, j \in Ids : disk'[t][j] = IF t = s /\ j = i THEN v ELSE disk[t][j]
    BY <2>1, <2>2 DEF Stored
  <2>4. /\ mem' \in [Shards -> Stored]
        /\ \A t \in Shards, j \in Ids : mem'[t][j] = IF t = s /\ j = i THEN v ELSE mem[t][j]
    BY <2>1, <2>2 DEF Stored
  <2> QED BY <2>3, <2>4
<1>2. /\ content' \in Stored
      /\ \A j \in Ids : content'[j] = IF j = i THEN v ELSE content[j]
  BY DEF Types, Stored, Write
<1>3. /\ shadowed' \in SUBSET Ids /\ shadowed \subseteq shadowed'
      /\ i \notin shadowed' => \A t \in Shards \ {s} : disk[t][i] = None
  BY DEF Types, Write
<1>4. UNCHANGED <<files, up, map, move, crashes, errors>>
  BY DEF Write
<1>5. ~move.on /\ move = Still /\ move.doc = None /\ move.val = None
  BY DEF Ready, MoveOK, Still
<1>6. Types'
  BY <1>1, <1>2, <1>3, <1>4 DEF Types
<1>7. MoveOK'
  BY <1>4, <1>5 DEF MoveOK
<1>8. LossOK'
  <2>1. Missing' \subseteq Missing
    BY <1>1, <1>2 DEF Missing, Live, Types
  <2>2. Missing \in SUBSET Ids
    BY DEF Missing, Live
  <2>3. Cardinality(Missing' \ {move.doc}) <= Cardinality(Missing \ {move.doc})
        /\ Cardinality(Missing' \ {move.doc}) \in Nat /\ Cardinality(Missing \ {move.doc}) \in Nat
    BY <2>1, <2>2, Fewer
  <2> QED BY <2>3, <1>4 DEF LossOK, Types
<1>9. CopiesOK'
  BY <1>1, <1>2, <1>3, <1>4, <1>5, ShardAssumptions DEF CopiesOK, Types
<1>10. EnginesOK'
  <2>1. ASSUME NEW t \in map, NEW j \in Ids, disk'[t][j] # None
        PROVE  mem'[t][j] = disk'[t][j]
    BY <1>1, <2>1 DEF EnginesOK, Types
  <2>2. ASSUME NEW j \in Ids \ shadowed', content'[j] = None
        PROVE  mem'[ShardFor(j)][j] = None
    <3>1. ShardFor(j) \in Shards
      BY RingLookup, ShardAssumptions DEF Ready, ShardFor, Types
    <3>2. CASE j = i
      BY <1>1, <1>2, <2>2, <3>1, <3>2
    <3>3. CASE j # i
      <4>1. content[j] = None /\ j \in Ids \ shadowed /\ map # {}
        BY <1>2, <1>3, <2>2, <3>3 DEF Ready
      <4>2. mem[ShardFor(j)][j] = None
        BY <4>1 DEF EnginesOK
      <4> QED BY <1>1, <3>1, <3>3, <4>2
    <3> QED BY <3>2, <3>3
  <2> QED BY <1>4, <2>1, <2>2 DEF EnginesOK, ShardFor
<1> QED BY <1>6, <1>7, <1>8, <1>9, <1>10

\* What every other step leaves alone is not missing afterwards.
LEMMA SameDocs ==
    ASSUME ShardInv, UNCHANGED <<disk, content>>,
           Cardinality(Missing \ {move'.doc}) <= crashes' + errors'
    PROVE  LossOK'
<1>1. Missing' = Missing
  BY DEF Missing, Live
<1> QED BY <1>1 DEF LossOK

\* A new router's engines have what is on disk.
LEMMA NewRouterInv ==
    ASSUME ShardInv, NEW m \in SUBSET Shards, NewRouter(m) PROVE ShardInv'
<1> USE DEF ShardInv, NewRouter
<1>1. Types' /\ MoveOK' /\ CopiesOK'
  <2>1. Types'
    BY DEF Types, Stored, NoDocs
  <2> QED BY <2>1 DEF MoveOK, CopiesOK
<1>2. LossOK'
  BY SameDocs DEF LossOK
<1>3. EnginesOK'
  <2>1. ASSUME NEW j \in Ids \ shadowed, content[j] = None, m # {}
        PROVE  mem'[ShardAt(m, Hash[j])][j] = None
    <3>1. ShardAt(m, Hash[j]) \in m
      BY <2>1, RingLookup, ShardAssumptions
    <3>2. mem'[ShardAt(m, Hash[j])] = disk[ShardAt(m, Hash[j])]
      BY <3>1
    <3> QED BY <2>1, <3>1, <3>2 DEF CopiesOK
  <2>2. \A s \in m : mem'[s] = disk[s]
    OBVIOUS
  <2> QED BY <2>1, <2>2 DEF EnginesOK, ShardFor
<1> QED BY <1>1, <1>2, <1>3

\* The router goes away: between calls, or inside a rebalance.
LEMMA GoneInv ==
    ASSUME ShardInv, Close \/ Crash PROVE ShardInv'
<1> USE DEF ShardInv
<1>1. Gone /\ UNCHANGED <<files, disk, content, shadowed, errors>>
  BY DEF Close, Crash
<1>2. crashes' \in Nat /\ ((crashes' = crashes /\ move.doc = None) \/ crashes' = crashes + 1)
  BY DEF Close, Crash, Types, MoveOK, Still
<1>3. Types'
  BY <1>1, <1>2 DEF Types, Gone, Still, Stored, NoDocs, Move
<1>4. MoveOK' /\ CopiesOK' /\ EnginesOK'
  BY <1>1, ShardAssumptions DEF MoveOK, CopiesOK, EnginesOK, Gone, Still
<1>5. LossOK'
  <2>1. Missing \in SUBSET Ids /\ move'.doc = None /\ None \notin Missing
    BY <1>1, ShardAssumptions DEF Missing, Live, Gone, Still
  <2>2. /\ Cardinality(Missing \ {move.doc}) \in Nat /\ Cardinality(Missing) \in Nat
        /\ Cardinality(Missing) <= Cardinality(Missing \ {move.doc}) + 1
    BY <2>1, AllButOne
  <2>3. Missing \ {move'.doc} = Missing /\ (move.doc = None => Missing \ {move.doc} = Missing)
    BY <2>1
  <2>4. Cardinality(Missing) <= crashes' + errors'
    BY <1>1, <1>2, <2>2, <2>3 DEF LossOK, Types
  <2> QED BY <1>1, <2>3, <2>4, SameDocs
<1> QED BY <1>3, <1>4, <1>5

\* A rebalance that returns an error loses the document on its way at most.
LEMMA FailInv ==
    ASSUME ShardInv, Fail PROVE ShardInv'
<1> USE DEF ShardInv, Fail
<1>1. Types'
  BY DEF Types, Still, Move
<1>2. MoveOK' /\ CopiesOK'
  BY ShardAssumptions DEF MoveOK, CopiesOK, Still
<1>3. EnginesOK'
  BY DEF EnginesOK, ShardFor
<1>4. LossOK'
  <2>1. Missing \in SUBSET Ids /\ move'.doc = None /\ None \notin Missing
    BY ShardAssumptions DEF Missing, Live, Still
  <2>2. /\ Cardinality(Missing \ {move.doc}) \in Nat /\ Cardinality(Missing) \in Nat
        /\ Cardinality(Missing) <= Cardinality(Missing \ {move.doc}) + 1
    BY <2>1, AllButOne
  <2>3. Missing \ {move'.doc} = Missing
    BY <2>1
  <2>4. Cardinality(Missing) <= crashes' + errors'
    BY <2>2 DEF LossOK, Types
  <2> QED BY <2>3, <2>4, SameDocs
<1> QED BY <1>1, <1>2, <1>3, <1>4

\* A rebalance starts with documents the source has.
LEMMA RebalanceInv ==
    ASSUME ShardInv, NEW src \in Shards, NEW dst \in Shards, Rebalance(src, dst)
    PROVE  ShardInv'
<1> USE DEF ShardInv, Rebalance
<1>1. move = Still /\ move.doc = None
  BY DEF Ready, MoveOK, Still
<1>2. /\ move'.src = src /\ move'.dst = dst /\ move'.on = TRUE /\ move'.doc = None
      /\ move'.val = None /\ move'.todo = {i \in Live(disk[src]) : ShardFor(i) = dst}
      /\ move' \in Move
  BY ShardAssumptions DEF Still, Move, Live
<1>3. Types'
  BY <1>2 DEF Types
<1>4. MoveOK'
  BY <1>2 DEF MoveOK, Live
<1>5. CopiesOK' /\ EnginesOK'
  BY <1>2, ShardAssumptions DEF CopiesOK, EnginesOK, ShardFor
<1>6. LossOK'
  <2>1. move'.doc = move.doc
    BY <1>1, <1>2
  <2> QED BY <2>1, SameDocs DEF LossOK
<1> QED BY <1>3, <1>4, <1>5, <1>6

\* The document taken from the source is missing, and is the one on its way.
LEMMA TakeDocInv ==
    ASSUME ShardInv, NEW i \in Ids, TakeDoc(i) PROVE ShardInv'
<1> USE DEF ShardInv
<1>1. /\ move.on /\ move.doc = None /\ i \in move.todo /\ move.src \in Shards
      /\ move.dst \in Shards /\ move \in Move
      /\ UNCHANGED <<files, up, map, mem, content, shadowed, crashes, errors>>
  BY DEF TakeDoc, MoveOK, Types
<1>2. /\ disk' \in [Shards -> Stored]
      /\ \A t \in Shards, j \in Ids :
           disk'[t][j] = IF t = move.src /\ j = i THEN None ELSE disk[t][j]
  <2>1. PICK s \in Shards : s = move.src
    BY <1>1
  <2>2. disk \in [Shards -> Stored] /\ disk' = [disk EXCEPT ![s][i] = None]
    BY <2>1 DEF Types, TakeDoc
  <2> QED BY <2>1, <2>2 DEF Stored
<1>3. disk[move.src][i] \in Vals \cup {None} /\ disk[move.src][i] # None
  BY <1>1 DEF Types, Stored, MoveOK
<1>4. /\ move'.src = move.src /\ move'.dst = move.dst /\ move'.on = move.on
      /\ move'.doc = i /\ move'.val = disk[move.src][i] /\ move'.todo = move.todo \ {i}
      /\ move' \in Move
  BY <1>1, <1>3 DEF TakeDoc, Move
<1>5. Types'
  BY <1>1, <1>2, <1>4 DEF Types
<1>6. MoveOK'
  <2>1. \A j \in move.todo : j \in Ids
    BY <1>1 DEF Move
  <2>2. \A j \in move'.todo : disk'[move'.src][j] # None
    BY <1>1, <1>2, <1>4, <2>1 DEF MoveOK
  <2> QED BY <1>1, <1>3, <1>4, <2>2 DEF MoveOK
<1>7. LossOK'
  <2>1. Missing' \ {i} \subseteq Missing /\ None \notin Missing
    BY <1>1, <1>2, ShardAssumptions DEF Missing, Live
  <2>2. Missing \in SUBSET Ids
    BY DEF Missing, Live
  <2>3. Cardinality(Missing' \ {i}) <= Cardinality(Missing)
        /\ Cardinality(Missing' \ {i}) \in Nat /\ Cardinality(Missing) \in Nat
    BY <2>1, <2>2, Fewer
  <2>4. Missing \ {move.doc} = Missing
    BY <1>1, <2>1
  <2>5. Cardinality(Missing' \ {i}) <= crashes + errors
    <3>1. Cardinality(Missing) <= crashes + errors
      BY <2>4 DEF LossOK
    <3>2. crashes \in Nat /\ errors \in Nat
      BY DEF Types
    <3> QED BY ONLY <2>3, <3>1, <3>2
  <2> QED BY <1>1, <1>4, <2>5 DEF LossOK
<1>8. CopiesOK'
  BY <1>1, <1>2, <1>3, <1>4 DEF CopiesOK
<1>9. EnginesOK'
  BY <1>1, <1>2 DEF EnginesOK, ShardFor, Types
<1> QED BY <1>5, <1>6, <1>7, <1>8, <1>9

\* The target has the document on its way, which is no longer missing.
LEMMA PutDocInv ==
    ASSUME ShardInv, PutDoc PROVE ShardInv'
<1> USE DEF ShardInv
<1>1. PICK d \in Ids : d = move.doc
  BY DEF PutDoc, Types, Move
<1>2. PICK v \in Vals : v = move.val
  BY DEF PutDoc, Types, Move, MoveOK
<1>3. PICK t \in Shards : t = move.dst
  BY DEF PutDoc, MoveOK
<1>4. /\ move.on /\ move \in Move /\ move.src \in Shards /\ v # None
      /\ UNCHANGED <<files, up, map, content, shadowed, crashes, errors>>
  BY <1>2, ShardAssumptions DEF PutDoc, MoveOK, Types
<1>5. /\ disk' \in [Shards -> Stored] /\ mem' \in [Shards -> Stored]
      /\ \A s \in Shards, j \in Ids :
           /\ disk'[s][j] = IF s = t /\ j = d THEN v ELSE disk[s][j]
           /\ mem'[s][j] = IF s = t /\ j = d THEN v ELSE mem[s][j]
  <2>1. disk \in [Shards -> Stored] /\ mem \in [Shards -> Stored]
    BY DEF Types
  <2>2. disk' = [disk EXCEPT ![t][d] = v] /\ mem' = [mem EXCEPT ![t][d] = v]
    BY <1>1, <1>2, <1>3 DEF PutDoc
  <2>3. /\ disk' \in [Shards -> Stored]
        /\ \A s \in Shards, j \in Ids : disk'[s][j] = IF s = t /\ j = d THEN v ELSE disk[s][j]
    BY <2>1, <2>2 DEF Stored
  <2>4. /\ mem' \in [Shards -> Stored]
        /\ \A s \in Shards, j \in Ids : mem'[s][j] = IF s = t /\ j = d THEN v ELSE mem[s][j]
    BY <2>1, <2>2 DEF Stored
  <2> QED BY <2>3, <2>4
<1>6. /\ move'.src = move.src /\ move'.dst = t /\ move'.on = move.on
      /\ move'.doc = None /\ move'.val = None /\ move'.todo = move.todo
      /\ move' \in Move
  BY <1>3, <1>4 DEF PutDoc, Move
<1>7. Types'
  BY <1>4, <1>5, <1>6 DEF Types
<1>8. MoveOK'
  <2>1. \A j \in move.todo : j \in Ids
    BY <1>4 DEF Move
  <2>2. \A j \in move'.todo : disk'[move'.src][j] # None
    BY <1>4, <1>5, <1>6, <2>1 DEF MoveOK
  <2> QED BY <1>4, <1>6, <2>2 DEF MoveOK
<1>9. LossOK'
  <2>1. Missing' \subseteq Missing \ {move.doc} /\ None \notin Missing'
    BY <1>1, <1>4, <1>5, ShardAssumptions DEF Missing, Live
  <2>2. Missing \ {move.doc} \in SUBSET Ids
    BY DEF Missing, Live
  <2>3. Cardinality(Missing') <= Cardinality(Missing \ {move.doc})
        /\ Cardinality(Missing') \in Nat /\ Cardinality(Missing \ {move.doc}) \in Nat
    BY <2>1, <2>2, Fewer
  <2>4. Missing' \ {None} = Missing'
    BY <2>1
  <2>5. Cardinality(Missing') <= crashes + errors
    BY <2>3 DEF LossOK, Types
  <2> QED BY <1>4, <1>6, <2>4, <2>5 DEF LossOK
<1>10. CopiesOK'
  BY <1>1, <1>2, <1>4, <1>5, <1>6, ShardAssumptions DEF CopiesOK
<1>11. EnginesOK'
  <2>1. ASSUME NEW s \in map, NEW j \in Ids, disk'[s][j] # None
        PROVE  mem'[s][j] = disk'[s][j]
    BY <1>5, <2>1 DEF EnginesOK, Types
  <2>2. ASSUME NEW j \in Ids \ shadowed, content[j] = None, map # {}
        PROVE  mem'[ShardFor(j)][j] = None
    <3>1. ShardFor(j) \in Shards
      BY <2>2, RingLookup, ShardAssumptions DEF ShardFor, Types
    <3>2. j # d
      BY <1>1, <1>2, <1>4, <2>2 DEF CopiesOK
    <3>3. mem[ShardFor(j)][j] = None
      BY <2>2 DEF EnginesOK
    <3> QED BY <1>5, <3>1, <3>2, <3>3
  <2> QED BY <1>4, <2>1, <2>2 DEF EnginesOK, ShardFor
<1> QED BY <1>7, <1>8, <1>9, <1>10, <1>11

\* The source's engine has what is on disk again.
LEMMA RefreshInv ==
    ASSUME ShardInv, Refresh PROVE ShardInv'
<1> USE DEF ShardInv
<1>1. /\ move.doc = None /\ move.src \in Shards /\ move' = Still
      /\ UNCHANGED <<files, disk, up, map, content, shadowed, crashes, errors>>
  BY DEF Refresh, MoveOK
<1>2. /\ mem' \in [Shards -> Stored]
      /\ \A s \in Shards : mem'[s] \in {mem[s], disk[s]}
  BY <1>1 DEF Refresh, Types
<1>3. Types'
  BY <1>1, <1>2 DEF Types, Still, Move
<1>4. MoveOK' /\ CopiesOK'
  BY <1>1, ShardAssumptions DEF MoveOK, CopiesOK, Still
<1>5. LossOK'
  BY <1>1, SameDocs DEF LossOK, Still
<1>6. EnginesOK'
  <2>1. ASSUME NEW s \in map, NEW j \in Ids, disk[s][j] # None
        PROVE  mem'[s][j] = disk[s][j]
    BY <1>2, <2>1 DEF EnginesOK, Types
  <2>2. ASSUME NEW j \in Ids \ shadowed, content[j] = None, map # {}
        PROVE  mem'[ShardFor(j)][j] = None
    <3>1. ShardFor(j) \in Shards
      BY <2>2, RingLookup, ShardAssumptions DEF ShardFor, Types
    <3>2. mem[ShardFor(j)][j] = None /\ disk[ShardFor(j)][j] = None
      BY <2>2, <3>1 DEF EnginesOK, CopiesOK
    <3> QED BY <1>2, <3>1, <3>2
  <2> QED BY <1>1, <2>1, <2>2 DEF EnginesOK, ShardFor
<1> QED BY <1>3, <1>4, <1>5, <1>6

\* Every step keeps the invariant.
LEMMA NextInv ==
    ASSUME ShardInv, [Next]_vars PROVE ShardInv'
<1>1. CASE UNCHANGED vars
  BY <1>1 DEF ShardInv, Types, MoveOK, LossOK, CopiesOK, EnginesOK, Missing, Live, ShardFor, vars
<1>2. CASE \E m \in SUBSET Shards : NewRouter(m)
  BY <1>2, NewRouterInv
<1>3. CASE Close \/ Crash
  BY <1>3, GoneInv
<1>4. CASE Fail
  BY <1>4, FailInv
<1>5. ASSUME Ready PROVE map \in SUBSET Shards /\ map # {} /\ ShardAt(map, EmptyHash) \in map
                         /\ \A i \in Ids : ShardFor(i) \in map
  <2>1. map \in SUBSET Shards /\ map # {}
    BY <1>5 DEF Ready, ShardInv, Types
  <2> QED BY <2>1, RingLookup, ShardAssumptions DEF ShardFor
<1>6. CASE \E i \in Ids, v \in Vals : Insert(i, v)
  <2>1. PICK i \in Ids, v \in Vals : Ready /\ Write(ShardFor(i), i, v)
    BY <1>6 DEF Insert
  <2> QED BY <1>5, <2>1, WriteInv
<1>7. CASE \E i \in Ids, v \in Vals : InsertWithoutId(i, v)
  <2>1. PICK i \in Ids, v \in Vals : Ready /\ Write(ShardAt(map, EmptyHash), i, v)
    BY <1>7 DEF InsertWithoutId
  <2>2. v # None
    BY ShardAssumptions
  <2> QED BY <1>5, <2>1, <2>2, WriteInv
<1>8. CASE \E i \in Ids, v \in Vals : Update(i, v)
  <2>1. PICK i \in Ids, v \in Vals : Ready /\ Write(ShardFor(i), i, v)
    BY <1>8 DEF Update
  <2> QED BY <1>5, <2>1, WriteInv
<1>9. CASE \E i \in Ids : Delete(i)
  <2>1. PICK i \in Ids : Ready /\ Write(ShardFor(i), i, None)
    BY <1>9 DEF Delete
  <2> QED BY <1>5, <2>1, WriteInv
<1>10. CASE \E src, dst \in Shards : Rebalance(src, dst)
  BY <1>10, RebalanceInv
<1>11. CASE RebalanceStep
  BY <1>11, TakeDocInv, PutDocInv, RefreshInv DEF RebalanceStep
<1> QED
  BY <1>1, <1>2, <1>3, <1>4, <1>6, <1>7, <1>8, <1>9, <1>10, <1>11 DEF Next

-----------------------------------------------------------------------------
(* Theorems.                                                               *)

\* ShardInv is an invariant of the router, its engines and rebalance.
THEOREM Invariance == Spec => []ShardInv
<1>1. Init => ShardInv
  BY InitInv
<1>2. ShardInv /\ [Next]_vars => ShardInv'
  BY NextInv
<1> QED BY <1>1, <1>2, PTL DEF Spec

\* However often rebalance crashes or fails between its delete from the source and
\* its insert into the target, a cut-off rebalance loses one document at most.
THEOREM LossBounded == Spec => []LosesOnlyInFlight
<1>1. ASSUME ShardInv PROVE LosesOnlyInFlight
  <2> USE <1>1 DEF ShardInv
  <2>1. Missing \in SUBSET Ids /\ None \notin Missing
    BY ShardAssumptions DEF Missing, Live
  <2>2. /\ Cardinality(Missing \ {move.doc}) \in Nat /\ Cardinality(Missing) \in Nat
        /\ Cardinality(Missing) <= Cardinality(Missing \ {move.doc}) + 1
    BY <2>1, AllButOne
  <2>3. Cardinality(Missing \ {move.doc}) <= crashes + errors /\ crashes \in Nat /\ errors \in Nat
    BY DEF LossOK, Types
  <2>4. CASE move.doc = None
    <3>1. Missing \ {move.doc} = Missing
      BY <2>1, <2>4
    <3>2. Cardinality(Missing) <= crashes + errors
      BY <2>3, <3>1
    <3> QED BY <2>2, <2>3, <2>4, <3>2 DEF LosesOnlyInFlight
  <2>5. CASE move.doc # None
    BY <2>2, <2>3, <2>5 DEF LosesOnlyInFlight
  <2> QED BY <2>4, <2>5
<1> QED BY <1>1, Invariance, PTL

\* Once every document is in its shard, get returns what the client stored last,
\* whatever routers, misrouted inserts and cut-off rebalances came before.
THEOREM GetCorrect == Spec => []GetFindsStored
<1>1. ASSUME ShardInv PROVE GetFindsStored
  <2> SUFFICES ASSUME Ready, Balanced, NEW i \in Ids \ (shadowed \cup Missing)
               PROVE  Get(i) = content[i]
    BY DEF GetFindsStored
  <2> USE <1>1 DEF ShardInv
  <2>1. map # {} /\ ShardFor(i) \in map /\ ShardFor(i) \in Shards
    BY RingLookup, ShardAssumptions DEF Ready, Types, ShardFor
  <2>2. CASE content[i] = None
    BY <2>1, <2>2 DEF EnginesOK, Get
  <2>3. CASE content[i] # None
    <3>1. PICK t \in Shards : disk[t][i] # None
      BY <2>3 DEF Missing, Live
    <3>2. t = ShardFor(i)
      BY <3>1 DEF Balanced, Live
    <3>3. mem[t][i] = disk[t][i] /\ disk[t][i] = content[i]
      BY <2>1, <3>1, <3>2 DEF EnginesOK, CopiesOK
    <3> QED BY <3>2, <3>3 DEF Get
  <2> QED BY <2>2, <2>3
<1> QED BY <1>1, Invariance, PTL

\* A router opened with one more shard looks for every document where it was, or
\* in the new shard.
THEOREM MovementMinimal == Spec => MinimalMovement
<1>1. ASSUME ShardInv, ShardInv', map' # {}, NEW s \in Shards \ map', NEW i \in Ids
      PROVE  ShardAt(map' \cup {s}, Hash[i]) \in {ShardAt(map', Hash[i]), s}
  <2>1. map' \in SUBSET Shards /\ Hash[i] \in Nat
    BY <1>1, ShardAssumptions DEF ShardInv, Types
  <2> QED BY <1>1, <2>1, OneMoreShard
<1>2. ShardInv /\ ShardInv' =>
        [~up /\ up' /\ map' # {} =>
           \A s \in Shards \ map', i \in Ids :
             ShardAt(map' \cup {s}, Hash[i]) \in {ShardAt(map', Hash[i]), s}]_vars
  BY <1>1
<1> QED BY <1>2, Invariance, PTL DEF MinimalMovement
=============================================================================
