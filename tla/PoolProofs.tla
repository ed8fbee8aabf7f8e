----------------------------- MODULE PoolProofs -----------------------------
(***************************************************************************)
(* Proofs about Pool, for any number of tasks, documents, permits and      *)
(* compactions: the pool never has more engines than permits, the files    *)
(* that its engines share hold the acknowledged documents, and a           *)
(* connection that never had company shows them.                           *)
(***************************************************************************)
EXTENDS Pool, FiniteSetTheorems, WellFoundedInduction, TLAPS

States == {"out", "waiting", "permitted", "opening", "holding", "writing",
           "imaging", "compacting", "done", "pushed"}
Target == Ids \X BOOLEAN \X (Nat \ {0})

\* The type of every variable.
TypeOK ==
    /\ permits \in Nat /\ idle \in Seq(SUBSET Ids)
    /\ state \in [Task -> States] /\ engine \in [Task -> SUBSET Ids]
    /\ target \in [Task -> Target \cup {<<>>}]
    /\ \A t \in Writers : target[t] \in Target
    /\ wal \in Seq(Ids \X BOOLEAN) /\ torn \in BOOLEAN
    /\ image \subseteq Ids /\ whole \in BOOLEAN
    /\ acked \subseteq Ids /\ unsure \subseteq Ids
    /\ compactions \in Nat /\ shared \in BOOLEAN /\ raced \in BOOLEAN

\* Writers and compactors of a history without overlaps: one at a time, the
\* offset of a write is still the end of the file, the map of an engine that
\* rewrites the main file has what the WAL does not say, and that file is the map
\* of the engine that is about to drop the WAL.
WorkOK ==
    ~raced =>
      /\ \A t, u \in Writers : t = u
      /\ \A t \in Writers : target[t][3] = Len(wal) + 1
      /\ \A t, u \in Compactors : t = u
      /\ \A t \in Task : state[t] = "imaging" =>
           \A i \in Ids \ unsure : At(i) = {} => (i \in engine[t] <=> i \in acked)
      /\ \A t \in Task : state[t] = "compacting" => whole /\ image = engine[t]

\* The files hold what was acknowledged (a part of a record in the WAL or not).
Held == \A i \in Ids \ unsure : whole \/ At(i) # {} => (i \in InFiles <=> i \in acked)

FilesOK == WorkOK /\ (~raced => Held)

\* As long as no two tasks held a permit at once there is one holder, every
\* engine shows the acknowledged documents, and no write overlapped another.
AloneOK ==
    ~shared =>
      /\ \A t, u \in Holders : t = u
      /\ compactions = 0 =>
           /\ ~raced /\ image = {} /\ whole /\ Compactors = {}
           /\ Len(idle) <= 1 /\ (EngineOwners # {} => idle = <<>>)
           /\ ~torn =>
                /\ \A k \in 1 .. Len(idle) : Shows(idle[k])
                /\ \A t \in Task : state[t] \in {"holding", "writing", "done"} =>
                     Shows(engine[t])

PoolInv == TypeOK /\ PoolBounded /\ FilesOK /\ AloneOK

-----------------------------------------------------------------------------
(* A non-empty set of positions has a last one. *)
LEMMA LastExists ==
    ASSUME NEW n \in Nat, NEW S \in SUBSET (1 .. n), S # {}
    PROVE  Last(S) \in S /\ \A j \in S : j <= Last(S)
<1> DEFINE T == {n - k : k \in S}
<1>1. T \subseteq Nat /\ T # {}
  <2>1. \A k \in S : n - k \in Nat
    OBVIOUS
  <2> QED BY <2>1
<1>2. PICK m \in T : \A y \in T : ~(<<y, m>> \in OpToRel(<, Nat))
  BY <1>1, NatLessThanWellFounded, WFMin
<1>3. PICK k \in S : m = n - k
  OBVIOUS
<1>4. \A j \in S : j <= k
  <2> SUFFICES ASSUME NEW j \in S PROVE j <= k
    OBVIOUS
  <2>1. ~(n - j < m)
    BY <1>1, <1>2 DEF OpToRel
  <2> QED BY <2>1, <1>3
<1> QED BY <1>4 DEF Last

(* The last position of a set is determined by being it. *)
LEMMA LastUnique ==
    ASSUME NEW S \in SUBSET Nat, NEW n \in S, \A j \in S : j <= n
    PROVE  Last(S) = n
<1>1. Last(S) \in S /\ \A j \in S : j <= Last(S)
  BY DEF Last
<1>2. Last(S) \in Nat /\ n <= Last(S) /\ Last(S) <= n
  BY <1>1
<1> HIDE DEF Last
<1> QED BY <1>2

(* A record written at the end of the WAL decides about its document, and   *)
(* leaves what the files say of every other one.                            *)
LEMMA AppendDecides ==
    ASSUME wal \in Seq(Ids \X BOOLEAN), NEW i \in Ids, NEW insert \in BOOLEAN,
           wal' = Append(wal, <<i, insert>>), image' = image
    PROVE  /\ InFiles' = With(InFiles, i, insert)
           /\ At(i)' # {} /\ \A j \in Ids : j # i => At(j)' = At(j)
<1> DEFINE n == Len(wal) + 1
<1>1. n \in Nat \ {0} /\ Len(wal') = n /\ wal'[n] = <<i, insert>>
      /\ \A k \in 1 .. Len(wal) : wal'[k] = wal[k]
  OBVIOUS
<1>2. \A k \in 1 .. Len(wal) : k \in Nat /\ k # n
  OBVIOUS
<1>3. At(i)' = At(i) \cup {n} /\ \A j \in Ids : j # i => At(j)' = At(j)
  BY <1>1, <1>2 DEF At
<1>4. At(i)' \subseteq Nat /\ \A k \in At(i)' : k <= n
  BY <1>1 DEF At
<1>5. Last(At(i)') = n
  <2> HIDE DEF n
  <2> QED BY <1>1, <1>3, <1>4, LastUnique
<1>6. i \in InWal' <=> insert
  <2>1. At(i)' # {} /\ wal'[Last(At(i)')][2] = insert
    BY <1>1, <1>3, <1>5
  <2>2. i \in InWal' <=> At(i)' # {} /\ wal'[Last(At(i)')][2]
    BY Zenon DEF InWal
  <2> QED BY <2>1, <2>2, Zenon
<1>7. ASSUME NEW j \in Ids, j # i
      PROVE  j \in InWal' <=> j \in InWal
  <2>1. CASE At(j) = {}
    BY <1>3, <1>7, <2>1 DEF InWal
  <2>2. CASE At(j) # {}
    <3>1. At(j) \in SUBSET (1 .. Len(wal)) /\ Len(wal) \in Nat
      BY DEF At
    <3>2. Last(At(j)) \in 1 .. Len(wal)
      BY <2>2, <3>1, LastExists
    <3>3. wal'[Last(At(j))] = wal[Last(At(j))] /\ At(j)' = At(j)
      BY <1>1, <1>3, <1>7, <3>2
    <3>4. wal'[Last(At(j)')][2] = wal[Last(At(j))][2]
      BY <3>3
    <3> QED BY <3>3, <3>4, Zenon DEF InWal
  <2> QED BY <2>1, <2>2
<1>8. InWal \subseteq Ids /\ InWal' \subseteq Ids
  BY DEF InWal
<1>9. ASSUME NEW j
      PROVE  j \in InFiles' <=> j \in With(InFiles, i, insert)
  <2>1. CASE j = i
    BY <1>3, <1>6, <2>1 DEF InFiles, With
  <2>2. CASE j # i
    <3>1. j \in InWal' <=> j \in InWal
      BY <1>7, <1>8, <2>2
    <3>2. \A k : At(k)' = {l \in 1 .. Len(wal') : wal'[l][1] = k}
      BY DEF At
    <3>3. At(j)' = At(j)
      BY <1>1, <1>2, <2>2 DEF At
    <3> QED BY <2>2, <3>1, <3>3 DEF InFiles, With
  <2> QED BY <2>1, <2>2
<1> QED BY <1>3, <1>9

-----------------------------------------------------------------------------
(* A condition is true or false. *)
LEMMA Boolean ==
    ASSUME NEW x \in BOOLEAN, NEW S, NEW T, NEW U, NEW V
    PROVE  (x \/ ~(S = T) \/ U # V) \in BOOLEAN
OBVIOUS

(* Every step keeps the types. *)
LEMMA TypePreserved ==
    ASSUME TypeOK, [Next]_vars
    PROVE  TypeOK'
<1> USE DEF TypeOK, Writers, Goto
<1>1. ASSUME NEW t \in Task, Request(t)
      PROVE  TypeOK'
  BY <1>1 DEF Request, files, calls, history, States
<1>2. ASSUME NEW t \in Task, AcquirePermit(t)
      PROVE  TypeOK'
  BY <1>2 DEF AcquirePermit, files, calls, States
<1>3. ASSUME NEW t \in Task, PopIdle(t)
      PROVE  TypeOK'
  <2>1. CASE idle = <<>>
    BY <1>3, <2>1 DEF PopIdle, files, calls, history, States
  <2>2. CASE idle # <<>>
    <3>1. Len(idle) \in 1 .. Len(idle) /\ Len(idle) - 1 \in Nat
      BY <2>2
    <3>2. idle[Len(idle)] \subseteq Ids /\ SubSeq(idle, 1, Len(idle) - 1) \in Seq(SUBSET Ids)
      BY <3>1
    <3> QED BY <1>3, <2>2, <3>2 DEF PopIdle, files, calls, history, States
  <2> QED BY <2>1, <2>2
<1>4. ASSUME NEW t \in Task, OpenEngine(t)
      PROVE  TypeOK'
  BY <1>4 DEF OpenEngine, files, calls, history, States
<1>5. ASSUME NEW t \in Task, NEW i \in Ids, NEW insert \in BOOLEAN, SeekEnd(t, i, insert)
      PROVE  TypeOK'
  <2>1. <<i, insert, EndOfWal>> \in Target
    BY DEF Target, EndOfWal
  <2>2. target' \in [Task -> Target \cup {<<>>}] /\ \A u \in Writers' : target'[u] \in Target
    BY <1>5, <2>1 DEF SeekEnd, States
  <2> QED BY <1>5, <2>2 DEF SeekEnd, files, calls, States
<1>p. ASSUME NEW t \in Task, state[t] = "writing", PutRecord(t)
      PROVE  /\ wal' \in Seq(Ids \X BOOLEAN) /\ target[t][1] \in Ids /\ target[t][2] \in BOOLEAN
             /\ UNCHANGED <<torn, image, whole, compactions>>
  <2> DEFINE i == target[t][1]
             insert == target[t][2]
             k == target[t][3]
  <2>1. i \in Ids /\ insert \in BOOLEAN /\ k \in Nat \ {0}
    BY <1>p DEF Target
  <2>2. <<i, insert>> \in Ids \X BOOLEAN
    BY <2>1
  <2>3. wal' \in Seq(Ids \X BOOLEAN)
    <3> HIDE DEF i, insert, k
    <3>1. wal' = IF k <= Len(wal) THEN [wal EXCEPT ![k] = <<i, insert>>] ELSE Append(wal, <<i, insert>>)
      BY <1>p DEF PutRecord, i, insert, k
    <3>2. CASE k <= Len(wal)
      BY <2>1, <2>2, <3>1, <3>2
    <3>3. CASE ~(k <= Len(wal))
      BY <2>2, <3>1, <3>3
    <3> QED BY <3>2, <3>3
  <2> QED BY <1>p, <2>1, <2>3 DEF PutRecord
<1>6. ASSUME NEW t \in Task, WriteRecord(t)
      PROVE  TypeOK'
  <2>1. state[t] = "writing" /\ PutRecord(t)
    BY <1>6 DEF WriteRecord
  <2>2. /\ wal' \in Seq(Ids \X BOOLEAN) /\ target[t][1] \in Ids /\ target[t][2] \in BOOLEAN
        /\ UNCHANGED <<torn, image, whole, compactions>>
    BY <1>p, <2>1
  <2>3. engine' \in [Task -> SUBSET Ids] /\ acked' \subseteq Ids /\ unsure' \subseteq Ids
    BY <1>6, <2>2 DEF WriteRecord, Learn, With
  <2>4. state' = [state EXCEPT ![t] = "done"] /\ target' = [target EXCEPT ![t] = <<>>]
        /\ UNCHANGED <<permits, idle, shared, raced>>
    BY <1>6 DEF WriteRecord, history
  <2> QED BY <2>2, <2>3, <2>4 DEF States
<1>7. ASSUME NEW t \in Task, BeginImage(t)
      PROVE  TypeOK'
  <2>1. raced' \in BOOLEAN
    BY <1>7, Boolean DEF BeginImage, Shows
  <2>2. compactions' = compactions + 1 /\ whole' \in BOOLEAN /\ state' = [state EXCEPT ![t] = "imaging"]
        /\ UNCHANGED <<permits, idle, engine, target, wal, torn, image, acked, unsure, shared>>
        /\ state[t] = "holding"
    BY <1>7, Zenon DEF BeginImage, calls
  <2>3. /\ compactions' \in Nat /\ whole' \in BOOLEAN /\ state' \in [Task -> States]
        /\ \A u \in Writers' : u \in Writers
    BY <2>2 DEF States
  <2> QED BY <2>1, <2>2, <2>3, Zenon
<1>13. ASSUME NEW t \in Task, EndImage(t)
       PROVE  TypeOK'
  BY <1>13 DEF EndImage, calls, history, States
<1>8. ASSUME NEW t \in Task, CompactReset(t)
      PROVE  TypeOK'
  <2>1. raced' \in BOOLEAN
    BY <1>8, Boolean DEF CompactReset, DropWal, Shows
  <2>2. wal' = <<>> /\ torn' \in BOOLEAN /\ state' = [state EXCEPT ![t] = "done"]
        /\ UNCHANGED <<permits, idle, engine, target, image, whole, compactions, acked, unsure, shared>>
    BY <1>8, Zenon DEF CompactReset, DropWal, calls
  <2>3. /\ wal' \in Seq(Ids \X BOOLEAN) /\ torn' \in BOOLEAN /\ state' \in [Task -> States]
        /\ \A u \in Writers' : u \in Writers
    BY <2>2 DEF States
  <2> QED BY <2>1, <2>2, <2>3, Zenon
<1>9. ASSUME NEW t \in Task, PushEngine(t)
      PROVE  TypeOK'
  BY <1>9 DEF PushEngine, files, calls, history, States
<1>10. ASSUME NEW t \in Task, DropPermit(t)
       PROVE  TypeOK'
  BY <1>10 DEF DropPermit, files, calls, history, States
<1>11. ASSUME NEW t \in Task, Fail(t)
       PROVE  TypeOK'
  <2>1. /\ wal' \in Seq(Ids \X BOOLEAN) /\ torn' \in BOOLEAN /\ image' = image
        /\ whole' = whole /\ compactions' = compactions /\ raced' \in BOOLEAN
        /\ acked' = acked /\ unsure' \subseteq Ids
    <3>1. CASE UNCHANGED <<files, calls, raced>>
      BY <3>1 DEF files, calls
    <3>2. CASE /\ state[t] = "writing" /\ torn' = TRUE
               /\ UNCHANGED <<wal, image, whole, compactions, calls, raced>>
      BY <3>2 DEF calls
    <3>3. CASE /\ state[t] = "writing" /\ PutRecord(t)
               /\ unsure' = unsure \cup {target[t][1]} /\ UNCHANGED <<acked, raced>>
      BY <1>p, <3>3
    <3>4. CASE state[t] = "compacting" /\ DropWal(t) /\ UNCHANGED calls
      <4>1. raced' \in BOOLEAN
        BY <3>4, Boolean DEF DropWal, Shows
      <4>2. wal' = <<>> /\ torn' \in BOOLEAN /\ UNCHANGED <<image, whole, compactions, acked, unsure>>
        BY <3>4, Zenon DEF DropWal, calls
      <4>3. wal' \in Seq(Ids \X BOOLEAN) /\ torn' \in BOOLEAN /\ unsure' \subseteq Ids
        BY <4>2
      <4> QED BY <4>1, <4>2, <4>3, Zenon
    <3> QED BY <1>11, <3>1, <3>2, <3>3, <3>4 DEF Fail
  <2> QED BY <1>11, <2>1 DEF Fail, States
<1>12. CASE UNCHANGED vars
  BY <1>12 DEF vars, files, calls, history
<1> QED
  BY <1>1, <1>2, <1>3, <1>4, <1>5, <1>6, <1>7, <1>8, <1>9, <1>10, <1>11, <1>12, <1>13
  DEF Next, Serve, Finish

(* A set of tasks that one task joins or leaves. *)
LEMMA TaskCount ==
    ASSUME NEW S \in SUBSET Task, NEW t \in Task
    PROVE  /\ Cardinality(S) \in Nat
           /\ t \notin S => Cardinality(S \cup {t}) = Cardinality(S) + 1
           /\ t \in S => Cardinality(S \ {t}) = Cardinality(S) - 1
<1>1. IsFiniteSet(S)
  BY PoolAssumptions, FS_Subset
<1> QED BY <1>1, FS_CardinalityType, FS_AddElement, FS_RemoveElement

(* Every step keeps the permits and engines balanced. *)
LEMMA BoundedPreserved ==
    ASSUME TypeOK, PoolBounded, [Next]_vars
    PROVE  PoolBounded'
<1> DEFINE H == Holders
           E == EngineOwners
<1>0. H \in SUBSET Task /\ E \in SUBSET Task /\ E \subseteq H
  BY DEF Holders, EngineOwners, InEngine
<1>a. /\ permits \in Nat /\ idle \in Seq(SUBSET Ids) /\ PoolSize \in Nat
      /\ state \in [Task -> States] /\ engine \in [Task -> SUBSET Ids]
  BY PoolAssumptions DEF TypeOK
<1>b. permits + Cardinality(H) = PoolSize /\ Len(idle) + Cardinality(E) <= PoolSize
  BY DEF PoolBounded
<1>c. Cardinality(H) \in Nat /\ Cardinality(E) \in Nat /\ Len(idle) \in Nat
  BY <1>0, <1>a, PoolAssumptions, FS_Subset, FS_CardinalityType
<1> HIDE DEF H, E
<1>1. ASSUME NEW t \in Task, NEW s \in States, state' = [state EXCEPT ![t] = s]
      PROVE  /\ Holders' = IF s \in {"out", "waiting"} THEN H \ {t} ELSE H \cup {t}
             /\ EngineOwners' =
                  IF s \in InEngine \cup {"done"}
                  THEN E \cup {t} ELSE E \ {t}
  BY <1>a, <1>1 DEF Holders, EngineOwners, H, E
<1>2. \A t \in Task : /\ t \in H <=> state[t] \notin {"out", "waiting"}
                      /\ t \in E <=> state[t] \in InEngine \cup {"done"}
  BY DEF H, E, Holders, EngineOwners
<1>3. ASSUME UNCHANGED <<permits, idle>>, Holders' = H, EngineOwners' = E
      PROVE  PoolBounded'
  BY <1>b, <1>3 DEF PoolBounded
<1>4. ASSUME NEW t \in Task, Request(t)
      PROVE  PoolBounded'
  <2>1. Holders' = H \ {t} /\ EngineOwners' = E \ {t} /\ t \notin H /\ t \notin E
    BY <1>1, <1>2, <1>4 DEF Request, Goto, InEngine, States
  <2> QED BY <1>3, <1>4, <2>1 DEF Request
<1>5. ASSUME NEW t \in Task, AcquirePermit(t)
      PROVE  PoolBounded'
  <2>1. Holders' = H \cup {t} /\ EngineOwners' = E \ {t} /\ t \notin H /\ t \notin E
    BY <1>1, <1>2, <1>5 DEF AcquirePermit, Goto, InEngine, States
  <2>2. EngineOwners' = E /\ Cardinality(Holders') = Cardinality(H) + 1
    BY <1>0, <2>1, TaskCount
  <2>3. permits' = permits - 1 /\ idle' = idle
    BY <1>5 DEF AcquirePermit
  <2> QED BY <1>a, <1>b, <1>c, <2>2, <2>3 DEF PoolBounded
<1>6. ASSUME NEW t \in Task, PopIdle(t)
      PROVE  PoolBounded'
  <2>1. Holders' = H \cup {t} /\ EngineOwners' = E \cup {t} /\ t \in H /\ t \notin E
    BY <1>1, <1>2, <1>6 DEF PopIdle, Goto, InEngine, States
  <2>2. Holders' = H /\ Cardinality(EngineOwners') = Cardinality(E) + 1
    BY <1>0, <2>1, TaskCount
  <2>3. permits' = permits
    BY <1>6 DEF PopIdle
  <2>4. CASE idle = <<>>
    <3>1. E \cup {t} \subseteq H /\ IsFiniteSet(H)
      BY <1>0, <2>1, PoolAssumptions, FS_Subset
    <3>2. Cardinality(EngineOwners') <= Cardinality(H)
      BY <2>1, <3>1, FS_Subset
    <3>3. Len(idle') = 0
      BY <1>6, <2>4 DEF PopIdle
    <3> QED BY <1>a, <1>b, <1>c, <2>2, <2>3, <3>2, <3>3 DEF PoolBounded
  <2>5. CASE idle # <<>>
    <3>1. Len(idle') = Len(idle) - 1 /\ Len(idle) \in Nat
      BY <1>a, <1>6, <2>5 DEF PopIdle
    <3> QED BY <1>a, <1>b, <1>c, <2>2, <2>3, <3>1 DEF PoolBounded
  <2> QED BY <2>4, <2>5
<1>7. ASSUME NEW t \in Task, NEW s \in {"holding", "writing", "imaging", "compacting", "done"},
             state[t] \in InEngine,
             state' = [state EXCEPT ![t] = s], UNCHANGED <<permits, idle>>
      PROVE  PoolBounded'
  <2>1. Holders' = H \cup {t} /\ EngineOwners' = E \cup {t} /\ t \in H /\ t \in E
    BY <1>1, <1>2, <1>7 DEF InEngine, States
  <2> QED BY <1>3, <1>7, <2>1
<1>8. ASSUME NEW t \in Task, OpenEngine(t)
      PROVE  PoolBounded'
  BY <1>7, <1>8 DEF OpenEngine, Goto, InEngine
<1>9. ASSUME NEW t \in Task, NEW i \in Ids, NEW insert \in BOOLEAN, SeekEnd(t, i, insert)
      PROVE  PoolBounded'
  BY <1>7, <1>9 DEF SeekEnd, Goto, InEngine
<1>10. ASSUME NEW t \in Task, WriteRecord(t)
       PROVE  PoolBounded'
  BY <1>7, <1>10 DEF WriteRecord, Goto, InEngine
<1>11. ASSUME NEW t \in Task, BeginImage(t)
       PROVE  PoolBounded'
  BY <1>7, <1>11 DEF BeginImage, Goto, InEngine
<1>17. ASSUME NEW t \in Task, EndImage(t)
       PROVE  PoolBounded'
  BY <1>7, <1>17 DEF EndImage, Goto, InEngine
<1>12. ASSUME NEW t \in Task, CompactReset(t)
       PROVE  PoolBounded'
  BY <1>7, <1>12 DEF CompactReset, Goto, InEngine
<1>13. ASSUME NEW t \in Task, PushEngine(t)
       PROVE  PoolBounded'
  <2>1. Holders' = H \cup {t} /\ EngineOwners' = E \ {t} /\ t \in H /\ t \in E
    BY <1>1, <1>2, <1>13 DEF PushEngine, Goto, InEngine, States
  <2>2. Holders' = H /\ Cardinality(EngineOwners') = Cardinality(E) - 1
    BY <1>0, <2>1, TaskCount
  <2>3. Len(idle') = Len(idle) + 1 /\ Len(idle) \in Nat /\ permits' = permits
    BY <1>a, <1>13 DEF PushEngine
  <2> QED BY <1>a, <1>b, <1>c, <2>2, <2>3 DEF PoolBounded
<1>14. ASSUME NEW t \in Task, DropPermit(t)
       PROVE  PoolBounded'
  <2>1. Holders' = H \ {t} /\ EngineOwners' = E \ {t} /\ t \in H /\ t \notin E
    BY <1>1, <1>2, <1>14 DEF DropPermit, Goto, InEngine, States
  <2>2. EngineOwners' = E /\ Cardinality(Holders') = Cardinality(H) - 1
    BY <1>0, <2>1, TaskCount
  <2>3. permits' = permits + 1 /\ idle' = idle
    BY <1>14 DEF DropPermit
  <2> QED BY <1>a, <1>b, <1>c, <2>2, <2>3 DEF PoolBounded
<1>15. ASSUME NEW t \in Task, Fail(t)
       PROVE  PoolBounded'
  <2>1. Holders' = H \ {t} /\ EngineOwners' = E \ {t} /\ t \in H /\ t \in E
    BY <1>1, <1>2, <1>15 DEF Fail, Goto, InEngine, States
  <2>2. Cardinality(EngineOwners') = Cardinality(E) - 1 /\ Cardinality(Holders') = Cardinality(H) - 1
    BY <1>0, <2>1, TaskCount
  <2>3. permits' = permits + 1 /\ idle' = idle
    BY <1>15 DEF Fail
  <2> QED BY <1>a, <1>b, <1>c, <2>2, <2>3 DEF PoolBounded
<1>16. CASE UNCHANGED vars
  BY <1>16 DEF vars, PoolBounded, Holders, EngineOwners
<1> QED
  BY <1>4, <1>5, <1>6, <1>8, <1>9, <1>10, <1>11, <1>12, <1>13, <1>14, <1>15, <1>16, <1>17
  DEF Next, Serve, Finish

-----------------------------------------------------------------------------
(* Every step keeps one writer and one compactor at work, and the files     *)
(* equal to what was acknowledged, unless it sets raced.                    *)
LEMMA FilesPreserved ==
    ASSUME TypeOK, FilesOK, [Next]_vars
    PROVE  FilesOK'
<1> SUFFICES ASSUME ~raced'
             PROVE  WorkOK' /\ Held'
  BY DEF FilesOK, WorkOK
<1>0. ~raced
  BY DEF Next, Serve, Finish, Request, AcquirePermit, PopIdle, OpenEngine, SeekEnd,
         WriteRecord, BeginImage, EndImage, CompactReset, DropWal, PushEngine, DropPermit,
         Fail, vars, history
<1>a. /\ \A t, u \in Writers : t = u
      /\ \A t \in Writers : target[t][3] = Len(wal) + 1
      /\ \A t, u \in Compactors : t = u
      /\ \A t \in Task : state[t] = "imaging" =>
           \A i \in Ids \ unsure : At(i) = {} => (i \in engine[t] <=> i \in acked)
      /\ \A t \in Task : state[t] = "compacting" => whole /\ image = engine[t]
      /\ \A i \in Ids \ unsure : whole \/ At(i) # {} => (i \in InFiles <=> i \in acked)
  BY <1>0 DEF FilesOK, WorkOK, Held
<1>b. /\ state \in [Task -> States] /\ engine \in [Task -> SUBSET Ids]
      /\ target \in [Task -> Target \cup {<<>>}] /\ wal \in Seq(Ids \X BOOLEAN)
      /\ acked \subseteq Ids /\ image \subseteq Ids
  BY DEF TypeOK
<1>c. ASSUME UNCHANGED wal
      PROVE  InWal' = InWal /\ \A i : At(i)' = At(i)
  BY <1>c DEF InWal, At
\* A task that neither writes nor compacts moves on, or gives up.
<1>1. ASSUME NEW t \in Task, NEW s \in States \ {"writing", "imaging", "compacting"},
             state' = [state EXCEPT ![t] = s], UNCHANGED <<wal, image, whole, acked, unsure>>,
             \A u \in Task \ {t} : engine'[u] = engine[u] /\ target'[u] = target[u]
      PROVE  WorkOK' /\ Held'
  <2>1. /\ Writers' \subseteq Writers \ {t} /\ Compactors' \subseteq Compactors \ {t}
        /\ \A u \in Task : state'[u] \in {"imaging", "compacting"} => u # t /\ state'[u] = state[u]
    BY <1>b, <1>1 DEF Writers, Compactors
  <2>2. Writers \subseteq Task /\ Compactors \subseteq Task
    BY DEF Writers, Compactors
  <2>3. InFiles' = InFiles /\ \A i : At(i)' = At(i)
    BY <1>c, <1>1 DEF InFiles
  <2>4. Held'
    BY <1>a, <1>1, <2>3 DEF Held
  <2>5. \A u \in Task : state'[u] = "imaging" =>
          \A i \in Ids \ unsure' : At(i)' = {} => (i \in engine'[u] <=> i \in acked')
    BY <1>a, <1>1, <2>1, <2>3
  <2>6. \A u \in Task : state'[u] = "compacting" => whole' /\ image' = engine'[u]
    BY <1>a, <1>1, <2>1
  <2>7. \A u \in Writers' : target'[u][3] = Len(wal') + 1
    BY <1>a, <1>1, <2>1, <2>2
  <2>8. (\A u, v \in Writers' : u = v) /\ (\A u, v \in Compactors' : u = v)
    BY <1>a, <2>1
  <2> QED BY <2>4, <2>5, <2>6, <2>7, <2>8 DEF WorkOK
\* The record of a write is committed, and the call acknowledged or not.
<1>w. ASSUME NEW t \in Task, state[t] = "writing", PutRecord(t), NEW s \in {"done", "out"},
             state' = [state EXCEPT ![t] = s],
             \A u \in Task \ {t} : engine'[u] = engine[u] /\ target'[u] = target[u],
             \/ acked' = With(acked, target[t][1], target[t][2]) /\ unsure' = unsure \ {target[t][1]}
             \/ acked' = acked /\ unsure' = unsure \cup {target[t][1]}
      PROVE  WorkOK' /\ Held'
  <2>1. PICK i \in Ids, insert \in BOOLEAN, k \in Nat :
          /\ t \in Writers /\ k = Len(wal) + 1 /\ Len(wal) \in Nat
          /\ target[t][1] = i /\ target[t][2] = insert /\ target[t][3] = k
    <3>1. t \in Writers /\ target[t] \in Target
      BY <1>w DEF Writers, TypeOK
    <3>2. target[t][1] \in Ids /\ target[t][2] \in BOOLEAN /\ target[t][3] \in Nat
      BY <3>1 DEF Target
    <3> QED BY <1>a, <1>b, <3>1, <3>2
  <2>2. wal' = Append(wal, <<i, insert>>) /\ image' = image /\ whole' = whole
    <3>1. /\ wal' = IF k <= Len(wal) THEN [wal EXCEPT ![k] = <<i, insert>>]
                    ELSE Append(wal, <<i, insert>>)
          /\ image' = image /\ whole' = whole
      BY <1>w, <2>1 DEF PutRecord
    <3> QED BY <2>1, <3>1
  <2>3. /\ InFiles' = With(InFiles, i, insert)
        /\ At(i)' # {} /\ \A j \in Ids : j # i => At(j)' = At(j)
    BY <1>b, <2>1, <2>2, AppendDecides
  <2>4. \/ acked' = With(acked, i, insert) /\ unsure' = unsure \ {i}
        \/ acked' = acked /\ unsure' = unsure \cup {i}
    BY <1>w, <2>1
  <2>5. ASSUME NEW j \in Ids \ unsure', j # i
        PROVE  j \in Ids \ unsure /\ (j \in acked' <=> j \in acked) /\ (j \in InFiles' <=> j \in InFiles)
    BY <2>3, <2>4, <2>5 DEF With
  <2>6. i \notin unsure' => (i \in acked' <=> insert) /\ (i \in InFiles' <=> insert)
    BY <2>3, <2>4 DEF With
  <2>7. Held'
    BY <1>a, <2>2, <2>3, <2>5, <2>6 DEF Held
  <2>8. /\ Writers' = {} /\ Compactors' = Compactors
        /\ \A u \in Task : state'[u] \in {"imaging", "compacting"} =>
             u # t /\ state'[u] = state[u] /\ engine'[u] = engine[u]
    BY <1>a, <1>b, <1>w, <2>1 DEF Writers, Compactors
  <2>9. \A u \in Task : state'[u] = "imaging" =>
          \A j \in Ids \ unsure' : At(j)' = {} => (j \in engine'[u] <=> j \in acked')
    <3> SUFFICES ASSUME NEW u \in Task, state'[u] = "imaging", NEW j \in Ids \ unsure', At(j)' = {}
                 PROVE  j \in engine'[u] <=> j \in acked'
      OBVIOUS
    <3>1. j # i /\ At(j) = {}
      BY <2>3
    <3>2. j \in Ids \ unsure /\ (j \in acked' <=> j \in acked)
      BY <2>5, <3>1
    <3>3. state[u] = "imaging" /\ engine'[u] = engine[u]
      BY <2>8
    <3> QED BY <1>a, <3>1, <3>2, <3>3
  <2>10. \A u \in Task : state'[u] = "compacting" => whole' /\ image' = engine'[u]
    BY <1>a, <2>2, <2>8
  <2> QED BY <1>a, <2>7, <2>8, <2>9, <2>10 DEF WorkOK
\* The WAL is dropped behind a whole image.
<1>d. ASSUME NEW t \in Task, state[t] = "compacting", DropWal(t), NEW s \in {"done", "out"},
             state' = [state EXCEPT ![t] = s], UNCHANGED <<acked, unsure>>
      PROVE  WorkOK' /\ Held'
  <2>1. /\ Shows(engine[t]) /\ Writers = {} /\ t \in Compactors
        /\ wal' = <<>> /\ UNCHANGED <<image, whole>>
    BY <1>d DEF DropWal, Compactors
  <2>2. /\ Compactors' = {} /\ Writers' = {}
        /\ \A u \in Task : state'[u] \notin {"imaging", "compacting"}
    BY <1>a, <1>b, <1>d, <2>1 DEF Writers, Compactors
  <2>3. \A i : At(i)' = {}
    BY <2>1 DEF At
  <2>4. InFiles' = image
    <3>1. InWal' = {}
      BY <2>3 DEF InWal
    <3> QED BY <2>1, <2>3, <3>1 DEF InFiles
  <2>5. whole /\ image = engine[t]
    BY <1>a, <1>d
  <2>6. \A i : i \notin unsure => (i \in engine[t] <=> i \in acked)
    BY <2>1 DEF Shows
  <2> QED BY <1>d, <2>1, <2>2, <2>4, <2>5, <2>6 DEF WorkOK, Held
<1>2. ASSUME NEW t \in Task, Request(t)
      PROVE  WorkOK' /\ Held'
  BY <1>1, <1>2 DEF Request, Goto, files, calls, States
<1>3. ASSUME NEW t \in Task, AcquirePermit(t)
      PROVE  WorkOK' /\ Held'
  BY <1>1, <1>3 DEF AcquirePermit, Goto, files, calls, States
<1>4. ASSUME NEW t \in Task, PopIdle(t)
      PROVE  WorkOK' /\ Held'
  <2>1. /\ \A u \in Task \ {t} : engine'[u] = engine[u] /\ target'[u] = target[u]
        /\ UNCHANGED <<wal, image, whole, acked, unsure>>
    BY <1>b, <1>4 DEF PopIdle, files, calls
  <2>2. PICK s \in {"opening", "holding"} : state' = [state EXCEPT ![t] = s]
    BY <1>4 DEF PopIdle, Goto
  <2> QED BY <1>1, <2>1, <2>2 DEF States
<1>5. ASSUME NEW t \in Task, OpenEngine(t)
      PROVE  WorkOK' /\ Held'
  <2>1. /\ \A u \in Task \ {t} : engine'[u] = engine[u] /\ target'[u] = target[u]
        /\ UNCHANGED <<wal, image, whole, acked, unsure>>
        /\ state' = [state EXCEPT ![t] = "holding"]
    BY <1>b, <1>5 DEF OpenEngine, Goto, files, calls
  <2> QED BY <1>1, <2>1 DEF States
<1>6. ASSUME NEW t \in Task, NEW i \in Ids, NEW insert \in BOOLEAN, SeekEnd(t, i, insert)
      PROVE  WorkOK' /\ Held'
  <2>1. Writers = {} /\ UNCHANGED <<wal, image, whole, acked, unsure, engine>> /\ state[t] = "holding"
        /\ state' = [state EXCEPT ![t] = "writing"]
        /\ target' = [target EXCEPT ![t] = <<i, insert, EndOfWal>>]
    BY <1>6 DEF SeekEnd, Goto, files, calls
  <2>2. /\ Writers' = {t} /\ Compactors' = Compactors
        /\ \A u \in Task : state'[u] \in {"imaging", "compacting"} => state'[u] = state[u]
    BY <1>b, <2>1 DEF Writers, Compactors
  <2>3. target'[t][3] = Len(wal') + 1
    BY <1>b, <2>1 DEF EndOfWal
  <2>4. InFiles' = InFiles /\ \A j : At(j)' = At(j)
    BY <1>c, <2>1 DEF InFiles
  <2>5. Held'
    BY <1>a, <2>1, <2>4 DEF Held
  <2>6. \A u \in Task : state'[u] = "imaging" =>
          \A j \in Ids \ unsure' : At(j)' = {} => (j \in engine'[u] <=> j \in acked')
    BY <1>a, <2>1, <2>2, <2>4
  <2>7. \A u \in Task : state'[u] = "compacting" => whole' /\ image' = engine'[u]
    BY <1>a, <2>1, <2>2
  <2> QED BY <1>a, <2>2, <2>3, <2>5, <2>6, <2>7 DEF WorkOK
<1>7. ASSUME NEW t \in Task, WriteRecord(t)
      PROVE  WorkOK' /\ Held'
  <2>1. /\ state[t] = "writing" /\ PutRecord(t) /\ state' = [state EXCEPT ![t] = "done"]
        /\ acked' = With(acked, target[t][1], target[t][2]) /\ unsure' = unsure \ {target[t][1]}
    BY <1>7 DEF WriteRecord, Goto
  <2>2. \A u \in Task \ {t} : engine'[u] = engine[u] /\ target'[u] = target[u]
    BY <1>b, <1>7 DEF WriteRecord, Learn
  <2> QED BY <1>w, <2>1, <2>2
<1>8. ASSUME NEW t \in Task, BeginImage(t)
      PROVE  WorkOK' /\ Held'
  <2>1. /\ Shows(engine[t]) /\ Compactors = {} /\ state[t] = "holding"
        /\ whole' = FALSE /\ state' = [state EXCEPT ![t] = "imaging"]
        /\ UNCHANGED <<wal, image, acked, unsure, engine, target>>
    BY <1>8 DEF BeginImage, Goto, calls
  <2>2. /\ Compactors' = {t} /\ Writers' = Writers
        /\ \A u \in Task : state'[u] \in {"imaging", "compacting"} => u = t /\ state'[u] = "imaging"
    BY <1>b, <2>1 DEF Writers, Compactors
  <2>3. InFiles' = InFiles /\ \A i : At(i)' = At(i)
    BY <1>c, <2>1 DEF InFiles
  <2>4. \A i : i \notin unsure => (i \in engine[t] <=> i \in acked)
    BY <2>1 DEF Shows
  <2>5. Held'
    BY <1>a, <2>1, <2>3 DEF Held
  <2>6. \A u \in Task : state'[u] = "imaging" =>
          \A i \in Ids \ unsure' : At(i)' = {} => (i \in engine'[u] <=> i \in acked')
    BY <2>1, <2>2, <2>4
  <2> QED BY <1>a, <2>1, <2>2, <2>5, <2>6 DEF WorkOK
<1>14. ASSUME NEW t \in Task, EndImage(t)
       PROVE  WorkOK' /\ Held'
  <2>1. /\ image' = engine[t] /\ whole' = TRUE /\ state[t] = "imaging" /\ t \in Compactors
        /\ state' = [state EXCEPT ![t] = "compacting"]
        /\ UNCHANGED <<wal, acked, unsure, engine, target>>
    BY <1>14 DEF EndImage, Goto, calls, Compactors
  <2>2. /\ Compactors' = Compactors /\ Writers' = Writers
        /\ \A u \in Task : state'[u] \in {"imaging", "compacting"} => u = t
    BY <1>a, <1>b, <2>1 DEF Writers, Compactors
  <2>3. InWal' = InWal /\ \A i : At(i)' = At(i)
    BY <1>c, <2>1
  <2>4. ASSUME NEW i \in Ids \ unsure
        PROVE  i \in InFiles' <=> i \in acked
    <3>1. CASE At(i) = {}
      <4>1. i \notin InWal
        BY <3>1, Zenon DEF InWal
      <4>2. i \in engine[t] <=> i \in acked
        BY <1>a, <2>1, <3>1
      <4> QED BY <2>1, <2>3, <3>1, <4>1, <4>2 DEF InFiles
    <3>2. CASE At(i) # {}
      <4>1. i \in InFiles <=> i \in acked
        BY <1>a, <3>2
      <4> QED BY <2>3, <3>2, <4>1 DEF InFiles
    <3> QED BY <3>1, <3>2
  <2>5. Held'
    BY <2>1, <2>4 DEF Held
  <2>6. state'[t] = "compacting" /\ whole' /\ image' = engine'[t]
    BY <1>b, <2>1
  <2> QED BY <1>a, <2>1, <2>2, <2>5, <2>6 DEF WorkOK
<1>9. ASSUME NEW t \in Task, CompactReset(t)
      PROVE  WorkOK' /\ Held'
  BY <1>d, <1>9 DEF CompactReset, Goto, calls
<1>10. ASSUME NEW t \in Task, PushEngine(t)
       PROVE  WorkOK' /\ Held'
  BY <1>b, <1>1, <1>10 DEF PushEngine, Goto, files, calls, States
<1>11. ASSUME NEW t \in Task, DropPermit(t)
       PROVE  WorkOK' /\ Held'
  BY <1>1, <1>11 DEF DropPermit, Goto, files, calls, States
<1>12. ASSUME NEW t \in Task, Fail(t)
       PROVE  WorkOK' /\ Held'
  <2>1. /\ state' = [state EXCEPT ![t] = "out"] /\ "out" \in States
        /\ \A u \in Task \ {t} : engine'[u] = engine[u] /\ target'[u] = target[u]
    BY <1>b, <1>12 DEF Fail, Goto, States
  <2>2. CASE UNCHANGED <<files, calls, raced>>
    BY <1>1, <2>1, <2>2 DEF files, calls
  <2>3. CASE /\ state[t] = "writing" /\ torn' = TRUE
             /\ UNCHANGED <<wal, image, whole, compactions, calls, raced>>
    BY <1>1, <2>1, <2>3 DEF calls
  <2>4. CASE /\ state[t] = "writing" /\ PutRecord(t)
             /\ unsure' = unsure \cup {target[t][1]} /\ UNCHANGED <<acked, raced>>
    BY <1>w, <2>1, <2>4
  <2>5. CASE state[t] = "compacting" /\ DropWal(t) /\ UNCHANGED calls
    BY <1>d, <2>1, <2>5 DEF calls
  <2> QED BY <1>12, <2>2, <2>3, <2>4, <2>5 DEF Fail
<1>13. CASE UNCHANGED vars
  <2>1. /\ Writers' = Writers /\ Compactors' = Compactors
        /\ UNCHANGED <<state, target, wal, image, whole, engine, acked, unsure>>
    BY <1>13 DEF vars, files, calls, Writers, Compactors
  <2>2. InFiles' = InFiles /\ \A i : At(i)' = At(i)
    BY <1>c, <2>1 DEF InFiles
  <2>3. Held'
    BY <1>a, <2>1, <2>2 DEF Held
  <2> QED BY <1>a, <2>1, <2>2, <2>3 DEF WorkOK
<1> QED
  BY <1>2, <1>3, <1>4, <1>5, <1>6, <1>7, <1>8, <1>9, <1>10, <1>11, <1>12, <1>13, <1>14
  DEF Next, Serve, Finish

(* As long as tasks hold permits one after the other, every engine is handed *)
(* on with all that was acknowledged.                                       *)
LEMMA AlonePreserved ==
    ASSUME PoolInv, [Next]_vars, FilesOK'
    PROVE  AloneOK'
<1> DEFINE Fresh ==
             /\ ~raced' /\ image' = {} /\ whole' /\ Compactors' = {}
             /\ Len(idle') <= 1 /\ (EngineOwners' # {} => idle' = <<>>)
             /\ ~torn' =>
                  /\ \A k \in 1 .. Len(idle') : idle'[k] \ unsure' = acked' \ unsure'
                  /\ \A t \in Task : state'[t] \in {"holding", "writing", "done"} =>
                       engine'[t] \ unsure' = acked' \ unsure'
<1> SUFFICES ASSUME ~shared'
             PROVE  (\A t, u \in Holders' : t = u) /\ (compactions' = 0 => Fresh)
  BY DEF AloneOK, Shows
<1>0. ~shared
  BY DEF Next, Serve, Finish, Request, AcquirePermit, PopIdle, OpenEngine, SeekEnd,
         WriteRecord, BeginImage, EndImage, CompactReset, PushEngine, DropPermit, Fail,
         vars, history
<1>a. /\ state \in [Task -> States] /\ engine \in [Task -> SUBSET Ids]
      /\ idle \in Seq(SUBSET Ids) /\ compactions \in Nat
  BY DEF PoolInv, TypeOK
<1>b. \A t, u \in Holders : t = u
  BY <1>0 DEF PoolInv, AloneOK
<1>c. compactions = 0 =>
        /\ ~raced /\ image = {} /\ whole /\ Compactors = {}
        /\ Len(idle) <= 1 /\ (EngineOwners # {} => idle = <<>>)
        /\ ~torn =>
             /\ \A k \in 1 .. Len(idle) : idle[k] \ unsure = acked \ unsure
             /\ \A t \in Task : state[t] \in {"holding", "writing", "done"} =>
                  engine[t] \ unsure = acked \ unsure
  BY <1>0 DEF PoolInv, AloneOK, Shows
<1>d. ASSUME NEW t \in Task, state[t] \notin {"out", "waiting"}
      PROVE  Holders = {t} /\ \A u \in Task \ {t} : state[u] \in {"out", "waiting"}
  BY <1>b, <1>d DEF Holders
\* The one task at work moves on.
<1>1. ASSUME NEW t \in Task, NEW s \in States, state[t] \notin {"out", "waiting"},
             state' = [state EXCEPT ![t] = s]
      PROVE  \A u, v \in Holders' : u = v
  BY <1>a, <1>d, <1>1 DEF Holders
<1>2. ASSUME NEW t \in Task, Request(t)
      PROVE  (\A u, v \in Holders' : u = v) /\ (compactions' = 0 => Fresh)
  <2>1. Holders' = Holders /\ Compactors' = Compactors /\ EngineOwners' = EngineOwners
    BY <1>a, <1>2 DEF Request, Goto, Holders, Compactors, EngineOwners, InEngine
  <2> QED BY <1>a, <1>b, <1>c, <1>2, <2>1 DEF Request, Goto, files, calls, history
<1>3. ASSUME NEW t \in Task, AcquirePermit(t)
      PROVE  (\A u, v \in Holders' : u = v) /\ (compactions' = 0 => Fresh)
  <2>1. permits = PoolSize
    <3>1. permits >= PoolSize
      <4>1. ~(permits < PoolSize)
        BY <1>3, Zenon DEF AcquirePermit
      <4> QED BY <4>1, PoolAssumptions DEF PoolInv, TypeOK
    <3>2. IsFiniteSet(Holders)
      BY PoolAssumptions, FS_Subset DEF Holders
    <3>3. permits + Cardinality(Holders) = PoolSize /\ Cardinality(Holders) \in Nat
      BY <3>2, FS_CardinalityType DEF PoolInv, PoolBounded
    <3> QED BY <3>1, <3>3, PoolAssumptions DEF PoolInv, TypeOK
  <2>2. Holders = {}
    <3>1. IsFiniteSet(Holders)
      BY PoolAssumptions, FS_Subset DEF Holders
    <3>2. Cardinality(Holders) = 0
      BY <2>1, <3>1, FS_CardinalityType, PoolAssumptions DEF PoolInv, PoolBounded
    <3> QED BY <3>1, <3>2, FS_EmptySet
  <2>3. Holders' = {t} /\ Compactors' = Compactors /\ EngineOwners' = EngineOwners
    BY <1>a, <1>3, <2>2 DEF AcquirePermit, Goto, Holders, Compactors, EngineOwners, InEngine
  <2> QED BY <1>a, <1>c, <1>3, <2>3 DEF AcquirePermit, Goto, files, calls
<1>4. ASSUME NEW t \in Task, PopIdle(t)
      PROVE  (\A u, v \in Holders' : u = v) /\ (compactions' = 0 => Fresh)
  <2>1. \A u, v \in Holders' : u = v
    <3>1. PICK s \in {"opening", "holding"} : state' = [state EXCEPT ![t] = s]
      BY <1>4 DEF PopIdle, Goto
    <3> QED BY <1>1, <1>4, <3>1 DEF PopIdle, States
  <2>2. CASE idle = <<>>
    <3>1. Compactors' = Compactors
      BY <1>a, <1>4, <2>2 DEF PopIdle, Goto, Compactors
    <3> QED BY <1>a, <1>c, <1>4, <2>1, <2>2, <3>1 DEF PopIdle, Goto, files, calls, history
  <2>3. CASE idle # <<>>
    <3>1. Compactors' = Compactors
      BY <1>a, <1>4, <2>3 DEF PopIdle, Goto, Compactors
    <3>2. Len(idle) \in 1 .. Len(idle) /\ Len(idle') = Len(idle) - 1 /\ idle' \in Seq(SUBSET Ids)
          /\ \A k \in 1 .. Len(idle') : idle'[k] = idle[k] /\ k \in 1 .. Len(idle)
      BY <1>a, <1>4, <2>3 DEF PopIdle
    <3>3. engine' = [engine EXCEPT ![t] = idle[Len(idle)]] /\ state' = [state EXCEPT ![t] = "holding"]
          /\ UNCHANGED <<raced, image, whole, torn, acked, unsure, compactions>>
      BY <1>4, <2>3 DEF PopIdle, Goto, files, calls, history
    <3>4. Len(idle) <= 1 => idle' = <<>>
      BY <1>a, <2>3, <3>2
    <3> QED BY <1>a, <1>c, <2>1, <3>1, <3>2, <3>3, <3>4
  <2> QED BY <2>2, <2>3
<1>5. ASSUME NEW t \in Task, OpenEngine(t)
      PROVE  (\A u, v \in Holders' : u = v) /\ (compactions' = 0 => Fresh)
  <2>1. ~raced /\ image = {} /\ whole => InWal \ unsure = acked \ unsure
    <3> SUFFICES ASSUME ~raced, image = {}, whole, NEW i
                 PROVE  i \in InWal \ unsure <=> i \in acked \ unsure
      OBVIOUS
    <3>1. InFiles = InWal /\ acked \subseteq Ids /\ InWal \subseteq Ids
      BY DEF InFiles, InWal, PoolInv, TypeOK
    <3>2. i \in Ids \ unsure => (i \in InWal <=> i \in acked)
      BY <3>1 DEF PoolInv, FilesOK, Held
    <3> QED BY <3>1, <3>2
  <2>2. Compactors' = Compactors /\ EngineOwners' = EngineOwners
    BY <1>a, <1>5 DEF OpenEngine, Goto, Compactors, EngineOwners, InEngine
  <2>3. PICK S \in SUBSET Ids :
          /\ ~torn /\ (InWal # {} \/ compactions = 0) => S = InWal
          /\ engine' = [engine EXCEPT ![t] = S]
    BY <1>5 DEF OpenEngine
  <2>4. /\ state[t] = "opening" /\ state' = [state EXCEPT ![t] = "holding"]
        /\ UNCHANGED <<idle, image, whole, torn, compactions, acked, unsure, raced>>
    BY <1>5 DEF OpenEngine, Goto, files, calls, history
  <2>5. \A u, v \in Holders' : u = v
    BY <1>1, <2>4 DEF States
  <2>6. ASSUME compactions = 0, ~torn
        PROVE  \A u \in Task : state'[u] \in {"holding", "writing", "done"} =>
                 engine'[u] \ unsure' = acked' \ unsure'
    BY <1>a, <1>c, <2>1, <2>3, <2>4, <2>6
  <2> QED BY <1>c, <2>2, <2>4, <2>5, <2>6
<1>6. ASSUME NEW t \in Task, NEW i \in Ids, NEW insert \in BOOLEAN, SeekEnd(t, i, insert)
      PROVE  (\A u, v \in Holders' : u = v) /\ (compactions' = 0 => Fresh)
  <2>1. Writers = {} /\ Compactors' = Compactors /\ EngineOwners' = EngineOwners
    BY <1>a, <1>d, <1>6 DEF SeekEnd, Goto, Writers, Compactors, EngineOwners, InEngine
  <2> QED BY <1>a, <1>c, <1>1, <1>6, <2>1 DEF SeekEnd, Goto, files, calls, States
<1>7. ASSUME NEW t \in Task, WriteRecord(t)
      PROVE  (\A u, v \in Holders' : u = v) /\ (compactions' = 0 => Fresh)
  <2> DEFINE i == target[t][1]
             insert == target[t][2]
  <2>1. /\ state[t] = "writing" /\ state' = [state EXCEPT ![t] = "done"]
        /\ engine' = [engine EXCEPT ![t] = With(engine[t], i, insert)]
        /\ acked' = With(acked, i, insert) /\ unsure' = unsure \ {i}
        /\ UNCHANGED <<idle, torn, image, whole, compactions, raced>>
    BY <1>a, <1>7 DEF WriteRecord, PutRecord, Goto, Learn, history
  <2>2. Compactors' = Compactors
    BY <1>a, <2>1 DEF Compactors
  <2>3. \A u \in Task \ {t} : state'[u] \in {"out", "waiting"}
    BY <1>a, <1>d, <2>1
  <2>4. t \in EngineOwners /\ (compactions = 0 => idle = <<>>)
    BY <1>c, <2>1 DEF EngineOwners, InEngine
  <2>5. \A u, v \in Holders' : u = v
    BY <1>1, <2>1 DEF States
  <2>6. ASSUME compactions' = 0
        PROVE  Fresh
    <3> HIDE DEF i, insert
    <3>1. Len(idle') = 0
      BY <1>a, <1>c, <2>1, <2>4, <2>6
    <3>2. ASSUME ~torn
          PROVE  engine'[t] \ unsure' = acked' \ unsure'
      <4>1. engine[t] \ unsure = acked \ unsure
        BY <1>c, <2>1, <2>6, <3>2
      <4>2. engine'[t] = With(engine[t], i, insert)
        BY <1>a, <2>1
      <4> QED BY <2>1, <4>1, <4>2 DEF With
    <3>3. ~torn => \A u \in Task : state'[u] \in {"holding", "writing", "done"} =>
                     engine'[u] \ unsure' = acked' \ unsure'
      BY <2>3, <3>2
    <3> QED BY <1>a, <1>c, <2>1, <2>2, <2>4, <2>6, <3>1, <3>3
  <2> QED BY <2>5, <2>6
<1>8. ASSUME NEW t \in Task, BeginImage(t)
      PROVE  (\A u, v \in Holders' : u = v) /\ (compactions' = 0 => Fresh)
  <2>1. compactions' # 0
    BY <1>a, <1>8 DEF BeginImage
  <2> QED BY <1>1, <1>8, <2>1 DEF BeginImage, Goto, States
<1>14. ASSUME NEW t \in Task, EndImage(t)
      PROVE  (\A u, v \in Holders' : u = v) /\ (compactions' = 0 => Fresh)
  <2>1. t \in Compactors /\ compactions' = compactions
    BY <1>14 DEF EndImage, Compactors
  <2> QED BY <1>c, <1>1, <1>14, <2>1 DEF EndImage, Goto, States
<1>9. ASSUME NEW t \in Task, CompactReset(t)
      PROVE  (\A u, v \in Holders' : u = v) /\ (compactions' = 0 => Fresh)
  <2>1. t \in Compactors /\ compactions' = compactions
    BY <1>9 DEF CompactReset, DropWal, Compactors
  <2> QED BY <1>c, <1>1, <1>9, <2>1 DEF CompactReset, Goto, States
<1>10. ASSUME NEW t \in Task, PushEngine(t)
       PROVE  (\A u, v \in Holders' : u = v) /\ (compactions' = 0 => Fresh)
  <2>1. Compactors' = Compactors /\ EngineOwners' = {} /\ t \in EngineOwners
    BY <1>a, <1>d, <1>10 DEF PushEngine, Goto, Compactors, EngineOwners, InEngine
  <2>3. \A u, v \in Holders' : u = v
    BY <1>1, <1>10 DEF PushEngine, Goto, States
  <2>4. ASSUME compactions' = 0
        PROVE  Fresh
    <3>1. /\ ~torn => engine[t] \ unsure = acked \ unsure
          /\ idle = <<>> /\ idle' = Append(idle, engine[t])
          /\ UNCHANGED <<raced, torn, image, whole, acked, unsure, compactions>>
      BY <1>c, <1>10, <2>1, <2>4 DEF PushEngine, files, calls, history
    <3>2. Len(idle') = 1 /\ idle'[1] = engine[t]
      BY <1>a, <3>1
    <3>3. \A u \in Task : state'[u] \notin {"holding", "writing", "done"}
      BY <2>1 DEF EngineOwners, InEngine
    <3> QED BY <1>c, <2>1, <2>4, <3>1, <3>2, <3>3
  <2> QED BY <2>3, <2>4
<1>11. ASSUME NEW t \in Task, DropPermit(t)
       PROVE  (\A u, v \in Holders' : u = v) /\ (compactions' = 0 => Fresh)
  <2>1. Compactors' = Compactors /\ EngineOwners' = EngineOwners
    BY <1>a, <1>11 DEF DropPermit, Goto, Compactors, EngineOwners, InEngine
  <2> QED BY <1>a, <1>c, <1>1, <1>11, <2>1 DEF DropPermit, Goto, files, calls, history, States
<1>12. ASSUME NEW t \in Task, Fail(t)
       PROVE  (\A u, v \in Holders' : u = v) /\ (compactions' = 0 => Fresh)
  <2>1. /\ Compactors' \subseteq Compactors /\ EngineOwners' = {} /\ t \in EngineOwners
        /\ state' = [state EXCEPT ![t] = "out"]
        /\ \A u \in Task : state'[u] \notin {"holding", "writing", "done"}
    BY <1>a, <1>d, <1>12 DEF Fail, Goto, Compactors, EngineOwners, InEngine
  <2>2. \A u, v \in Holders' : u = v
    BY <1>1, <1>12, <2>1 DEF Fail, InEngine, States
  <2>3. ASSUME compactions' = 0
        PROVE  Fresh
    <3>1. /\ state[t] # "compacting" => UNCHANGED <<raced, image, whole>>
          /\ compactions' = compactions /\ idle' = idle
      BY <1>12 DEF Fail, DropWal, PutRecord, files, calls
    <3>2. state[t] # "compacting"
      BY <1>c, <2>3, <3>1 DEF Compactors
    <3>3. idle = <<>>
      BY <1>c, <2>1, <2>3, <3>1
    <3> QED BY <1>c, <2>1, <2>3, <3>1, <3>2, <3>3
  <2> QED BY <2>2, <2>3
<1>13. CASE UNCHANGED vars
  BY <1>b, <1>c, <1>13 DEF vars, files, calls, history, Holders, Compactors, EngineOwners, InEngine
<1> QED
  BY <1>2, <1>3, <1>4, <1>5, <1>6, <1>7, <1>8, <1>9, <1>10, <1>11, <1>12, <1>13, <1>14
  DEF Next, Serve, Finish

-----------------------------------------------------------------------------
(* The inductive invariant: the types, the balance of permits and engines,  *)
(* and what the files and engines hold while calls do not overlap.          *)
THEOREM Invariance == Spec => []PoolInv
<1>1. Init => PoolInv
  <2> SUFFICES ASSUME Init PROVE PoolInv
    OBVIOUS
  <2>1. Writers = {} /\ Compactors = {} /\ Holders = {} /\ EngineOwners = {}
    BY DEF Init, Writers, Compactors, Holders, EngineOwners, InEngine
  <2>2. TypeOK
    <3>1. target \in [Task -> Target \cup {<<>>}]
      BY Zenon DEF Init
    <3>2. idle \in Seq(SUBSET Ids) /\ wal \in Seq(Ids \X BOOLEAN)
      BY DEF Init
    <3>3. state \in [Task -> States] /\ engine \in [Task -> SUBSET Ids]
      BY DEF Init, States
    <3>4. permits \in Nat /\ compactions \in Nat /\ shared \in BOOLEAN /\ raced \in BOOLEAN
          /\ torn \in BOOLEAN /\ whole \in BOOLEAN /\ image = {} /\ acked = {} /\ unsure = {}
      BY PoolAssumptions DEF Init
    <3> QED BY <2>1, <3>1, <3>2, <3>3, <3>4 DEF TypeOK
  <2>3. PoolBounded
    BY <2>1, FS_EmptySet, PoolAssumptions DEF Init, PoolBounded
  <2>4. FilesOK
    BY <2>1 DEF Init, FilesOK, WorkOK, Held, InFiles, InWal, At
  <2>5. AloneOK
    BY <2>1 DEF Init, AloneOK, Shows
  <2> QED BY <2>2, <2>3, <2>4, <2>5 DEF PoolInv
<1>2. PoolInv /\ [Next]_vars => PoolInv'
  BY TypePreserved, BoundedPreserved, FilesPreserved, AlonePreserved DEF PoolInv
<1> QED BY <1>1, <1>2, PTL DEF Spec

(* Permits are never lost or made up, and there are never more engines than *)
(* pool_size, for any number of tasks (DbPool::acquire, release and every   *)
(* path that drops a connection).                                           *)
THEOREM Bounded == Spec => []PoolBounded
<1>1. PoolInv => PoolBounded
  BY DEF PoolInv
<1> QED BY <1>1, Invariance, PTL

(* The files the engines share hold exactly what was acknowledged, over any *)
(* number of compactions and calls that fail before or behind the commit    *)
(* flag, while no two appends or compactions overlap.                       *)
THEOREM FilesCorrect == Spec => []FilesHoldAcknowledged
<1>1. PoolInv => FilesHoldAcknowledged
  BY DEF PoolInv, FilesOK, Held, FilesHoldAcknowledged
<1> QED BY <1>1, Invariance, PTL

(* A connection that never had company shows every acknowledged call, and   *)
(* besides only what a call that failed behind the commit flag has left.    *)
THEOREM AloneCorrect == Spec => []AloneIsFresh
<1>1. PoolInv => AloneIsFresh
  BY DEF PoolInv, AloneOK, AloneIsFresh
<1> QED BY <1>1, Invariance, PTL
=============================================================================
