-------------------------- MODULE CollectionsProofs --------------------------
(***************************************************************************)
(* Proofs about Collections and its transaction log, for every set of      *)
(* documents, bodies and operations: replay hands out what was committed,  *)
(* and a save that completed survives.                                     *)
(***************************************************************************)
EXTENDS Collections, Induction

\* A record of the log, and what replay has read so far.
TxEntry == [kind : {"begin", "op", "commit", "abort"}, tx : Nat, op : TxOps \cup {NoOp}]
TxState == [tx : Nat, pending : Seq(TxOps \cup {NoOp}), out : Seq(TxOps \cup {NoOp})]
NothingRead == [tx |-> 0, pending |-> <<>>, out |-> <<>>]

-----------------------------------------------------------------------------
(* Replay, one record at a time.                                           *)

\* One record leaves replay in a state.
LEMMA ReadType ==
    ASSUME NEW s \in TxState, NEW e \in TxEntry
    PROVE  Read(s, e) \in TxState
<1> DEFINE O == Seq(TxOps \cup {NoOp})
<1>1. /\ s.tx \in Nat /\ s.pending \in O /\ s.out \in O /\ e.tx \in Nat
      /\ e.op \in TxOps \cup {NoOp} /\ e.kind \in {"begin", "op", "commit", "abort"}
  BY DEF TxState, TxEntry
<1>2. /\ Append(s.pending, e.op) \in O /\ Append(s.out, e.op) \in O /\ <<>> \in O
      /\ s.out \o s.pending \in O
  BY <1>1
<1> HIDE DEF O
<1> SUFFICES ASSUME TRUE
             PROVE  Read(s, e) \in [tx : Nat, pending : O, out : O]
  BY DEF TxState, O
<1>3. s = [tx |-> s.tx, pending |-> s.pending, out |-> s.out]
  BY DEF TxState
<1>4. CASE e.kind = "begin"
  BY <1>1, <1>2, <1>3, <1>4 DEF Read
<1>5. CASE e.kind = "commit"
  BY <1>1, <1>2, <1>3, <1>5 DEF Read
<1>6. CASE e.kind = "abort"
  BY <1>1, <1>2, <1>3, <1>6 DEF Read
<1>7. CASE e.kind = "op"
  BY <1>1, <1>2, <1>3, <1>7 DEF Read
<1> QED BY <1>1, <1>4, <1>5, <1>6, <1>7

\* Replay of a log reads one record after the other.
LEMMA ReadSteps ==
    ASSUME NEW l \in Seq(TxEntry)
    PROVE  \E f : /\ f \in [0 .. Len(l) -> TxState] /\ f[0] = NothingRead /\ ReadAll(l) = f[Len(l)]
                  /\ \A k \in 1 .. Len(l) : f[k] = Read(f[k - 1], l[k])
<1> DEFINE N == Len(l)
           step == [x \in TxState \X (1 .. N) |-> Read(x[1], l[x[2]])]
           Def(f) == [k \in 0 .. N |-> IF k = 0 THEN NothingRead ELSE Read(f[k - 1], l[k])]
           f == CHOOSE f : f = Def(f)
<1>1. N \in Nat /\ NothingRead \in TxState /\ \A k \in 1 .. N : l[k] \in TxEntry
  BY DEF NothingRead, TxState
<1>2. ReadAll(l) = f[N]
  BY DEF ReadAll, NothingRead
<1> HIDE DEF N
<1>3. step \in Steps(TxState, N)
  BY <1>1, ReadType DEF Steps
<1>4. \A s \in TxState, k \in 1 .. N : step[<<s, k>>] = Read(s, l[k])
  OBVIOUS
<1> HIDE DEF step
<1>5. PICK g : Solves(g, TxState, NothingRead, N, step)
  BY <1>1, <1>3, Recurrence
<1>6. g = Def(g)
  <2>1. \A k \in 1 .. N : g[k - 1] \in TxState
    BY <1>1, <1>5 DEF Solves
  <2>2. \A k \in 1 .. N : g[k] = Read(g[k - 1], l[k])
    BY <1>4, <1>5, <2>1 DEF Solves
  <2> QED BY <1>1, <1>5, <2>2 DEF Solves
<1>7. f = Def(f)
  BY <1>6
<1> HIDE DEF f
<1> DEFINE Good == {k \in Nat : k <= N => f[k] \in TxState}
<1>8. 0 \in Good
  BY <1>1, <1>7
<1>9. ASSUME NEW k \in Nat, k \in Good PROVE k + 1 \in Good
  <2> SUFFICES ASSUME k + 1 <= N PROVE f[k + 1] \in TxState
    OBVIOUS
  <2>1. f[k] \in TxState
    BY <1>1, <1>9
  <2>2. f[k + 1] = Read(f[k], l[k + 1]) /\ l[k + 1] \in TxEntry
    BY <1>1, <1>7
  <2> QED BY <2>1, <2>2, ReadType
<1> HIDE DEF Good
<1>12. \A k \in Nat : k \in Good
  BY <1>8, <1>9, Induct
<1>10. \A k \in 0 .. N : f[k] \in TxState
  BY <1>1, <1>12 DEF Good
<1>11. f \in [0 .. N -> TxState] /\ f[0] = NothingRead /\ \A k \in 1 .. N : f[k] = Read(f[k - 1], l[k])
  BY <1>1, <1>7, <1>10
<1> QED BY <1>2, <1>11 DEF N

\* What replay of a log one record longer reads: that record, after the rest.
LEMMA ReadAppend ==
    ASSUME NEW l \in Seq(TxEntry), NEW e \in TxEntry
    PROVE  ReadAll(l) \in TxState /\ ReadAll(Append(l, e)) = Read(ReadAll(l), e)
<1> DEFINE m == Append(l, e)
           N == Len(l)
<1>1. /\ N \in Nat /\ m \in Seq(TxEntry) /\ Len(m) = N + 1 /\ m[N + 1] = e
      /\ \A k \in 1 .. N : m[k] = l[k]
  OBVIOUS
<1>2. PICK f : /\ f \in [0 .. N -> TxState] /\ f[0] = NothingRead /\ ReadAll(l) = f[N]
               /\ \A k \in 1 .. N : f[k] = Read(f[k - 1], l[k])
  BY ReadSteps
<1>3. PICK g : /\ g \in [0 .. Len(m) -> TxState] /\ g[0] = NothingRead /\ ReadAll(m) = g[Len(m)]
               /\ \A k \in 1 .. Len(m) : g[k] = Read(g[k - 1], m[k])
  BY <1>1, ReadSteps
<1> HIDE DEF m, N
<1> DEFINE Good == {k \in Nat : k <= N => g[k] = f[k]}
<1>4. 0 \in Good
  BY <1>2, <1>3
<1>5. ASSUME NEW k \in Nat, k \in Good PROVE k + 1 \in Good
  <2> SUFFICES ASSUME k + 1 <= N PROVE g[k + 1] = f[k + 1]
    OBVIOUS
  <2>1. g[k] = f[k] /\ k + 1 \in 1 .. N /\ k + 1 \in 1 .. Len(m) /\ (k + 1) - 1 = k
    BY <1>1, <1>5
  <2>2. m[k + 1] = l[k + 1]
    BY <1>1, <2>1
  <2>3. g[k + 1] = Read(g[k], m[k + 1]) /\ f[k + 1] = Read(f[k], l[k + 1])
    BY <1>2, <1>3, <2>1
  <2> QED BY <2>1, <2>2, <2>3
<1> HIDE DEF Good
<1>6. \A k \in Nat : k \in Good
  BY <1>4, <1>5, Induct
<1>7. g[N] = f[N] /\ f[N] \in TxState
  BY <1>1, <1>2, <1>6 DEF Good
<1>8. N + 1 \in 1 .. Len(m) /\ (N + 1) - 1 = N
  BY <1>1
<1>9. g[N + 1] = Read(g[N], m[N + 1])
  BY <1>3, <1>8
<1>10. ReadAll(m) = Read(f[N], e)
  BY <1>1, <1>3, <1>7, <1>9
<1> QED BY <1>2, <1>7, <1>10 DEF m

\* Of an empty log replay reads nothing.
LEMMA ReadEmpty == ReadAll(<<>>) = NothingRead
<1>1. <<>> \in Seq(TxEntry) /\ Len(<<>>) = 0
  OBVIOUS
<1> QED BY <1>1, ReadSteps

-----------------------------------------------------------------------------
(* The transaction log.                                                    *)

Ops == Seq(TxOps \cup {NoOp})

TxTypes ==
    /\ log \in Seq(TxEntry) /\ txCounter \in Nat /\ active \in Nat
    /\ mine \in Ops /\ views \in Seq(Ops) /\ Len(views) = Len(log)
    /\ torn \in 0 .. Len(log) + 1 /\ committed = View(Len(log))

\* What replay holds after the log as it is, in terms of what the client did.
\* A crash may leave a transaction open, of which replay still holds the
\* operations; nothing is said of these, and a new transaction drops them.
Tracks(s) ==
    /\ s.out = committed
    /\ active # 0 => s.tx = active /\ s.pending = mine
    /\ active = 0 /\ ~dangling => s.tx = 0

\* Of the first k records replay passes on what was committed when there were k.
Matches == \A k \in 0 .. Len(log) : ReadAll(SubSeq(log, 1, k)).out = View(k)

TxInv == TxTypes /\ (~irregular => Tracks(ReadAll(log)) /\ Matches)

(* The first k records of a log.                                           *)
LEMMA Prefix ==
    ASSUME NEW S, NEW l \in Seq(S), NEW k \in 0 .. Len(l)
    PROVE  /\ SubSeq(l, 1, k) \in Seq(S) /\ Len(SubSeq(l, 1, k)) = k
           /\ \A i \in 1 .. k : SubSeq(l, 1, k)[i] = l[i]
OBVIOUS

(* Sequences with the same elements are the same.                          *)
LEMMA SameSeq ==
    ASSUME NEW S, NEW l \in Seq(S), NEW m \in Seq(S), Len(l) = Len(m),
           \A i \in 1 .. Len(l) : l[i] = m[i]
    PROVE  l = m
OBVIOUS

(* A prefix of a longer log, or of a prefix, is a prefix of the log.       *)
LEMMA SamePrefix ==
    ASSUME NEW S, NEW l \in Seq(S), NEW m \in Seq(S), NEW k \in 0 .. Len(l), k <= Len(m),
           \A i \in 1 .. k : l[i] = m[i]
    PROVE  SubSeq(l, 1, k) = SubSeq(m, 1, k)
<1>1. k \in 0 .. Len(m)
  OBVIOUS
<1>2. SubSeq(l, 1, k) \in Seq(S) /\ SubSeq(m, 1, k) \in Seq(S)
      /\ Len(SubSeq(l, 1, k)) = k /\ Len(SubSeq(m, 1, k)) = k
      /\ \A i \in 1 .. k : SubSeq(l, 1, k)[i] = l[i] /\ SubSeq(m, 1, k)[i] = m[i]
  BY <1>1, Prefix
<1>3. \A i \in 1 .. k : SubSeq(l, 1, k)[i] = SubSeq(m, 1, k)[i]
  BY <1>2
<1> QED BY <1>2, <1>3, SameSeq

LEMMA WholeLog ==
    ASSUME NEW S, NEW l \in Seq(S)
    PROVE  SubSeq(l, 1, Len(l)) = l
<1>1. Len(l) \in 0 .. Len(l)
  OBVIOUS
<1>2. SubSeq(l, 1, Len(l)) \in Seq(S) /\ Len(SubSeq(l, 1, Len(l))) = Len(l)
      /\ \A i \in 1 .. Len(l) : SubSeq(l, 1, Len(l))[i] = l[i]
  BY <1>1, Prefix
<1> QED BY <1>2, SameSeq

(* A record written, with what replay then passes on.                      *)
LEMMA WriteKeeps ==
    ASSUME TxTypes, NEW e \in TxEntry, NEW c \in Ops, Write(e, c)
    PROVE  /\ log' = Append(log, e) /\ committed' = c
           /\ log' \in Seq(TxEntry) /\ views' \in Seq(Ops) /\ Len(views') = Len(log')
           /\ torn' \in 0 .. Len(log') + 1 /\ committed' = View(Len(log))'
           /\ Matches /\ ReadAll(log)'.out = c => Matches'
<1>1. /\ log \in Seq(TxEntry) /\ views \in Seq(Ops) /\ Len(views) = Len(log)
      /\ torn \in 0 .. Len(log) + 1 /\ Len(log) \in Nat
      /\ log' = Append(log, e) /\ committed' = c /\ views' = Append(views, c) /\ torn' = torn
  BY DEF TxTypes, Write
<1>2. /\ log' \in Seq(TxEntry) /\ views' \in Seq(Ops)
      /\ Len(log') = Len(log) + 1 /\ Len(views') = Len(log) + 1
      /\ \A i \in 1 .. Len(log) : log'[i] = log[i] /\ views'[i] = views[i]
      /\ views'[Len(log) + 1] = c
  BY <1>1
<1>3. View(Len(log))' = c
  BY <1>1, <1>2 DEF View
<1>4. ASSUME Matches, ReadAll(log)'.out = c
      PROVE  Matches'
  <2> SUFFICES ASSUME NEW k \in 0 .. Len(log')
               PROVE  ReadAll(SubSeq(log', 1, k)).out = View(k)'
    BY DEF Matches, ReadAll, Read
  <2>1. CASE k = Len(log')
    <3>1. SubSeq(log', 1, k) = log'
      BY <1>2, <2>1, WholeLog
    <3>2. View(k)' = c
      BY <1>2, <2>1 DEF View
    <3> QED BY <1>4, <3>1, <3>2 DEF ReadAll
  <2>2. CASE k # Len(log')
    <3>1. k \in 0 .. Len(log) /\ k <= Len(log')
      BY <1>1, <1>2, <2>2
    <3>2. SubSeq(log, 1, k) = SubSeq(log', 1, k)
      BY <1>1, <1>2, <3>1, SamePrefix
    <3>3. View(k)' = View(k)
      BY <1>2, <3>1 DEF View
    <3>4. ReadAll(SubSeq(log, 1, k)).out = View(k)
      BY <1>4, <3>1 DEF Matches
    <3> QED BY <3>2, <3>3, <3>4
  <2> QED BY <2>1, <2>2
<1> QED BY <1>1, <1>2, <1>3, <1>4

(* The log opened again with its first k records.                          *)
LEMMA ReopenedKeeps ==
    ASSUME TxInv, NEW k \in 0 .. Len(log), NEW t \in 0 .. k + 1, Reopened(k, t)
    PROVE  TxInv'
<1>1. /\ log \in Seq(TxEntry) /\ views \in Seq(Ops) /\ Len(views) = Len(log) /\ Len(log) \in Nat
      /\ committed = View(Len(log))
  BY DEF TxInv, TxTypes
<1>2. /\ log' = SubSeq(log, 1, k) /\ views' = SubSeq(views, 1, k) /\ torn' = t
      /\ committed' = View(k) /\ txCounter' = 0 /\ active' = 0 /\ mine' = <<>>
      /\ irregular' = irregular
  BY DEF Reopened
<1>3. ~dangling' => ~dangling /\ active = 0 /\ ~(k < Len(log))
  BY Zenon DEF Reopened
<1>4. /\ log' \in Seq(TxEntry) /\ views' \in Seq(Ops) /\ Len(log') = k /\ Len(views') = k
      /\ \A i \in 1 .. k : log'[i] = log[i] /\ views'[i] = views[i]
  BY <1>1, <1>2, Prefix
<1>5. \A j \in 0 .. k : View(j)' = View(j)
  BY <1>4 DEF View
<1>6. TxTypes'
  <2>1. committed' = View(Len(log))'
    BY <1>2, <1>4, <1>5
  <2> QED BY <1>2, <1>4, <2>1 DEF TxTypes, Ops
<1>7. ASSUME ~irregular PROVE Tracks(ReadAll(log))' /\ Matches'
  <2>1. Tracks(ReadAll(log)) /\ Matches
    BY <1>7 DEF TxInv
  <2>2. ReadAll(log').out = View(k)
    BY <1>2, <2>1 DEF Matches
  <2>3. ASSUME ~dangling' PROVE ReadAll(log').tx = 0
    <3>1. k = Len(log) /\ active = 0 /\ ~dangling
      BY <1>1, <1>3, <2>3
    <3>2. log' = log
      BY <1>1, <1>2, <3>1, WholeLog
    <3> QED BY <2>1, <3>1, <3>2, Zenon DEF Tracks
  <2>4. Tracks(ReadAll(log))'
    BY <1>2, <2>2, <2>3, Zenon DEF Tracks
  <2>5. ASSUME NEW j \in 0 .. Len(log') PROVE ReadAll(SubSeq(log', 1, j)).out = View(j)'
    <3>1. j \in 0 .. k /\ j \in 0 .. Len(log) /\ j <= Len(log)
      BY <1>4, <2>5
    <3>2. SubSeq(log', 1, j) = SubSeq(log, 1, j)
      BY <1>1, <1>4, <3>1, SamePrefix
    <3>3. ReadAll(SubSeq(log, 1, j)).out = View(j)
      BY <2>1, <3>1 DEF Matches
    <3> QED BY <1>5, <3>1, <3>2, <3>3
  <2> QED BY <2>4, <2>5 DEF Matches
<1> QED BY <1>2, <1>6, <1>7 DEF TxInv

\* Nothing but the log's own steps and a crash changes it.
LEMMA TxSteps ==
    ASSUME [CNext]_cvars
    PROVE  \/ UNCHANGED txVars \/ ReopenLog \/ ReopenAfterPowerLoss
           \/ Begin \/ Truncate
           \/ \E t \in 0 .. txCounter, o \in TxOps : LogOp(t, o)
           \/ \E t \in 1 .. txCounter : Commit(t) \/ Abort(t)
<1>1. CASE UNCHANGED cvars
  BY <1>1 DEF cvars
<1>2. CASE \E i \in Ids, b \in Bodies : Insert(i, b) \/ Update(i, b)
  BY <1>2, Zenon DEF Insert, Update, Quiet
<1>3. CASE \E i \in Ids : Delete(i)
  BY <1>3, Zenon DEF Delete, Quiet
<1>4. CASE CreateIndex \/ DropIndex \/ Compact
  BY <1>4, Zenon DEF CreateIndex, DropIndex, Compact, Quiet
<1>5. CASE SaveTemp \/ SaveRename \/ Open \/ OpenWithWal \/ OpenWithWalSave
  BY <1>5, Zenon DEF SaveTemp, SaveRename, Open, OpenWithWal, OpenWithWalSave
<1>6. CASE Crash
  BY <1>6, Zenon DEF Crash
<1>7. CASE UseLog
  BY <1>7, Zenon DEF UseLog, TxNext
<1> QED BY <1>1, <1>2, <1>3, <1>4, <1>5, <1>6, <1>7, Zenon DEF CNext

\* What one record of each kind does to what replay holds.
LEMMA ReadKinds ==
    ASSUME NEW s \in TxState, NEW t \in Nat, NEW o \in TxOps \cup {NoOp}
    PROVE  /\ Read(s, Entry("begin", t, o)).tx = t
           /\ Read(s, Entry("begin", t, o)).pending = <<>>
           /\ Read(s, Entry("begin", t, o)).out = s.out
           /\ Read(s, Entry("commit", t, o)).tx = 0
           /\ s.tx = t => Read(s, Entry("commit", t, o)).out = s.out \o s.pending
           /\ Read(s, Entry("abort", t, o)).tx = 0
           /\ Read(s, Entry("abort", t, o)).out = s.out
           /\ s.tx # 0 => /\ Read(s, Entry("op", t, o)).tx = s.tx
                          /\ Read(s, Entry("op", t, o)).pending = Append(s.pending, o)
                          /\ Read(s, Entry("op", t, o)).out = s.out
           /\ s.tx = 0 => /\ Read(s, Entry("op", t, o)).tx = 0
                          /\ Read(s, Entry("op", t, o)).out = Append(s.out, o)
<1>1. s = [tx |-> s.tx, pending |-> s.pending, out |-> s.out]
  BY DEF TxState
<1>2. /\ Read(s, Entry("begin", t, o)).tx = t
      /\ Read(s, Entry("begin", t, o)).pending = <<>>
      /\ Read(s, Entry("begin", t, o)).out = s.out
  BY <1>1 DEF Read, Entry
<1>3. /\ Read(s, Entry("commit", t, o)).tx = 0
      /\ s.tx = t => Read(s, Entry("commit", t, o)).out = s.out \o s.pending
  BY <1>1 DEF Read, Entry
<1>4. /\ Read(s, Entry("abort", t, o)).tx = 0
      /\ Read(s, Entry("abort", t, o)).out = s.out
  BY <1>1 DEF Read, Entry
<1>5. s.tx # 0 => /\ Read(s, Entry("op", t, o)).tx = s.tx
                  /\ Read(s, Entry("op", t, o)).pending = Append(s.pending, o)
                  /\ Read(s, Entry("op", t, o)).out = s.out
  BY <1>1 DEF Read, Entry
<1>6. s.tx = 0 => /\ Read(s, Entry("op", t, o)).tx = 0
                  /\ Read(s, Entry("op", t, o)).out = Append(s.out, o)
  BY <1>1 DEF Read, Entry
<1> QED BY <1>2, <1>3, <1>4, <1>5, <1>6, Zenon

\* One record more keeps the log a log.
LEMMA LogGrows ==
    ASSUME TxTypes, NEW k \in {"begin", "op", "commit", "abort"}, NEW t \in Nat,
           NEW o \in TxOps \cup {NoOp}
    PROVE  /\ Append(log, Entry(k, t, o)) \in Seq(TxEntry)
           /\ ReadAll(log) \in TxState
           /\ ReadAll(Append(log, Entry(k, t, o))) = Read(ReadAll(log), Entry(k, t, o))
<1>1. log \in Seq(TxEntry) /\ Entry(k, t, o) \in TxEntry
  BY DEF TxTypes, TxEntry, Entry
<1>2. Append(log, Entry(k, t, o)) \in Seq(TxEntry)
  BY <1>1
<1> QED BY <1>1, <1>2, ReadAppend, Zenon

\* The invariant is kept by every step.
LEMMA TxInvStep == TxInv /\ [CNext]_cvars => TxInv'
<1> SUFFICES ASSUME TxInv, [CNext]_cvars PROVE TxInv'
  OBVIOUS
<1>0. TxTypes /\ (~irregular => Tracks(ReadAll(log)) /\ Matches)
  BY DEF TxInv
<1>a. /\ committed \in Ops /\ mine \in Ops /\ committed \o mine \in Ops
      /\ \A o \in TxOps : Append(committed, o) \in Ops /\ Append(mine, o) \in Ops
  <2>1. committed \in Ops /\ mine \in Ops
    <3>1. committed = View(Len(log)) /\ views \in Seq(Ops) /\ Len(views) = Len(log)
          /\ Len(log) \in Nat /\ mine \in Ops
      BY <1>0 DEF TxTypes
    <3>2. CASE Len(log) = 0
      BY <3>1, <3>2 DEF View, Ops
    <3>3. CASE Len(log) # 0
      <4>1. Len(log) \in 1 .. Len(views)
        BY <3>1, <3>3
      <4>2. views[Len(log)] \in Ops
        BY <3>1, <4>1
      <4> QED BY <3>1, <3>3, <4>2 DEF View
    <3> QED BY <3>1, <3>2, <3>3
  <2> QED BY <2>1 DEF Ops
<1>1. CASE UNCHANGED txVars
  BY <1>0, <1>1 DEF TxInv, TxTypes, Tracks, Matches, View, txVars
<1>2. CASE ReopenLog
  <2>1. Len(log) \in 0 .. Len(log) /\ torn \in 0 .. Len(log) + 1
    BY <1>0 DEF TxTypes
  <2>2. PICK t \in IF torn = 0 THEN {0, Len(log) + 1} ELSE {torn} : Reopened(Len(log), t)
    BY <1>2 DEF ReopenLog
  <2>3. t \in 0 .. Len(log) + 1
    BY <2>1, <2>2
  <2> QED BY <2>1, <2>2, <2>3, ReopenedKeeps
<1>8. CASE ReopenAfterPowerLoss
  <2>1. PICK k \in 0 .. Len(log) :
          \E t \in IF torn \in 1 .. k THEN {torn} ELSE {0, k + 1} : Reopened(k, t)
    BY <1>8 DEF ReopenAfterPowerLoss
  <2>2. PICK t \in IF torn \in 1 .. k THEN {torn} ELSE {0, k + 1} : Reopened(k, t)
    BY <2>1
  <2>3. t \in 0 .. k + 1
    BY <2>2
  <2> QED BY <2>2, <2>3, ReopenedKeeps
<1>3. CASE Begin
  <2> DEFINE t == txCounter + 1
  <2>1. t \in Nat /\ t # 0 /\ NoOp \in TxOps \cup {NoOp}
    BY <1>0 DEF TxTypes
  <2>2. /\ Append(log, Entry("begin", t, NoOp)) \in Seq(TxEntry)
        /\ ReadAll(log) \in TxState
        /\ ReadAll(Append(log, Entry("begin", t, NoOp))) = Read(ReadAll(log), Entry("begin", t, NoOp))
    BY <1>0, <2>1, LogGrows
  <2>6. Entry("begin", t, NoOp) \in TxEntry /\ Write(Entry("begin", t, NoOp), committed)
    BY <1>3, <2>1 DEF Begin, Entry, TxEntry
  <2>7. /\ log' = Append(log, Entry("begin", t, NoOp)) /\ committed' = committed
        /\ log' \in Seq(TxEntry) /\ views' \in Seq(Ops) /\ Len(views') = Len(log')
        /\ torn' \in 0 .. Len(log') + 1 /\ committed' = View(Len(log))'
        /\ Matches /\ ReadAll(log)'.out = committed => Matches'
    BY <1>0, <1>a, <2>6, WriteKeeps
  <2>3. /\ log' = Append(log, Entry("begin", t, NoOp)) /\ txCounter' = t /\ active' = t /\ mine' = <<>>
        /\ committed' = committed /\ irregular' = irregular /\ dangling' = dangling
    BY <1>3, <2>7 DEF Begin
  <2> HIDE DEF t
  <2>4. TxTypes'
    BY <2>1, <2>3, <2>7 DEF TxTypes, Ops
  <2>5. ASSUME ~irregular' PROVE Tracks(ReadAll(log))' /\ Matches'
    <3>1. ReadAll(log).out = committed
      BY <1>0, <2>3, <2>5 DEF Tracks
    <3>2. /\ Read(ReadAll(log), Entry("begin", t, NoOp)).tx = t
          /\ Read(ReadAll(log), Entry("begin", t, NoOp)).pending = <<>>
          /\ Read(ReadAll(log), Entry("begin", t, NoOp)).out = ReadAll(log).out
      BY <2>1, <2>2, ReadKinds
    <3>3. ReadAll(log)' = Read(ReadAll(log), Entry("begin", t, NoOp))
      BY <2>2, <2>3
    <3>4. Tracks(ReadAll(log))'
      BY <2>1, <2>3, <3>1, <3>2, <3>3, Zenon DEF Tracks
    <3> QED BY <1>0, <2>3, <2>5, <2>7, <3>1, <3>2, <3>3, <3>4
  <2> QED BY <2>4, <2>5 DEF TxInv
<1>4. CASE Truncate
  <2>1. /\ log' = <<>> /\ torn' = 0 /\ committed' = <<>> /\ views' = <<>>
        /\ txCounter' = txCounter /\ active' = active /\ mine' = mine
    BY <1>4 DEF Truncate
  <2>2. TxTypes'
    BY <1>0, <2>1 DEF TxTypes, Ops, View
  <2>3. ASSUME ~irregular' PROVE Tracks(ReadAll(log))' /\ Matches'
    <3>1. active = 0
      BY <1>4, <2>3, Zenon DEF Truncate
    <3>2. ReadAll(log)' = NothingRead
      BY <2>1, ReadEmpty
    <3>3. NothingRead.tx = 0 /\ NothingRead.out = <<>>
      BY DEF NothingRead
    <3>4. Tracks(ReadAll(log))'
      BY <2>1, <3>1, <3>2, <3>3, Zenon DEF Tracks
    <3>5. ASSUME NEW k \in 0 .. Len(log') PROVE ReadAll(SubSeq(log', 1, k)).out = View(k)'
      <4>1. k = 0 /\ log' \in Seq(TxEntry) /\ Len(log') = 0
        BY <2>1, <3>5
      <4>2. SubSeq(log', 1, k) = <<>>
        BY <2>1, <4>1, WholeLog
      <4>3. ReadAll(SubSeq(log', 1, k)).out = <<>>
        BY <3>3, <4>2, ReadEmpty
      <4> QED BY <4>1, <4>3 DEF View
    <3> QED BY <3>4, <3>5 DEF Matches
  <2> QED BY <2>2, <2>3 DEF TxInv
<1>5. ASSUME NEW t \in 0 .. txCounter, NEW o \in TxOps, LogOp(t, o) PROVE TxInv'
  <2> DEFINE e == Entry("op", t, o)
  <2>1. t \in Nat /\ o \in TxOps \cup {NoOp}
    BY <1>0 DEF TxTypes
  <2>2. Append(log, e) \in Seq(TxEntry) /\ ReadAll(log) \in TxState
        /\ ReadAll(Append(log, e)) = Read(ReadAll(log), e)
    BY <1>0, <2>1, LogGrows
  <2> DEFINE c == IF t = 0 THEN Append(committed, o) ELSE committed
  <2>6. e \in TxEntry /\ c \in Ops /\ Write(e, c)
    BY <1>a, <1>5, <2>1 DEF LogOp, Entry, TxEntry
  <2>7. /\ log' = Append(log, e) /\ committed' = c
        /\ log' \in Seq(TxEntry) /\ views' \in Seq(Ops) /\ Len(views') = Len(log')
        /\ torn' \in 0 .. Len(log') + 1 /\ committed' = View(Len(log))'
        /\ Matches /\ ReadAll(log)'.out = c => Matches'
    <3> HIDE DEF e, c
    <3> QED BY <1>0, <2>6, WriteKeeps
  <2>3. /\ log' = Append(log, e) /\ txCounter' = txCounter /\ active' = active /\ dangling' = dangling
        /\ mine' = IF t = active /\ t # 0 THEN Append(mine, o) ELSE mine
        /\ committed' = IF t = 0 THEN Append(committed, o) ELSE committed
    BY <1>5, <2>7 DEF LogOp
  <2>4. TxTypes'
    <3>1. mine' \in Ops /\ txCounter' \in Nat /\ active' \in Nat
      BY <1>0, <1>a, <2>3 DEF TxTypes
    <3> QED BY <2>7, <3>1 DEF TxTypes
  <2>5. ASSUME ~irregular' PROVE Tracks(ReadAll(log))' /\ Matches'
    <3>1. ~irregular /\ t = active /\ ~(t = 0 /\ dangling)
      BY <1>5, <2>5, Zenon DEF LogOp
    <3>2. Tracks(ReadAll(log))
      BY <1>0, <3>1
    <3>3. ReadAll(log)' = Read(ReadAll(log), e)
      BY <2>2, <2>3
    <3>4. CASE t = 0
      <4>1. ReadAll(log).tx = 0 /\ ReadAll(log).out = committed
        BY <3>1, <3>2, <3>4, Zenon DEF Tracks
      <4>2. Read(ReadAll(log), e).tx = 0 /\ Read(ReadAll(log), e).out = Append(committed, o)
        BY <2>1, <2>2, <4>1, ReadKinds
      <4>3. committed' = Append(committed, o) /\ active' = 0
        BY <2>3, <3>1, <3>4
      <4>4. Tracks(ReadAll(log))'
        BY <3>3, <4>2, <4>3, Zenon DEF Tracks
      <4>5. ReadAll(log)'.out = c
        BY <2>7, <3>3, <4>2, <4>3
      <4> QED BY <1>0, <2>7, <3>1, <4>4, <4>5
    <3>5. CASE t # 0
      <4>1. ReadAll(log).tx = active /\ ReadAll(log).pending = mine /\ ReadAll(log).out = committed
        BY <3>1, <3>2, <3>5, Zenon DEF Tracks
      <4>2. /\ Read(ReadAll(log), e).tx = active /\ Read(ReadAll(log), e).out = committed
            /\ Read(ReadAll(log), e).pending = Append(mine, o)
        BY <2>1, <2>2, <3>1, <3>5, <4>1, ReadKinds
      <4>3. committed' = committed /\ active' = active /\ active # 0 /\ mine' = Append(mine, o)
        BY <2>3, <3>1, <3>5
      <4>4. Tracks(ReadAll(log))'
        BY <3>3, <4>2, <4>3, Zenon DEF Tracks
      <4>5. ReadAll(log)'.out = c
        BY <2>7, <3>3, <4>2, <4>3
      <4> QED BY <1>0, <2>7, <3>1, <4>4, <4>5
    <3> QED BY <3>4, <3>5
  <2> QED BY <2>4, <2>5 DEF TxInv
<1>6. ASSUME NEW t \in 1 .. txCounter, Commit(t) PROVE TxInv'
  <2> DEFINE e == Entry("commit", t, NoOp)
  <2>1. t \in Nat /\ t # 0 /\ NoOp \in TxOps \cup {NoOp}
    BY <1>0 DEF TxTypes
  <2>2. Append(log, e) \in Seq(TxEntry) /\ ReadAll(log) \in TxState
        /\ ReadAll(Append(log, e)) = Read(ReadAll(log), e)
    BY <1>0, <2>1, LogGrows
  <2> DEFINE c == IF t = active THEN committed \o mine ELSE committed
  <2>6. e \in TxEntry /\ c \in Ops /\ Write(e, c)
    BY <1>a, <1>6, <2>1 DEF Commit, Entry, TxEntry
  <2>7. /\ log' = Append(log, e) /\ committed' = c
        /\ log' \in Seq(TxEntry) /\ views' \in Seq(Ops) /\ Len(views') = Len(log')
        /\ torn' \in 0 .. Len(log') + 1 /\ committed' = View(Len(log))'
        /\ Matches /\ ReadAll(log)'.out = c => Matches'
    <3> HIDE DEF e, c
    <3> QED BY <1>0, <2>6, WriteKeeps
  <2>3. /\ log' = Append(log, e) /\ txCounter' = txCounter /\ active' = 0 /\ mine' = <<>>
        /\ committed' = IF t = active THEN committed \o mine ELSE committed
    BY <1>6, <2>7 DEF Commit
  <2>4. TxTypes'
    <3>1. mine' \in Ops /\ txCounter' \in Nat /\ active' \in Nat
      BY <1>0, <2>3 DEF TxTypes, Ops
    <3> QED BY <2>7, <3>1 DEF TxTypes
  <2>5. ASSUME ~irregular' PROVE Tracks(ReadAll(log))' /\ Matches'
    <3>1. ~irregular /\ t = active
      BY <1>6, <2>5, Zenon DEF Commit
    <3>2. Tracks(ReadAll(log))
      BY <1>0, <3>1
    <3>3. ReadAll(log)' = Read(ReadAll(log), e)
      BY <2>2, <2>3
    <3>4. ReadAll(log).tx = t /\ ReadAll(log).pending = mine /\ ReadAll(log).out = committed
      BY <2>1, <3>1, <3>2, Zenon DEF Tracks
    <3>5. Read(ReadAll(log), e).tx = 0 /\ Read(ReadAll(log), e).out = committed \o mine
      BY <2>1, <2>2, <3>4, ReadKinds
    <3>6. committed' = committed \o mine
      BY <2>3, <3>1
    <3>7. Tracks(ReadAll(log))'
      BY <2>3, <3>3, <3>5, <3>6, Zenon DEF Tracks
    <3>8. ReadAll(log)'.out = c
      BY <2>7, <3>3, <3>5, <3>6
    <3> QED BY <1>0, <2>7, <3>1, <3>7, <3>8
  <2> QED BY <2>4, <2>5 DEF TxInv
<1>7. ASSUME NEW t \in 1 .. txCounter, Abort(t) PROVE TxInv'
  <2> DEFINE e == Entry("abort", t, NoOp)
  <2>1. t \in Nat /\ NoOp \in TxOps \cup {NoOp}
    BY <1>0 DEF TxTypes
  <2>2. Append(log, e) \in Seq(TxEntry) /\ ReadAll(log) \in TxState
        /\ ReadAll(Append(log, e)) = Read(ReadAll(log), e)
    BY <1>0, <2>1, LogGrows
  <2> DEFINE c == committed
  <2>6. e \in TxEntry /\ c \in Ops /\ Write(e, c)
    BY <1>a, <1>7, <2>1 DEF Abort, Entry, TxEntry
  <2>7. /\ log' = Append(log, e) /\ committed' = c
        /\ log' \in Seq(TxEntry) /\ views' \in Seq(Ops) /\ Len(views') = Len(log')
        /\ torn' \in 0 .. Len(log') + 1 /\ committed' = View(Len(log))'
        /\ Matches /\ ReadAll(log)'.out = c => Matches'
    <3> HIDE DEF e, c
    <3> QED BY <1>0, <2>6, WriteKeeps
  <2>3. /\ log' = Append(log, e) /\ txCounter' = txCounter /\ active' = 0 /\ mine' = <<>>
        /\ committed' = committed
    BY <1>7, <2>7 DEF Abort
  <2>4. TxTypes'
    <3>1. mine' \in Ops /\ txCounter' \in Nat /\ active' \in Nat
      BY <1>0, <2>3 DEF TxTypes, Ops
    <3> QED BY <2>7, <3>1 DEF TxTypes
  <2>5. ASSUME ~irregular' PROVE Tracks(ReadAll(log))' /\ Matches'
    <3>1. ~irregular
      BY <1>7, <2>5, Zenon DEF Abort
    <3>2. ReadAll(log).out = committed
      BY <1>0, <3>1 DEF Tracks
    <3>3. ReadAll(log)' = Read(ReadAll(log), e)
      BY <2>2, <2>3
    <3>4. Read(ReadAll(log), e).tx = 0 /\ Read(ReadAll(log), e).out = committed
      BY <2>1, <2>2, <3>2, ReadKinds
    <3>5. Tracks(ReadAll(log))'
      BY <2>3, <3>3, <3>4, Zenon DEF Tracks
    <3>6. ReadAll(log)'.out = c
      BY <3>3, <3>4
    <3> QED BY <1>0, <2>7, <3>1, <3>5, <3>6
  <2> QED BY <2>4, <2>5 DEF TxInv
<1> QED BY <1>1, <1>2, <1>3, <1>4, <1>5, <1>6, <1>7, <1>8, TxSteps

\* Replay returns what was committed: in every behaviour, whatever the client
\* logs and however often it, or its machine, dies inside a transaction or a
\* write and the log is opened again with ids that start over (Wal::replay): all
\* that was committed by the records that are in the file up to the first of
\* which there is only a part.
THEOREM ReplayReturnsCommitted == CSpec => []ReplayIsCommitted
<1>1. CInit => TxInv
  <2> SUFFICES ASSUME CInit PROVE TxInv
    OBVIOUS
  <2>1. /\ log = <<>> /\ txCounter = 0 /\ active = 0 /\ mine = <<>> /\ committed = <<>>
        /\ views = <<>> /\ torn = 0
    BY DEF CInit, TxInit
  <2>2. TxTypes
    BY <2>1 DEF TxTypes, Ops, View
  <2>3. NothingRead.tx = 0 /\ NothingRead.out = <<>>
    BY DEF NothingRead
  <2>4. Tracks(ReadAll(log))
    BY <2>1, <2>3, ReadEmpty DEF Tracks
  <2>5. ASSUME NEW k \in 0 .. Len(log) PROVE ReadAll(SubSeq(log, 1, k)).out = View(k)
    <3>1. k = 0 /\ log \in Seq(TxEntry) /\ Len(log) = 0
      BY <2>1, <2>5
    <3>2. SubSeq(log, 1, k) = <<>>
      BY <2>1, <3>1, WholeLog
    <3>3. ReadAll(SubSeq(log, 1, k)).out = <<>>
      BY <2>3, <3>2, ReadEmpty
    <3> QED BY <3>1, <3>3 DEF View
  <2> QED BY <2>2, <2>4, <2>5 DEF TxInv, Matches
<1>2. TxInv => ReplayIsCommitted
  <2> SUFFICES ASSUME TxInv, ~irregular
               PROVE  ReadAll(Readable).out = IF torn = 0 THEN committed ELSE View(torn - 1)
    BY DEF ReplayIsCommitted, Replay
  <2>1. torn \in 0 .. Len(log) + 1 /\ Len(log) \in Nat /\ Tracks(ReadAll(log)) /\ Matches
    BY DEF TxInv, TxTypes
  <2>2. CASE torn = 0
    BY <2>1, <2>2 DEF Tracks, Readable
  <2>3. CASE torn # 0
    <3>1. torn - 1 \in 0 .. Len(log)
      BY <2>1, <2>3
    <3> QED BY <2>1, <2>3, <3>1 DEF Matches, Readable
  <2> QED BY <2>2, <2>3
<1> QED BY <1>1, <1>2, TxInvStep, PTL DEF CSpec

-----------------------------------------------------------------------------
(* The database file.                                                      *)

\* Between the two steps of a save the temporary file is what will have been
\* saved, and open_with_wal overwrites only a file that no save has made.
FileInv ==
    ~lost => /\ saved # None => path = saved
             /\ writing = "rename" => tmp = coll
             /\ writing = "save" => saved = None

\* The invariant is kept by every step.
LEMMA FileInvStep == FileInv /\ [CNext]_cvars => FileInv'
<1> SUFFICES ASSUME FileInv, [CNext]_cvars PROVE FileInv'
  OBVIOUS
<1> USE DEF FileInv
<1>1. CASE UNCHANGED cvars
  <2>1. UNCHANGED <<saved, lost, path, writing, tmp, coll>>
    BY <1>1 DEF cvars, storeVars
  <2> QED BY <2>1
<1>2. CASE CountCall /\ writing = "done" /\ UNCHANGED <<path, writing, saved, lost>>
  BY <1>2, Zenon
<1>3. ASSUME NEW i \in Ids, NEW b \in Bodies, Insert(i, b) \/ Update(i, b) PROVE FileInv'
  BY <1>2, <1>3, Zenon DEF Insert, Update, Ready, Quiet
<1>4. ASSUME NEW i \in Ids, Delete(i) PROVE FileInv'
  BY <1>2, <1>4, Zenon DEF Delete, Ready, Quiet
<1>5. CASE CreateIndex \/ DropIndex \/ Compact
  BY <1>2, <1>5, Zenon DEF CreateIndex, DropIndex, Compact, Ready, Quiet
<1>6. CASE SaveTemp
  <2>1. writing = "done" /\ writing' = "rename" /\ UNCHANGED <<coll, path, saved>>
    BY <1>6 DEF SaveTemp, Ready
  <2>2. (tmp' = coll /\ lost' = lost) \/ lost' = TRUE
    BY <1>6, Zenon DEF SaveTemp
  <2> QED BY <2>1, <2>2, Zenon
<1>7. CASE SaveRename
  BY <1>7, Zenon DEF SaveRename
<1>8. CASE Open
  BY <1>2, <1>8, Zenon DEF Open
<1>9. CASE OpenWithWal
  BY <1>9, Zenon DEF OpenWithWal
<1>10. CASE OpenWithWalSave
  BY <1>10, Zenon DEF OpenWithWalSave
<1>11. CASE Crash
  <2>1. writing' = "done" /\ saved' = saved
    BY <1>11 DEF Crash
  <2>2. UNCHANGED <<path, lost>> \/ lost' = TRUE
    BY <1>11, Zenon DEF Crash
  <2> QED BY <2>1, <2>2, Zenon
<1>12. CASE UseLog
  BY <1>12 DEF UseLog, storeVars
<1> QED BY <1>1, <1>3, <1>4, <1>5, <1>6, <1>7, <1>8, <1>9, <1>10, <1>11, <1>12, Zenon DEF CNext

\* Whatever a crash interrupts, the file is the last completed save: in every
\* behaviour, unless a buffered write was lost or the machine died.
THEOREM SavedSurvivesCrashes == CSpec => []SavedSurvives
<1>1. CInit => FileInv
  BY DEF CInit, FileInv
<1>2. FileInv => SavedSurvives
  BY Zenon DEF FileInv, SavedSurvives
<1> QED BY <1>1, <1>2, FileInvStep, PTL DEF CSpec

-----------------------------------------------------------------------------
(* Lists of which some positions are kept.                                 *)

\* r holds the members of s at the positions in P up to k, each once: h says
\* from which position each member of r comes.
KeptBy(h, r, s, P, k) ==
    /\ h \in [DOMAIN r -> P \cap (1 .. k)]
    /\ \A n \in DOMAIN r : r[n] = s[h[n]]
    /\ \A m, n \in DOMAIN r : m # n => h[m] # h[n]
    /\ \A p \in P \cap (1 .. k) : \E n \in DOMAIN r : h[n] = p

\* One position more, not kept.
LEMMA KeepSkip ==
    ASSUME NEW k \in Nat, NEW s, NEW P, NEW r, NEW h, KeptBy(h, r, s, P, k), k + 1 \notin P
    PROVE  KeptBy(h, r, s, P, k + 1)
<1>1. P \cap (1 .. k + 1) = P \cap (1 .. k)
  OBVIOUS
<1> QED BY <1>1, Zenon DEF KeptBy

\* One position more, kept.
LEMMA KeepNext ==
    ASSUME NEW S, NEW k \in Nat, NEW s, NEW P, NEW r \in Seq(S), NEW h,
           KeptBy(h, r, s, P, k), k + 1 \in P, s[k + 1] \in S
    PROVE  \E g : KeptBy(g, Append(r, s[k + 1]), s, P, k + 1)
<1> DEFINE N == Len(r)
           t == Append(r, s[k + 1])
           g == [n \in 1 .. N + 1 |-> IF n = N + 1 THEN k + 1 ELSE h[n]]
<1>1. /\ N \in Nat /\ DOMAIN r = 1 .. N /\ DOMAIN t = 1 .. N + 1 /\ t[N + 1] = s[k + 1]
      /\ \A n \in 1 .. N : t[n] = r[n]
  OBVIOUS
<1>2. /\ h \in [1 .. N -> P \cap (1 .. k)] /\ \A n \in 1 .. N : r[n] = s[h[n]]
      /\ \A m, n \in 1 .. N : m # n => h[m] # h[n]
      /\ \A p \in P \cap (1 .. k) : \E n \in 1 .. N : h[n] = p
  BY <1>1 DEF KeptBy
<1> HIDE DEF N, t
<1>3. g[N + 1] = k + 1 /\ \A n \in 1 .. N : g[n] = h[n] /\ n # N + 1 /\ n \in 1 .. N + 1
  BY <1>1
<1>4. \A n \in 1 .. N + 1 : n = N + 1 \/ n \in 1 .. N
  BY <1>1
<1>5. \A n \in 1 .. N : h[n] \in P /\ h[n] \in 1 .. k /\ h[n] \in 1 .. k + 1 /\ h[n] # k + 1
  BY <1>2
<1>6. k + 1 \in P /\ k + 1 \in 1 .. k + 1
  OBVIOUS
<1>7. g \in [1 .. N + 1 -> P \cap (1 .. k + 1)]
  BY <1>4, <1>5, <1>6
<1> HIDE DEF g
<1>8. \A n \in 1 .. N + 1 : t[n] = s[g[n]]
  BY <1>1, <1>2, <1>3, <1>4, Zenon
<1>9. \A m, n \in 1 .. N + 1 : m # n => g[m] # g[n]
  BY <1>2, <1>3, <1>4, <1>5, Zenon
<1>10. ASSUME NEW p \in P \cap (1 .. k + 1) PROVE \E n \in 1 .. N + 1 : g[n] = p
  <2>1. CASE p = k + 1
    BY <1>1, <1>3, <2>1
  <2>2. CASE p # k + 1
    <3>1. p \in P \cap (1 .. k)
      BY <2>2
    <3>2. PICK n \in 1 .. N : h[n] = p
      BY <1>2, <3>1
    <3> QED BY <1>3, <3>2, Zenon
  <2> QED BY <2>1, <2>2
<1>11. KeptBy(g, t, s, P, k + 1)
  BY <1>1, <1>7, <1>8, <1>9, <1>10, Zenon DEF KeptBy
<1> QED BY <1>11 DEF t

\* What Retain keeps.
LEMMA RetainKeeps ==
    ASSUME NEW S, NEW s \in Seq(S), NEW P \in SUBSET (DOMAIN s)
    PROVE  Retain(s, P) \in Seq(S) /\ \E h : KeptBy(h, Retain(s, P), s, P, Len(s))
<1> DEFINE N == Len(s)
           Q == Seq(S)
           step == [x \in Q \X (1 .. N) |-> IF x[2] \in P THEN Append(x[1], s[x[2]]) ELSE x[1]]
           Def(f) == [k \in 0 .. N |-> IF k = 0 THEN <<>> ELSE
                        IF k \in P THEN Append(f[k - 1], s[k]) ELSE f[k - 1]]
           f == CHOOSE f : f = Def(f)
<1>1. N \in Nat /\ <<>> \in Q /\ \A k \in 1 .. N : s[k] \in S
  OBVIOUS
<1>a. \A q \in Q, x \in S : Append(q, x) \in Q
  OBVIOUS
<1>2. Retain(s, P) = f[N]
  BY DEF Retain
<1> HIDE DEF N
<1>3. step \in Steps(Q, N)
  BY <1>1, <1>a DEF Steps
<1>4. \A q \in Q, k \in 1 .. N : step[<<q, k>>] = IF k \in P THEN Append(q, s[k]) ELSE q
  OBVIOUS
<1> HIDE DEF step, Q
<1>5. PICK g : Solves(g, Q, <<>>, N, step)
  BY <1>1, <1>3, Recurrence
<1>6. g = Def(g)
  <2>1. \A k \in 1 .. N : g[k - 1] \in Q
    BY <1>1, <1>5 DEF Solves
  <2>2. \A k \in 1 .. N : g[k] = IF k \in P THEN Append(g[k - 1], s[k]) ELSE g[k - 1]
    BY <1>4, <1>5, <2>1 DEF Solves
  <2>3. \A k \in 0 .. N : k = 0 \/ (k # 0 /\ k \in 1 .. N)
    BY <1>1
  <2>4. g = [k \in 0 .. N |-> g[k]] /\ g[0] = <<>>
    BY <1>5 DEF Solves
  <2>5. \A k \in 0 .. N : g[k] = Def(g)[k]
    BY <2>2, <2>3, <2>4
  <2> QED BY <2>4, <2>5, Zenon
<1>7. f = Def(f)
  BY <1>6
<1> HIDE DEF f
<1> DEFINE Kept(k) == f[k] \in Q /\ \E h : KeptBy(h, f[k], s, P, k)
           Good == {k \in Nat : k <= N => Kept(k)}
<1>8. 0 \in Good
  <2>1. f[0] = <<>>
    BY <1>1, <1>7
  <2>2. KeptBy(<<>>, <<>>, s, P, 0)
    BY DEF KeptBy
  <2> QED BY <1>1, <2>1, <2>2
<1>9. ASSUME NEW k \in Nat, k \in Good PROVE k + 1 \in Good
  <2> SUFFICES ASSUME k + 1 <= N PROVE Kept(k + 1)
    OBVIOUS
  <2>1. f[k] \in Q /\ \E h : KeptBy(h, f[k], s, P, k)
    BY <1>1, <1>9
  <2>2. PICK h : KeptBy(h, f[k], s, P, k)
    BY <2>1
  <2>3. k + 1 \in 0 .. N /\ k + 1 # 0 /\ (k + 1) - 1 = k /\ s[k + 1] \in S
    BY <1>1
  <2>4. CASE k + 1 \in P
    <3>1. f[k + 1] = Append(f[k], s[k + 1])
      BY <1>7, <2>3, <2>4
    <3>2. f[k] \in Seq(S)
      BY <2>1 DEF Q
    <3>3. \E g2 : KeptBy(g2, Append(f[k], s[k + 1]), s, P, k + 1)
      BY <2>2, <2>3, <2>4, <3>2, KeepNext
    <3>4. Append(f[k], s[k + 1]) \in Q
      BY <2>1, <2>3, <1>a
    <3> QED BY <3>1, <3>3, <3>4
  <2>5. CASE k + 1 \notin P
    <3>1. f[k + 1] = f[k]
      BY <1>7, <2>3, <2>5
    <3> QED BY <2>1, <2>2, <2>5, <3>1, KeepSkip
  <2> QED BY <2>4, <2>5
<1> HIDE DEF Good
<1>10. \A k \in Nat : k \in Good
  BY <1>8, <1>9, Induct
<1>11. Kept(N)
  BY <1>1, <1>10 DEF Good
<1> QED BY <1>2, <1>11 DEF N, Q

-----------------------------------------------------------------------------
(* The secondary index.                                                    *)

DocType == [id : Ids, body : Bodies, deleted : BOOLEAN]
Indexes == [Keys -> Seq(Ids)]

In(list, i) == \E n \in DOMAIN list : list[n] = i
Once(list) == \A m, n \in DOMAIN list : m # n => list[m] # list[n]
AllOnce(X) == \A k \in Keys : Once(X[k])
\* The index has a document's id under its key.
Keyed(doc, k, i) == doc.body.kind # "none" /\ doc.body.key = k /\ doc.id = i

\* What is kept, without the positions.
LEMMA RetainFacts ==
    ASSUME NEW S, NEW s \in Seq(S), NEW P \in SUBSET (DOMAIN s)
    PROVE  \E h : /\ Retain(s, P) \in Seq(S)
                  /\ h \in [DOMAIN Retain(s, P) -> P]
                  /\ \A n \in DOMAIN Retain(s, P) : Retain(s, P)[n] = s[h[n]]
                  /\ \A m, n \in DOMAIN Retain(s, P) : m # n => h[m] # h[n]
                  /\ \A p \in P : \E n \in DOMAIN Retain(s, P) : h[n] = p
<1>1. P \cap (1 .. Len(s)) = P
  OBVIOUS
<1>2. Retain(s, P) \in Seq(S) /\ \E h : KeptBy(h, Retain(s, P), s, P, Len(s))
  BY RetainKeeps
<1>3. PICK h : KeptBy(h, Retain(s, P), s, P, Len(s))
  BY <1>2
<1>4. PICK R : R = Retain(s, P)
  OBVIOUS
<1>5. /\ h \in [DOMAIN R -> P] /\ \A n \in DOMAIN R : R[n] = s[h[n]]
      /\ \A m, n \in DOMAIN R : m # n => h[m] # h[n]
      /\ \A p \in P : \E n \in DOMAIN R : h[n] = p
  BY <1>1, <1>3, <1>4 DEF KeptBy
<1> QED BY <1>2, <1>4, <1>5

\* A list without one id.
LEMMA Without ==
    ASSUME NEW L \in Seq(Ids), NEW i
    PROVE  LET R == Retain(L, {n \in DOMAIN L : L[n] # i}) IN
             R \in Seq(Ids) /\ (Once(L) => Once(R)) /\ \A j : In(R, j) <=> In(L, j) /\ j # i
<1> DEFINE P == {n \in DOMAIN L : L[n] # i}
           R == Retain(L, P)
<1>1. P \in SUBSET (DOMAIN L) /\ \A n : n \in P <=> n \in DOMAIN L /\ L[n] # i
  OBVIOUS
<1> HIDE DEF P
<1>2. PICK h : /\ R \in Seq(Ids) /\ h \in [DOMAIN R -> P]
               /\ \A n \in DOMAIN R : R[n] = L[h[n]]
               /\ \A m, n \in DOMAIN R : m # n => h[m] # h[n]
               /\ \A p \in P : \E n \in DOMAIN R : h[n] = p
  BY <1>1, RetainFacts
<1> HIDE DEF R
<1>3. \A n \in DOMAIN R : h[n] \in P
  BY <1>2
<1>4. ASSUME Once(L) PROVE Once(R)
  <2> SUFFICES ASSUME NEW m \in DOMAIN R, NEW n \in DOMAIN R, m # n PROVE R[m] # R[n]
    BY DEF Once
  <2>1. h[m] \in DOMAIN L /\ h[n] \in DOMAIN L /\ h[m] # h[n]
    BY <1>1, <1>2, <1>3
  <2>2. R[m] = L[h[m]] /\ R[n] = L[h[n]]
    BY <1>2
  <2>3. L[h[m]] # L[h[n]]
    BY <1>4, <2>1, Zenon DEF Once
  <2> QED BY <2>2, <2>3
<1>5. ASSUME NEW j, In(R, j) PROVE In(L, j) /\ j # i
  <2>1. PICK n \in DOMAIN R : R[n] = j
    BY <1>5 DEF In
  <2>2. h[n] \in DOMAIN L /\ L[h[n]] # i /\ L[h[n]] = j
    BY <1>1, <1>2, <1>3, <2>1
  <2> QED BY <2>2, Zenon DEF In
<1>6. ASSUME NEW j, In(L, j), j # i PROVE In(R, j)
  <2>1. PICK p \in DOMAIN L : L[p] = j
    BY <1>6 DEF In
  <2>2. PICK n \in DOMAIN R : h[n] = p
    BY <1>1, <1>2, <1>6, <2>1, Zenon
  <2> QED BY <1>2, <2>1, <2>2, Zenon DEF In
<1>7. \A j : In(R, j) <=> In(L, j) /\ j # i
  BY <1>5, <1>6, Zenon
<1> QED BY <1>2, <1>4, <1>7 DEF R, P

\* A list with one id more.
LEMMA With ==
    ASSUME NEW L \in Seq(Ids), NEW i \in Ids
    PROVE  /\ Append(L, i) \in Seq(Ids)
           /\ Once(L) /\ ~In(L, i) => Once(Append(L, i))
           /\ \A j : In(Append(L, i), j) <=> In(L, j) \/ j = i
<1> DEFINE N == Len(L)
           R == Append(L, i)
<1>1. /\ N \in Nat /\ DOMAIN L = 1 .. N /\ DOMAIN R = 1 .. N + 1 /\ R[N + 1] = i
      /\ \A n \in 1 .. N : R[n] = L[n] /\ n \in 1 .. N + 1
      /\ \A n \in 1 .. N + 1 : n = N + 1 \/ n \in 1 .. N
      /\ N + 1 \in 1 .. N + 1 /\ R \in Seq(Ids)
  OBVIOUS
<1> HIDE DEF N, R
<1>2. Once(L) /\ ~In(L, i) => Once(R)
  BY <1>1, Zenon DEF Once, In
<1>3. \A j : In(R, j) <=> In(L, j) \/ j = i
  BY <1>1, Zenon DEF In
<1> QED BY <1>1, <1>2, <1>3 DEF R

\* add_to_secondary_index adds the document's id under its key and nothing else.
LEMMA AddToSecondaryOK ==
    ASSUME NEW X \in Indexes, X # None, NEW doc, doc.id \in Ids, doc.body.key \in Keys,
           AllOnce(X), \A k \in Keys : ~In(X[k], doc.id)
    PROVE  /\ AddToSecondary(X, doc) \in Indexes /\ AllOnce(AddToSecondary(X, doc))
           /\ \A k \in Keys : \A i : In(AddToSecondary(X, doc)[k], i) <=> In(X[k], i) \/ Keyed(doc, k, i)
<1>1. CASE doc.body.kind = "none"
  <2>1. AddToSecondary(X, doc) = X
    BY <1>1 DEF AddToSecondary
  <2> QED BY <1>1, <2>1, Zenon DEF Keyed
<1>2. CASE doc.body.kind # "none"
  <2>1. PICK K : K = doc.body.key
    OBVIOUS
  <2>2. PICK Y : Y = AddToSecondary(X, doc)
    OBVIOUS
  <2>3. Y = [X EXCEPT ![K] = Append(X[K], doc.id)]
    BY <1>2, <2>1, <2>2 DEF AddToSecondary
  <2>4. K \in Keys /\ X[K] \in Seq(Ids)
    BY <2>1 DEF Indexes
  <2>5. PICK L : L = Append(X[K], doc.id)
    OBVIOUS
  <2>6. L \in Seq(Ids) /\ Once(L) /\ \A j : In(L, j) <=> In(X[K], j) \/ j = doc.id
    BY <2>4, <2>5, With DEF AllOnce
  <2>7. Y \in Indexes /\ Y[K] = L /\ \A k \in Keys : k # K => Y[k] = X[k]
    BY <2>3, <2>4, <2>5, <2>6 DEF Indexes
  <2>8. AllOnce(Y)
    BY <2>6, <2>7, Zenon DEF AllOnce
  <2>9. ASSUME NEW k \in Keys, NEW i PROVE In(Y[k], i) <=> In(X[k], i) \/ Keyed(doc, k, i)
    BY <1>2, <2>1, <2>6, <2>7, Zenon DEF Keyed
  <2> QED BY <2>2, <2>7, <2>8, <2>9
<1> QED BY <1>1, <1>2

\* remove_from_secondary_index removes the document's id under its key.
LEMMA RemoveFromSecondaryOK ==
    ASSUME NEW X \in Indexes, X # None, NEW doc, doc.body.key \in Keys, AllOnce(X)
    PROVE  /\ RemoveFromSecondary(X, doc) \in Indexes /\ AllOnce(RemoveFromSecondary(X, doc))
           /\ \A k \in Keys : \A i :
                In(RemoveFromSecondary(X, doc)[k], i) <=> In(X[k], i) /\ ~Keyed(doc, k, i)
<1>1. CASE doc.body.kind = "none"
  <2>1. RemoveFromSecondary(X, doc) = X
    BY <1>1 DEF RemoveFromSecondary
  <2> QED BY <1>1, <2>1, Zenon DEF Keyed
<1>2. CASE doc.body.kind # "none"
  <2>1. PICK K : K = doc.body.key
    OBVIOUS
  <2>2. PICK Y : Y = RemoveFromSecondary(X, doc)
    OBVIOUS
  <2>3. Y = [X EXCEPT ![K] = Retain(X[K], {n \in DOMAIN X[K] : X[K][n] # doc.id})]
    BY <1>2, <2>1, <2>2 DEF RemoveFromSecondary
  <2>4. K \in Keys /\ X[K] \in Seq(Ids)
    BY <2>1 DEF Indexes
  <2>5. PICK L : L = Retain(X[K], {n \in DOMAIN X[K] : X[K][n] # doc.id})
    OBVIOUS
  <2>6. L \in Seq(Ids) /\ Once(L) /\ \A j : In(L, j) <=> In(X[K], j) /\ j # doc.id
    BY <2>4, <2>5, Without DEF AllOnce
  <2>7. Y \in Indexes /\ Y[K] = L /\ \A k \in Keys : k # K => Y[k] = X[k]
    BY <2>3, <2>4, <2>5, <2>6 DEF Indexes
  <2>8. AllOnce(Y)
    BY <2>6, <2>7, Zenon DEF AllOnce
  <2>9. ASSUME NEW k \in Keys, NEW i PROVE In(Y[k], i) <=> In(X[k], i) /\ ~Keyed(doc, k, i)
    BY <1>2, <2>1, <2>6, <2>7, Zenon DEF Keyed
  <2> QED BY <2>2, <2>7, <2>8, <2>9
<1> QED BY <1>1, <1>2

\* The parts of a document.
LEMMA DocParts ==
    ASSUME NEW doc \in DocType
    PROVE  doc.id \in Ids /\ doc.body \in Bodies /\ doc.body.key \in Keys
<1>1. doc.id \in Ids /\ doc.body \in Bodies
  BY DEF DocType
<1>2. doc.body \in [kind : {"string", "number", "none"}, key : Keys]
  BY <1>1, CollectionsAssumptions
<1> QED BY <1>1, <1>2

\* An index, or none, stays one when a document is added.
LEMMA AddType ==
    ASSUME NEW X \in Indexes \cup {None}, NEW doc \in DocType
    PROVE  AddToSecondary(X, doc) \in Indexes \cup {None}
<1>1. doc.id \in Ids /\ doc.body.key \in Keys
  BY DocParts
<1>2. CASE X = None \/ doc.body.kind = "none"
  BY <1>2 DEF AddToSecondary
<1>3. CASE X # None /\ doc.body.kind # "none"
  <2>1. PICK K \in Keys : K = doc.body.key
    BY <1>1
  <2>2. X[K] \in Seq(Ids) /\ X \in Indexes
    BY <1>3 DEF Indexes
  <2>3. PICK L : L = Append(X[K], doc.id)
    OBVIOUS
  <2>4. L \in Seq(Ids)
    BY <1>1, <2>2, <2>3
  <2>5. AddToSecondary(X, doc) = [X EXCEPT ![K] = L]
    BY <1>3, <2>1, <2>3 DEF AddToSecondary
  <2> QED BY <2>2, <2>4, <2>5 DEF Indexes
<1> QED BY <1>2, <1>3

Distinct(D) == \A p, q \in DOMAIN D : p # q => D[p].id # D[q].id

\* The index lists the first n documents, each under its key.
Lists(X, D, n) ==
    /\ X \in Indexes /\ AllOnce(X)
    /\ \A k \in Keys : \A i : In(X[k], i) <=> \E p \in 1 .. n : Keyed(D[p], k, i)

\* One document more.
LEMMA ListsNext ==
    ASSUME NEW D \in Seq(DocType), Distinct(D), NEW n \in Nat, n + 1 <= Len(D),
           NEW X, Lists(X, D, n), X # None
    PROVE  Lists(AddToSecondary(X, D[n + 1]), D, n + 1)
<1>1. PICK doc \in DocType : doc = D[n + 1]
  OBVIOUS
<1>2. doc.id \in Ids /\ doc.body.key \in Keys
  BY DocParts
<1>3. X \in Indexes /\ AllOnce(X)
  BY DEF Lists
<1>4. ASSUME NEW k \in Keys, In(X[k], doc.id) PROVE FALSE
  <2>1. PICK p \in 1 .. n : Keyed(D[p], k, doc.id)
    BY <1>4, Zenon DEF Lists
  <2>2. p \in DOMAIN D /\ n + 1 \in DOMAIN D /\ p # n + 1
    OBVIOUS
  <2> QED BY <1>1, <2>1, <2>2 DEF Keyed, Distinct
<1>5. PICK Y : Y = AddToSecondary(X, doc)
  OBVIOUS
<1>6. Y \in Indexes /\ AllOnce(Y) /\ \A k \in Keys : \A i : In(Y[k], i) <=> In(X[k], i) \/ Keyed(doc, k, i)
  BY <1>2, <1>3, <1>4, <1>5, AddToSecondaryOK
<1>7. \A p : p \in 1 .. n + 1 <=> p \in 1 .. n \/ p = n + 1
  OBVIOUS
<1>8. ASSUME NEW k \in Keys, NEW i PROVE In(Y[k], i) <=> \E p \in 1 .. n + 1 : Keyed(D[p], k, i)
  <2>1. In(X[k], i) <=> \E p \in 1 .. n : Keyed(D[p], k, i)
    BY Zenon DEF Lists
  <2>2. In(Y[k], i) <=> In(X[k], i) \/ Keyed(D[n + 1], k, i)
    BY <1>1, <1>6, Zenon
  <2> QED BY <1>7, <2>1, <2>2, Zenon
<1>9. Lists(Y, D, n + 1)
  BY <1>6, <1>8, Zenon DEF Lists
<1> QED BY <1>1, <1>5, <1>9

\* The index made of a list of documents with distinct ids lists them all.
LEMMA IndexOfOK ==
    ASSUME NEW D \in Seq(DocType), Distinct(D), IndexOf(D) # None
    PROVE  Lists(IndexOf(D), D, Len(D))
<1> DEFINE N == Len(D)
           Q == Indexes \cup {None}
           step == [x \in Q \X (1 .. N) |-> AddToSecondary(x[1], D[x[2]])]
           Def(f) == [k \in 0 .. N |-> IF k = 0 THEN NoEntries ELSE AddToSecondary(f[k - 1], D[k])]
           f == CHOOSE f : f = Def(f)
<1>1. N \in Nat /\ \A k \in 1 .. N : D[k] \in DocType
  OBVIOUS
<1>2. NoEntries \in Q /\ Lists(NoEntries, D, 0)
  <2>1. <<>> \in Seq(Ids) /\ DOMAIN <<>> = {} /\ \A p : p \notin 1 .. 0
    OBVIOUS
  <2>2. NoEntries \in Indexes /\ \A k \in Keys : NoEntries[k] = <<>>
    BY <2>1 DEF NoEntries, Indexes
  <2>3. AllOnce(NoEntries)
    BY <2>1, <2>2 DEF AllOnce, Once
  <2>4. ASSUME NEW k \in Keys, NEW i PROVE ~In(NoEntries[k], i)
    BY <2>1, <2>2 DEF In
  <2> QED BY <2>1, <2>2, <2>3, <2>4, Zenon DEF Lists
<1>3. IndexOf(D) = f[N]
  BY DEF IndexOf
<1> HIDE DEF N
<1>4. step \in Steps(Q, N)
  <2>1. \A X \in Q, k \in 1 .. N : AddToSecondary(X, D[k]) \in Q
    BY <1>1, AddType
  <2> HIDE DEF Q
  <2> QED BY <2>1 DEF Steps
<1>5. \A q \in Q, k \in 1 .. N : step[<<q, k>>] = AddToSecondary(q, D[k])
  OBVIOUS
<1> HIDE DEF step, Q
<1>6. PICK g : Solves(g, Q, NoEntries, N, step)
  BY <1>1, <1>2, <1>4, Recurrence
<1>7. g = Def(g)
  <2>1. \A k \in 1 .. N : g[k - 1] \in Q
    BY <1>1, <1>6 DEF Solves
  <2>2. \A k \in 1 .. N : g[k] = AddToSecondary(g[k - 1], D[k])
    BY <1>5, <1>6, <2>1 DEF Solves
  <2>3. \A k \in 0 .. N : k = 0 \/ (k # 0 /\ k \in 1 .. N)
    BY <1>1
  <2>4. g = [k \in 0 .. N |-> g[k]] /\ g[0] = NoEntries
    BY <1>6 DEF Solves
  <2>5. \A k \in 0 .. N : g[k] = Def(g)[k]
    BY <2>2, <2>3, <2>4
  <2> QED BY <2>4, <2>5, Zenon
<1>8. f = Def(f)
  BY <1>7
<1> HIDE DEF f
<1> DEFINE Good == {k \in Nat : k <= N /\ f[k] # None => Lists(f[k], D, k)}
<1>9. 0 \in Good
  BY <1>1, <1>2, <1>8
<1>10. ASSUME NEW k \in Nat, k \in Good PROVE k + 1 \in Good
  <2> SUFFICES ASSUME k + 1 <= N, f[k + 1] # None PROVE Lists(f[k + 1], D, k + 1)
    OBVIOUS
  <2>1. f[k + 1] = AddToSecondary(f[k], D[k + 1])
    BY <1>1, <1>8
  <2>2. f[k] # None
    BY <2>1 DEF AddToSecondary
  <2>3. Lists(f[k], D, k)
    BY <1>1, <1>10, <2>2
  <2> QED BY <2>1, <2>2, <2>3, ListsNext DEF N
<1> HIDE DEF Good
<1>11. \A k \in Nat : k \in Good
  BY <1>9, <1>10, Induct
<1> QED BY <1>1, <1>3, <1>11 DEF Good, N

-----------------------------------------------------------------------------
(* The collection, as long as no two documents have one id.  Both indexes  *)
(* may still have the entries of deleted documents, under the keys these   *)
(* had: an entry stands for a document of the list, and every live one has *)
(* its entries.                                                            *)

InvertedOK(D, I) ==
    /\ \A p \in Live(D) : Words(D[p]) \subseteq I
    /\ \A e \in I : \E p \in DOMAIN D : e \in Words(D[p])

SecondaryOK(D, X) ==
    X # None =>
      /\ X \in Indexes /\ AllOnce(X)
      /\ \A k \in Keys : \A i : In(X[k], i) => \E p \in DOMAIN D : Keyed(D[p], k, i)
      /\ \A p \in Live(D) : \A k \in Keys : \A i : Keyed(D[p], k, i) => In(X[k], i)

PartsOK(D, I, X) ==
    D \in Seq(DocType) /\ Distinct(D) /\ InvertedOK(D, I) /\ SecondaryOK(D, X)

Coll(D, I, X, e) == [documents |-> D, inverted |-> I, secondary |-> X, exists |-> e]
CollOK(c) ==
    /\ c = Coll(c.documents, c.inverted, c.secondary, c.exists)
    /\ PartsOK(c.documents, c.inverted, c.secondary)

\* What a document is indexed by depends on its id and its body.
LEMMA SameEntries ==
    ASSUME NEW d1, NEW d2, d1.id = d2.id, d1.body = d2.body
    PROVE  Words(d1) = Words(d2) /\ \A k, i : Keyed(d1, k, i) <=> Keyed(d2, k, i)
<1>1. Words(d1) = Words(d2)
  BY DEF Words
<1>2. ASSUME NEW k, NEW i PROVE Keyed(d1, k, i) <=> Keyed(d2, k, i)
  BY DEF Keyed
<1> QED BY <1>1, <1>2

\* The words of a document carry its id.
LEMMA WordId ==
    ASSUME NEW doc, NEW e \in Words(doc)
    PROVE  e[2] = doc.id
BY DEF Words

\* insert keeps the documents and both indexes in step.
LEMMA InsertOK ==
    ASSUME NEW D, NEW I, NEW X, PartsOK(D, I, X), NEW i \in Ids, NEW b \in Bodies, Named(D, i) = {}
    PROVE  PartsOK(Append(D, Doc(i, b)), I \cup Words(Doc(i, b)), AddToSecondary(X, Doc(i, b)))
<1>0. D \in Seq(DocType) /\ Distinct(D) /\ InvertedOK(D, I) /\ SecondaryOK(D, X)
  BY DEF PartsOK
<1>1. PICK doc : doc = Doc(i, b)
  OBVIOUS
<1>2. doc \in DocType /\ doc.id = i /\ doc.body = b
  BY <1>1 DEF DocType, Doc
<1>3. PICK N \in Nat : N = Len(D)
  BY <1>0
<1>4. PICK E : E = Append(D, doc)
  OBVIOUS
<1>5. /\ E \in Seq(DocType) /\ DOMAIN D = 1 .. N /\ DOMAIN E = 1 .. N + 1 /\ E[N + 1] = doc
      /\ \A p \in 1 .. N : E[p] = D[p]
  BY <1>0, <1>2, <1>3, <1>4
<1>6. \A p : p \in DOMAIN E <=> p \in DOMAIN D \/ p = N + 1
  BY <1>3, <1>5
<1>7. \A p \in DOMAIN D : E[p] = D[p] /\ D[p].id # i /\ p # N + 1
  BY <1>3, <1>5 DEF Named
<1>8. Distinct(E)
  <2> SUFFICES ASSUME NEW p \in DOMAIN E, NEW q \in DOMAIN E, p # q PROVE E[p].id # E[q].id
    BY DEF Distinct
  <2>1. CASE p = N + 1
    BY <1>2, <1>5, <1>6, <1>7, <2>1
  <2>2. CASE q = N + 1
    BY <1>2, <1>5, <1>6, <1>7, <2>2
  <2>3. CASE p # N + 1 /\ q # N + 1
    BY <1>0, <1>6, <1>7, <2>3 DEF Distinct
  <2> QED BY <2>1, <2>2, <2>3
<1>9. \A p \in Live(E) : p = N + 1 \/ (p \in Live(D) /\ E[p] = D[p])
  BY <1>6, <1>7 DEF Live
<1>10. InvertedOK(E, I \cup Words(doc))
  <2>1. ASSUME NEW p \in Live(E) PROVE Words(E[p]) \subseteq I \cup Words(doc)
    BY <1>0, <1>5, <1>9 DEF InvertedOK
  <2>2. ASSUME NEW e \in I \cup Words(doc) PROVE \E p \in DOMAIN E : e \in Words(E[p])
    <3>1. CASE e \in I
      BY <1>0, <1>6, <1>7, <3>1, Zenon DEF InvertedOK
    <3>2. CASE e \in Words(doc)
      BY <1>5, <1>6, <3>2
    <3> QED BY <3>1, <3>2
  <2> QED BY <2>1, <2>2 DEF InvertedOK
<1>11. ASSUME AddToSecondary(X, doc) # None PROVE SecondaryOK(E, AddToSecondary(X, doc))
  <2>1. X # None
    BY <1>11 DEF AddToSecondary
  <2>2. /\ X \in Indexes /\ AllOnce(X)
        /\ \A k \in Keys : \A j : In(X[k], j) => \E p \in DOMAIN D : Keyed(D[p], k, j)
        /\ \A p \in Live(D) : \A k \in Keys : \A j : Keyed(D[p], k, j) => In(X[k], j)
    BY <1>0, <2>1, Zenon DEF SecondaryOK
  <2>3. ASSUME NEW k \in Keys, In(X[k], doc.id) PROVE FALSE
    <3>1. PICK p \in DOMAIN D : Keyed(D[p], k, doc.id)
      BY <2>2, <2>3, Zenon
    <3> QED BY <1>2, <1>7, <3>1 DEF Keyed
  <2>4. PICK Y : Y = AddToSecondary(X, doc)
    OBVIOUS
  <2>5. /\ Y \in Indexes /\ AllOnce(Y)
        /\ \A k \in Keys : \A j : In(Y[k], j) <=> In(X[k], j) \/ Keyed(doc, k, j)
    BY <1>2, <2>1, <2>2, <2>3, <2>4, DocParts, AddToSecondaryOK
  <2>6. ASSUME NEW k \in Keys, NEW j, In(Y[k], j) PROVE \E p \in DOMAIN E : Keyed(E[p], k, j)
    <3>1. CASE In(X[k], j)
      BY <1>6, <1>7, <2>2, <3>1, Zenon
    <3>2. CASE Keyed(doc, k, j)
      BY <1>5, <1>6, <3>2
    <3> QED BY <2>5, <2>6, <3>1, <3>2, Zenon
  <2>7. ASSUME NEW p \in Live(E), NEW k \in Keys, NEW j, Keyed(E[p], k, j) PROVE In(Y[k], j)
    <3>1. Keyed(doc, k, j) \/ In(X[k], j)
      BY <1>5, <1>9, <2>2, <2>7, Zenon
    <3> QED BY <2>5, <3>1, Zenon
  <2>8. SecondaryOK(E, Y)
    BY <2>5, <2>6, <2>7, Zenon DEF SecondaryOK
  <2> QED BY <2>4, <2>8
<1>12. SecondaryOK(E, AddToSecondary(X, doc))
  BY <1>11, Zenon DEF SecondaryOK
<1> QED BY <1>1, <1>4, <1>5, <1>8, <1>10, <1>12 DEF PartsOK

\* update keeps them in step: the only document with the id is changed in place.
LEMMA UpdateOK ==
    ASSUME NEW D, NEW I, NEW X, PartsOK(D, I, X), NEW b \in Bodies, NEW p \in DOMAIN D
    PROVE  PartsOK([D EXCEPT ![p].body = b],
                   {e \in I : e[2] # D[p].id} \cup Words(Doc(D[p].id, b)),
                   AddToSecondary(RemoveFromSecondary(X, D[p]), Doc(D[p].id, b)))
<1>0. D \in Seq(DocType) /\ Distinct(D) /\ InvertedOK(D, I) /\ SecondaryOK(D, X)
  BY DEF PartsOK
<1>1. PICK old : old = D[p]
  OBVIOUS
<1>2. old \in DocType
  BY <1>0, <1>1
<1>3. PICK new : new = [old EXCEPT !.body = b]
  OBVIOUS
<1>4. new \in DocType /\ new.id = old.id /\ new.body = b
  BY <1>2, <1>3 DEF DocType
<1>5. PICK E : E = [D EXCEPT ![p].body = b]
  OBVIOUS
<1>6. E = [D EXCEPT ![p] = new]
  BY <1>1, <1>3, <1>5
<1>7. /\ E \in Seq(DocType) /\ DOMAIN E = DOMAIN D /\ E[p] = new
      /\ \A q \in DOMAIN D : q # p => E[q] = D[q]
  BY <1>0, <1>4, <1>6
<1>8. \A q \in DOMAIN D : q # p => D[q].id # old.id
  BY <1>0, <1>1 DEF Distinct
<1>9. \A q \in DOMAIN D : E[q].id = D[q].id
  BY <1>1, <1>4, <1>7
<1>10. Distinct(E)
  BY <1>0, <1>7, <1>9, Zenon DEF Distinct
<1>11. \A q \in Live(E) : q = p \/ (q # p /\ q \in DOMAIN D /\ q \in Live(D) /\ E[q] = D[q])
  BY <1>7 DEF Live
<1>12. PICK doc : doc = Doc(old.id, b)
  OBVIOUS
<1>13. doc \in DocType /\ doc.id = old.id /\ doc.body = b
  BY <1>2, <1>12, DocParts DEF DocType, Doc
<1>14. Words(doc) = Words(new) /\ \A k, i : Keyed(doc, k, i) <=> Keyed(new, k, i)
  BY <1>4, <1>13, SameEntries
<1>15. PICK J : J = {e \in I : e[2] # old.id} \cup Words(doc)
  OBVIOUS
<1>16. InvertedOK(E, J)
  <2>1. ASSUME NEW q \in Live(E) PROVE Words(E[q]) \subseteq J
    <3>1. CASE q = p
      BY <1>7, <1>14, <1>15, <3>1
    <3>2. CASE q # p
      <4>1. q \in DOMAIN D /\ q \in Live(D) /\ E[q] = D[q] /\ D[q].id # old.id
        BY <1>8, <1>11, <3>2
      <4>2. Words(D[q]) \subseteq I
        BY <1>0, <4>1 DEF InvertedOK
      <4>3. \A e \in Words(D[q]) : e[2] # old.id
        BY <4>1, WordId
      <4> QED BY <1>15, <4>1, <4>2, <4>3
    <3> QED BY <3>1, <3>2
  <2>2. ASSUME NEW e \in J PROVE \E q \in DOMAIN E : e \in Words(E[q])
    <3>1. CASE e \in Words(doc)
      BY <1>7, <1>14, <3>1
    <3>2. CASE e \in I /\ e[2] # old.id
      <4>1. PICK q \in DOMAIN D : e \in Words(D[q])
        BY <1>0, <3>2 DEF InvertedOK
      <4>2. e[2] = D[q].id
        BY <4>1, WordId
      <4>3. q # p
        BY <1>1, <3>2, <4>2
      <4> QED BY <1>7, <4>1, <4>3
    <3> QED BY <1>15, <3>1, <3>2
  <2> QED BY <2>1, <2>2 DEF InvertedOK
<1>17. PICK Y : Y = RemoveFromSecondary(X, old)
  OBVIOUS
<1>18. PICK Z : Z = AddToSecondary(Y, doc)
  OBVIOUS
<1>19. ASSUME Z # None PROVE SecondaryOK(E, Z)
  <2>1. Y # None
    BY <1>18, <1>19 DEF AddToSecondary
  <2>2. X # None
    BY <1>17, <2>1 DEF RemoveFromSecondary
  <2>3. /\ X \in Indexes /\ AllOnce(X)
        /\ \A k \in Keys : \A j : In(X[k], j) => \E q \in DOMAIN D : Keyed(D[q], k, j)
        /\ \A q \in Live(D) : \A k \in Keys : \A j : Keyed(D[q], k, j) => In(X[k], j)
    BY <1>0, <2>2, Zenon DEF SecondaryOK
  <2>4. old.body.key \in Keys /\ doc.body.key \in Keys /\ doc.id \in Ids
    BY <1>2, <1>13, DocParts
  <2>5. /\ Y \in Indexes /\ AllOnce(Y)
        /\ \A k \in Keys : \A j : In(Y[k], j) <=> In(X[k], j) /\ ~Keyed(old, k, j)
    BY <1>17, <2>2, <2>3, <2>4, RemoveFromSecondaryOK
  <2>6. ASSUME NEW k \in Keys, In(Y[k], old.id) PROVE FALSE
    <3>1. In(X[k], old.id) /\ ~Keyed(old, k, old.id)
      BY <2>5, <2>6, Zenon
    <3>2. PICK q \in DOMAIN D : Keyed(D[q], k, old.id)
      BY <2>3, <3>1, Zenon
    <3>3. q = p
      BY <1>8, <3>2 DEF Keyed
    <3> QED BY <1>1, <3>1, <3>2, <3>3
  <2>7. \A k \in Keys : ~In(Y[k], doc.id)
    BY <1>13, <2>6
  <2>8. /\ Z \in Indexes /\ AllOnce(Z)
        /\ \A k \in Keys : \A j : In(Z[k], j) <=> In(Y[k], j) \/ Keyed(doc, k, j)
    BY <1>18, <2>1, <2>4, <2>5, <2>7, AddToSecondaryOK
  <2>9. ASSUME NEW k \in Keys, NEW j, In(Z[k], j) PROVE \E q \in DOMAIN E : Keyed(E[q], k, j)
    <3>1. CASE In(Y[k], j)
      <4>1. In(X[k], j) /\ ~Keyed(old, k, j)
        BY <2>5, <3>1, Zenon
      <4>2. PICK q \in DOMAIN D : Keyed(D[q], k, j)
        BY <2>3, <4>1, Zenon
      <4>3. q # p
        BY <1>1, <4>1, <4>2
      <4> QED BY <1>7, <4>2, <4>3
    <3>2. CASE Keyed(doc, k, j)
      <4>1. Keyed(E[p], k, j)
        BY <1>7, <1>14, <3>2
      <4> QED BY <1>7, <4>1
    <3> QED BY <2>8, <2>9, <3>1, <3>2, Zenon
  <2>10. ASSUME NEW q \in Live(E), NEW k \in Keys, NEW j, Keyed(E[q], k, j) PROVE In(Z[k], j)
    <3>1. CASE q = p
      <4>1. Keyed(doc, k, j)
        BY <1>7, <1>14, <2>10, <3>1
      <4> QED BY <2>8, <4>1, Zenon
    <3>2. CASE q # p
      <4>1. q \in DOMAIN D /\ q \in Live(D) /\ E[q] = D[q]
        BY <1>11, <3>2
      <4>2. Keyed(D[q], k, j)
        BY <2>10, <4>1
      <4>3. In(X[k], j)
        BY <2>3, <4>1, <4>2, Zenon
      <4>4. ~Keyed(old, k, j)
        BY <1>8, <3>2, <4>1, <4>2 DEF Keyed
      <4> QED BY <2>5, <2>8, <4>3, <4>4, Zenon
    <3> QED BY <3>1, <3>2
  <2> QED BY <2>8, <2>9, <2>10, Zenon DEF SecondaryOK
<1>20. SecondaryOK(E, Z)
  BY <1>19, Zenon DEF SecondaryOK
<1>21. PartsOK(E, J, Z)
  BY <1>7, <1>10, <1>16, <1>20 DEF PartsOK
<1> QED BY <1>1, <1>5, <1>12, <1>15, <1>17, <1>18, <1>21

\* delete changes no entry, and no document's id or body.
LEMMA DeleteOK ==
    ASSUME NEW D, NEW I, NEW X, PartsOK(D, I, X), NEW p \in DOMAIN D
    PROVE  PartsOK([D EXCEPT ![p].deleted = TRUE], I, X)
<1>0. D \in Seq(DocType) /\ Distinct(D) /\ InvertedOK(D, I) /\ SecondaryOK(D, X)
  BY DEF PartsOK
<1>1. PICK new : new = [D[p] EXCEPT !.deleted = TRUE]
  OBVIOUS
<1>2. new \in DocType /\ new.id = D[p].id /\ new.body = D[p].body /\ new.deleted = TRUE
  <2>1. PICK d \in DocType : d = D[p]
    BY <1>0
  <2>2. d.id \in Ids /\ d.body \in Bodies
    BY DEF DocType
  <2>3. new = [id |-> d.id, body |-> d.body, deleted |-> TRUE]
    BY <1>1, <2>1 DEF DocType
  <2> QED BY <2>1, <2>2, <2>3 DEF DocType
<1>3. PICK E : E = [D EXCEPT ![p].deleted = TRUE]
  OBVIOUS
<1>4. E = [D EXCEPT ![p] = new]
  BY <1>1, <1>3
<1>5. /\ E \in Seq(DocType) /\ DOMAIN E = DOMAIN D /\ E[p] = new
      /\ \A q \in DOMAIN D : q # p => E[q] = D[q]
  BY <1>0, <1>2, <1>4
<1>6. \A q \in DOMAIN D : E[q].id = D[q].id /\ E[q].body = D[q].body
  BY <1>2, <1>5
<1>7. \A q \in DOMAIN D : Words(E[q]) = Words(D[q]) /\ \A k, i : Keyed(E[q], k, i) <=> Keyed(D[q], k, i)
  BY <1>6, SameEntries
<1>8. \A q \in Live(E) : q # p
  BY <1>2, <1>5, Zenon DEF Live
<1>9. \A q \in Live(E) : q \in DOMAIN D /\ q \in Live(D)
  BY <1>5, <1>8 DEF Live
<1>10. Distinct(E)
  BY <1>0, <1>5, <1>6, Zenon DEF Distinct
<1>11. InvertedOK(E, I)
  BY <1>0, <1>5, <1>7, <1>9 DEF InvertedOK
<1>12. SecondaryOK(E, X)
  BY <1>0, <1>5, <1>7, <1>9, Zenon DEF SecondaryOK
<1> QED BY <1>3, <1>5, <1>10, <1>11, <1>12 DEF PartsOK

\* The live documents, as a list of their own.
LEMMA LiveDocsOK ==
    ASSUME NEW D \in Seq(DocType), Distinct(D)
    PROVE  /\ LiveDocs(D) \in Seq(DocType) /\ Distinct(LiveDocs(D))
           /\ \A n \in DOMAIN LiveDocs(D) : \E p \in Live(D) : LiveDocs(D)[n] = D[p]
           /\ \A p \in Live(D) : \E n \in DOMAIN LiveDocs(D) : LiveDocs(D)[n] = D[p]
<1>1. PICK P \in SUBSET (DOMAIN D) : P = Live(D)
  BY DEF Live
<1>2. PICK R : R = LiveDocs(D)
  OBVIOUS
<1>3. R = Retain(D, P)
  BY <1>1, <1>2 DEF LiveDocs
<1>4. PICK h : /\ R \in Seq(DocType) /\ h \in [DOMAIN R -> P]
               /\ \A n \in DOMAIN R : R[n] = D[h[n]]
               /\ \A m, n \in DOMAIN R : m # n => h[m] # h[n]
               /\ \A p \in P : \E n \in DOMAIN R : h[n] = p
  BY <1>3, RetainFacts
<1>5. \A n \in DOMAIN R : h[n] \in P /\ h[n] \in DOMAIN D
  BY <1>4
<1>6. Distinct(R)
  <2> SUFFICES ASSUME NEW m \in DOMAIN R, NEW n \in DOMAIN R, m # n PROVE R[m].id # R[n].id
    BY DEF Distinct
  <2>1. h[m] \in DOMAIN D /\ h[n] \in DOMAIN D /\ h[m] # h[n]
    BY <1>4, <1>5
  <2>2. D[h[m]].id # D[h[n]].id
    BY <2>1, Zenon DEF Distinct
  <2>3. R[m] = D[h[m]] /\ R[n] = D[h[n]]
    BY <1>4
  <2> QED BY <2>2, <2>3
<1>7. \A n \in DOMAIN R : \E p \in P : R[n] = D[p]
  BY <1>4, <1>5
<1>8. \A p \in P : \E n \in DOMAIN R : R[n] = D[p]
  BY <1>4
<1> QED BY <1>1, <1>2, <1>4, <1>6, <1>7, <1>8

\* create_index makes an index of the live documents.
LEMMA CreateIndexOK ==
    ASSUME NEW D, NEW I, NEW X, PartsOK(D, I, X)
    PROVE  PartsOK(D, I, IndexOf(LiveDocs(D))) /\ SecondaryOK(LiveDocs(D), IndexOf(LiveDocs(D)))
<1>0. D \in Seq(DocType) /\ Distinct(D) /\ InvertedOK(D, I)
  BY DEF PartsOK
<1>1. PICK R : R = LiveDocs(D)
  OBVIOUS
<1>2. /\ R \in Seq(DocType) /\ Distinct(R)
      /\ \A n \in DOMAIN R : \E p \in Live(D) : R[n] = D[p]
      /\ \A p \in Live(D) : \E n \in DOMAIN R : R[n] = D[p]
  BY <1>0, <1>1, LiveDocsOK
<1>3. PICK Y : Y = IndexOf(R)
  OBVIOUS
<1>4. Live(D) \subseteq DOMAIN D /\ Live(R) \subseteq DOMAIN R /\ DOMAIN R = 1 .. Len(R)
  BY <1>2 DEF Live
<1>5. ASSUME Y # None PROVE SecondaryOK(D, Y) /\ SecondaryOK(R, Y)
  <2>1. Lists(Y, R, Len(R))
    BY <1>2, <1>3, <1>5, IndexOfOK
  <2>2. /\ Y \in Indexes /\ AllOnce(Y)
        /\ \A k \in Keys : \A i : In(Y[k], i) <=> \E n \in DOMAIN R : Keyed(R[n], k, i)
    BY <1>4, <2>1, Zenon DEF Lists
  <2>3. ASSUME NEW k \in Keys, NEW i, In(Y[k], i) PROVE \E p \in DOMAIN D : Keyed(D[p], k, i)
    <3>1. PICK n \in DOMAIN R : Keyed(R[n], k, i)
      BY <2>2, <2>3, Zenon
    <3>2. PICK p \in Live(D) : R[n] = D[p]
      BY <1>2, <3>1
    <3> QED BY <1>4, <3>1, <3>2
  <2>4. ASSUME NEW p \in Live(D), NEW k \in Keys, NEW i, Keyed(D[p], k, i) PROVE In(Y[k], i)
    <3>1. PICK n \in DOMAIN R : R[n] = D[p]
      BY <1>2
    <3>2. Keyed(R[n], k, i)
      BY <2>4, <3>1
    <3> QED BY <2>2, <3>2, Zenon
  <2>5. SecondaryOK(D, Y)
    BY <2>2, <2>3, <2>4, Zenon DEF SecondaryOK
  <2>6. SecondaryOK(R, Y)
    BY <1>4, <2>2, Zenon DEF SecondaryOK
  <2> QED BY <2>5, <2>6
<1>6. SecondaryOK(D, Y) /\ SecondaryOK(R, Y)
  BY <1>5, Zenon DEF SecondaryOK
<1> QED BY <1>0, <1>1, <1>3, <1>6 DEF PartsOK

\* compact makes both indexes anew, from the live documents.
LEMMA CompactOK ==
    ASSUME NEW D, NEW I, NEW X, PartsOK(D, I, X), NEW Y, Y = None \/ Y = IndexOf(LiveDocs(D))
    PROVE  PartsOK(LiveDocs(D), UNION {Words(LiveDocs(D)[p]) : p \in DOMAIN LiveDocs(D)}, Y)
<1>1. PICK R : R = LiveDocs(D)
  OBVIOUS
<1>2. R \in Seq(DocType) /\ Distinct(R)
  BY <1>1, LiveDocsOK DEF PartsOK
<1>3. SecondaryOK(R, Y)
  <2>1. CASE Y = None
    BY <2>1 DEF SecondaryOK
  <2>2. CASE Y = IndexOf(R)
    BY <1>1, <2>2, CreateIndexOK
  <2> QED BY <1>1, <2>1, <2>2
<1>4. PICK J : J = UNION {Words(R[p]) : p \in DOMAIN R}
  OBVIOUS
<1>5. InvertedOK(R, J)
  BY <1>4 DEF InvertedOK, Live
<1> QED BY <1>1, <1>2, <1>3, <1>4, <1>5 DEF PartsOK

-----------------------------------------------------------------------------
(* The same of the open collection and of the files.                       *)

OnDisk(f) == f = None \/ f = Unreadable \/ CollOK(f)
CollInv == ~collided => CollOK(coll) /\ OnDisk(path) /\ OnDisk(tmp)

\* A collection put together of its parts.
LEMMA CollOf ==
    ASSUME NEW D, NEW I, NEW X, NEW e, PartsOK(D, I, X)
    PROVE  CollOK(Coll(D, I, X, e))
<1>1. /\ Coll(D, I, X, e).documents = D /\ Coll(D, I, X, e).inverted = I
      /\ Coll(D, I, X, e).secondary = X /\ Coll(D, I, X, e).exists = e
  BY DEF Coll
<1> QED BY <1>1, Zenon DEF CollOK

\* An empty collection.
LEMMA NoCollOK == CollOK(NoColl)
<1>1. <<>> \in Seq(DocType) /\ DOMAIN <<>> = {}
  OBVIOUS
<1>2. Live(<<>>) = {}
  BY DEF Live
<1>3. PartsOK(<<>>, {}, None)
  BY <1>1, <1>2 DEF PartsOK, Distinct, InvertedOK, SecondaryOK
<1>4. NoColl = Coll(<<>>, {}, None, FALSE)
  BY DEF NoColl, Coll
<1> QED BY <1>3, <1>4, CollOf

\* With distinct ids, the only document with an id is the first.
LEMMA FirstOfOnly ==
    ASSUME NEW p \in Nat, NEW S, p \in S, \A q \in S : q = p
    PROVE  FirstOf(S) = p
<1>1. \A q \in S : p <= q
  OBVIOUS
<1>2. FirstOf(S) \in S
  BY <1>1 DEF FirstOf
<1> QED BY <1>2

\* The document an id names.
LEMMA NamedOnly ==
    ASSUME NEW D \in Seq(DocType), Distinct(D), NEW i, Named(D, i) # {}
    PROVE  FirstOf(Named(D, i)) \in DOMAIN D /\ D[FirstOf(Named(D, i))].id = i
<1>1. PICK p \in DOMAIN D : D[p].id = i
  BY DEF Named
<1>2. PICK S : S = Named(D, i)
  OBVIOUS
<1>3. p \in Nat /\ p \in S /\ \A q \in S : q = p
  BY <1>1, <1>2 DEF Named, Distinct
<1>4. FirstOf(S) = p
  BY <1>3, FirstOfOnly
<1> QED BY <1>1, <1>2, <1>4

\* A step that changes the open collection, and neither file.
LEMMA CollChanged ==
    ASSUME CollInv, ~collided' => ~collided /\ (CollOK(coll) => CollOK(coll)'),
           UNCHANGED <<path, tmp>>
    PROVE  CollInv'
<1>1. path' = path /\ tmp' = tmp
  OBVIOUS
<1>2. ASSUME ~collided' PROVE CollOK(coll)' /\ OnDisk(path) /\ OnDisk(tmp)
  BY <1>2, Zenon DEF CollInv
<1>3. ASSUME ~collided' PROVE (CollOK(coll) /\ OnDisk(path) /\ OnDisk(tmp))'
  BY <1>1, <1>2, <1>3 DEF OnDisk
<1> QED BY <1>3, Zenon DEF CollInv

\* The invariant is kept by every step.
LEMMA CollInvStep == CollInv /\ [CNext]_cvars => CollInv'
<1> SUFFICES ASSUME CollInv, [CNext]_cvars PROVE CollInv'
  OBVIOUS
<1> DEFINE D == coll.documents
           I == coll.inverted
           X == coll.secondary
<1>p. ASSUME CollOK(coll) PROVE coll = Coll(D, I, X, coll.exists) /\ PartsOK(D, I, X) /\ D \in Seq(DocType) /\ Distinct(D)
  BY <1>p DEF CollOK, PartsOK
<1>1. CASE UNCHANGED cvars
  <2>1. UNCHANGED <<collided, path, tmp, coll>>
    BY <1>1 DEF cvars, storeVars
  <2> QED BY <2>1 DEF CollInv, OnDisk, CollOK
<1>2. ASSUME NEW i \in Ids, NEW b \in Bodies, Insert(i, b) PROVE CollInv'
  <2>1. /\ coll' = Coll(Append(D, Doc(i, b)), I \cup Words(Doc(i, b)), AddToSecondary(X, Doc(i, b)), TRUE)
        /\ UNCHANGED <<path, tmp>>
    BY <1>2 DEF Insert, Quiet, Coll
  <2>2. ASSUME ~collided' PROVE ~collided /\ Named(D, i) = {}
    BY <1>2, <2>2, Zenon DEF Insert
  <2>3. ASSUME ~collided', CollOK(coll) PROVE CollOK(coll)'
    <3>1. PartsOK(Append(D, Doc(i, b)), I \cup Words(Doc(i, b)), AddToSecondary(X, Doc(i, b)))
      BY <1>p, <2>2, <2>3, InsertOK
    <3>2. CollOK(coll')
      BY <2>1, <3>1, CollOf
    <3> QED BY <3>2
  <2> QED BY <2>1, <2>2, <2>3, CollChanged
<1>3. ASSUME NEW i \in Ids, NEW b \in Bodies, Update(i, b) PROVE CollInv'
  <2>1. UNCHANGED <<path, tmp>> /\ collided' = collided
    BY <1>3 DEF Update, Quiet
  <2>2. ASSUME CollOK(coll) PROVE CollOK(coll)'
    <3>1. PICK p : p = FirstOf(Named(D, i))
      OBVIOUS
    <3>2. coll' = [coll EXCEPT !.documents[p].body = b,
                     !.inverted = {e \in @ : e[2] # i} \cup Words(Doc(i, b)),
                     !.secondary = AddToSecondary(RemoveFromSecondary(@, D[p]), Doc(i, b))]
      BY <1>3, <3>1 DEF Update
    <3>3. p \in DOMAIN D /\ D[p].id = i
      BY <1>3, <1>p, <2>2, <3>1, NamedOnly DEF Update
    <3>4. coll' = Coll([D EXCEPT ![p].body = b], {e \in I : e[2] # i} \cup Words(Doc(i, b)),
                       AddToSecondary(RemoveFromSecondary(X, D[p]), Doc(i, b)), coll.exists)
      BY <1>p, <2>2, <3>2 DEF Coll
    <3>5. PartsOK([D EXCEPT ![p].body = b], {e \in I : e[2] # i} \cup Words(Doc(i, b)),
                  AddToSecondary(RemoveFromSecondary(X, D[p]), Doc(i, b)))
      BY <1>p, <2>2, <3>3, UpdateOK
    <3>6. CollOK(coll')
      BY <3>4, <3>5, CollOf
    <3> QED BY <3>6
  <2> QED BY <2>1, <2>2, CollChanged
<1>4. ASSUME NEW i \in Ids, Delete(i) PROVE CollInv'
  <2>1. UNCHANGED <<path, tmp>> /\ collided' = collided
    BY <1>4 DEF Delete, Quiet
  <2>2. ASSUME CollOK(coll) PROVE CollOK(coll)'
    <3>1. PICK p : p = FirstOf(Named(D, i))
      OBVIOUS
    <3>2. coll' = [coll EXCEPT !.documents[p].deleted = TRUE]
      BY <1>4, <3>1 DEF Delete
    <3>3. p \in DOMAIN D
      BY <1>4, <1>p, <2>2, <3>1, NamedOnly DEF Delete
    <3>4. coll' = Coll([D EXCEPT ![p].deleted = TRUE], I, X, coll.exists)
      BY <1>p, <2>2, <3>2 DEF Coll
    <3>5. PartsOK([D EXCEPT ![p].deleted = TRUE], I, X)
      BY <1>p, <2>2, <3>3, DeleteOK
    <3>6. CollOK(coll')
      BY <3>4, <3>5, CollOf
    <3> QED BY <3>6
  <2> QED BY <2>1, <2>2, CollChanged
<1>5. CASE CreateIndex
  <2>1. /\ coll' = [coll EXCEPT !.secondary = IndexOf(LiveDocs(D))]
        /\ UNCHANGED <<path, tmp>> /\ collided' = collided
    BY <1>5 DEF CreateIndex, Quiet
  <2>2. ASSUME CollOK(coll) PROVE CollOK(coll)'
    <3>1. coll' = Coll(D, I, IndexOf(LiveDocs(D)), coll.exists)
      BY <1>p, <2>1, <2>2 DEF Coll
    <3>2. PartsOK(D, I, IndexOf(LiveDocs(D)))
      BY <1>p, <2>2, CreateIndexOK
    <3>3. CollOK(coll')
      BY <3>1, <3>2, CollOf
    <3> QED BY <3>3
  <2> QED BY <2>1, <2>2, CollChanged
<1>6. CASE DropIndex
  <2>1. /\ coll' = [coll EXCEPT !.secondary = None] /\ UNCHANGED <<path, tmp>> /\ collided' = collided
    BY <1>6 DEF DropIndex, Quiet
  <2>2. ASSUME CollOK(coll) PROVE CollOK(coll)'
    <3>1. coll' = Coll(D, I, None, coll.exists)
      BY <1>p, <2>1, <2>2 DEF Coll
    <3>2. PartsOK(D, I, None)
      BY <1>p, <2>2 DEF PartsOK, SecondaryOK
    <3>3. CollOK(coll')
      BY <3>1, <3>2, CollOf
    <3> QED BY <3>3
  <2> QED BY <2>1, <2>2, CollChanged
<1>7. CASE Compact
  <2>1. /\ coll' = [coll EXCEPT !.documents = LiveDocs(D),
                      !.inverted = UNION {Words(LiveDocs(D)[p]) : p \in DOMAIN LiveDocs(D)},
                      !.secondary = IF @ = None THEN None ELSE IndexOf(LiveDocs(D))]
        /\ UNCHANGED <<path, tmp>> /\ collided' = collided
    BY <1>7 DEF Compact, Quiet
  <2>2. PICK Y : Y = IF X = None THEN None ELSE IndexOf(LiveDocs(D))
    OBVIOUS
  <2>3. PICK J : J = UNION {Words(LiveDocs(D)[p]) : p \in DOMAIN LiveDocs(D)}
    OBVIOUS
  <2>4. ASSUME CollOK(coll) PROVE CollOK(coll)'
    <3>1. coll' = Coll(LiveDocs(D), J, Y, coll.exists)
      BY <1>p, <2>1, <2>2, <2>3, <2>4 DEF Coll
    <3>2. PartsOK(LiveDocs(D), J, Y)
      BY <1>p, <2>2, <2>3, <2>4, CompactOK
    <3>3. CollOK(coll')
      BY <3>1, <3>2, CollOf
    <3> QED BY <3>3
  <2> QED BY <2>1, <2>4, CollChanged
<1>8. CASE SaveTemp
  <2>1. UNCHANGED <<collided, coll, path>> /\ (tmp' = coll \/ tmp' = Unreadable)
    BY <1>8, Zenon DEF SaveTemp
  <2> QED BY <2>1, Zenon DEF CollInv, OnDisk
<1>9. CASE SaveRename
  <2>1. UNCHANGED <<collided, coll>> /\ path' = tmp /\ tmp' = None
    BY <1>9 DEF SaveRename
  <2> QED BY <2>1, Zenon DEF CollInv, OnDisk
<1>10. CASE Open
  <2>1. /\ UNCHANGED <<collided, path, tmp>> /\ path # Unreadable
        /\ coll' = NoColl \/ (coll' = path /\ path # None)
    BY <1>10 DEF Open
  <2> QED BY <2>1, NoCollOK, Zenon DEF CollInv, OnDisk
<1>11. CASE OpenWithWal
  <2>1. UNCHANGED <<collided, tmp>> /\ path' = Unreadable /\ coll' = NoColl
    BY <1>11 DEF OpenWithWal
  <2> QED BY <2>1, NoCollOK, Zenon DEF CollInv, OnDisk
<1>12. CASE OpenWithWalSave
  <2>1. UNCHANGED <<collided, coll, tmp>> /\ path' = NoColl
    BY <1>12 DEF OpenWithWalSave
  <2> QED BY <2>1, NoCollOK, Zenon DEF CollInv, OnDisk
<1>13. CASE Crash
  <2>1. UNCHANGED <<collided, tmp>> /\ coll' = NoColl /\ (path' = path \/ path' = Unreadable)
    BY <1>13, Zenon DEF Crash
  <2> QED BY <2>1, NoCollOK, Zenon DEF CollInv, OnDisk
<1>14. CASE UseLog
  <2>1. UNCHANGED <<collided, path, tmp, coll>>
    BY <1>14 DEF UseLog, storeVars
  <2> QED BY <2>1 DEF CollInv, OnDisk, CollOK
<1> QED BY <1>1, <1>2, <1>3, <1>4, <1>5, <1>6, <1>7, <1>8, <1>9, <1>10, <1>11, <1>12, <1>13, <1>14,
           Zenon DEF CNext

-----------------------------------------------------------------------------
(* Queries.                                                                *)

\* get_doc finds a live document by its id.
LEMMA FindOnly ==
    ASSUME CollOK(coll), NEW p \in Live(docs)
    PROVE  Find(docs[p].id) # {} /\ FirstOf(Find(docs[p].id)) = p
<1>1. docs \in Seq(DocType) /\ Distinct(docs) /\ p \in DOMAIN docs
  BY DEF CollOK, PartsOK, docs, Live
<1>2. PICK S : S = Find(docs[p].id)
  OBVIOUS
<1>3. p \in Nat /\ p \in S /\ \A q \in S : q = p
  BY <1>1, <1>2 DEF Find, Named, Distinct, docs
<1>4. FirstOf(S) = p
  BY <1>3, FirstOfOnly
<1> QED BY <1>2, <1>3, <1>4

\* What get_doc finds has the id.
LEMMA FoundHasId ==
    ASSUME CollOK(coll), NEW i, Find(i) # {}
    PROVE  FirstOf(Find(i)) \in Live(docs) /\ docs[FirstOf(Find(i))].id = i
<1>1. PICK p \in Live(docs) : docs[p].id = i
  BY DEF Find, Named, docs
<1>2. FirstOf(Find(i)) = p
  BY <1>1, FindOnly
<1> QED BY <1>1, <1>2

\* With distinct ids an index entry and the document with its id agree.
LEMMA EntryOf ==
    ASSUME CollOK(coll), coll.secondary # None, NEW k \in Keys, NEW p \in Live(docs)
    PROVE  In(coll.secondary[k], docs[p].id) <=> HasKey(p) /\ docs[p].body.key = k
<1>1. docs \in Seq(DocType) /\ Distinct(docs) /\ SecondaryOK(docs, coll.secondary)
  BY DEF CollOK, PartsOK, docs
<1>2. p \in DOMAIN docs
  BY DEF Live
<1>3. ASSUME In(coll.secondary[k], docs[p].id) PROVE HasKey(p) /\ docs[p].body.key = k
  <2>1. PICK q \in DOMAIN docs : Keyed(docs[q], k, docs[p].id)
    BY <1>1, <1>3, Zenon DEF SecondaryOK
  <2>2. q = p
    BY <1>1, <1>2, <2>1, Zenon DEF Distinct, Keyed
  <2> QED BY <2>1, <2>2 DEF Keyed, HasKey
<1>4. ASSUME HasKey(p), docs[p].body.key = k PROVE In(coll.secondary[k], docs[p].id)
  <2>1. Keyed(docs[p], k, docs[p].id)
    BY <1>4 DEF HasKey, Keyed
  <2> QED BY <1>1, <2>1, Zenon DEF SecondaryOK
<1> QED BY <1>3, <1>4

\* search finds the live documents with the word.
LEMMA SearchExact ==
    ASSUME CollOK(coll), NEW k \in Keys
    PROVE  Search(k) = {p \in Live(docs) : docs[p].body.kind = "string" /\ docs[p].body.key = k}
<1>1. docs \in Seq(DocType) /\ Distinct(docs) /\ InvertedOK(docs, coll.inverted)
  BY DEF CollOK, PartsOK, docs
<1>2. ASSUME NEW p \in Search(k) PROVE docs[p].body.kind = "string" /\ docs[p].body.key = k /\ p \in Live(docs)
  <2>1. PICK i \in Ids : p \in Live(docs) /\ <<k, i>> \in coll.inverted /\ Find(i) # {} /\ p = FirstOf(Find(i))
    BY <1>2 DEF Search
  <2>2. PICK q \in DOMAIN docs : <<k, i>> \in Words(docs[q])
    BY <1>1, <2>1 DEF InvertedOK
  <2>3. docs[q].body.kind = "string" /\ docs[q].body.key = k /\ docs[q].id = i
    BY <2>2 DEF Words
  <2>4. docs[p].id = i /\ p \in DOMAIN docs
    BY <2>1, FoundHasId DEF Live
  <2>5. q = p
    BY <1>1, <2>3, <2>4 DEF Distinct
  <2> QED BY <2>1, <2>3, <2>5
<1>3. ASSUME NEW p \in Live(docs), docs[p].body.kind = "string", docs[p].body.key = k PROVE p \in Search(k)
  <2>1. PICK i : i = docs[p].id
    OBVIOUS
  <2>2. <<k, i>> \in coll.inverted
    BY <1>1, <1>3, <2>1 DEF InvertedOK, Words
  <2>3. Find(i) # {} /\ p = FirstOf(Find(i))
    BY <2>1, FindOnly
  <2>4. p \in DOMAIN docs
    BY DEF Live
  <2>5. i \in Ids
    BY <1>1, <2>1, <2>4, DocParts
  <2> QED BY <2>2, <2>3, <2>5 DEF Search
<1> QED BY <1>2, <1>3

\* query by the index finds the live documents with the key.
LEMMA QueryExact ==
    ASSUME CollOK(coll), coll.secondary # None, NEW k \in Keys
    PROVE  Query(k) = {p \in Live(docs) : HasKey(p) /\ docs[p].body.key = k}
<1>1. Query(k) = {p \in Live(docs) : In(coll.secondary[k], docs[p].id)}
  BY DEF Query, In
<1> QED BY <1>1, EntryOf

\* query_range by the index finds what the scan finds.
LEMMA RangeExact ==
    ASSUME CollOK(coll), coll.secondary # None, NEW k \in Keys, NEW op \in {">", "<", ">=", "<="}
    PROVE  IndexRange(op, k) = ScanRange(op, k)
<1> DEFINE X == coll.secondary
           Walked(j) == IF op = ">" THEN j >= k /\ X[j] # X[k] ELSE Compares(j, op, k)
<1>0. docs \in Seq(DocType) /\ Keys \subseteq Nat
  BY CollectionsAssumptions DEF CollOK, PartsOK, docs
<1>1. \A p \in Live(docs) : p \in DOMAIN docs /\ docs[p].body.key \in Keys
  BY <1>0, DocParts DEF Live
<1>2. \A p : p \in IndexRange(op, k) <=>
        /\ p \in Live(docs)
        /\ \E j \in Keys : /\ Walked(j)
                           /\ \E n \in DOMAIN X[j] : Find(X[j][n]) # {} /\ p = FirstOf(Find(X[j][n]))
                           /\ op = ">" => docs[p].body.key > k
  BY DEF IndexRange
<1>3. ASSUME NEW p \in IndexRange(op, k) PROVE p \in ScanRange(op, k)
  <2>1. PICK j \in Keys : /\ p \in Live(docs) /\ Walked(j) /\ (op = ">" => docs[p].body.key > k)
                          /\ \E n \in DOMAIN X[j] : Find(X[j][n]) # {} /\ p = FirstOf(Find(X[j][n]))
    BY <1>2, <1>3, Zenon
  <2>2. PICK n \in DOMAIN X[j] : Find(X[j][n]) # {} /\ p = FirstOf(Find(X[j][n]))
    BY <2>1
  <2>3. docs[p].id = X[j][n]
    BY <2>2, FoundHasId
  <2>4. In(X[j], docs[p].id)
    BY <2>2, <2>3 DEF In
  <2>5. HasKey(p) /\ docs[p].body.key = j
    BY <2>1, <2>4, EntryOf
  <2>6. Compares(j, op, k)
    <3>1. CASE op = ">"
      BY <2>1, <2>5, <3>1 DEF Compares
    <3>2. CASE op # ">"
      BY <2>1, <3>2
    <3> QED BY <3>1, <3>2
  <2> QED BY <2>1, <2>5, <2>6 DEF ScanRange
<1>4. ASSUME NEW p \in ScanRange(op, k) PROVE p \in IndexRange(op, k)
  <2>1. p \in Live(docs) /\ HasKey(p) /\ Compares(docs[p].body.key, op, k)
    BY <1>4 DEF ScanRange
  <2>2. PICK j \in Keys : j = docs[p].body.key
    BY <1>1, <2>1
  <2>3. In(X[j], docs[p].id)
    BY <2>1, <2>2, EntryOf
  <2>4. PICK n \in DOMAIN X[j] : X[j][n] = docs[p].id
    BY <2>3 DEF In
  <2>5. Find(X[j][n]) # {} /\ p = FirstOf(Find(X[j][n]))
    BY <2>1, <2>4, FindOnly
  <2>6. CASE op = ">"
    <3>1. j > k /\ j \in Nat /\ k \in Nat
      BY <1>0, <2>1, <2>2, <2>6 DEF Compares
    <3>2. j >= k /\ j # k
      BY <3>1
    <3>3. ~In(X[k], docs[p].id)
      BY <2>1, <2>2, <3>2, EntryOf
    <3>4. X[j] # X[k]
      BY <2>3, <3>3
    <3>5. Walked(j)
      BY <2>6, <3>2, <3>4
    <3>6. docs[p].body.key > k
      BY <2>2, <3>1
    <3> HIDE DEF Walked
    <3> QED BY <1>2, <2>1, <2>4, <2>5, <3>5, <3>6, Zenon
  <2>7. CASE op # ">"
    <3>1. Walked(j)
      BY <2>1, <2>2, <2>7
    <3> HIDE DEF Walked
    <3> QED BY <1>2, <2>1, <2>4, <2>5, <2>7, <3>1, Zenon
  <2> QED BY <2>6, <2>7
<1> QED BY <1>3, <1>4

\* In every behaviour, for any documents, keys and number of calls, queries and
\* searches return exactly the documents they should: an update moves a
\* document in both indexes, and the entries that deletes leave behind never
\* show (db.rs: insert, update, delete, create_index, compact, query,
\* query_range, search).
THEOREM QueriesAreExact == CSpec => []QueriesExact
<1>1. CInit => CollInv
  <2> SUFFICES ASSUME CInit PROVE CollInv
    OBVIOUS
  <2>1. coll = NoColl /\ path = None /\ tmp = None
    BY DEF CInit
  <2> QED BY <2>1, NoCollOK DEF CollInv, OnDisk
<1>2. CollInv => QueriesExact
  <2> SUFFICES ASSUME CollInv, ~collided, NEW k \in Keys
               PROVE  /\ Search(k) = {p \in Live(docs) : docs[p].body.kind = "string" /\ docs[p].body.key = k}
                      /\ coll.secondary # None =>
                           /\ Query(k) = {p \in Live(docs) : HasKey(p) /\ docs[p].body.key = k}
                           /\ \A op \in {">", "<", ">=", "<="} : IndexRange(op, k) = ScanRange(op, k)
                           /\ \A m, n \in DOMAIN coll.secondary[k] :
                                m # n => coll.secondary[k][m] # coll.secondary[k][n]
    BY Zenon DEF QueriesExact
  <2>1. CollOK(coll)
    BY Zenon DEF CollInv
  <2>2. ASSUME coll.secondary # None PROVE Once(coll.secondary[k])
    BY <2>1, <2>2, Zenon DEF CollOK, PartsOK, SecondaryOK, AllOnce
  <2>3. Search(k) = {p \in Live(docs) : docs[p].body.kind = "string" /\ docs[p].body.key = k}
    BY <2>1, SearchExact
  <2>4. ASSUME coll.secondary # None
        PROVE  Query(k) = {p \in Live(docs) : HasKey(p) /\ docs[p].body.key = k}
    BY <2>1, <2>4, QueryExact
  <2>5. ASSUME coll.secondary # None, NEW op \in {">", "<", ">=", "<="}
        PROVE  IndexRange(op, k) = ScanRange(op, k)
    BY <2>1, <2>5, RangeExact
  <2> QED BY <2>2, <2>3, <2>4, <2>5, Zenon DEF Once
<1> QED BY <1>1, <1>2, CollInvStep, PTL DEF CSpec
=============================================================================
