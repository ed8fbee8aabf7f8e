---------------------------- MODULE DistTxProofs ----------------------------
(***************************************************************************)
(* Proofs about DistTx, for any sets of transactions, threads,             *)
(* participants and operations: a prepared transaction has every Yes, no   *)
(* two callers are told different decisions, and what is committed is      *)
(* applied by every participant.                                           *)
(***************************************************************************)
EXTENDS DistTx, TLAPS

CallRecord == [tx : Tx, seen : Record, copy : Record, says : Phase]

\* The types, with the domains of the functions.
Types ==
    /\ txs \in [Tx -> Record \cup {None}]
    /\ call \in [Thread -> CallRecord \cup {None}]
    /\ applied \in [Participant -> [Tx -> SUBSET Op]]
    /\ requests \subseteq Request /\ responses \subseteq Response
    /\ decided \subseteq Tx \X {"Committed", "Aborted"}
    /\ raced \in BOOLEAN /\ late \subseteq Tx /\ restarts \in Nat

\* What a call does to the phase of the record it has read.
ChangeOK(c) ==
    /\ c.says = "Voting" => c.copy.phase = c.seen.phase
    /\ c.says = "Prepared" => c.copy.phase = "Prepared" /\ c.seen.phase = "Voting"
    /\ c.says = "Aborted" => c.copy.phase = "Aborted" /\ c.seen.phase # "Committed"
    /\ c.says = "Committed" => c.copy.phase = "Committed" /\ c.seen.phase = "Prepared"

Voted(r, v, ph) == [r EXCEPT !.vote = v, !.phase = ph]

YesFrom(x, p) == [tx |-> x, node |-> p, vote |-> "Yes"]

\* A record of x has every Yes if it is prepared, and every Yes in it is the
\* answer of that participant.
Backed(x, r) ==
    /\ AllYesIfPrepared(r)
    /\ \A p \in DOMAIN r.vote : r.vote[p] = "Yes" => YesFrom(x, p) \in responses

\* So is every record in the log, and every copy about to be put back.
RecordsBacked == \A x \in Tx : txs[x] # None => Backed(x, txs[x])
CopiesBacked ==
    \A t \in Thread : call[t] # None => Backed(call[t].tx, call[t].copy) /\ ChangeOK(call[t])

\* Only who was asked answers, and until a record changes its operations after
\* a request was built, every request for it has all of them.
RequestsOK ==
    /\ \A r \in responses : \E q \in requests : q.tx = r.tx
    /\ \A q \in requests : q.tx \notin late /\ txs[q.tx] # None => q.ops = txs[q.tx].ops

\* Until then, who answered Yes has applied all operations of the record.
YesApplied ==
    \A x \in Tx \ late : txs[x] # None =>
      \A p \in Participant : YesFrom(x, p) \in responses => txs[x].ops \subseteq applied[p][x]

\* What a caller was told is the phase of the record, until the record is
\* begun again or lost.
DecidedStays ==
    ~raced => \A x \in Tx, d \in {"Committed", "Aborted"} :
      <<x, d>> \in decided /\ txs[x] # None => txs[x].phase = d

\* The inductive invariant.
DistTxInv ==
    /\ Types /\ RecordsBacked /\ CopiesBacked /\ RequestsOK /\ YesApplied
    /\ DecidedStays /\ OneDecision

-----------------------------------------------------------------------------
(* A record: its votes are of a set of participants. *)
LEMMA RecordParts ==
    ASSUME NEW r
    PROVE  r \in Record <=>
             \E ps \in SUBSET Participant :
               r \in [vote : [ps -> Vote \cup {None}], ops : SUBSET Op, phase : Phase]
BY Zenon DEF Record

(* Changing the operations, the phase or the votes of a record gives one. *)
LEMMA RecordChanged ==
    ASSUME NEW r \in Record
    PROVE  /\ DOMAIN r.vote \in SUBSET Participant
           /\ r.vote \in [DOMAIN r.vote -> Vote \cup {None}]
           /\ r.ops \in SUBSET Op /\ r.phase \in Phase
           /\ \A o \in Op :
                LET s == [r EXCEPT !.ops = @ \cup {o}] IN
                  s \in Record /\ s.vote = r.vote /\ s.phase = r.phase
           /\ \A ph \in Phase :
                LET s == [r EXCEPT !.phase = ph] IN
                  s \in Record /\ s.vote = r.vote /\ s.phase = ph /\ s.ops = r.ops
<1>1. PICK ps \in SUBSET Participant :
        r \in [vote : [ps -> Vote \cup {None}], ops : SUBSET Op, phase : Phase]
  BY RecordParts
<1>2. DOMAIN r.vote = ps
  BY <1>1
<1>3. \A o \in Op :
        LET s == [r EXCEPT !.ops = @ \cup {o}] IN
          /\ s \in [vote : [ps -> Vote \cup {None}], ops : SUBSET Op, phase : Phase]
          /\ s.vote = r.vote /\ s.phase = r.phase
  BY <1>1
<1>4. \A ph \in Phase :
        LET s == [r EXCEPT !.phase = ph] IN
          /\ s \in [vote : [ps -> Vote \cup {None}], ops : SUBSET Op, phase : Phase]
          /\ s.vote = r.vote /\ s.phase = ph /\ s.ops = r.ops
  BY <1>1
<1>6. \A s : s \in [vote : [ps -> Vote \cup {None}], ops : SUBSET Op, phase : Phase]
              => s \in Record
  BY RecordParts
<1>7. /\ r.vote \in [DOMAIN r.vote -> Vote \cup {None}]
      /\ r.ops \in SUBSET Op /\ r.phase \in Phase
  BY <1>1
<1>8. \A o \in Op :
        LET s == [r EXCEPT !.ops = @ \cup {o}] IN
          s \in Record /\ s.vote = r.vote /\ s.phase = r.phase
  BY <1>3, <1>6, Zenon
<1>9. \A ph \in Phase :
        LET s == [r EXCEPT !.phase = ph] IN
          s \in Record /\ s.vote = r.vote /\ s.phase = ph /\ s.ops = r.ops
  BY <1>4, <1>6, Zenon
<1> QED BY <1>2, <1>7, <1>8, <1>9, Zenon

\* A record with other votes and another phase is a record.
LEMMA RecordVoted ==
    ASSUME NEW r \in Record, NEW ph \in Phase, NEW v \in [DOMAIN r.vote -> Vote \cup {None}]
    PROVE  LET s == Voted(r, v, ph) IN s \in Record /\ s.vote = v /\ s.phase = ph
<1> DEFINE s == Voted(r, v, ph)
<1>1. PICK ps \in SUBSET Participant :
        r \in [vote : [ps -> Vote \cup {None}], ops : SUBSET Op, phase : Phase]
  BY RecordParts
<1>2. v \in [ps -> Vote \cup {None}]
  BY <1>1
<1>3. /\ s \in [vote : [ps -> Vote \cup {None}], ops : SUBSET Op, phase : Phase]
      /\ s.vote = v /\ s.phase = ph
  BY <1>1, <1>2 DEF Voted
<1> QED BY <1>3, RecordParts

(* A new record has no votes yet. *)
LEMMA NewRecord ==
    ASSUME NEW ps \in SUBSET Participant
    PROVE  /\ NewTx(ps) \in Record /\ NewTx(ps).phase = "Voting"
           /\ \A p \in DOMAIN NewTx(ps).vote : NewTx(ps).vote[p] # "Yes"
<1>1. NewTx(ps) \in [vote : [ps -> Vote \cup {None}], ops : SUBSET Op, phase : Phase]
  BY DEF NewTx, Phase
<1>2. DOMAIN NewTx(ps).vote = ps /\ \A p \in ps : NewTx(ps).vote[p] = None
  BY DEF NewTx
<1>3. None # "Yes"
  BY DistTxAssumptions
<1> QED BY <1>1, <1>2, <1>3, RecordParts DEF NewTx

-----------------------------------------------------------------------------
(* Initially. *)
LEMMA InitInv == Init => DistTxInv
<1> SUFFICES ASSUME Init PROVE DistTxInv
  OBVIOUS
<1>1. Types
  BY DEF Init, Types
<1>2. /\ \A x \in Tx : txs[x] = None
      /\ \A t \in Thread : call[t] = None
      /\ decided = {} /\ requests = {} /\ responses = {}
  BY DEF Init
<1>3. /\ RecordsBacked /\ CopiesBacked /\ RequestsOK /\ YesApplied
      /\ DecidedStays /\ OneDecision
  BY <1>2 DEF RecordsBacked, CopiesBacked, RequestsOK, YesApplied, DecidedStays, OneDecision
<1> QED BY <1>1, <1>3 DEF DistTxInv

(* begin: the new record has no votes; its id is late if it was requested. *)
LEMMA BeginInv ==
    ASSUME DistTxInv, NEW t \in Thread, NEW x \in Tx, NEW ps \in SUBSET Participant,
           Begin(t, x, ps)
    PROVE  DistTxInv'
<1> DEFINE r == NewTx(ps)
<1>1. /\ r \in Record /\ r.phase = "Voting"
      /\ \A p \in DOMAIN r.vote : r.vote[p] # "Yes"
  BY NewRecord
<1> HIDE DEF r
<1>2. /\ txs' = [txs EXCEPT ![x] = r] /\ txs \in [Tx -> Record \cup {None}]
      /\ decided' = {d \in decided : d[1] # x} /\ late' = late \cup Requested(x)
      /\ call' = call /\ applied' = applied /\ requests' = requests
      /\ responses' = responses /\ raced' = raced /\ restarts' = restarts
  BY DEF Begin, r, DistTxInv, Types
<1>3. \A y \in Tx : txs'[y] = IF y = x THEN r ELSE txs[y]
  BY <1>2
<1>4. Types'
  <2>1. Requested(x) \subseteq Tx
    BY DEF DistTxInv, Types, Requested, Request
  <2>2. txs' \in [Tx -> Record \cup {None}]
    BY <1>1, <1>2
  <2>3. decided' \subseteq Tx \X {"Committed", "Aborted"} /\ late' \subseteq Tx
    BY <1>2, <2>1 DEF DistTxInv, Types
  <2> QED BY <1>2, <2>2, <2>3, Zenon DEF DistTxInv, Types
<1>5. RecordsBacked'
  BY <1>1, <1>2, <1>3 DEF RecordsBacked, Backed, AllYesIfPrepared, DistTxInv
<1>6. CopiesBacked'
  BY <1>2 DEF CopiesBacked, Backed, AllYesIfPrepared, ChangeOK, DistTxInv
<1>7. RequestsOK' /\ YesApplied'
  <2>1. x \notin late' => \A q \in requests : q.tx # x
    BY <1>2 DEF Requested
  <2>2. x \notin late' => \A p : YesFrom(x, p) \notin responses
    BY <2>1 DEF RequestsOK, DistTxInv, YesFrom
  <2>3. \A q \in requests : q.tx \in Tx
    BY DEF DistTxInv, Types, Request
  <2>4. RequestsOK'
    BY <1>2, <1>3, <2>1, <2>3 DEF RequestsOK, DistTxInv
  <2> QED BY <1>2, <1>3, <2>2, <2>4 DEF YesApplied, YesFrom, DistTxInv
<1>8. DecidedStays' /\ OneDecision'
  BY <1>2, <1>3 DEF DecidedStays, OneDecision, DistTxInv
<1> QED BY <1>4, <1>5, <1>6, <1>7, <1>8 DEF DistTxInv

(* A thread takes a changed copy of a record: nothing else changes. *)
LEMMA TakeInv ==
    ASSUME DistTxInv, NEW t \in Thread, NEW x \in Tx, NEW copy \in Record, NEW says \in Phase,
           txs[x] # None, Take(t, x, copy, says), Backed(x, copy),
           ChangeOK([tx |-> x, seen |-> txs[x], copy |-> copy, says |-> says])
    PROVE  DistTxInv'
<1> DEFINE c == [tx |-> x, seen |-> txs[x], copy |-> copy, says |-> says]
<1>1. c \in CallRecord /\ c.tx = x /\ c.copy = copy /\ ChangeOK(c)
  BY DEF DistTxInv, Types, CallRecord
<1>2. /\ call' = [call EXCEPT ![t] = c] /\ call \in [Thread -> CallRecord \cup {None}]
      /\ txs' = txs /\ applied' = applied /\ requests' = requests
      /\ responses' = responses /\ decided' = decided
      /\ raced' = raced /\ late' = late /\ restarts' = restarts
  BY DEF Take, DistTxInv, Types
<1> HIDE DEF c
<1>3. Types'
  <2>1. call' \in [Thread -> CallRecord \cup {None}]
    BY <1>1, <1>2
  <2> QED BY <1>2, <2>1, Zenon DEF DistTxInv, Types
<1>4. CopiesBacked'
  <2> SUFFICES ASSUME NEW u \in Thread, call'[u] # None
               PROVE  Backed(call'[u].tx, call'[u].copy) /\ ChangeOK(call'[u])
    BY <1>2 DEF CopiesBacked, ChangeOK, Backed, AllYesIfPrepared
  <2>2. CASE u = t
    BY <1>1, <1>2, <2>2
  <2>3. CASE u # t
    BY <1>2, <2>3 DEF CopiesBacked, DistTxInv
  <2> QED BY <2>2, <2>3
<1>5. RecordsBacked' /\ RequestsOK' /\ YesApplied' /\ DecidedStays' /\ OneDecision'
  BY <1>2 DEF RecordsBacked, Backed, AllYesIfPrepared, RequestsOK, YesApplied, DecidedStays,
              OneDecision, DistTxInv
<1> QED BY <1>3, <1>4, <1>5 DEF DistTxInv

(* add_operation, commit and abort change the operations or the phase. *)
LEMMA GetAddOperationInv ==
    ASSUME DistTxInv, NEW t \in Thread, NEW x \in Tx, NEW o \in Op, GetAddOperation(t, x, o)
    PROVE  DistTxInv'
<1> DEFINE copy == [txs[x] EXCEPT !.ops = @ \cup {o}]
<1>1. txs[x] \in Record /\ txs[x] # None /\ Take(t, x, copy, "Voting") /\ Backed(x, txs[x])
  BY DEF GetAddOperation, DistTxInv, Types, RecordsBacked
<1>2. copy \in Record /\ copy.vote = txs[x].vote /\ copy.phase = txs[x].phase
  BY <1>1, RecordChanged, Zenon
<1> HIDE DEF copy
<1>3. Backed(x, copy) /\ ChangeOK([tx |-> x, seen |-> txs[x], copy |-> copy, says |-> "Voting"])
  BY <1>1, <1>2 DEF Backed, AllYesIfPrepared, ChangeOK
<1> QED BY <1>1, <1>2, <1>3, TakeInv DEF Phase

\* commit reads a record: its copy is committed only if it is prepared.
LEMMA GetCommitInv ==
    ASSUME DistTxInv, NEW t \in Thread, NEW x \in Tx, GetCommit(t, x)
    PROVE  DistTxInv'
<1> DEFINE copy == [txs[x] EXCEPT !.phase = "Committed"]
<1>1. /\ txs[x] \in Record /\ txs[x] # None /\ txs[x].phase = "Prepared"
      /\ Take(t, x, copy, "Committed") /\ Backed(x, txs[x])
  BY DEF GetCommit, DistTxInv, Types, RecordsBacked
<1>2. copy \in Record /\ copy.vote = txs[x].vote /\ copy.phase = "Committed"
  BY <1>1, RecordChanged, Zenon DEF Phase
<1> HIDE DEF copy
<1>3. /\ Backed(x, copy)
      /\ ChangeOK([tx |-> x, seen |-> txs[x], copy |-> copy, says |-> "Committed"])
  BY <1>1, <1>2 DEF Backed, AllYesIfPrepared, ChangeOK
<1> QED BY <1>1, <1>2, <1>3, TakeInv DEF Phase

\* abort reads a record: its copy is aborted unless it is committed.
LEMMA GetAbortInv ==
    ASSUME DistTxInv, NEW t \in Thread, NEW x \in Tx, GetAbort(t, x)
    PROVE  DistTxInv'
<1> DEFINE copy == [txs[x] EXCEPT !.phase = "Aborted"]
<1>1. /\ txs[x] \in Record /\ txs[x] # None /\ txs[x].phase # "Committed"
      /\ Take(t, x, copy, "Aborted") /\ Backed(x, txs[x])
  BY DEF GetAbort, DistTxInv, Types, RecordsBacked
<1>2. copy \in Record /\ copy.vote = txs[x].vote /\ copy.phase = "Aborted"
  BY <1>1, RecordChanged, Zenon DEF Phase
<1> HIDE DEF copy
<1>3. /\ Backed(x, copy)
      /\ ChangeOK([tx |-> x, seen |-> txs[x], copy |-> copy, says |-> "Aborted"])
  BY <1>1, <1>2 DEF Backed, AllYesIfPrepared, ChangeOK
<1> QED BY <1>1, <1>2, <1>3, TakeInv DEF Phase

(* prepare: the new votes are answers of this transaction, and the outcome is *)
(* Prepared only when all of them are Yes.                                    *)
LEMMA GetPrepareInv ==
    ASSUME DistTxInv, NEW t \in Thread, NEW x \in Tx, NEW rs \in SUBSET responses,
           GetPrepare(t, x, rs)
    PROVE  DistTxInv'
<1> DEFINE old == txs[x].vote
           vote == [p \in DOMAIN old |->
                      IF \E r \in rs : r.node = p
                      THEN (CHOOSE r \in rs : r.node = p).vote ELSE old[p]]
           out == Outcome(vote)
           copy == [txs[x] EXCEPT !.vote = vote, !.phase = out]
<1>1. /\ txs[x] \in Record /\ txs[x] # None /\ txs[x].phase = "Voting"
      /\ out # None /\ \A r \in rs : r.tx = x
      /\ Take(t, x, copy, out) /\ Backed(x, txs[x])
  BY DEF GetPrepare, DistTxInv, Types, RecordsBacked
<1>2. DOMAIN vote = DOMAIN old /\ old \in [DOMAIN old -> Vote \cup {None}]
  BY <1>1, RecordChanged
<1>3. ASSUME NEW p \in DOMAIN old
      PROVE  /\ vote[p] \in Vote \cup {None}
             /\ vote[p] = "Yes" => YesFrom(x, p) \in responses
  <2>1. CASE \E r \in rs : r.node = p
    <3> DEFINE q == CHOOSE r \in rs : r.node = p
    <3>1. q \in rs /\ q.node = p
      BY <2>1
    <3>2. vote[p] = q.vote
      BY <2>1
    <3> HIDE DEF q, vote
    <3>3. q \in Response /\ q \in responses /\ q.tx = x
      BY <1>1, <3>1 DEF DistTxInv, Types
    <3>4. q = [tx |-> x, node |-> p, vote |-> q.vote]
      BY <3>1, <3>3 DEF Response
    <3> QED BY <3>2, <3>3, <3>4 DEF YesFrom, Response
  <2>2. CASE ~\E r \in rs : r.node = p
    <3>1. vote[p] = old[p]
      BY <2>2
    <3> QED BY <1>1, <1>2, <3>1 DEF Backed
  <2> QED BY <2>1, <2>2
<1> HIDE DEF vote
<1>4. vote \in [DOMAIN old -> Vote \cup {None}]
  <2>1. vote = [p \in DOMAIN old |-> vote[p]]
    BY DEF vote
  <2> QED BY <1>3, <2>1
<1>5. out \in {"Prepared", "Aborted"}
      /\ (out = "Prepared" => \A p \in DOMAIN vote : vote[p] = "Yes")
  BY <1>1 DEF Outcome
<1> HIDE DEF out
<1>6. copy \in Record /\ copy.vote = vote /\ copy.phase = out
  <2>1. out \in Phase
    BY <1>5 DEF Phase
  <2>2. txs[x] \in Record /\ vote \in [DOMAIN txs[x].vote -> Vote \cup {None}]
    BY <1>1, <1>4
  <2>3. copy = Voted(txs[x], vote, out)
    BY DEF Voted
  <2> HIDE DEF old, copy
  <2> QED BY <2>1, <2>2, <2>3, RecordVoted
<1> HIDE DEF copy
<1>7. /\ Backed(x, copy)
      /\ ChangeOK([tx |-> x, seen |-> txs[x], copy |-> copy, says |-> out])
  BY <1>1, <1>2, <1>3, <1>5, <1>6 DEF Backed, AllYesIfPrepared, ChangeOK
<1> QED BY <1>1, <1>5, <1>6, <1>7, TakeInv DEF Phase

(* update, unless the record is gone: the copy replaces the record.  When     *)
(* nobody has overwritten a changed record, the record is still the one read, *)
(* so the decision a caller is told agrees with the earlier ones.             *)
LEMMA PutBackInv ==
    ASSUME DistTxInv, NEW t \in Thread, PutBack(t)
    PROVE  DistTxInv'
<1> DEFINE c == call[t]
           x == c.tx
<1>1. /\ c \in CallRecord /\ Backed(x, c.copy) /\ ChangeOK(c)
      /\ call' = [call EXCEPT ![t] = None]
      /\ applied' = applied /\ requests' = requests /\ responses' = responses
      /\ restarts' = restarts
  BY DEF PutBack, DistTxInv, Types, CopiesBacked
<1>2. call' \in [Thread -> CallRecord \cup {None}]
  BY <1>1 DEF DistTxInv, Types
<1>3. CopiesBacked'
  BY <1>1 DEF CopiesBacked, Backed, AllYesIfPrepared, ChangeOK, DistTxInv, Types
<1>4. CASE txs[x] = None
  <2>1. txs' = txs /\ decided' = decided /\ raced' = raced /\ late' = late
    BY <1>4 DEF PutBack
  <2>2. Types'
    BY <1>1, <1>2, <2>1, Zenon DEF DistTxInv, Types
  <2>3. RecordsBacked' /\ RequestsOK' /\ YesApplied' /\ DecidedStays' /\ OneDecision'
    BY <1>1, <2>1 DEF RecordsBacked, Backed, AllYesIfPrepared, RequestsOK, YesApplied, DecidedStays,
                      OneDecision, DistTxInv
  <2> QED BY <1>3, <2>2, <2>3 DEF DistTxInv
<1>5. CASE txs[x] # None
  <2>1. /\ txs' = [txs EXCEPT ![x] = c.copy]
        /\ decided' = IF c.says \in {"Committed", "Aborted"}
                      THEN decided \cup {<<x, c.says>>} ELSE decided
        /\ raced' = (raced \/ txs[x] # c.seen)
        /\ late' = IF c.copy.ops = txs[x].ops THEN late ELSE late \cup Requested(x)
    BY <1>5 DEF PutBack
  <2>2. x \in Tx /\ c.copy \in Record /\ c.seen \in Record /\ c.says \in Phase
    BY <1>1 DEF CallRecord
  <2>3. /\ txs \in [Tx -> Record \cup {None}] /\ late \subseteq Tx
        /\ decided \subseteq Tx \X {"Committed", "Aborted"} /\ raced \in BOOLEAN
    BY DEF DistTxInv, Types
  <2>4. \A y \in Tx : txs'[y] = IF y = x THEN c.copy ELSE txs[y]
    BY <2>1, <2>2, <2>3
  <2>5. Types'
    <3>1. Requested(x) \subseteq Tx
      BY DEF DistTxInv, Types, Requested, Request
    <3>2. txs' \in [Tx -> Record \cup {None}] /\ late' \subseteq Tx
      BY <2>1, <2>2, <2>3, <3>1
    <3>3. decided' \subseteq Tx \X {"Committed", "Aborted"}
      BY <2>1, <2>2, <2>3
    <3>4. raced' \in BOOLEAN
      BY <2>1, <2>3, Zenon
    <3> QED BY <1>1, <1>2, <3>2, <3>3, <3>4, Zenon DEF DistTxInv, Types
  <2>6. RecordsBacked'
    BY <1>1, <2>4 DEF RecordsBacked, Backed, AllYesIfPrepared, DistTxInv
  <2>7. RequestsOK' /\ YesApplied'
    <3>0. \A q \in requests : q.tx \in Tx
      BY DEF DistTxInv, Types, Request
    <3>1. CASE c.copy.ops = txs[x].ops
      BY <1>1, <1>5, <2>1, <2>2, <2>4, <3>0, <3>1 DEF RequestsOK, YesApplied, DistTxInv
    <3>2. CASE c.copy.ops # txs[x].ops
      <4>1. x \notin late' => \A q \in requests : q.tx # x
        BY <2>1, <3>2 DEF Requested
      <4>2. x \notin late' => \A p : YesFrom(x, p) \notin responses
        BY <4>1 DEF RequestsOK, DistTxInv, YesFrom
      <4>3. late \subseteq late'
        BY <2>1
      <4>4. RequestsOK'
        BY <1>1, <2>4, <3>0, <4>1, <4>3 DEF RequestsOK, DistTxInv
      <4> QED BY <1>1, <2>4, <4>2, <4>3, <4>4 DEF YesApplied, DistTxInv
    <3> QED BY <3>1, <3>2
  <2>8. ASSUME ~raced'
        PROVE  /\ ~raced /\ txs[x] = c.seen
               /\ \A d \in {"Committed", "Aborted"} :
                    <<x, d>> \in decided => c.seen.phase = d
    BY <1>5, <2>1, <2>2, <2>8 DEF DecidedStays, DistTxInv
  <2>9. DecidedStays'
    <3> SUFFICES ASSUME ~raced', NEW y \in Tx, NEW d \in {"Committed", "Aborted"},
                        <<y, d>> \in decided', txs'[y] # None
                 PROVE  txs'[y].phase = d
      BY DEF DecidedStays
    <3>1. CASE y = x
      <4>1. <<x, d>> \in decided \/ c.says = d
        BY <2>1, <3>1
      <4> QED BY <1>1, <2>2, <2>4, <2>8, <3>1, <4>1 DEF ChangeOK, Phase
    <3>2. CASE y # x
      <4>1. <<y, d>> \in decided
        BY <2>1, <3>2
      <4> QED BY <2>4, <2>8, <3>2, <4>1 DEF DecidedStays, DistTxInv
    <3> QED BY <3>1, <3>2
  <2>10. OneDecision'
    <3> SUFFICES ASSUME ~raced', NEW y \in Tx,
                        <<y, "Committed">> \in decided', <<y, "Aborted">> \in decided'
                 PROVE  FALSE
      BY DEF OneDecision
    <3>1. CASE y = x
      BY <1>1, <2>1, <2>8, <3>1 DEF ChangeOK
    <3>2. CASE y # x
      BY <2>1, <2>8, <3>2 DEF OneDecision, DistTxInv
    <3> QED BY <3>1, <3>2
  <2> QED BY <1>3, <2>5, <2>6, <2>7, <2>9, <2>10 DEF DistTxInv
<1> QED BY <1>4, <1>5

(* A restart loses the log and the calls, not what callers were told. *)
LEMMA RestartInv ==
    ASSUME DistTxInv, Restart
    PROVE  DistTxInv'
<1>1. /\ \A x \in Tx : txs'[x] = None
      /\ \A t \in Thread : call'[t] = None
      /\ applied' = applied /\ requests' = requests /\ responses' = responses
      /\ decided' = decided /\ raced' = raced /\ late' = late
  BY DEF Restart
<1>2. /\ txs' \in [Tx -> Record \cup {None}] /\ call' \in [Thread -> CallRecord \cup {None}]
      /\ restarts' \in Nat
  BY DEF Restart, DistTxInv, Types
<1>3. Types'
  BY <1>1, <1>2, Zenon DEF DistTxInv, Types
<1>4. RequestsOK'
  <2>1. \A q \in requests : q.tx \in Tx
    BY DEF DistTxInv, Types, Request
  <2> QED BY <1>1, <2>1 DEF RequestsOK, DistTxInv
<1>5. RecordsBacked' /\ CopiesBacked' /\ YesApplied' /\ DecidedStays' /\ OneDecision'
  BY <1>1 DEF RecordsBacked, CopiesBacked, YesApplied, DecidedStays, OneDecision, DistTxInv
<1> QED BY <1>3, <1>4, <1>5 DEF DistTxInv

(* A request that is built now has the operations of the record. *)
LEMMA BuildRequestInv ==
    ASSUME DistTxInv, NEW p \in Participant, NEW x \in Tx, BuildRequest(p, x)
    PROVE  DistTxInv'
<1> DEFINE q == [tx |-> x, node |-> p, ops |-> txs[x].ops]
<1>1. /\ txs[x] # None /\ requests' = requests \cup {q}
      /\ txs' = txs /\ call' = call /\ applied' = applied /\ responses' = responses
      /\ decided' = decided /\ raced' = raced /\ late' = late /\ restarts' = restarts
  BY DEF BuildRequest
<1>2. q \in Request /\ q.tx = x /\ q.ops = txs[x].ops
  <2>1. txs[x] \in Record
    BY <1>1 DEF DistTxInv, Types
  <2>2. txs[x].ops \in SUBSET Op
    BY <2>1, RecordChanged, Zenon
  <2> QED BY <2>2 DEF Request
<1> HIDE DEF q
<1>3. Types'
  <2>1. requests' \subseteq Request
    BY <1>1, <1>2 DEF DistTxInv, Types
  <2> QED BY <1>1, <2>1, Zenon DEF DistTxInv, Types
<1>4. RequestsOK'
  BY <1>1, <1>2 DEF RequestsOK, DistTxInv
<1>5. RecordsBacked' /\ CopiesBacked' /\ YesApplied' /\ DecidedStays' /\ OneDecision'
  BY <1>1 DEF RecordsBacked, CopiesBacked, Backed, AllYesIfPrepared, ChangeOK, YesApplied,
              DecidedStays, OneDecision, DistTxInv
<1> QED BY <1>3, <1>4, <1>5 DEF DistTxInv

(* A participant answers Yes only after it has applied all the operations of *)
(* the request, which are those of the record unless it is late.             *)
LEMMA ParticipantPrepareInv ==
    ASSUME DistTxInv, NEW req \in requests, NEW done \in SUBSET req.ops,
           ParticipantPrepare(req, done)
    PROVE  DistTxInv'
<1> DEFINE x == req.tx
           p == req.node
           v == IF done = req.ops THEN "Yes" ELSE "No"
           r == [tx |-> x, node |-> p, vote |-> v]
<1>0. req \in Request /\ x \in Tx /\ p \in Participant /\ req.ops \in SUBSET Op
  BY DEF DistTxInv, Types, Request
<1>1. /\ applied' = [applied EXCEPT ![p][x] = @ \cup done]
      /\ responses' = responses \cup {r} /\ requests' = requests
      /\ txs' = txs /\ call' = call /\ decided' = decided /\ raced' = raced
      /\ late' = late /\ restarts' = restarts
  BY DEF ParticipantPrepare
<1>2. applied \in [Participant -> [Tx -> SUBSET Op]] /\ done \in SUBSET Op
  BY <1>0 DEF DistTxInv, Types
<1>3. /\ applied' \in [Participant -> [Tx -> SUBSET Op]]
      /\ \A q \in Participant, y \in Tx :
           applied'[q][y] = IF q = p /\ y = x THEN applied[q][y] \cup done ELSE applied[q][y]
  BY <1>0, <1>1, <1>2
<1>4. r \in Response /\ r.tx = x /\ (YesFrom(x, p) = r => done = req.ops)
      /\ \A y, q : YesFrom(y, q) = r => y = x /\ q = p
  BY <1>0 DEF Response, Vote, YesFrom
<1> HIDE DEF r, v
<1>5. Types'
  <2>1. responses' \subseteq Response
    BY <1>1, <1>4 DEF DistTxInv, Types
  <2> QED BY <1>1, <1>3, <2>1, Zenon DEF DistTxInv, Types
<1>6. RecordsBacked' /\ CopiesBacked' /\ RequestsOK'
  BY <1>1, <1>4 DEF RecordsBacked, CopiesBacked, Backed, AllYesIfPrepared, ChangeOK,
                    RequestsOK, DistTxInv
<1>7. YesApplied'
  <2> SUFFICES ASSUME NEW y \in Tx \ late, txs[y] # None, NEW q \in Participant,
                      YesFrom(y, q) \in responses'
               PROVE  txs[y].ops \subseteq applied'[q][y]
    BY <1>1 DEF YesApplied, YesFrom
  <2>1. CASE YesFrom(y, q) = r
    <3>1. y = x /\ q = p /\ done = req.ops
      BY <1>4, <2>1
    <3>2. req.ops = txs[y].ops
      BY <3>1 DEF RequestsOK, DistTxInv
    <3> QED BY <1>0, <1>3, <3>1, <3>2
  <2>2. CASE YesFrom(y, q) \in responses
    BY <1>3, <2>2 DEF YesApplied, DistTxInv
  <2> QED BY <1>1, <2>1, <2>2
<1>8. DecidedStays' /\ OneDecision'
  BY <1>1 DEF DecidedStays, OneDecision, DistTxInv
<1> QED BY <1>5, <1>6, <1>7, <1>8 DEF DistTxInv

-----------------------------------------------------------------------------
\* Every step keeps the invariant.
LEMMA StepInv == DistTxInv /\ [Next]_vars => DistTxInv'
<1> SUFFICES ASSUME DistTxInv, [Next]_vars PROVE DistTxInv'
  OBVIOUS
<1>1. CASE \E t \in Thread, x \in Tx : \E ps \in SUBSET Participant : Begin(t, x, ps)
  BY <1>1, BeginInv
<1>2. CASE \E t \in Thread, x \in Tx : \E o \in Op : GetAddOperation(t, x, o)
  BY <1>2, GetAddOperationInv
<1>3. CASE \E t \in Thread, x \in Tx : \E rs \in SUBSET responses : GetPrepare(t, x, rs)
  BY <1>3, GetPrepareInv
<1>4. CASE \E t \in Thread, x \in Tx : GetCommit(t, x)
  BY <1>4, GetCommitInv
<1>5. CASE \E t \in Thread, x \in Tx : GetAbort(t, x)
  BY <1>5, GetAbortInv
<1>6. CASE \E t \in Thread : PutBack(t)
  BY <1>6, PutBackInv
<1>0. CASE \E p \in Participant, x \in Tx : BuildRequest(p, x)
  BY <1>0, BuildRequestInv
<1>7. CASE \E req \in requests : \E done \in SUBSET req.ops : ParticipantPrepare(req, done)
  BY <1>7, ParticipantPrepareInv
<1>8. CASE Restart
  BY <1>8, RestartInv
<1>9. CASE UNCHANGED vars
  BY <1>9 DEF vars, DistTxInv, Types, RecordsBacked, CopiesBacked, Backed, AllYesIfPrepared,
              ChangeOK, RequestsOK, YesApplied, DecidedStays, OneDecision
<1> QED BY <1>0, <1>1, <1>2, <1>3, <1>4, <1>5, <1>6, <1>7, <1>8, <1>9 DEF Next

(* The inductive invariant holds in every state. *)
THEOREM Invariance == Spec => []DistTxInv
BY InitInv, StepInv, PTL DEF Spec

(* A transaction is prepared or committed only with a Yes of every participant *)
(* in its record, whatever the threads overwrite (prepare, commit, update).    *)
THEOREM PreparedCorrect == Spec => []PreparedMeansAllYes
<1>1. DistTxInv => PreparedMeansAllYes
  <2> SUFFICES ASSUME DistTxInv PROVE PreparedMeansAllYes
    OBVIOUS
  <2>1. TypeOK
    BY DEF DistTxInv, Types, TypeOK, CallRecord
  <2> QED BY <2>1 DEF PreparedMeansAllYes, DistTxInv, RecordsBacked, CopiesBacked, Backed
<1> QED BY <1>1, Invariance, PTL

(* As long as no thread overwrites a record that changed since it was read, no *)
(* transaction is reported both committed and aborted, across restarts.        *)
THEOREM OneDecisionCorrect == Spec => []OneDecision
<1>1. DistTxInv => OneDecision
  BY DEF DistTxInv
<1> QED BY <1>1, Invariance, PTL

(* Every participant of a committed transaction has applied all of it, unless  *)
(* the transaction was begun again or extended after a request.                *)
THEOREM CommittedApplied == Spec => []CommittedIsApplied
<1>1. DistTxInv => CommittedIsApplied
  <2> SUFFICES ASSUME DistTxInv, NEW x \in Tx \ late, Recover(x) = "Committed",
                      NEW p \in DOMAIN txs[x].vote
               PROVE  txs[x].ops \subseteq applied[p][x]
    BY DEF CommittedIsApplied
  <2>1. txs[x] # None /\ txs[x].phase = "Committed"
    BY DistTxAssumptions DEF Recover
  <2>2. txs[x] \in Record /\ Backed(x, txs[x])
    BY <2>1 DEF DistTxInv, Types, RecordsBacked
  <2>3. p \in Participant
    BY <2>2, RecordChanged
  <2>4. YesFrom(x, p) \in responses
    BY <2>1, <2>2 DEF Backed, AllYesIfPrepared
  <2> QED BY <2>1, <2>3, <2>4 DEF DistTxInv, YesApplied
<1> QED BY <1>1, Invariance, PTL
=============================================================================
