------------------------------- MODULE DistTx -------------------------------
(***************************************************************************)
(* Two-phase commit (src/dist_tx.rs): a TwoPhaseCoordinator used by several *)
(* threads, its in-memory DistTxLog, and LocalParticipants.                *)
(*                                                                         *)
(* prepare, commit, abort and add_operation each take a copy of the record *)
(* out of the log, change the copy, and put it back; the log's mutex is    *)
(* free in between, so a call is two steps: Get... and PutBack.            *)
(***************************************************************************)
EXTENDS Naturals, FiniteSets

CONSTANTS
    Tx,            \* transaction ids
    Thread,        \* threads that share the coordinator
    Participant,   \* participant nodes
    Op,            \* operations
    None,          \* no record, no vote, no call
    MaxRestarts    \* bound: restarts of the coordinator

ASSUME DistTxAssumptions ==
    /\ None \notin Tx \cup {"Yes", "No", "Voting", "Prepared", "Committed", "Aborted"}
    /\ IsFiniteSet(Op) /\ IsFiniteSet(Participant)
    /\ MaxRestarts \in Nat

VARIABLES
    txs,       \* DistTxLog::transactions
    call,      \* what each thread is in the middle of
    applied,   \* applied[p][x]: the operations p has applied for x
    requests,  \* every PrepareRequest so far
    responses, \* every PrepareResponse so far
    \* History and bounds.
    decided,   \* decisions a caller was told since begin: <<tx, phase>>
    raced,     \* a record was overwritten that had changed since it was read
    late,      \* transactions begun or changed after a request was built for them
    restarts

vars == <<txs, call, applied, requests, responses, decided, raced, late, restarts>>

-----------------------------------------------------------------------------
Phase == {"Voting", "Prepared", "Committed", "Aborted"}
Vote == {"Yes", "No"}
Record ==
    UNION {[vote : [ps -> Vote \cup {None}], ops : SUBSET Op, phase : Phase] :
             ps \in SUBSET Participant}
Request == [tx : Tx, node : Participant, ops : SUBSET Op]
Response == [tx : Tx, node : Participant, vote : Vote]

NewTx(ps) == [vote |-> [p \in ps |-> None], ops |-> {}, phase |-> "Voting"]

\* Mutant: one Yes is enough.
Outcome_AnyYes(vote) ==
    IF \E p \in DOMAIN vote : vote[p] = None THEN None
    ELSE IF \E p \in DOMAIN vote : vote[p] = "Yes" THEN "Prepared" ELSE "Aborted"

\* DistributedTransaction::outcome; None while votes are missing.
Outcome(vote) ==
    IF \E p \in DOMAIN vote : vote[p] = None THEN None
    ELSE IF \A p \in DOMAIN vote : vote[p] = "Yes" THEN "Prepared" ELSE "Aborted"

Init ==
    /\ txs = [x \in Tx |-> None]
    /\ call = [t \in Thread |-> None]
    /\ applied = [p \in Participant |-> [x \in Tx |-> {}]]
    /\ requests = {} /\ responses = {} /\ decided = {} /\ restarts = 0
    /\ raced = FALSE /\ late = {}

-----------------------------------------------------------------------------
(* The coordinator.                                                        *)

Requested(x) == {r.tx : r \in {q \in requests : q.tx = x}}

\* begin registers a new record, also over one that is already there.
Begin(t, x, ps) ==
    /\ call[t] = None
    /\ txs' = [txs EXCEPT ![x] = NewTx(ps)]
    /\ decided' = {d \in decided : d[1] # x}
    /\ late' = late \cup Requested(x)
    /\ UNCHANGED <<call, applied, requests, responses, raced, restarts>>

\* A thread has a changed copy in hand; `says' is what it will report.
Take(t, x, copy, says) ==
    /\ call' = [call EXCEPT ![t] = [tx |-> x, seen |-> txs[x], copy |-> copy, says |-> says]]
    /\ UNCHANGED <<txs, applied, requests, responses, decided, raced, late, restarts>>

GetAddOperation(t, x, o) ==
    /\ call[t] = None /\ txs[x] # None
    /\ Take(t, x, [txs[x] EXCEPT !.ops = @ \cup {o}], "Voting")

\* The caller is trusted to pass responses of this transaction (prepare does
\* not compare their tx_id), here at most one of a node.  When votes are
\* missing the call fails and the votes it brought are dropped.
GetPrepare(t, x, rs) ==
    /\ call[t] = None /\ txs[x] # None /\ txs[x].phase = "Voting"
    /\ \A r \in rs : r.tx = x /\ r.node \in DOMAIN txs[x].vote
    /\ \A r, s \in rs : r.node = s.node => r = s
    /\ LET vote == [p \in DOMAIN txs[x].vote |->
                      IF \E r \in rs : r.node = p
                      THEN (CHOOSE r \in rs : r.node = p).vote ELSE txs[x].vote[p]]
       IN  /\ Outcome(vote) # None
           /\ Take(t, x, [txs[x] EXCEPT !.vote = vote, !.phase = Outcome(vote)], Outcome(vote))

GetCommit(t, x) ==
    /\ call[t] = None /\ txs[x] # None /\ txs[x].phase = "Prepared"
    /\ Take(t, x, [txs[x] EXCEPT !.phase = "Committed"], "Committed")

\* Mutant: a committed transaction may be aborted.
GetAbort_Committed(t, x) ==
    /\ call[t] = None /\ txs[x] # None
    /\ Take(t, x, [txs[x] EXCEPT !.phase = "Aborted"], "Aborted")

GetAbort(t, x) ==
    /\ call[t] = None /\ txs[x] # None /\ txs[x].phase # "Committed"
    /\ Take(t, x, [txs[x] EXCEPT !.phase = "Aborted"], "Aborted")

\* DistTxLog::update, an error if the record is gone; then the call returns.
PutBack(t) ==
    /\ call[t] # None
    /\ LET c == call[t] IN
         IF txs[c.tx] = None THEN UNCHANGED <<txs, decided, raced, late>>
         ELSE /\ txs' = [txs EXCEPT ![c.tx] = c.copy]
              /\ decided' = IF c.says \in {"Committed", "Aborted"}
                            THEN decided \cup {<<c.tx, c.says>>} ELSE decided
              /\ raced' = (raced \/ txs[c.tx] # c.seen)
              /\ late' = IF c.copy.ops = txs[c.tx].ops THEN late
                         ELSE late \cup Requested(c.tx)
    /\ call' = [call EXCEPT ![t] = None]
    /\ UNCHANGED <<applied, requests, responses, restarts>>

\* The log is in memory only.
Restart ==
    /\ restarts < MaxRestarts
    /\ restarts' = restarts + 1
    /\ txs' = [x \in Tx |-> None]
    /\ call' = [t \in Thread |-> None]
    /\ UNCHANGED <<applied, requests, responses, decided, raced, late>>

\* recover.
Recover(x) == IF txs[x] = None THEN None ELSE txs[x].phase

\* The caller builds the request of one participant from a copy of the record.
BuildRequest(p, x) ==
    /\ txs[x] # None /\ p \in DOMAIN txs[x].vote
    /\ requests' = requests \cup {[tx |-> x, node |-> p, ops |-> txs[x].ops]}
    /\ UNCHANGED <<txs, call, applied, responses, decided, raced, late, restarts>>

-----------------------------------------------------------------------------
(* LocalParticipant::prepare applies the operations of the request one by  *)
(* one and votes No at the first that fails; those before it stay applied. *)
(* A participant has no operation for the second phase.  `done' are the    *)
(* operations that succeed this time; a request may be lost, or arrive     *)
(* again, at any later time.                                               *)

\* Mutant: a failed operation does not make the vote a No.
ParticipantPrepare_AlwaysYes(req, done) ==
    /\ applied' = [applied EXCEPT ![req.node][req.tx] = @ \cup done]
    /\ responses' = responses \cup {[tx |-> req.tx, node |-> req.node, vote |-> "Yes"]}
    /\ UNCHANGED <<txs, call, requests, decided, raced, late, restarts>>

ParticipantPrepare(req, done) ==
    /\ applied' = [applied EXCEPT ![req.node][req.tx] = @ \cup done]
    /\ responses' = responses \cup
         {[tx |-> req.tx, node |-> req.node, vote |-> IF done = req.ops THEN "Yes" ELSE "No"]}
    /\ UNCHANGED <<txs, call, requests, decided, raced, late, restarts>>

Next ==
    \/ \E t \in Thread, x \in Tx :
         \/ \E ps \in SUBSET Participant : Begin(t, x, ps)
         \/ \E o \in Op : GetAddOperation(t, x, o)
         \/ \E rs \in SUBSET responses : GetPrepare(t, x, rs)
         \/ GetCommit(t, x)
         \/ GetAbort(t, x)
    \/ \E t \in Thread : PutBack(t)
    \/ \E p \in Participant, x \in Tx : BuildRequest(p, x)
    \/ \E req \in requests : \E done \in SUBSET req.ops : ParticipantPrepare(req, done)
    \/ Restart

Spec == Init /\ [][Next]_vars

-----------------------------------------------------------------------------
(* Properties.                                                             *)

\* The type of every variable.
TypeOK ==
    /\ \A x \in Tx : txs[x] = None \/ txs[x] \in Record
    /\ \A t \in Thread : call[t] = None \/
         call[t] \in [tx : Tx, seen : Record, copy : Record, says : Phase]
    /\ applied \in [Participant -> [Tx -> SUBSET Op]]
    /\ requests \subseteq Request /\ responses \subseteq Response
    /\ decided \subseteq Tx \X {"Committed", "Aborted"}
    /\ raced \in BOOLEAN /\ late \subseteq Tx /\ restarts \in Nat

AllYesIfPrepared(r) ==
    r.phase \in {"Prepared", "Committed"} => \A p \in DOMAIN r.vote : r.vote[p] = "Yes"

\* A transaction is prepared or committed only with a Yes of every participant
\* in its record, also when threads overwrite each other's records: the copies
\* they are about to write back have it too (prepare, commit, DistTxLog::update).
PreparedMeansAllYes ==
    /\ TypeOK
    /\ \A x \in Tx : txs[x] # None => AllYesIfPrepared(txs[x])
    /\ \A t \in Thread : call[t] # None => AllYesIfPrepared(call[t].copy)

\* No caller is told that a transaction committed while another is told that
\* it aborted, across restarts and repeated calls, as long as no thread writes
\* back a copy of a record that another has changed meanwhile.
OneDecision ==
    ~raced => \A x \in Tx : ~({<<x, "Committed">>, <<x, "Aborted">>} \subseteq decided)

\* Every participant of a committed transaction has applied all of it, however
\* late and often requests and votes arrive and threads overwrite each other's
\* records, unless an operation was added, or the id begun again, after a
\* request had been built (LocalParticipant::prepare, prepare, commit).
CommittedIsApplied ==
    \A x \in Tx \ late : Recover(x) = "Committed" =>
      \A p \in DOMAIN txs[x].vote : txs[x].ops \subseteq applied[p][x]
=============================================================================
