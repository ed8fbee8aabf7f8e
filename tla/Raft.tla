-------------------------------- MODULE Raft --------------------------------
(***************************************************************************)
(* RaftNode (src/raft.rs): leader election and log replication between     *)
(* nodes that know each other as peers.                                    *)
(*                                                                         *)
(* Every method holds both mutexes of its node, so it is one step (the     *)
(* locking itself is modelled in RaftLocks).  The transport is the         *)
(* caller's: `msgs' holds every request and response ever produced, so a   *)
(* message may be lost (never delivered), delayed, reordered or delivered  *)
(* again.  heartbeat_for builds requests without entries; the entries of a *)
(* replication request are put in by the caller, a suffix of the log from  *)
(* next_index on, as the repository's tests do.  ClusterNode::tick reads   *)
(* the role and calls heartbeat_for afterwards, for one peer after the     *)
(* other, each time with the locks taken anew: the node may lead no longer *)
(* when the request is built.                                              *)
(***************************************************************************)
EXTENDS Naturals, Sequences, FiniteSets

CONSTANTS
    Node,         \* the cluster: every node has all others as peers
    Nil,          \* no node
    Command,      \* commands a client proposes
    MaxTerm,      \* bound: terms
    MaxElections, \* bound: distinct RequestVote requests
    MaxLog,       \* bound: length of a log
    MaxAppends,   \* bound: distinct AppendEntries requests
    MaxFaults     \* bound: nodes reloaded from disk, and calls of remove_peer

ASSUME RaftAssumptions ==
    /\ Nil \notin Node
    /\ IsFiniteSet(Node) /\ Node # {}
    /\ {MaxTerm, MaxElections, MaxLog, MaxAppends, MaxFaults} \subseteq Nat

VARIABLES
    \* PersistentState
    term, votedFor, log,
    \* VolatileState
    role, leaderId, votes, nextIndex, matchIndex, commitIndex, lastApplied,
    \* The network, and the bounded faults so far.
    msgs, restarts, removals,
    led,     \* the nodes that led since they were started: a tick of theirs may have
             \* read the role Leader and not be done yet
    deposed, \* history: a request was built by a node that led no longer
    skewed  \* history: a success was reported, counted or taken as committed for
            \* entries that are not known to be there

persistent == <<term, votedFor, log>>
indexes == <<nextIndex, matchIndex, commitIndex, lastApplied>>
bounded == <<restarts, removals, skewed>>
ticks == <<led, deposed>>
vars == <<term, votedFor, log, role, leaderId, votes, nextIndex, matchIndex,
          commitIndex, lastApplied, msgs, restarts, removals, led, deposed, skewed>>

-----------------------------------------------------------------------------
Peers(n) == Node \ {n}
\* Mutant: half of the nodes are enough.
Quorum_Half == Cardinality(Node) \div 2
Quorum == Cardinality(Node) \div 2 + 1

LastIndex(n) == Len(log[n])
TermAt(l, k) == IF k \in 1 .. Len(l) THEN l[k].term ELSE 0
LastTerm(n) == TermAt(log[n], Len(log[n]))
PrevTerm(n, k) == TermAt(log[n], k)
Minimum(i, j) == IF i < j THEN i ELSE j

Send(m) == msgs' = msgs \cup {m}

RequestVote(n, t) ==
    [type |-> "RequestVote", term |-> t, src |-> n,
     lastIndex |-> LastIndex(n), lastTerm |-> LastTerm(n)]
VoteResponse(n, c, t, granted) ==
    [type |-> "VoteResponse", term |-> t, src |-> n, dst |-> c, granted |-> granted]
AppendResponse(n, l, t, success, match) ==
    [type |-> "AppendResponse", term |-> t, src |-> n, dst |-> l,
     success |-> success, match |-> match]

Init ==
    /\ term = [n \in Node |-> 0]
    /\ votedFor = [n \in Node |-> Nil]
    /\ log = [n \in Node |-> <<>>]
    /\ role = [n \in Node |-> "Follower"]
    /\ leaderId = [n \in Node |-> Nil]
    /\ votes = [n \in Node |-> {}]
    /\ nextIndex = [n \in Node |-> [p \in Peers(n) |-> 1]]
    /\ matchIndex = [n \in Node |-> [p \in Peers(n) |-> 0]]
    /\ commitIndex = [n \in Node |-> 0]
    /\ lastApplied = [n \in Node |-> 0]
    /\ msgs = {} /\ restarts = 0 /\ removals = 0 /\ skewed = FALSE
    /\ led = {} /\ deposed = FALSE

-----------------------------------------------------------------------------
(* Elections.                                                              *)

\* start_election: callable in every role; leader_id stays what it was.
StartElection(n) ==
    /\ term[n] < MaxTerm
    /\ Cardinality({m \in msgs : m.type = "RequestVote"}) < MaxElections
    /\ term' = [term EXCEPT ![n] = @ + 1]
    /\ votedFor' = [votedFor EXCEPT ![n] = n]
    /\ role' = [role EXCEPT ![n] = "Candidate"]
    /\ votes' = [votes EXCEPT ![n] = {n}]
    /\ Send(RequestVote(n, term[n] + 1))
    /\ UNCHANGED <<log, leaderId, indexes, bounded, ticks>>

\* A request or response with a later term makes the node a follower of it.
Seen(n, t) == IF t > term[n] THEN t ELSE term[n]
VoteAfter(n, t) == IF t > term[n] THEN Nil ELSE votedFor[n]

LogOk(n, m) ==
    \/ m.lastTerm > LastTerm(n)
    \/ m.lastTerm = LastTerm(n) /\ m.lastIndex >= LastIndex(n)

\* Mutant: the vote given before is not looked at.
Grants_Again(n, m) == m.term >= term[n] /\ LogOk(n, m)

Grants(n, m) ==
    /\ m.term >= term[n] /\ LogOk(n, m)
    /\ VoteAfter(n, m.term) \in {Nil, m.src}

HandleRequestVote(n, m) ==
    /\ m.type = "RequestVote" /\ m.src # n
    /\ term' = [term EXCEPT ![n] = Seen(n, m.term)]
    /\ votedFor' = [votedFor EXCEPT ![n] = IF Grants(n, m) THEN m.src ELSE VoteAfter(n, m.term)]
    /\ role' = [role EXCEPT ![n] = IF m.term > term[n] THEN "Follower" ELSE @]
    /\ leaderId' = [leaderId EXCEPT ![n] = IF m.term > term[n] THEN Nil ELSE @]
    /\ Send(VoteResponse(n, m.src, Seen(n, m.term), Grants(n, m)))
    /\ UNCHANGED <<log, votes, indexes, bounded, ticks>>

\* The common first branch of record_vote, record_append_success and
\* record_append_failure.
StepDown(n, m) ==
    /\ m.dst = n /\ m.term > term[n]
    /\ term' = [term EXCEPT ![n] = m.term]
    /\ votedFor' = [votedFor EXCEPT ![n] = Nil]
    /\ role' = [role EXCEPT ![n] = "Follower"]
    /\ leaderId' = [leaderId EXCEPT ![n] = Nil]
    /\ UNCHANGED <<log, votes, indexes, msgs, bounded, ticks>>

\* record_vote for a response of the current term.
RecordVote(n, m) ==
    /\ m.type = "VoteResponse" /\ m.dst = n
    /\ m.term = term[n] /\ role[n] = "Candidate"
    /\ LET vs == IF m.granted THEN votes[n] \cup {m.src} ELSE votes[n]
           won == Cardinality(vs) >= Quorum IN
         /\ votes' = [votes EXCEPT ![n] = vs]
         /\ role' = [role EXCEPT ![n] = IF won THEN "Leader" ELSE @]
         /\ leaderId' = [leaderId EXCEPT ![n] = IF won THEN n ELSE @]
         /\ nextIndex' = [nextIndex EXCEPT ![n] =
               IF won THEN [p \in Peers(n) |-> LastIndex(n) + 1] ELSE @]
         /\ matchIndex' = [matchIndex EXCEPT ![n] =
               IF won THEN [p \in Peers(n) |-> 0] ELSE @]
         /\ led' = IF won THEN led \cup {n} ELSE led
    /\ UNCHANGED <<persistent, commitIndex, lastApplied, msgs, bounded, deposed>>

-----------------------------------------------------------------------------
(* Replication.                                                            *)

\* propose.
Propose(n, c) ==
    /\ role[n] = "Leader" /\ LastIndex(n) < MaxLog
    /\ log' = [log EXCEPT ![n] =
         Append(@, [index |-> Len(@) + 1, term |-> term[n], cmd |-> c])]
    /\ UNCHANGED <<term, votedFor, role, leaderId, votes, indexes, msgs, bounded, ticks>>

NextFor(n, p) == IF p \in DOMAIN nextIndex[n] THEN nextIndex[n][p] ELSE 1

\* heartbeat_for with the first k entries from next_index on (k = 0: a heartbeat),
\* called by a tick that read the role Leader, however long ago: heartbeat_for
\* looks at no role and takes the term of the moment.
SendAppend(n, p, k) ==
    /\ n \in led /\ p # n
    /\ Cardinality({m \in msgs : m.type = "AppendEntries"}) < MaxAppends
    /\ LET next == NextFor(n, p) IN
         /\ next - 1 + k <= LastIndex(n)
         /\ Send([type |-> "AppendEntries", term |-> term[n], src |-> n, dst |-> p,
                  prevIndex |-> next - 1, prevTerm |-> PrevTerm(n, next - 1),
                  entries |-> SubSeq(log[n], next, next - 1 + k),
                  commit |-> commitIndex[n]])
    /\ deposed' = (deposed \/ role[n] # "Leader")
    /\ UNCHANGED <<persistent, role, leaderId, votes, indexes, bounded, led>>

\* The loop over req.entries, one entry.  An entry beyond the end is pushed
\* wherever the end is; a conflicting one truncates the log first.
PutEntry(l, e) ==
    IF e.index > Len(l) THEN Append(l, e)
    ELSE IF TermAt(l, e.index) # e.term THEN Append(SubSeq(l, 1, e.index - 1), e)
    ELSE l
PutAll(l, es) ==
    LET f[k \in 0 .. Len(es)] == IF k = 0 THEN l ELSE PutEntry(f[k - 1], es[k])
    IN  f[Len(es)]

\* A follower that does not have the previous entry takes the request.
LogConsistent(n, m) ==
    \/ m.prevIndex = 0 /\ m.prevTerm = 0
    \/ m.prevIndex \in 1 .. LastIndex(n) /\ PrevTerm(n, m.prevIndex) = m.prevTerm
    \/ m.prevIndex > LastIndex(n)

RejectStaleAppend(n, m) ==
    /\ m.type = "AppendEntries" /\ m.dst = n /\ m.term < term[n]
    /\ Send(AppendResponse(n, m.src, term[n], FALSE, 0))
    /\ UNCHANGED <<persistent, role, leaderId, votes, indexes, bounded, ticks>>

HandleAppendEntries(n, m) ==
    /\ m.type = "AppendEntries" /\ m.dst = n /\ m.term >= term[n]
    /\ term' = [term EXCEPT ![n] = m.term]
    /\ votedFor' = [votedFor EXCEPT ![n] = VoteAfter(n, m.term)]
    /\ role' = [role EXCEPT ![n] = "Follower"]
    /\ leaderId' = [leaderId EXCEPT ![n] = m.src]
    /\ IF LogConsistent(n, m)
       THEN LET l == PutAll(log[n], m.entries) IN
              /\ log' = [log EXCEPT ![n] = l]
              /\ commitIndex' = [commitIndex EXCEPT ![n] =
                    IF m.commit > @ THEN Minimum(m.commit, Len(l)) ELSE @]
              /\ Send(AppendResponse(n, m.src, m.term, TRUE, m.prevIndex + Len(m.entries)))
       ELSE /\ Send(AppendResponse(n, m.src, m.term, FALSE, 0))
            /\ UNCHANGED <<log, commitIndex>>
    /\ LET covered == m.prevIndex + Len(m.entries) IN
         skewed' = (skewed \/ m.prevIndex > LastIndex(n)
                    \/ (commitIndex'[n] # commitIndex[n] /\ commitIndex'[n] > covered))
    /\ UNCHANGED <<votes, nextIndex, matchIndex, lastApplied, restarts, removals, ticks>>

With(f, p, v) == [q \in DOMAIN f \cup {p} |-> IF q = p THEN v ELSE f[q]]

\* Mutant: the position is one too high in the list.
QuorumMatch_OneHigher(n, match) ==
    LET at == DOMAIN match \cup {n}
        val(p) == IF p = n THEN LastIndex(n) ELSE match[p]
        reach(v) == Cardinality({p \in at : val(p) >= v})
        ok == {v \in {val(p) : p \in at} : reach(v) >= Cardinality(at) \div 2}
    IN  CHOOSE v \in ok : \A u \in ok : u <= v

\* The match index at position len / 2 when those of the tracked peers and
\* the leader's own last index are sorted from high to low: the largest value
\* that more than half of them reach.
QuorumMatch(n, match) ==
    LET at == DOMAIN match \cup {n}
        val(p) == IF p = n THEN LastIndex(n) ELSE match[p]
        reach(v) == Cardinality({p \in at : val(p) >= v})
        ok == {v \in {val(p) : p \in at} : reach(v) > Cardinality(at) \div 2}
    IN  CHOOSE v \in ok : \A u \in ok : u <= v

\* record_append_success: the response's own term is not compared further.
RecordAppendSuccess(n, m) ==
    /\ m.type = "AppendResponse" /\ m.dst = n /\ m.success
    /\ m.term <= term[n] /\ role[n] = "Leader"
    /\ matchIndex' = [matchIndex EXCEPT ![n] = With(@, m.src, m.match)]
    /\ nextIndex' = [nextIndex EXCEPT ![n] = With(@, m.src, m.match + 1)]
    /\ LET q == QuorumMatch(n, With(matchIndex[n], m.src, m.match)) IN
         commitIndex' = [commitIndex EXCEPT ![n] =
            IF m.match > @ /\ q > @ /\ PrevTerm(n, q) = term[n] THEN q ELSE @]
    /\ skewed' = (skewed \/ m.term < term[n])
    /\ UNCHANGED <<persistent, role, leaderId, votes, lastApplied, msgs, restarts, removals, ticks>>

RecordAppendFailure(n, m) ==
    /\ m.type = "AppendResponse" /\ m.dst = n /\ ~m.success
    /\ m.term <= term[n] /\ role[n] = "Leader"
    /\ NextFor(n, m.src) > 1
    /\ nextIndex' = [nextIndex EXCEPT ![n] = With(@, m.src, NextFor(n, m.src) - 1)]
    /\ UNCHANGED <<persistent, role, leaderId, votes, matchIndex, commitIndex,
                   lastApplied, msgs, bounded, ticks>>

\* apply_committed.
ApplyCommitted(n) ==
    /\ lastApplied[n] < commitIndex[n]
    /\ lastApplied' = [lastApplied EXCEPT ![n] = commitIndex[n]]
    /\ UNCHANGED <<persistent, role, leaderId, votes, nextIndex, matchIndex,
                   commitIndex, msgs, bounded, ticks>>

-----------------------------------------------------------------------------
(* Membership and restarts.                                                *)

Without(f, p) == [q \in DOMAIN f \ {p} |-> f[q]]

\* remove_peer forgets the indexes; the peer keeps its vote.
RemovePeer(n, p) ==
    /\ restarts + removals < MaxFaults /\ p \in DOMAIN nextIndex[n]
    /\ removals' = removals + 1
    /\ nextIndex' = [nextIndex EXCEPT ![n] = Without(@, p)]
    /\ matchIndex' = [matchIndex EXCEPT ![n] = Without(@, p)]
    /\ UNCHANGED <<persistent, role, leaderId, votes, commitIndex, lastApplied,
                   msgs, restarts, skewed, ticks>>

\* ClusterNode::load makes a new RaftNode: nothing of the old one is read back.
Restart(n) ==
    /\ restarts + removals < MaxFaults
    /\ restarts' = restarts + 1
    /\ term' = [term EXCEPT ![n] = 0]
    /\ votedFor' = [votedFor EXCEPT ![n] = Nil]
    /\ log' = [log EXCEPT ![n] = <<>>]
    /\ role' = [role EXCEPT ![n] = "Follower"]
    /\ leaderId' = [leaderId EXCEPT ![n] = Nil]
    /\ votes' = [votes EXCEPT ![n] = {}]
    /\ nextIndex' = [nextIndex EXCEPT ![n] = [p \in Peers(n) |-> 1]]
    /\ matchIndex' = [matchIndex EXCEPT ![n] = [p \in Peers(n) |-> 0]]
    /\ commitIndex' = [commitIndex EXCEPT ![n] = 0]
    /\ lastApplied' = [lastApplied EXCEPT ![n] = 0]
    /\ led' = led \ {n}
    /\ UNCHANGED <<msgs, removals, deposed, skewed>>

-----------------------------------------------------------------------------
Receive(n, m) ==
    \/ HandleRequestVote(n, m)
    \/ m.type \in {"VoteResponse", "AppendResponse"} /\ StepDown(n, m)
    \/ RecordVote(n, m)
    \/ RejectStaleAppend(n, m)
    \/ HandleAppendEntries(n, m)
    \/ RecordAppendSuccess(n, m)
    \/ RecordAppendFailure(n, m)

Next ==
    \/ \E n \in Node : StartElection(n)
    \/ \E n \in Node, m \in msgs : Receive(n, m)
    \/ \E n \in Node, c \in Command : Propose(n, c)
    \/ \E n, p \in Node, k \in 0 .. MaxLog : SendAppend(n, p, k)
    \/ \E n \in Node : ApplyCommitted(n)
    \/ \E n, p \in Node : RemovePeer(n, p)
    \/ \E n \in Node : Restart(n)

Spec == Init /\ [][Next]_vars

-----------------------------------------------------------------------------
(* Properties.                                                             *)

\* No two nodes lead in the same term (record_vote and handle_request_vote).
ElectionSafety ==
    \A n, p \in Node :
      role[n] = "Leader" /\ role[p] = "Leader" /\ term[n] = term[p] => n = p

\* As long as no node was reloaded, however messages are lost, repeated or
\* reordered.
ElectionSafetyUnlessReloaded == restarts = 0 => ElectionSafety

\* Entries of the same index and term hold the same command, wherever they
\* are in whichever log: a leader never gives one slot two commands.
OneCommandPerSlot ==
    restarts = 0 =>
      \A n, p \in Node : \A i \in 1 .. Len(log[n]), j \in 1 .. Len(log[p]) :
        log[n][i].index = log[p][j].index /\ log[n][i].term = log[p][j].term
          => log[n][i] = log[p][j]

\* As long as its term lasts a leader stays leader and its log only grows: no
\* request of that term can reach it that would make handle_append_entries turn
\* it into a follower or truncate its log, unless a node built one that led no
\* longer.
LeaderAppendOnly ==
    [][\A n \in Node :
         restarts' = 0 /\ ~deposed' /\ role[n] = "Leader" /\ term'[n] = term[n] =>
           /\ role'[n] = "Leader"
           /\ Len(log'[n]) >= Len(log[n]) /\ SubSeq(log'[n], 1, Len(log[n])) = log[n]]_vars

\* What a node has committed is in the logs of a majority and stays there, across
\* elections, truncations and repeated or reordered messages.  Left out are the
\* ways in which it is not so (README): a follower that accepts entries beyond
\* the end of its log, a success of an earlier term that is counted, a
\* heartbeat's commit index applied to entries it does not cover, a request built
\* by a node that led no longer, and peers removed from the quorum or reloaded.
CommittedIsReplicated ==
    restarts = 0 /\ removals = 0 /\ ~skewed /\ ~deposed =>
      \A n \in Node : \A k \in 1 .. commitIndex[n] :
        /\ k <= Len(log[n])
        /\ Cardinality({p \in Node : k <= Len(log[p]) /\ log[p][k] = log[n][k]}) >= Quorum
=============================================================================
