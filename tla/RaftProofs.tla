----------------------------- MODULE RaftProofs -----------------------------
(***************************************************************************)
(* Proofs about Raft, for any finite set of nodes and any bounds: one      *)
(* leader per term, one command per slot, leaders that only append, and    *)
(* commits that are replicated, stay and agree, over a network that loses, *)
(* repeats and reorders messages.                                          *)
(***************************************************************************)
EXTENDS Raft, Induction

Entry == [index : Nat \ {0}, term : Nat, cmd : Command]

\* What of the variables' types the argument needs.
MessageOK(m) ==
    /\ m.term \in Nat /\ m.src \in Node
    /\ m.type = "VoteResponse" => m.dst \in Node
    /\ m.type = "AppendEntries" =>
         m.dst \in Node /\ m.prevIndex \in Nat /\ m.entries \in Seq(Entry)
    /\ m.type = "AppendResponse" => m.match \in Nat
NextOK(f) == \A p \in DOMAIN f : f[p] \in Nat \ {0}
Types ==
    /\ term \in [Node -> Nat]
    /\ votedFor \in [Node -> Node \cup {Nil}]
    /\ log \in [Node -> Seq(Entry)]
    /\ role \in [Node -> {"Follower", "Candidate", "Leader"}]
    /\ votes \in [Node -> SUBSET Node]
    /\ DOMAIN nextIndex = Node /\ \A n \in Node : NextOK(nextIndex[n])
    /\ \A m \in msgs : MessageOK(m)
    /\ restarts \in Nat

\* v gave its vote in term t to c: c asked for it, or v answered yes.
Asked(c, t) == \E m \in msgs : m.type = "RequestVote" /\ m.src = c /\ m.term = t
Granted(v, c, t) ==
    \E m \in msgs : /\ m.type = "VoteResponse" /\ m.granted = TRUE
                    /\ m.src = v /\ m.dst = c /\ m.term = t
Voted(v, c, t) == (v = c /\ Asked(c, t)) \/ Granted(v, c, t)
Elected(c, t) ==
    \E Q \in SUBSET Node : Cardinality(Q) >= Quorum /\ \A v \in Q : Voted(v, c, t)

\* A vote is never later than the voter's term, and it is the vote the voter
\* remembers while the term lasts.
VotesRemembered ==
    \A v, c \in Node, t \in Nat :
      Voted(v, c, t) => term[v] >= t /\ (term[v] = t => votedFor[v] = c)
OneVote ==
    \A v, c, d \in Node, t \in Nat : Voted(v, c, t) /\ Voted(v, d, t) => c = d
\* The votes a candidate or a leader counts were given to it.
VotesCounted ==
    \A n \in Node :
      /\ role[n] # "Follower" => \A v \in votes[n] : Voted(v, n, term[n])
      /\ role[n] = "Leader" => Cardinality(votes[n]) >= Quorum

\* An entry of a log or of a request.
InLog(e) == \E n \in Node : \E i \in 1 .. Len(log[n]) : e = log[n][i]
InRequest(e) ==
    \E m \in msgs : m.type = "AppendEntries" /\ \E i \in 1 .. Len(m.entries) : e = m.entries[i]
IsEntry(e) == InLog(e) \/ InRequest(e)

\* p was elected in the term of e; while that term lasts it is no candidate again,
\* and has e as long as it leads.
Made(p, e) ==
    /\ Elected(p, e.term) /\ term[p] >= e.term
    /\ term[p] = e.term =>
         /\ role[p] # "Candidate"
         /\ role[p] = "Leader" => e.index <= Len(log[p]) /\ log[p][e.index] = e
EntriesMade == \A e \in Entry : IsEntry(e) => \E p \in Node : Made(p, e)
OneEntry ==
    \A e, f \in Entry :
      IsEntry(e) /\ IsEntry(f) /\ e.index = f.index /\ e.term = f.term => e = f
\* A request is of an elected leader to another node, unless a node built one that
\* led no longer.
RequestsLed ==
    ~deposed => \A m \in msgs : m.type = "AppendEntries" => m.src # m.dst /\ Elected(m.src, m.term)

\* The inductive invariant.
VotesInv == VotesRemembered /\ OneVote /\ VotesCounted
LogsInv == EntriesMade /\ OneEntry /\ RequestsLed
RaftInv == Types /\ (restarts = 0 => VotesInv /\ LogsInv)

-----------------------------------------------------------------------------
(* The entries handle_append_entries leaves in a log were in the log or in  *)
(* the request.                                                            *)
LEMMA PutEntryFrom ==
    ASSUME NEW R \in SUBSET Entry, NEW l \in Seq(R), NEW e \in R
    PROVE  PutEntry(l, e) \in Seq(R)
<1>1. e.index \in Nat \ {0}
  BY DEF Entry
<1>2. CASE e.index > Len(l)
  BY <1>2 DEF PutEntry
<1>3. CASE e.index <= Len(l)
  <2>1. SubSeq(l, 1, e.index - 1) \in Seq(R)
    BY <1>1, <1>3
  <2>2. Append(SubSeq(l, 1, e.index - 1), e) \in Seq(R)
    BY <2>1
  <2> QED BY <1>1, <1>3, <2>2 DEF PutEntry
<1> QED BY <1>1, <1>2, <1>3

\* Putting in all entries of a request puts in one after the other.
LEMMA PutAllSteps ==
    ASSUME NEW R \in SUBSET Entry, NEW l \in Seq(R), NEW es \in Seq(R)
    PROVE  \E f : /\ \A k \in 0 .. Len(es) : f[k] \in Seq(R)
                  /\ f[0] = l /\ PutAll(l, es) = f[Len(es)]
                  /\ \A k \in 1 .. Len(es) : f[k] = PutEntry(f[k - 1], es[k])
<1> DEFINE N == Len(es)
           S == Seq(R)
           step == [x \in S \X (1 .. N) |-> PutEntry(x[1], es[x[2]])]
           Def(f) == [k \in 0 .. N |-> IF k = 0 THEN l ELSE PutEntry(f[k - 1], es[k])]
           f == CHOOSE f : f = Def(f)
<1>1. N \in Nat /\ l \in S /\ \A k \in 1 .. N : es[k] \in R
  OBVIOUS
<1>2. \A s \in S, e \in R : PutEntry(s, e) \in S
  BY PutEntryFrom
<1>3. PutAll(l, es) = f[N]
  BY DEF PutAll
<1> HIDE DEF N, S
<1>4. step \in Steps(S, N)
  BY <1>1, <1>2 DEF Steps
<1>5. \A s \in S, k \in 1 .. N : step[<<s, k>>] = PutEntry(s, es[k])
  OBVIOUS
<1> HIDE DEF step
<1>6. PICK g : Solves(g, S, l, N, step)
  BY <1>1, <1>4, Recurrence
<1>7. g = Def(g)
  <2>1. \A k \in 1 .. N : g[k - 1] \in S
    BY <1>1, <1>6 DEF Solves
  <2>2. \A k \in 1 .. N : g[k] = PutEntry(g[k - 1], es[k])
    BY <1>5, <1>6, <2>1 DEF Solves
  <2> QED BY <1>1, <1>6, <2>2 DEF Solves
<1>8. f = Def(f)
  BY <1>7
<1> HIDE DEF f
<1> DEFINE Good == {k \in Nat : k <= N => f[k] \in S}
<1>9. 0 \in Good
  BY <1>1, <1>8
<1>10. ASSUME NEW k \in Nat, k \in Good PROVE k + 1 \in Good
  <2> SUFFICES ASSUME k + 1 <= N PROVE f[k + 1] \in S
    OBVIOUS
  <2>1. f[k] \in S
    BY <1>1, <1>10
  <2>2. f[k + 1] = PutEntry(f[k], es[k + 1]) /\ es[k + 1] \in R
    BY <1>1, <1>8
  <2> QED BY <1>2, <2>1, <2>2
<1> HIDE DEF Good
<1>11. \A k \in Nat : k \in Good
  BY <1>9, <1>10, Induct
<1>12. \A k \in 0 .. N : f[k] \in S
  BY <1>1, <1>11 DEF Good
<1>13. \A k \in 1 .. N : f[k] = PutEntry(f[k - 1], es[k])
  BY <1>1, <1>8
<1>14. f[0] = l
  BY <1>1, <1>8
<1> QED BY <1>3, <1>12, <1>13, <1>14 DEF N, S

\* All entries of a request put in leave entries of the log or the request.
LEMMA PutAllFrom ==
    ASSUME NEW R \in SUBSET Entry, NEW l \in Seq(R), NEW es \in Seq(R)
    PROVE  PutAll(l, es) \in Seq(R)
<1>1. PICK f : (\A k \in 0 .. Len(es) : f[k] \in Seq(R)) /\ PutAll(l, es) = f[Len(es)]
  BY PutAllSteps
<1> QED BY <1>1

-----------------------------------------------------------------------------
(* What a step keeps. *)

VotesGrow == \A v, c \in Node, t \in Nat : Voted(v, c, t) => Voted(v, c, t)'
VotesSame == \A v, c \in Node, t \in Nat : Voted(v, c, t) <=> Voted(v, c, t)'
\* The terms grow; while a term lasts, nobody leads again in it who followed, and
\* the log of a leader grows.
LogsGrow ==
    \A n \in Node :
      /\ term'[n] >= term[n]
      /\ term'[n] = term[n] /\ role[n] # "Candidate" => role'[n] \in {role[n], "Follower"}
      /\ role[n] = "Leader" /\ role'[n] = "Leader" /\ term'[n] = term[n] =>
           /\ Len(log'[n]) >= Len(log[n])
           /\ \A i \in 1 .. Len(log[n]) : log'[n][i] = log[n][i]
\* Besides, a leader leads as long as its term lasts.
LeadersStay ==
    \A n \in Node :
      /\ term'[n] >= term[n]
      /\ role[n] = "Leader" /\ term'[n] = term[n] =>
           /\ role'[n] = "Leader" /\ Len(log'[n]) >= Len(log[n])
           /\ \A i \in 1 .. Len(log[n]) : log'[n][i] = log[n][i]
\* A vote is forgotten only with its term, and nobody stands for election.
NoElection ==
    \A n \in Node :
      /\ term'[n] = term[n] => votedFor'[n] = votedFor[n]
      /\ role'[n] # "Follower" =>
           role'[n] = role[n] /\ term'[n] = term[n] /\ votes'[n] = votes[n]
NoNewEntries == \A e \in Entry : IsEntry(e)' => IsEntry(e)
NewRequestsLed ==
    ~deposed' =>
      /\ ~deposed
      /\ \A m \in msgs' \ msgs :
           m.type = "AppendEntries" => m.src # m.dst /\ Elected(m.src, m.term)'

(* Two majorities share a node, and it has one vote. *)
LEMMA ElectedUnique ==
    ASSUME OneVote, NEW c \in Node, NEW d \in Node, NEW t \in Nat, Elected(c, t), Elected(d, t)
    PROVE  c = d
<1>1. PICK Q \in SUBSET Node : Cardinality(Q) >= Quorum /\ \A v \in Q : Voted(v, c, t)
  BY DEF Elected
<1>2. PICK P \in SUBSET Node : Cardinality(P) >= Quorum /\ \A v \in P : Voted(v, d, t)
  BY DEF Elected
<1>3. Q \cap P # {}
  <2>1. Cardinality(Node) \in Nat /\ IsFiniteSet(Node)
    BY RaftAssumptions, FS_CardinalityType
  <2>2. Cardinality(Q) \in Nat /\ Cardinality(P) \in Nat
    BY <2>1, FS_Subset, FS_CardinalityType
  <2>3. Cardinality(Q) + Cardinality(P) > Cardinality(Node)
    BY <1>1, <1>2, <2>1, <2>2 DEF Quorum
  <2> QED BY <2>1, <2>3, FS_MajoritiesIntersect
<1> QED BY <1>1, <1>2, <1>3 DEF OneVote

\* A leader was elected in its term.
LEMMA LeaderElected ==
    ASSUME Types, VotesCounted, NEW n \in Node, role[n] = "Leader"
    PROVE  Elected(n, term[n])
BY DEF Types, VotesCounted, Elected

\* Who was elected stays elected.
LEMMA ElectedGrows ==
    ASSUME VotesGrow, NEW c \in Node, NEW t \in Nat, Elected(c, t)
    PROVE  Elected(c, t)'
<1>1. PICK Q \in SUBSET Node : Cardinality(Q) >= Quorum /\ \A v \in Q : Voted(v, c, t)
  BY DEF Elected
<1>2. \A v \in Q : Voted(v, c, t)'
  BY <1>1 DEF VotesGrow
<1> QED BY <1>1, <1>2 DEF Elected

\* A step without a vote or an election keeps what is known of votes.
LEMMA VotesKept ==
    ASSUME Types, Types', VotesInv, VotesSame, NoElection,
           \A n \in Node : term'[n] >= term[n]
    PROVE  VotesInv'
<1>1. \A v, c \in Node, t \in Nat : Voted(v, c, t)' <=> Voted(v, c, t)
  BY DEF VotesSame
<1>2. VotesRemembered'
  <2> SUFFICES ASSUME NEW v \in Node, NEW c \in Node, NEW t \in Nat, Voted(v, c, t)'
               PROVE  term'[v] >= t /\ (term'[v] = t => votedFor'[v] = c)
    BY DEF VotesRemembered
  <2>1. term[v] >= t /\ (term[v] = t => votedFor[v] = c)
    BY <1>1 DEF VotesInv, VotesRemembered
  <2>2. term[v] \in Nat /\ term'[v] \in Nat /\ term'[v] >= term[v]
    BY DEF Types
  <2> QED BY <2>1, <2>2 DEF NoElection
<1>3. OneVote'
  BY <1>1 DEF VotesInv, OneVote
<1>4. VotesCounted'
  <2> SUFFICES ASSUME NEW n \in Node
               PROVE  /\ role'[n] # "Follower" => \A v \in votes'[n] : Voted(v, n, term[n])'
                      /\ role'[n] = "Leader" => Cardinality(votes'[n]) >= Quorum
    BY DEF VotesCounted
  <2>1. CASE role'[n] = "Follower"
    BY <2>1
  <2>2. CASE role'[n] # "Follower"
    <3>1. role'[n] = role[n] /\ term'[n] = term[n] /\ votes'[n] = votes[n]
      BY <2>2 DEF NoElection
    <3>2. \A v \in votes[n] : v \in Node /\ Voted(v, n, term[n]) /\ term[n] \in Nat
      BY <2>2, <3>1 DEF VotesInv, VotesCounted, Types
    <3>3. \A v \in votes[n] : Voted(v, n, term[n])'
      BY <1>1, <3>1, <3>2 DEF Voted, Asked, Granted
    <3> QED BY <3>1, <3>3 DEF VotesInv, VotesCounted
  <2> QED BY <2>1, <2>2
<1> QED BY <1>2, <1>3, <1>4 DEF VotesInv

\* The leader of an entry's term still has the entry.
LEMMA MadeKept ==
    ASSUME Types, Types', VotesGrow, LogsGrow, NEW p \in Node, NEW e \in Entry, Made(p, e)
    PROVE  Made(p, e)'
<1>1. e.term \in Nat /\ e.index \in Nat \ {0}
  BY DEF Entry
<1>2. Elected(p, e.term)'
  BY <1>1, ElectedGrows DEF Made
<1>3. term[p] \in Nat /\ term'[p] \in Nat /\ Len(log[p]) \in Nat /\ Len(log'[p]) \in Nat
  BY DEF Types
<1>4. term'[p] >= e.term
  BY <1>1, <1>3 DEF Made, LogsGrow
<1>5. ASSUME term'[p] = e.term
      PROVE  /\ role'[p] # "Candidate"
             /\ role'[p] = "Leader" => e.index <= Len(log'[p]) /\ log'[p][e.index] = e
  <2>1. term[p] = e.term
    BY <1>1, <1>3, <1>5 DEF Made, LogsGrow
  <2>2. /\ role[p] # "Candidate"
        /\ role[p] = "Leader" => e.index \in 1 .. Len(log[p]) /\ log[p][e.index] = e
    BY <1>1, <1>3, <2>1 DEF Made
  <2>3. role'[p] \in {role[p], "Follower"}
    BY <1>5, <2>1, <2>2 DEF LogsGrow
  <2> QED BY <1>1, <1>3, <1>5, <2>1, <2>2, <2>3 DEF LogsGrow
<1> QED BY <1>2, <1>4, <1>5 DEF Made

\* A step that adds no entry keeps what is known of entries.
LEMMA LogsKept ==
    ASSUME Types, Types', LogsInv, VotesGrow, LogsGrow, NoNewEntries, NewRequestsLed
    PROVE  LogsInv'
<1>1. EntriesMade'
  BY MadeKept DEF NoNewEntries, LogsInv, EntriesMade
<1>2. OneEntry'
  BY DEF NoNewEntries, LogsInv, OneEntry
<1>3. RequestsLed'
  <2> SUFFICES ASSUME ~deposed', NEW m \in msgs', m.type = "AppendEntries"
               PROVE  m.src # m.dst /\ Elected(m.src, m.term)'
    BY DEF RequestsLed
  <2>1. CASE m \in msgs
    BY <2>1, ElectedGrows DEF LogsInv, RequestsLed, NewRequestsLed, Types, MessageOK
  <2>2. CASE m \notin msgs
    BY <2>2 DEF NewRequestsLed
  <2> QED BY <2>1, <2>2
<1> QED BY <1>1, <1>2, <1>3 DEF LogsInv

(* What a new message changes. *)
LEMMA NoNewMessage ==
    ASSUME msgs' = msgs, deposed' = deposed
    PROVE  VotesSame /\ NewRequestsLed /\ (log' = log => NoNewEntries)
BY DEF VotesSame, Voted, Asked, Granted, NewRequestsLed, NoNewEntries, IsEntry, InLog, InRequest

\* The answer to an append is no vote and holds no entry.
LEMMA NewResponse ==
    ASSUME NEW m, msgs' = msgs \cup {m}, m.type = "AppendResponse", deposed' = deposed
    PROVE  VotesSame /\ NewRequestsLed /\ (log' = log => NoNewEntries)
BY DEF VotesSame, Voted, Asked, Granted, NewRequestsLed, NoNewEntries, IsEntry, InLog, InRequest

\* A request for a vote, or the answer, holds no entry.
LEMMA NewVoteMessage ==
    ASSUME NEW m, msgs' = msgs \cup {m}, m.type \in {"RequestVote", "VoteResponse"},
           log' = log, deposed' = deposed
    PROVE  VotesGrow /\ NewRequestsLed /\ NoNewEntries
BY DEF VotesGrow, Voted, Asked, Granted, NewRequestsLed, NoNewEntries, IsEntry, InLog, InRequest

-----------------------------------------------------------------------------
(* The steps that hold no election and make no entry. *)
StepOK == RaftInv' /\ (restarts' = 0 => LogsGrow /\ (~deposed' => LeadersStay))

\* A step without votes, elections and new entries keeps the invariant.
LEMMA QuietStep ==
    ASSUME RaftInv, Types', restarts' = restarts,
           restarts = 0 => VotesSame /\ NoElection /\ LogsGrow /\ NoNewEntries /\ NewRequestsLed,
           restarts = 0 /\ ~deposed' => LeadersStay
    PROVE  StepOK
<1>1. Types
  BY DEF RaftInv
<1>2. ASSUME restarts = 0 PROVE VotesInv' /\ LogsInv' /\ LogsGrow
  <2>1. VotesGrow /\ \A n \in Node : term'[n] >= term[n]
    BY <1>2 DEF VotesSame, VotesGrow, LogsGrow
  <2> QED BY <1>1, <1>2, <2>1, VotesKept, LogsKept DEF RaftInv
<1> QED BY <1>2 DEF StepOK, RaftInv

\* A node meets a later term.
LEMMA StepDownStep ==
    ASSUME RaftInv, NEW n \in Node, NEW m \in msgs, StepDown(n, m)
    PROVE  StepOK
<1>1. Types /\ MessageOK(m)
  BY DEF RaftInv, Types
<1>2. /\ m.term \in Nat /\ m.term > term[n] /\ term' = [term EXCEPT ![n] = m.term]
      /\ votedFor' = [votedFor EXCEPT ![n] = Nil] /\ role' = [role EXCEPT ![n] = "Follower"]
      /\ log' = log /\ votes' = votes /\ msgs' = msgs /\ nextIndex' = nextIndex
      /\ restarts' = restarts /\ deposed' = deposed
  BY <1>1 DEF StepDown, ticks, MessageOK, indexes, bounded
<1>3. Types'
  BY <1>1, <1>2 DEF Types
<1>4. NoElection /\ LeadersStay /\ LogsGrow
  BY <1>1, <1>2 DEF Types, NoElection, LeadersStay, LogsGrow
<1> QED BY <1>2, <1>3, <1>4, NoNewMessage, QuietStep

\* A request of an earlier term is refused.
LEMMA RejectStaleAppendStep ==
    ASSUME RaftInv, NEW n \in Node, NEW m \in msgs, RejectStaleAppend(n, m)
    PROVE  StepOK
<1> DEFINE r == AppendResponse(n, m.src, term[n], FALSE, 0)
<1>1. Types /\ MessageOK(m)
  BY DEF RaftInv, Types
<1>2. /\ msgs' = msgs \cup {r}
      /\ term' = term /\ votedFor' = votedFor /\ log' = log /\ role' = role
      /\ votes' = votes /\ nextIndex' = nextIndex /\ restarts' = restarts /\ deposed' = deposed
  BY DEF RejectStaleAppend, ticks, Send, persistent, indexes, bounded
<1>3. MessageOK(r) /\ r.type = "AppendResponse"
  BY <1>1 DEF AppendResponse, MessageOK, Types
<1> HIDE DEF r
<1>4. Types'
  BY <1>1, <1>2, <1>3 DEF Types
<1>5. NoElection /\ LeadersStay /\ LogsGrow
  BY <1>1, <1>2 DEF Types, NoElection, LeadersStay, LogsGrow
<1> QED BY <1>2, <1>3, <1>4, <1>5, NewResponse, QuietStep

\* Setting the next index of one peer keeps all of them positive.
LEMMA WithOK ==
    ASSUME NEW f, NextOK(f), NEW p, NEW v \in Nat \ {0}
    PROVE  NextOK(With(f, p, v))
BY DEF NextOK, With

\* A success moves match, next and commit index only.
LEMMA RecordAppendSuccessStep ==
    ASSUME RaftInv, NEW n \in Node, NEW m \in msgs, RecordAppendSuccess(n, m)
    PROVE  StepOK
<1>1. Types /\ MessageOK(m)
  BY DEF RaftInv, Types
<1>2. /\ nextIndex' = [nextIndex EXCEPT ![n] = With(nextIndex[n], m.src, m.match + 1)]
      /\ m.match \in Nat /\ msgs' = msgs
      /\ term' = term /\ votedFor' = votedFor /\ log' = log /\ role' = role
      /\ votes' = votes /\ restarts' = restarts /\ deposed' = deposed
  BY <1>1 DEF RecordAppendSuccess, ticks, MessageOK, persistent
<1>3. NextOK(With(nextIndex[n], m.src, m.match + 1))
  BY <1>1, <1>2, WithOK DEF Types
<1>4. Types'
  BY <1>1, <1>2, <1>3 DEF Types
<1>5. NoElection /\ LeadersStay /\ LogsGrow
  BY <1>1, <1>2 DEF Types, NoElection, LeadersStay, LogsGrow
<1> QED BY <1>2, <1>4, <1>5, NoNewMessage, QuietStep

\* A failure moves the next index only.
LEMMA RecordAppendFailureStep ==
    ASSUME RaftInv, NEW n \in Node, NEW m \in msgs, RecordAppendFailure(n, m)
    PROVE  StepOK
<1>1. Types
  BY DEF RaftInv
<1>2. /\ nextIndex' = [nextIndex EXCEPT ![n] = With(nextIndex[n], m.src, NextFor(n, m.src) - 1)]
      /\ NextFor(n, m.src) > 1 /\ msgs' = msgs
      /\ term' = term /\ votedFor' = votedFor /\ log' = log /\ role' = role
      /\ votes' = votes /\ restarts' = restarts /\ deposed' = deposed
  BY DEF RecordAppendFailure, ticks, bounded, persistent
<1>3. NextFor(n, m.src) \in Nat \ {0} /\ NextOK(nextIndex[n])
  BY <1>1 DEF Types, NextOK, NextFor
<1>4. NextOK(With(nextIndex[n], m.src, NextFor(n, m.src) - 1))
  BY <1>2, <1>3, WithOK
<1>5. Types'
  BY <1>1, <1>2, <1>4 DEF Types
<1>6. NoElection /\ LeadersStay /\ LogsGrow
  BY <1>1, <1>2 DEF Types, NoElection, LeadersStay, LogsGrow
<1> QED BY <1>2, <1>5, <1>6, NoNewMessage, QuietStep

\* Applying moves the applied index only.
LEMMA ApplyCommittedStep ==
    ASSUME RaftInv, NEW n \in Node, ApplyCommitted(n)
    PROVE  StepOK
<1>1. Types
  BY DEF RaftInv
<1>2. /\ nextIndex' = nextIndex /\ msgs' = msgs
      /\ term' = term /\ votedFor' = votedFor /\ log' = log /\ role' = role
      /\ votes' = votes /\ restarts' = restarts /\ deposed' = deposed
  BY DEF ApplyCommitted, ticks, bounded, persistent
<1>3. Types'
  BY <1>1, <1>2 DEF Types
<1>4. NoElection /\ LeadersStay /\ LogsGrow
  BY <1>1, <1>2 DEF Types, NoElection, LeadersStay, LogsGrow
<1> QED BY <1>2, <1>3, <1>4, NoNewMessage, QuietStep

\* A removed peer is no longer tracked.
LEMMA RemovePeerStep ==
    ASSUME RaftInv, NEW n \in Node, NEW p \in Node, RemovePeer(n, p)
    PROVE  StepOK
<1>1. Types
  BY DEF RaftInv
<1>2. /\ nextIndex' = [nextIndex EXCEPT ![n] = Without(nextIndex[n], p)] /\ msgs' = msgs
      /\ term' = term /\ votedFor' = votedFor /\ log' = log /\ role' = role
      /\ votes' = votes /\ restarts' = restarts /\ deposed' = deposed
  BY DEF RemovePeer, ticks, bounded, persistent
<1>3. NextOK(Without(nextIndex[n], p))
  BY <1>1 DEF Types, NextOK, Without
<1>4. Types'
  BY <1>1, <1>2, <1>3 DEF Types
<1>5. NoElection /\ LeadersStay /\ LogsGrow
  BY <1>1, <1>2 DEF Types, NoElection, LeadersStay, LogsGrow
<1> QED BY <1>2, <1>4, <1>5, NoNewMessage, QuietStep

(* A request carries entries of its leader's log. *)
LEMMA SendAppendStep ==
    ASSUME RaftInv, NEW n \in Node, NEW p \in Node, NEW k \in 0 .. MaxLog, SendAppend(n, p, k)
    PROVE  StepOK
<1> DEFINE next == NextFor(n, p)
           es == SubSeq(log[n], next, next - 1 + k)
           m == [type |-> "AppendEntries", term |-> term[n], src |-> n, dst |-> p,
                 prevIndex |-> next - 1, prevTerm |-> PrevTerm(n, next - 1),
                 entries |-> es, commit |-> commitIndex[n]]
<1>1. Types
  BY DEF RaftInv
<1>2. /\ p # n /\ next - 1 + k <= Len(log[n])
      /\ msgs' = msgs \cup {m}
      /\ term' = term /\ votedFor' = votedFor /\ log' = log /\ role' = role
      /\ votes' = votes /\ nextIndex' = nextIndex /\ restarts' = restarts
      /\ deposed' = (deposed \/ role[n] # "Leader")
  BY DEF SendAppend, Send, LastIndex, persistent, indexes, bounded
<1>3. next \in Nat \ {0} /\ k \in Nat
  BY <1>1, RaftAssumptions DEF Types, NextOK, NextFor
<1> HIDE DEF next
<1>4. log[n] \in Seq(Entry) /\ Len(log[n]) \in Nat
  BY <1>1 DEF Types
<1>5. /\ es \in Seq(Entry) /\ Len(es) = k
      /\ \A i \in 1 .. k : next + i - 1 \in 1 .. Len(log[n]) /\ es[i] = log[n][next + i - 1]
  BY <1>2, <1>3, <1>4
<1> HIDE DEF es
<1>6. MessageOK(m) /\ m.type = "AppendEntries" /\ m.entries = es /\ m.src = n
      /\ m.dst = p /\ m.term = term[n]
  BY <1>1, <1>3, <1>5 DEF MessageOK, Types
<1> HIDE DEF m
<1>7. Types'
  BY <1>1, <1>2, <1>6 DEF Types
<1>8. NoElection /\ LeadersStay /\ LogsGrow
  BY <1>1, <1>2 DEF Types, NoElection, LeadersStay, LogsGrow
<1>9. VotesSame
  BY <1>2, <1>6 DEF VotesSame, Voted, Asked, Granted
<1>10. NoNewEntries
  <2> SUFFICES ASSUME NEW e \in Entry, InRequest(e)', ~InRequest(e)
               PROVE  InLog(e)
    BY <1>2 DEF NoNewEntries, IsEntry, InLog
  <2>1. \E i \in 1 .. Len(es) : e = es[i]
    BY <1>2, <1>6 DEF InRequest
  <2> QED BY <1>5, <2>1 DEF InLog
<1>11. ASSUME restarts = 0, ~deposed' PROVE NewRequestsLed
  <2>0. role[n] = "Leader" /\ ~deposed
    BY <1>2, <1>11, Zenon
  <2>1. Elected(n, term[n])
    BY <1>1, <1>11, <2>0, LeaderElected DEF RaftInv, VotesInv
  <2>2. Elected(n, term[n])'
    BY <1>1, <1>2, <1>9, <2>1 DEF VotesSame, Elected, Types
  <2>3. \A q \in msgs' \ msgs : q = m
    BY <1>2
  <2> QED BY <1>2, <1>6, <2>0, <2>2, <2>3 DEF NewRequestsLed, Elected, Voted, Asked, Granted
<1>12. deposed' => NewRequestsLed
  BY DEF NewRequestsLed
<1> QED BY <1>2, <1>7, <1>8, <1>9, <1>10, <1>11, <1>12, QuietStep

(* No leader takes a request of its own term: whoever sent it was elected in *)
(* that term too, so it is the leader itself.                                *)
LEMMA HandleAppendEntriesStep ==
    ASSUME RaftInv, NEW n \in Node, NEW m \in msgs, HandleAppendEntries(n, m)
    PROVE  StepOK
<1>1. Types /\ MessageOK(m)
  BY DEF RaftInv, Types
<1>2. /\ m.type = "AppendEntries" /\ m.dst = n /\ m.term >= term[n] /\ m.term \in Nat
      /\ m.prevIndex \in Nat /\ m.entries \in Seq(Entry) /\ m.src \in Node
      /\ term' = [term EXCEPT ![n] = m.term]
      /\ votedFor' = [votedFor EXCEPT ![n] = VoteAfter(n, m.term)]
      /\ role' = [role EXCEPT ![n] = "Follower"]
      /\ votes' = votes /\ nextIndex' = nextIndex /\ restarts' = restarts /\ deposed' = deposed
  BY <1>1 DEF HandleAppendEntries, ticks, MessageOK
<1>3. PICK r : /\ msgs' = msgs \cup {r} /\ r.type = "AppendResponse" /\ MessageOK(r)
  <2> DEFINE yes == AppendResponse(n, m.src, m.term, TRUE, m.prevIndex + Len(m.entries))
             no == AppendResponse(n, m.src, m.term, FALSE, 0)
  <2>1. msgs' = msgs \cup {yes} \/ msgs' = msgs \cup {no}
    BY DEF HandleAppendEntries, ticks, Send
  <2>2. yes.type = "AppendResponse" /\ MessageOK(yes)
    BY <1>2 DEF AppendResponse, MessageOK
  <2>3. no.type = "AppendResponse" /\ MessageOK(no)
    BY <1>2 DEF AppendResponse, MessageOK
  <2> HIDE DEF yes, no
  <2> QED BY <2>1, <2>2, <2>3
<1>4. PICK l : log' = [log EXCEPT ![n] = l] /\ (l = log[n] \/ l = PutAll(log[n], m.entries))
  BY <1>1 DEF HandleAppendEntries, ticks, Types
<1> DEFINE R == {e \in Entry : (\E i \in 1 .. Len(log[n]) : e = log[n][i])
                               \/ \E i \in 1 .. Len(m.entries) : e = m.entries[i]}
<1>5. l \in Seq(R)
  <2>1. log[n] \in Seq(Entry) /\ m.entries \in Seq(Entry)
    BY <1>1, <1>2 DEF Types
  <2>2. log[n] \in Seq(R)
    BY <2>1
  <2>3. m.entries \in Seq(R)
    BY <2>1
  <2>4. R \in SUBSET Entry
    OBVIOUS
  <2> HIDE DEF R
  <2> QED BY <1>4, <2>2, <2>3, <2>4, PutAllFrom
<1>6. l \in Seq(Entry) /\ \A i \in 1 .. Len(l) : l[i] \in R
  <2>1. R \in SUBSET Entry
    OBVIOUS
  <2> HIDE DEF R
  <2> QED BY <1>5, <2>1
<1>7. Types'
  <2>1. VoteAfter(n, m.term) \in Node \cup {Nil}
    BY <1>1 DEF VoteAfter, Types
  <2>2. term' \in [Node -> Nat] /\ votedFor' \in [Node -> Node \cup {Nil}]
        /\ role' \in [Node -> {"Follower", "Candidate", "Leader"}]
    BY <1>1, <1>2, <2>1 DEF Types
  <2>3. log' \in [Node -> Seq(Entry)]
    BY <1>1, <1>4, <1>6 DEF Types
  <2>4. \A q \in msgs' : MessageOK(q)
    BY <1>1, <1>3 DEF Types
  <2> QED BY <1>1, <1>2, <2>2, <2>3, <2>4 DEF Types
<1>8. NoElection
  BY <1>1, <1>2 DEF Types, NoElection, VoteAfter
<1>9. NoNewEntries
  <2> SUFFICES ASSUME NEW e \in Entry, IsEntry(e)' PROVE IsEntry(e)
    BY DEF NoNewEntries
  <2>1. CASE InRequest(e)'
    BY <1>3, <2>1 DEF InRequest, IsEntry
  <2>2. CASE InLog(e)'
    <3>1. PICK p \in Node : \E i \in 1 .. Len(log'[p]) : e = log'[p][i]
      BY <2>2 DEF InLog
    <3>2. CASE p # n
      BY <1>1, <1>4, <3>1, <3>2 DEF IsEntry, InLog, Types
    <3>3. CASE p = n
      <4>1. log'[n] = l
        BY <1>1, <1>4 DEF Types
      <4>2. e \in R
        BY <1>6, <3>1, <3>3, <4>1
      <4> QED BY <1>2, <4>2 DEF IsEntry, InLog, InRequest
    <3> QED BY <3>2, <3>3
  <2> QED BY <2>1, <2>2 DEF IsEntry
<1>10. VotesSame /\ NewRequestsLed
  BY <1>2, <1>3, NewResponse
<1>11. LogsGrow
  BY <1>1, <1>2, <1>4 DEF Types, LogsGrow
<1>12. ASSUME restarts = 0, ~deposed' PROVE LeadersStay
  <2>1. role[n] = "Leader" => m.term # term[n]
    <3> SUFFICES ASSUME role[n] = "Leader", m.term = term[n] PROVE FALSE
      OBVIOUS
    <3>1. Elected(n, term[n])
      BY <1>1, <1>12, LeaderElected DEF RaftInv, VotesInv
    <3>2. Elected(m.src, term[n]) /\ m.src # n
      BY <1>2, <1>12 DEF RaftInv, LogsInv, RequestsLed
    <3> QED BY <1>1, <1>2, <1>12, <3>1, <3>2, ElectedUnique DEF RaftInv, VotesInv, Types
  <2> QED BY <1>1, <1>2, <1>4, <2>1 DEF Types, LeadersStay
<1> QED BY <1>2, <1>7, <1>8, <1>9, <1>10, <1>11, <1>12, QuietStep

-----------------------------------------------------------------------------
(* propose: the leader's log has every entry of its term, so the slot after *)
(* its last one is free.                                                    *)
LEMMA ProposeStep ==
    ASSUME RaftInv, NEW n \in Node, NEW c \in Command, Propose(n, c)
    PROVE  StepOK
<1>0. PICK e : e = [index |-> Len(log[n]) + 1, term |-> term[n], cmd |-> c]
  OBVIOUS
<1>1. Types
  BY DEF RaftInv
<1>2. /\ role[n] = "Leader" /\ log' = [log EXCEPT ![n] = Append(log[n], e)]
      /\ term' = term /\ votedFor' = votedFor /\ role' = role /\ votes' = votes
      /\ nextIndex' = nextIndex /\ msgs' = msgs /\ restarts' = restarts /\ deposed' = deposed
  BY <1>0 DEF Propose, ticks, indexes, bounded
<1>3. log[n] \in Seq(Entry) /\ Len(log[n]) \in Nat /\ term[n] \in Nat
  BY <1>1 DEF Types
<1>4. e \in Entry /\ e.index = Len(log[n]) + 1 /\ e.term = term[n]
  BY <1>0, <1>3 DEF Entry
<1>5. /\ log'[n] = Append(log[n], e) /\ log'[n] \in Seq(Entry)
      /\ Len(log'[n]) = Len(log[n]) + 1 /\ log'[n][Len(log[n]) + 1] = e
      /\ \A i \in 1 .. Len(log[n]) : log'[n][i] = log[n][i]
      /\ \A p \in Node : p # n => log'[p] = log[p]
  BY <1>1, <1>2, <1>3, <1>4 DEF Types
<1>6. Types'
  <2>1. log' \in [Node -> Seq(Entry)]
    BY <1>1, <1>2, <1>5 DEF Types
  <2> QED BY <1>1, <1>2, <2>1 DEF Types
<1>7. LeadersStay /\ LogsGrow
  <2> SUFFICES ASSUME NEW p \in Node
               PROVE  /\ term'[p] >= term[p] /\ role'[p] = role[p]
                      /\ Len(log'[p]) >= Len(log[p])
                      /\ \A i \in 1 .. Len(log[p]) : log'[p][i] = log[p][i]
    BY DEF LeadersStay, LogsGrow
  <2>1. term[p] \in Nat /\ Len(log[p]) \in Nat
    BY <1>1 DEF Types
  <2>2. CASE p = n
    BY <1>2, <1>3, <1>5, <2>1, <2>2
  <2>3. CASE p # n
    BY <1>2, <1>5, <2>1, <2>3
  <2> QED BY <2>2, <2>3
<1>8. ASSUME restarts = 0 PROVE VotesInv' /\ LogsInv'
  <2>1. VotesSame /\ NewRequestsLed /\ VotesGrow
    BY <1>2, NoNewMessage DEF VotesSame, VotesGrow
  <2>2. NoElection /\ \A p \in Node : term'[p] >= term[p]
    BY <1>2, <1>7 DEF NoElection, LogsGrow
  <2>3. VotesInv'
    BY <1>1, <1>6, <1>8, <2>1, <2>2, VotesKept DEF RaftInv
  <2>4. Elected(n, term[n])
    BY <1>1, <1>2, <1>8, LeaderElected DEF RaftInv, VotesInv
  <2>5. \A f \in Entry : IsEntry(f)' => f = e \/ IsEntry(f)
    <3> SUFFICES ASSUME NEW f \in Entry, IsEntry(f)', f # e PROVE IsEntry(f)
      OBVIOUS
    <3>1. CASE InRequest(f)'
      BY <1>2, <3>1 DEF InRequest, IsEntry
    <3>2. CASE InLog(f)'
      <4>1. PICK p \in Node : \E i \in 1 .. Len(log'[p]) : f = log'[p][i]
        BY <3>2 DEF InLog
      <4>2. PICK i \in 1 .. Len(log'[p]) : f = log'[p][i]
        BY <4>1
      <4>3. CASE p # n
        BY <1>5, <4>2, <4>3 DEF IsEntry, InLog
      <4>4. CASE p = n
        <5>1. i \in 1 .. Len(log[n]) \/ i = Len(log[n]) + 1
          BY <1>3, <1>5, <4>2, <4>4
        <5> QED BY <1>5, <4>2, <4>4, <5>1 DEF IsEntry, InLog
      <4> QED BY <4>3, <4>4
    <3> QED BY <3>1, <3>2 DEF IsEntry
  <2>6. Made(n, e)'
    <3>1. Elected(n, e.term)'
      BY <1>3, <1>4, <2>1, <2>4, ElectedGrows
    <3> QED BY <1>2, <1>3, <1>4, <1>5, <3>1 DEF Made
  <2>7. EntriesMade'
    <3> SUFFICES ASSUME NEW f \in Entry, IsEntry(f)' PROVE \E p \in Node : Made(p, f)'
      BY DEF EntriesMade
    <3>1. CASE f = e
      BY <2>6, <3>1
    <3>2. CASE f # e
      <4>1. PICK p \in Node : Made(p, f)
        BY <1>8, <2>5, <3>2 DEF RaftInv, LogsInv, EntriesMade
      <4> QED BY <1>1, <1>6, <1>7, <2>1, <4>1, MadeKept
    <3> QED BY <3>1, <3>2
  <2>8. ASSUME NEW f \in Entry, IsEntry(f), f.index = e.index, f.term = e.term
        PROVE  FALSE
    <3>1. PICK p \in Node : Made(p, f)
      BY <1>8, <2>8 DEF RaftInv, LogsInv, EntriesMade
    <3>2. p = n
      BY <1>3, <1>4, <1>8, <2>4, <2>8, <3>1, ElectedUnique DEF RaftInv, VotesInv, Made
    <3> QED BY <1>2, <1>3, <1>4, <2>8, <3>1, <3>2 DEF Made
  <2>9. OneEntry'
    BY <1>8, <2>5, <2>8 DEF OneEntry, RaftInv, LogsInv
  <2>10. RequestsLed'
    BY <1>1, <1>2, <1>8, <2>1, ElectedGrows
    DEF RequestsLed, NewRequestsLed, RaftInv, LogsInv, Types, MessageOK
  <2> QED BY <2>3, <2>7, <2>9, <2>10 DEF LogsInv
<1> QED BY <1>2, <1>6, <1>7, <1>8 DEF StepOK, RaftInv

-----------------------------------------------------------------------------
(* Elections.  start_election: the node votes for itself in a term in which *)
(* it has not voted.                                                        *)
LEMMA StartElectionStep ==
    ASSUME RaftInv, NEW n \in Node, StartElection(n)
    PROVE  StepOK
<1>0. PICK T, m : T = term[n] + 1 /\ m = RequestVote(n, T)
  OBVIOUS
<1>1. Types
  BY DEF RaftInv
<1>2. /\ term' = [term EXCEPT ![n] = T] /\ votedFor' = [votedFor EXCEPT ![n] = n]
      /\ role' = [role EXCEPT ![n] = "Candidate"] /\ votes' = [votes EXCEPT ![n] = {n}]
      /\ msgs' = msgs \cup {m} /\ log' = log /\ nextIndex' = nextIndex /\ restarts' = restarts
      /\ deposed' = deposed
  BY <1>0, <1>1 DEF StartElection, ticks, Send, indexes, bounded, Types
<1>3. term[n] \in Nat /\ T \in Nat /\ T > term[n]
  BY <1>0, <1>1 DEF Types
<1>4. m.type = "RequestVote" /\ m.src = n /\ m.term = T /\ MessageOK(m)
  BY <1>0, <1>3 DEF RequestVote, MessageOK
<1>5. Types'
  BY <1>1, <1>2, <1>3, <1>4 DEF Types
<1>6. LeadersStay /\ LogsGrow
  BY <1>1, <1>2, <1>3 DEF Types, LeadersStay, LogsGrow
<1>7. ASSUME restarts = 0 PROVE VotesInv' /\ LogsInv'
  <2>1. \A v, c \in Node, t \in Nat :
          Voted(v, c, t)' <=> Voted(v, c, t) \/ (v = n /\ c = n /\ t = T)
    BY <1>2, <1>4 DEF Voted, Asked, Granted
  <2>2. \A c \in Node : ~Voted(n, c, T)
    BY <1>3, <1>7 DEF RaftInv, VotesInv, VotesRemembered
  <2>3. VotesRemembered'
    <3> SUFFICES ASSUME NEW v \in Node, NEW c \in Node, NEW t \in Nat, Voted(v, c, t)'
                 PROVE  term'[v] >= t /\ (term'[v] = t => votedFor'[v] = c)
      BY DEF VotesRemembered
    <3>1. CASE Voted(v, c, t)
      <4>1. term[v] >= t /\ (term[v] = t => votedFor[v] = c) /\ term[v] \in Nat
        BY <1>1, <1>7, <3>1 DEF RaftInv, VotesInv, VotesRemembered, Types
      <4>2. CASE v = n
        BY <1>1, <1>2, <1>3, <4>1, <4>2 DEF Types
      <4>3. CASE v # n
        BY <1>1, <1>2, <4>1, <4>3 DEF Types
      <4> QED BY <4>2, <4>3
    <3>2. CASE v = n /\ c = n /\ t = T
      BY <1>1, <1>2, <1>3, <3>2 DEF Types
    <3> QED BY <2>1, <3>1, <3>2
  <2>4. OneVote'
    BY <1>7, <2>1, <2>2 DEF OneVote, RaftInv, VotesInv
  <2>5. VotesCounted'
    <3> SUFFICES ASSUME NEW p \in Node
                 PROVE  /\ role'[p] # "Follower" => \A v \in votes'[p] : Voted(v, p, term[p])'
                        /\ role'[p] = "Leader" => Cardinality(votes'[p]) >= Quorum
      BY DEF VotesCounted
    <3>1. CASE p = n
      <4>1. role'[n] = "Candidate" /\ votes'[n] = {n} /\ term'[n] = T
        BY <1>1, <1>2 DEF Types
      <4>2. Voted(n, n, term[n])'
        BY <1>2, <1>4, <4>1 DEF Voted, Asked
      <4> QED BY <3>1, <4>1, <4>2
    <3>2. CASE p # n
      <4>1. role'[p] = role[p] /\ votes'[p] = votes[p] /\ term'[p] = term[p]
        BY <1>1, <1>2, <3>2 DEF Types
      <4>2. role[p] # "Follower" => \A v \in votes[p] : Voted(v, p, term[p])
        BY <1>7 DEF RaftInv, VotesInv, VotesCounted
      <4>3. role[p] # "Follower" => \A v \in votes'[p] : Voted(v, p, term[p])'
        BY <1>2, <4>1, <4>2 DEF Voted, Asked, Granted
      <4> QED BY <1>7, <4>1, <4>3 DEF RaftInv, VotesInv, VotesCounted
    <3> QED BY <3>1, <3>2
  <2>6. LogsInv'
    BY <1>1, <1>2, <1>4, <1>5, <1>6, <1>7, NewVoteMessage, LogsKept DEF RaftInv
  <2> QED BY <2>3, <2>4, <2>5, <2>6 DEF VotesInv
<1> QED BY <1>2, <1>5, <1>6, <1>7 DEF StepOK, RaftInv

(* handle_request_vote: a node that has voted in the term votes the same. *)
LEMMA HandleRequestVoteStep ==
    ASSUME RaftInv, NEW n \in Node, NEW m \in msgs, HandleRequestVote(n, m)
    PROVE  StepOK
<1>0. PICK T, r : T = Seen(n, m.term) /\ r = VoteResponse(n, m.src, T, Grants(n, m))
  OBVIOUS
<1>1. Types /\ MessageOK(m)
  BY DEF RaftInv, Types
<1>2. /\ term' = [term EXCEPT ![n] = T]
      /\ votedFor' = [votedFor EXCEPT ![n] =
                        IF Grants(n, m) THEN m.src ELSE VoteAfter(n, m.term)]
      /\ role' = [role EXCEPT ![n] = IF m.term > term[n] THEN "Follower" ELSE role[n]]
      /\ msgs' = msgs \cup {r}
      /\ log' = log /\ votes' = votes /\ nextIndex' = nextIndex /\ restarts' = restarts
      /\ deposed' = deposed
  BY <1>0, <1>1 DEF HandleRequestVote, ticks, Send, indexes, bounded, Types
<1>3. /\ term[n] \in Nat /\ T \in Nat /\ T >= term[n] /\ m.term \in Nat /\ m.src \in Node
      /\ m.term >= term[n] => T = m.term
      /\ T = term[n] <=> ~(m.term > term[n])
  BY <1>0, <1>1 DEF Types, MessageOK, Seen
<1>4. /\ r.type = "VoteResponse" /\ r.src = n /\ r.dst = m.src /\ r.term = T /\ MessageOK(r)
      /\ r.granted = Grants(n, m)
  BY <1>0, <1>3 DEF VoteResponse, MessageOK
<1>5. Types'
  <2>1. VoteAfter(n, m.term) \in Node \cup {Nil} /\ role[n] \in {"Follower", "Candidate", "Leader"}
    BY <1>1 DEF VoteAfter, Types
  <2>2. /\ term' \in [Node -> Nat] /\ votedFor' \in [Node -> Node \cup {Nil}]
        /\ role' \in [Node -> {"Follower", "Candidate", "Leader"}]
    BY <1>1, <1>2, <1>3, <2>1 DEF Types
  <2>3. \A q \in msgs' : MessageOK(q)
    BY <1>1, <1>2, <1>4 DEF Types
  <2> QED BY <1>1, <1>2, <2>2, <2>3 DEF Types
<1>6. LeadersStay /\ LogsGrow
  BY <1>1, <1>2, <1>3 DEF Types, LeadersStay, LogsGrow
<1>7. ASSUME restarts = 0 PROVE VotesInv' /\ LogsInv'
  <2>1. \A v, c \in Node, t \in Nat :
          Voted(v, c, t)' <=>
            Voted(v, c, t) \/ (v = n /\ c = m.src /\ t = T /\ Grants(n, m))
    BY <1>2, <1>4 DEF Voted, Asked, Granted
  <2>2. ASSUME NEW c \in Node, Voted(n, c, T)
        PROVE  T = term[n] /\ votedFor'[n] = c /\ (Grants(n, m) => c = m.src)
    <3>1. T = term[n] /\ votedFor[n] = c
      BY <1>3, <1>7, <2>2 DEF RaftInv, VotesInv, VotesRemembered
    <3>2. VoteAfter(n, m.term) = c
      BY <1>3, <3>1 DEF VoteAfter
    <3>3. Grants(n, m) => c = m.src
      BY <3>2, RaftAssumptions DEF Grants
    <3>4. votedFor'[n] = IF Grants(n, m) THEN m.src ELSE VoteAfter(n, m.term)
      BY <1>1, <1>2 DEF Types
    <3> QED BY <3>1, <3>2, <3>3, <3>4
  <2>3. VotesRemembered'
    <3> SUFFICES ASSUME NEW v \in Node, NEW c \in Node, NEW t \in Nat, Voted(v, c, t)'
                 PROVE  term'[v] >= t /\ (term'[v] = t => votedFor'[v] = c)
      BY DEF VotesRemembered
    <3>1. CASE Voted(v, c, t)
      <4>1. term[v] >= t /\ (term[v] = t => votedFor[v] = c) /\ term[v] \in Nat
        BY <1>1, <1>7, <3>1 DEF RaftInv, VotesInv, VotesRemembered, Types
      <4>2. CASE v = n
        <5>1. term'[n] = T
          BY <1>1, <1>2 DEF Types
        <5> QED BY <1>3, <2>2, <3>1, <4>1, <4>2, <5>1
      <4>3. CASE v # n
        BY <1>1, <1>2, <4>1, <4>3 DEF Types
      <4> QED BY <4>2, <4>3
    <3>2. CASE v = n /\ c = m.src /\ t = T /\ Grants(n, m)
      BY <1>1, <1>2, <1>3, <3>2 DEF Types
    <3> QED BY <2>1, <3>1, <3>2
  <2>4. OneVote'
    <3> SUFFICES ASSUME NEW v \in Node, NEW c \in Node, NEW d \in Node, NEW t \in Nat,
                        Voted(v, c, t)', Voted(v, d, t)'
                 PROVE  c = d
      BY DEF OneVote
    <3>1. CASE Voted(v, c, t) /\ Voted(v, d, t)
      BY <1>7, <3>1 DEF RaftInv, VotesInv, OneVote
    <3>2. CASE ~(Voted(v, c, t) /\ Voted(v, d, t))
      BY <2>1, <2>2, <3>2
    <3> QED BY <3>1, <3>2
  <2>5. VotesCounted'
    <3> SUFFICES ASSUME NEW p \in Node
                 PROVE  /\ role'[p] # "Follower" => \A v \in votes'[p] : Voted(v, p, term[p])'
                        /\ role'[p] = "Leader" => Cardinality(votes'[p]) >= Quorum
      BY DEF VotesCounted
    <3>1. role'[p] # "Follower" =>
            role'[p] = role[p] /\ votes'[p] = votes[p] /\ term'[p] = term[p]
      BY <1>1, <1>2, <1>3 DEF Types
    <3>2. role[p] # "Follower" => \A v \in votes[p] : Voted(v, p, term[p])
      BY <1>7 DEF RaftInv, VotesInv, VotesCounted
    <3>3. role'[p] # "Follower" => \A v \in votes'[p] : Voted(v, p, term[p])'
      BY <1>2, <3>1, <3>2 DEF Voted, Asked, Granted
    <3> QED BY <1>7, <3>1, <3>3 DEF RaftInv, VotesInv, VotesCounted
  <2>6. LogsInv'
    BY <1>1, <1>2, <1>4, <1>5, <1>6, <1>7, NewVoteMessage, LogsKept DEF RaftInv
  <2> QED BY <2>3, <2>4, <2>5, <2>6 DEF VotesInv
<1> QED BY <1>2, <1>5, <1>6, <1>7 DEF StepOK, RaftInv

(* record_vote: the votes counted are of the candidate's own term. *)
LEMMA RecordVoteStep ==
    ASSUME RaftInv, NEW n \in Node, NEW m \in msgs, RecordVote(n, m)
    PROVE  StepOK
<1>1. Types /\ MessageOK(m)
  BY DEF RaftInv, Types
<1>2. PICK vs : vs = IF m.granted THEN votes[n] \cup {m.src} ELSE votes[n]
  OBVIOUS
<1> DEFINE won == Cardinality(vs) >= Quorum
<1>3. /\ m.type = "VoteResponse" /\ m.dst = n /\ m.term = term[n] /\ m.src \in Node
      /\ role[n] = "Candidate"
      /\ votes' = [votes EXCEPT ![n] = vs]
      /\ role' = [role EXCEPT ![n] = IF won THEN "Leader" ELSE role[n]]
      /\ nextIndex' = [nextIndex EXCEPT ![n] =
            IF won THEN [p \in Peers(n) |-> LastIndex(n) + 1] ELSE nextIndex[n]]
      /\ term' = term /\ votedFor' = votedFor /\ log' = log /\ msgs' = msgs
      /\ restarts' = restarts /\ deposed' = deposed
  BY <1>1, <1>2 DEF RecordVote, MessageOK, persistent, bounded, ticks, Types
<1>4. Types'
  <2>1. vs \in SUBSET Node
    BY <1>1, <1>2, <1>3 DEF Types
  <2>2. NextOK([p \in Peers(n) |-> LastIndex(n) + 1])
    BY <1>1 DEF NextOK, LastIndex, Types
  <2>3. DOMAIN nextIndex' = Node /\ \A p \in Node : NextOK(nextIndex'[p])
    BY <1>1, <1>3, <2>2 DEF Types
  <2>4. role' \in [Node -> {"Follower", "Candidate", "Leader"}] /\ votes' \in [Node -> SUBSET Node]
    BY <1>1, <1>3, <2>1 DEF Types
  <2> QED BY <1>1, <1>3, <2>3, <2>4 DEF Types
<1>5. LeadersStay /\ LogsGrow
  BY <1>1, <1>3 DEF Types, LeadersStay, LogsGrow
<1>6. VotesSame /\ NewRequestsLed /\ NoNewEntries /\ VotesGrow
  BY <1>3, NoNewMessage DEF VotesSame, VotesGrow
<1>7. ASSUME restarts = 0 PROVE VotesInv' /\ LogsInv'
  <2>1. VotesRemembered' /\ OneVote'
    BY <1>3, <1>6, <1>7 DEF RaftInv, VotesInv, VotesRemembered, OneVote, VotesSame
  <2>2. \A v \in vs : Voted(v, n, term[n])
    <3>1. \A v \in votes[n] : Voted(v, n, term[n])
      BY <1>3, <1>7 DEF RaftInv, VotesInv, VotesCounted
    <3>2. m.granted = TRUE => Voted(m.src, n, term[n])
      BY <1>3 DEF Voted, Granted
    <3>3. m.granted => m.granted = TRUE
      OBVIOUS
    <3> QED BY <1>2, <3>1, <3>2, <3>3
  <2>3. VotesCounted'
    <3> SUFFICES ASSUME NEW p \in Node
                 PROVE  /\ role'[p] # "Follower" => \A v \in votes'[p] : Voted(v, p, term[p])'
                        /\ role'[p] = "Leader" => Cardinality(votes'[p]) >= Quorum
      BY DEF VotesCounted
    <3>1. CASE p = n
      <4>1. votes'[n] = vs /\ role'[n] = IF won THEN "Leader" ELSE "Candidate"
        BY <1>1, <1>3 DEF Types
      <4>2. \A v \in votes'[n] : Voted(v, n, term[n])'
        BY <1>3, <2>2, <4>1 DEF Voted, Asked, Granted
      <4> QED BY <3>1, <4>1, <4>2
    <3>2. CASE p # n
      <4>1. role'[p] = role[p] /\ votes'[p] = votes[p]
        BY <1>1, <1>3, <3>2 DEF Types
      <4>2. role[p] # "Follower" => \A v \in votes[p] : Voted(v, p, term[p])
        BY <1>7 DEF RaftInv, VotesInv, VotesCounted
      <4>3. role[p] # "Follower" => \A v \in votes'[p] : Voted(v, p, term[p])'
        BY <1>3, <4>1, <4>2 DEF Voted, Asked, Granted
      <4> QED BY <1>7, <4>1, <4>3 DEF RaftInv, VotesInv, VotesCounted
    <3> QED BY <3>1, <3>2
  <2>4. LogsInv'
    BY <1>1, <1>4, <1>5, <1>6, <1>7, LogsKept DEF RaftInv
  <2> QED BY <2>1, <2>3, <2>4 DEF VotesInv
<1> QED BY <1>3, <1>4, <1>5, <1>7 DEF StepOK, RaftInv

(* A reloaded node starts from nothing; the election properties are claimed *)
(* only where there was none.                                               *)
LEMMA RestartStep ==
    ASSUME RaftInv, NEW n \in Node, Restart(n)
    PROVE  StepOK
<1>1. Types
  BY DEF RaftInv
<1>2. restarts' \in Nat /\ restarts' # 0
  BY <1>1 DEF Types, Restart
<1>3. NextOK([p \in Peers(n) |-> 1])
  BY DEF NextOK
<1>4. Types'
  <2>1. DOMAIN nextIndex' = Node /\ \A p \in Node : NextOK(nextIndex'[p])
    BY <1>1, <1>3 DEF Types, Restart
  <2>2. /\ term' \in [Node -> Nat] /\ votedFor' \in [Node -> Node \cup {Nil}]
        /\ log' \in [Node -> Seq(Entry)] /\ votes' \in [Node -> SUBSET Node]
        /\ role' \in [Node -> {"Follower", "Candidate", "Leader"}] /\ msgs' = msgs
    BY <1>1 DEF Types, Restart
  <2> QED BY <1>1, <1>2, <2>1, <2>2 DEF Types
<1> QED BY <1>2, <1>4 DEF StepOK, RaftInv

-----------------------------------------------------------------------------
\* No messages, no entries.
LEMMA InitInv == Init => RaftInv
<1> SUFFICES ASSUME Init PROVE RaftInv
  OBVIOUS
<1>1. Types
  BY DEF Init, Types, NextOK
<1>2. msgs = {} /\ \A n \in Node : role[n] = "Follower" /\ Len(log[n]) = 0
  BY DEF Init
<1>3. \A v, c, t : ~Voted(v, c, t)
  BY <1>2 DEF Voted, Asked, Granted
<1>4. VotesInv
  BY <1>2, <1>3 DEF VotesInv, VotesRemembered, OneVote, VotesCounted
<1>5. \A e : ~IsEntry(e)
  BY <1>2 DEF IsEntry, InLog, InRequest
<1>6. LogsInv
  BY <1>2, <1>5 DEF LogsInv, EntriesMade, OneEntry, RequestsLed
<1> QED BY <1>1, <1>4, <1>6 DEF RaftInv

\* Every step keeps the invariant, and no leader loses an entry.
LEMMA StepInv == ASSUME RaftInv, [Next]_vars PROVE StepOK
<1>1. CASE \E n \in Node : StartElection(n)
  BY <1>1, StartElectionStep
<1>2. ASSUME NEW n \in Node, NEW m \in msgs, Receive(n, m) PROVE StepOK
  BY <1>2, HandleRequestVoteStep, StepDownStep, RecordVoteStep, RejectStaleAppendStep,
     HandleAppendEntriesStep, RecordAppendSuccessStep, RecordAppendFailureStep DEF Receive
<1>3. CASE \E n \in Node, c \in Command : Propose(n, c)
  BY <1>3, ProposeStep
<1>4. CASE \E n, p \in Node, k \in 0 .. MaxLog : SendAppend(n, p, k)
  BY <1>4, SendAppendStep
<1>5. CASE \E n \in Node : ApplyCommitted(n)
  BY <1>5, ApplyCommittedStep
<1>6. CASE \E n, p \in Node : RemovePeer(n, p)
  BY <1>6, RemovePeerStep
<1>7. CASE \E n \in Node : Restart(n)
  BY <1>7, RestartStep
<1>8. CASE UNCHANGED vars
  <2>1. /\ term' = term /\ votedFor' = votedFor /\ log' = log /\ role' = role /\ votes' = votes
        /\ nextIndex' = nextIndex /\ msgs' = msgs /\ restarts' = restarts /\ deposed' = deposed
    BY <1>8 DEF vars
  <2>2. Types /\ Types'
    BY <2>1 DEF RaftInv, Types
  <2>3. NoElection /\ LeadersStay /\ LogsGrow
    BY <2>1, <2>2 DEF NoElection, LeadersStay, LogsGrow, Types
  <2> QED BY <2>1, <2>2, <2>3, NoNewMessage, QuietStep
<1> QED BY <1>1, <1>2, <1>3, <1>4, <1>5, <1>6, <1>7, <1>8 DEF Next

(* The inductive invariant holds in every state. *)
THEOREM Invariance == Spec => []RaftInv
<1>1. RaftInv /\ [Next]_vars => RaftInv'
  BY StepInv DEF StepOK
<1> QED BY <1>1, InitInv, PTL DEF Spec

(* As long as no node was reloaded, no two nodes lead in one term, however  *)
(* requests and responses are lost, repeated or reordered (record_vote,     *)
(* handle_request_vote).                                                    *)
THEOREM ElectionSafe == Spec => []ElectionSafetyUnlessReloaded
<1>1. RaftInv => ElectionSafetyUnlessReloaded
  <2> SUFFICES ASSUME RaftInv, restarts = 0, NEW n \in Node, NEW p \in Node,
                      role[n] = "Leader", role[p] = "Leader", term[n] = term[p]
               PROVE  n = p
    BY DEF ElectionSafetyUnlessReloaded, ElectionSafety
  <2>1. Types /\ VotesInv /\ term[n] \in Nat
    BY DEF RaftInv, Types
  <2>2. Elected(n, term[n]) /\ Elected(p, term[n])
    BY <2>1, LeaderElected DEF VotesInv
  <2> QED BY <2>1, <2>2, ElectedUnique DEF VotesInv
<1> QED BY <1>1, Invariance, PTL

(* As long as no node was reloaded, no slot of a term is given two commands *)
(* in whichever logs (propose, handle_append_entries).                      *)
THEOREM SlotsCorrect == Spec => []OneCommandPerSlot
<1>1. RaftInv => OneCommandPerSlot
  <2> SUFFICES ASSUME RaftInv, restarts = 0, NEW n \in Node, NEW p \in Node,
                      NEW i \in 1 .. Len(log[n]), NEW j \in 1 .. Len(log[p]),
                      log[n][i].index = log[p][j].index, log[n][i].term = log[p][j].term
               PROVE  log[n][i] = log[p][j]
    BY DEF OneCommandPerSlot
  <2>1. log[n][i] \in Entry /\ log[p][j] \in Entry
    BY DEF RaftInv, Types
  <2>2. IsEntry(log[n][i]) /\ IsEntry(log[p][j])
    BY DEF IsEntry, InLog
  <2> QED BY <2>1, <2>2 DEF RaftInv, LogsInv, OneEntry
<1> QED BY <1>1, Invariance, PTL

(* As long as no node was reloaded and no node that led no longer built a   *)
(* request, a leader stays leader and only appends to its log while its     *)
(* term lasts (handle_append_entries, propose).                             *)
THEOREM LeadersAppendOnly == Spec => LeaderAppendOnly
<1> DEFINE Step == \A n \in Node :
         restarts' = 0 /\ ~deposed' /\ role[n] = "Leader" /\ term'[n] = term[n] =>
           /\ role'[n] = "Leader"
           /\ Len(log'[n]) >= Len(log[n]) /\ SubSeq(log'[n], 1, Len(log[n])) = log[n]
<1>1. ASSUME RaftInv, [Next]_vars PROVE Step
  <2>1. StepOK
    BY <1>1, StepInv
  <2> SUFFICES ASSUME NEW n \in Node, restarts' = 0, ~deposed', role[n] = "Leader",
                      term'[n] = term[n]
               PROVE  /\ role'[n] = "Leader"
                      /\ Len(log'[n]) >= Len(log[n]) /\ SubSeq(log'[n], 1, Len(log[n])) = log[n]
    OBVIOUS
  <2>2. log[n] \in Seq(Entry) /\ log'[n] \in Seq(Entry)
    BY <1>1, <2>1 DEF StepOK, RaftInv, Types
  <2>3. /\ role'[n] = "Leader" /\ Len(log'[n]) >= Len(log[n])
        /\ \A i \in 1 .. Len(log[n]) : log'[n][i] = log[n][i]
    BY <2>1 DEF StepOK, LeadersStay
  <2>4. SubSeq(log'[n], 1, Len(log[n])) = log[n]
    BY <2>2, <2>3
  <2> QED BY <2>3, <2>4
<1>2. RaftInv /\ [Next]_vars => [Step]_vars
  BY <1>1
<1> QED BY <1>2, Invariance, PTL DEF Spec, LeaderAppendOnly

-----------------------------------------------------------------------------
(* What is committed is replicated.  The argument is about the set W of the *)
(* logs a leader ever had, and the beginnings of them.  No variable holds   *)
(* it, so the invariant says that there is such a set; only propose adds to *)
(* it.  A log c of W stands for its last entry and all before it.           *)
Live == restarts = 0 /\ removals = 0 /\ ~skewed /\ ~deposed

Begins(a, b) == Len(a) <= Len(b) /\ \A i \in 1 .. Len(a) : a[i] = b[i]
Comparable(a, b) == Begins(a, b) \/ Begins(b, a)
TermOf(c) == c[Len(c)].term
Logs(W) == {c \in W : Len(c) > 0}

\* The beginnings of a log of W are in W; positions count from 1 and terms do not
\* fall; of two logs that end in the same term, one is how the other begins.
Shape(W) ==
    /\ <<>> \in W
    /\ \A l \in W : \A k \in 0 .. Len(l) : SubSeq(l, 1, k) \in W
    /\ \A l \in W : \A i \in 1 .. Len(l) : l[i].index = i
    /\ \A l \in W : \A i, j \in 1 .. Len(l) : i <= j => l[i].term <= l[j].term
    /\ \A c, l \in Logs(W) : TermOf(c) = TermOf(l) => Comparable(c, l)

\* p told the leader of the term of c that it has c, or is that leader.
IsAck(m) == m.type = "AppendResponse" /\ m.success
Acked(p, c) ==
    \/ Elected(p, TermOf(c))
    \/ \E m \in msgs : IsAck(m) /\ m.src = p /\ m.term = TermOf(c) /\ m.match >= Len(c)
\* A majority did; a majority did or still may.
Chosen(c) == \E Q \in SUBSET Node : Cardinality(Q) >= Quorum /\ \A p \in Q : Acked(p, c)
Choosable(c) ==
    \E Q \in SUBSET Node :
      Cardinality(Q) >= Quorum /\ \A p \in Q : term[p] <= TermOf(c) \/ Acked(p, c)

\* The leader of the term of c has c as long as it leads.
Grown(W) ==
    \A c \in Logs(W) : \E p \in Node :
      /\ Elected(p, TermOf(c)) /\ term[p] >= TermOf(c)
      /\ term[p] = TermOf(c) => role[p] = "Leader" /\ Begins(c, log[p])
LogsIn(W) ==
    \A n \in Node : log[n] \in W /\ \A i \in 1 .. Len(log[n]) : log[n][i].term <= term[n]

\* The request m is the end of l, a beginning of its leader's log, and what may
\* still be chosen in a term up to m's does not contradict l.
Carries(m, l, W) ==
    /\ m.prevIndex \in Nat /\ m.entries \in Seq(Entry)
    /\ Len(l) = m.prevIndex + Len(m.entries)
    /\ \A j \in 1 .. Len(m.entries) : m.entries[j] = l[m.prevIndex + j]
    /\ m.prevTerm = TermAt(l, m.prevIndex)
    /\ \A i \in 1 .. Len(l) : l[i].term <= m.term
    /\ term[m.src] >= m.term
    /\ term[m.src] = m.term => role[m.src] = "Leader" /\ Begins(l, log[m.src])
    /\ \A c \in Logs(W) : TermOf(c) <= m.term /\ Choosable(c) => Comparable(c, l)
RequestsCarry(W) == \A m \in msgs : m.type = "AppendEntries" => \E l \in W : Carries(m, l, W)

\* A success goes to the leader of its term, and it is about entries of its log.
AckTrue(m) ==
    /\ m.src # m.dst /\ m.dst \in Node /\ m.match \in Nat
    /\ Elected(m.dst, m.term) /\ term[m.src] >= m.term /\ term[m.dst] >= m.term
    /\ term[m.dst] = m.term => role[m.dst] = "Leader" /\ m.match <= Len(log[m.dst])
AcksTrue == \A m \in msgs : IsAck(m) => AckTrue(m)

\* A vote is asked for with the log the candidate has, and given when asked for.
VoteRequestsTrue ==
    \A m \in msgs :
      m.type = "RequestVote" /\ role[m.src] = "Candidate" /\ m.term = term[m.src] =>
        m.lastIndex = LastIndex(m.src) /\ m.lastTerm = LastTerm(m.src)
GrantedAsked == \A v, c \in Node, t \in Nat : Granted(v, c, t) => Asked(c, t)

\* As long as c may be chosen, those who said they have it do, every log that
\* ends in a later term begins with it, and so do the logs of the candidates
\* they vote for and of the leaders of later terms.
AckedHave(W) ==
    \A c \in Logs(W), p \in Node : Choosable(c) /\ Acked(p, c) => Begins(c, log[p])
LaterHave(W) ==
    \A c, l \in Logs(W) : Choosable(c) /\ TermOf(l) > TermOf(c) => Begins(c, l)
CandidatesHave(W) ==
    \A c \in Logs(W), v, n \in Node :
      role[n] = "Candidate" /\ Voted(v, n, term[n]) /\ term[n] > TermOf(c) /\ Choosable(c)
        /\ Acked(v, c) => Begins(c, log[n])
LeadersHave(W) ==
    \A c \in Logs(W), n \in Node :
      role[n] = "Leader" /\ term[n] > TermOf(c) /\ Choosable(c) => Begins(c, log[n])

\* A leader counts what it was told in its term.
Told(n, p, k) ==
    \E m \in msgs : IsAck(m) /\ m.src = p /\ m.dst = n /\ m.term = term[n] /\ m.match = k
Matches ==
    /\ DOMAIN matchIndex = Node
    /\ \A n \in Node :
         /\ matchIndex[n] \in [Peers(n) -> Nat]
         /\ role[n] = "Leader" =>
              \A p \in Peers(n) : matchIndex[n][p] = 0 \/ Told(n, p, matchIndex[n][p])

\* What is committed is the beginning of a chosen log.
CommitOK(n, k, W) ==
    k > 0 =>
      \E c \in Logs(W) :
        /\ Chosen(c) /\ TermOf(c) <= term[n] /\ k <= Len(c) /\ k <= Len(log[n])
        /\ \A i \in 1 .. k : c[i] = log[n][i]
Commits(W) == commitIndex \in [Node -> Nat] /\ \A n \in Node : CommitOK(n, commitIndex[n], W)
RequestCommits(W) ==
    \A m \in msgs :
      m.type = "AppendEntries" =>
        /\ m.commit \in Nat
        /\ m.commit > 0 =>
             \E c \in Logs(W) : Chosen(c) /\ TermOf(c) <= m.term /\ m.commit <= Len(c)

\* The inductive invariant.
MessagesTrue(W) == RequestsCarry(W) /\ AcksTrue /\ VoteRequestsTrue /\ GrantedAsked
Complete(W) == AckedHave(W) /\ LaterHave(W) /\ CandidatesHave(W) /\ LeadersHave(W)
Committed(W) == Matches /\ Commits(W) /\ RequestCommits(W)
History(W) ==
    W \in SUBSET Seq(Entry) /\ Shape(W) /\ Grown(W) /\ LogsIn(W) /\ MessagesTrue(W)
      /\ Complete(W) /\ Committed(W)
SafeInv == Live => \E W : History(W)

-----------------------------------------------------------------------------
(* Logs of W. *)

\* A log that begins with another ends in no earlier term.
LEMMA BeginsTerm ==
    ASSUME NEW W \in SUBSET Seq(Entry), Shape(W), NEW c \in Logs(W), NEW l \in W, Begins(c, l)
    PROVE  l \in Logs(W) /\ TermOf(c) <= TermOf(l)
<1>1. c \in Seq(Entry) /\ l \in Seq(Entry) /\ Len(c) \in Nat /\ Len(l) \in Nat /\ Len(c) > 0
  BY DEF Logs
<1>2. Len(c) \in 1 .. Len(l) /\ Len(l) \in 1 .. Len(l) /\ Len(c) <= Len(l) /\ c[Len(c)] = l[Len(c)]
  BY <1>1 DEF Begins
<1>3. l[Len(c)].term <= l[Len(l)].term
  BY <1>2 DEF Shape
<1> QED BY <1>1, <1>2, <1>3 DEF Logs, TermOf

\* Beginnings of one log are comparable, and beginning with is transitive.
LEMMA BeginsOf ==
    ASSUME NEW a \in Seq(Entry), NEW b \in Seq(Entry), NEW l \in Seq(Entry),
           Begins(a, l), Begins(b, l)
    PROVE  Comparable(a, b)
BY DEF Begins, Comparable

\* Beginning with is transitive.
LEMMA BeginsTrans ==
    ASSUME NEW a \in Seq(Entry), NEW b \in Seq(Entry), NEW l \in Seq(Entry),
           Begins(a, b), Begins(b, l)
    PROVE  Begins(a, l)
BY DEF Begins

\* The first k entries of a log.
LEMMA FirstOf ==
    ASSUME NEW l \in Seq(Entry), NEW k \in 0 .. Len(l)
    PROVE  /\ SubSeq(l, 1, k) \in Seq(Entry) /\ Len(SubSeq(l, 1, k)) = k
           /\ \A i \in 1 .. k : SubSeq(l, 1, k)[i] = l[i]
           /\ Begins(SubSeq(l, 1, k), l)
<1>1. Len(l) \in Nat /\ k \in Nat /\ k <= Len(l)
  OBVIOUS
<1>2. /\ SubSeq(l, 1, k) \in Seq(Entry) /\ Len(SubSeq(l, 1, k)) = k
      /\ \A i \in 1 .. k : SubSeq(l, 1, k)[i] = l[i]
  BY <1>1
<1> QED BY <1>1, <1>2 DEF Begins

\* Logs that have the same term at one position agree up to it.
LEMMA LogMatching ==
    ASSUME NEW W \in SUBSET Seq(Entry), Shape(W), NEW a \in W, NEW b \in W,
           NEW i \in Nat \ {0}, i <= Len(a), i <= Len(b), a[i].term = b[i].term
    PROVE  \A j \in 1 .. i : a[j] = b[j]
<1>1. a \in Seq(Entry) /\ b \in Seq(Entry) /\ i \in 0 .. Len(a) /\ i \in 0 .. Len(b)
  OBVIOUS
<1>2. PICK c : c = SubSeq(a, 1, i)
  OBVIOUS
<1>3. PICK d : d = SubSeq(b, 1, i)
  OBVIOUS
<1>4. c \in W /\ d \in W
  BY <1>1, <1>2, <1>3 DEF Shape
<1>5. Len(c) = i /\ Len(d) = i /\ \A j \in 1 .. i : c[j] = a[j] /\ d[j] = b[j]
  BY <1>1, <1>2, <1>3, FirstOf
<1>6. c \in Logs(W) /\ d \in Logs(W) /\ TermOf(c) = TermOf(d)
  BY <1>4, <1>5 DEF Logs, TermOf
<1>7. Comparable(c, d)
  BY <1>6 DEF Shape
<1> QED BY <1>5, <1>7 DEF Comparable, Begins

\* Putting in one entry, the one at position k of l: the log stays what it is
\* when it agrees with l so far, and is l up to k otherwise.
LEMMA PutEntryOf ==
    ASSUME NEW W \in SUBSET Seq(Entry), Shape(W), NEW l0 \in W, NEW l \in W,
           NEW k \in 1 .. Len(l), NEW s \in Seq(Entry),
           s = IF Begins(SubSeq(l, 1, k - 1), l0) THEN l0 ELSE SubSeq(l, 1, k - 1)
    PROVE  PutEntry(s, l[k]) = IF Begins(SubSeq(l, 1, k), l0) THEN l0 ELSE SubSeq(l, 1, k)
<1>1. /\ l \in Seq(Entry) /\ l0 \in Seq(Entry) /\ k \in Nat \ {0} /\ k - 1 \in 0 .. Len(l)
      /\ k \in 0 .. Len(l) /\ Len(l) \in Nat /\ Len(l0) \in Nat /\ l[k] \in Entry
  OBVIOUS
<1>2. PICK a : a = SubSeq(l, 1, k - 1)
  OBVIOUS
<1>3. PICK b : b = SubSeq(l, 1, k)
  OBVIOUS
<1>4. a \in Seq(Entry) /\ Len(a) = k - 1 /\ \A i \in 1 .. k - 1 : a[i] = l[i]
  BY <1>1, <1>2, FirstOf
<1>5. b \in Seq(Entry) /\ Len(b) = k /\ \A i \in 1 .. k : b[i] = l[i]
  BY <1>1, <1>3, FirstOf
<1>6. l[k].index = k
  BY <1>1 DEF Shape
<1>7. \A r \in Seq(Entry) :
        Len(r) = k - 1 /\ (\A i \in 1 .. k - 1 : r[i] = l[i]) => Append(r, l[k]) = b
  BY <1>1, <1>5
<1>8. CASE Begins(a, l0)
  <2>1. s = l0 /\ k - 1 <= Len(l0) /\ \A i \in 1 .. k - 1 : l0[i] = l[i]
    BY <1>2, <1>4, <1>8 DEF Begins
  <2>2. CASE k > Len(l0)
    <3>1. Len(l0) = k - 1 /\ ~Begins(b, l0)
      BY <1>1, <1>5, <2>1, <2>2 DEF Begins
    <3> QED BY <1>1, <1>3, <1>6, <1>7, <2>1, <2>2, <3>1 DEF PutEntry
  <2>3. CASE k <= Len(l0) /\ l0[k].term # l[k].term
    <3>1. ~Begins(b, l0)
      BY <1>1, <1>5, <2>3 DEF Begins
    <3>2. /\ SubSeq(l0, 1, k - 1) \in Seq(Entry) /\ Len(SubSeq(l0, 1, k - 1)) = k - 1
          /\ \A i \in 1 .. k - 1 : SubSeq(l0, 1, k - 1)[i] = l0[i]
      BY <1>1, <2>3, FirstOf
    <3>3. Append(SubSeq(l0, 1, k - 1), l[k]) = b
      BY <1>7, <2>1, <3>2
    <3>4. TermAt(s, k) # l[k].term /\ ~(k > Len(s))
      BY <1>1, <2>1, <2>3 DEF TermAt
    <3> QED BY <1>3, <1>6, <2>1, <3>1, <3>3, <3>4 DEF PutEntry
  <2>4. CASE k <= Len(l0) /\ l0[k].term = l[k].term
    <3>1. \A j \in 1 .. k : l0[j] = l[j]
      BY <1>1, <2>4, LogMatching
    <3>2. Begins(b, l0)
      BY <1>1, <1>5, <2>4, <3>1 DEF Begins
    <3>3. TermAt(s, k) = l[k].term /\ ~(k > Len(s))
      BY <1>1, <2>1, <2>4 DEF TermAt
    <3> QED BY <1>3, <1>6, <2>1, <3>2, <3>3 DEF PutEntry
  <2> QED BY <1>1, <2>2, <2>3, <2>4
<1>9. CASE ~Begins(a, l0)
  <2>1. s = a /\ k > Len(s)
    BY <1>1, <1>2, <1>4, <1>9
  <2>2. ASSUME Begins(b, l0) PROVE FALSE
    <3>1. k <= Len(l0) /\ \A i \in 1 .. k : b[i] = l0[i]
      BY <1>5, <2>2 DEF Begins
    <3>2. \A i \in 1 .. k - 1 : a[i] = l0[i]
      BY <1>1, <1>4, <1>5, <3>1
    <3> QED BY <1>1, <1>4, <1>9, <3>1, <3>2 DEF Begins
  <2>3. PutEntry(s, l[k]) = Append(a, l[k])
    BY <1>6, <2>1 DEF PutEntry
  <2> QED BY <1>3, <1>4, <1>7, <2>2, <2>3
<1> QED BY <1>8, <1>9

(* handle_append_entries leaves the log as it is when it begins with what   *)
(* the request carries, and replaces it by that otherwise.                  *)
LEMMA PutAllOf ==
    ASSUME NEW W \in SUBSET Seq(Entry), Shape(W), NEW l0 \in W, NEW l \in W,
           NEW prev \in Nat, NEW es \in Seq(Entry),
           Len(l) = prev + Len(es), \A j \in 1 .. Len(es) : es[j] = l[prev + j],
           prev = 0 \/ (prev <= Len(l0) /\ l0[prev].term = l[prev].term)
    PROVE  /\ Begins(l, l0) => PutAll(l0, es) = l0
           /\ ~Begins(l, l0) => PutAll(l0, es) = l
<1>1. l \in Seq(Entry) /\ l0 \in Seq(Entry) /\ Len(l) \in Nat /\ Len(l0) \in Nat /\ Len(es) \in Nat
  OBVIOUS
<1>2. PICK f : /\ \A k \in 0 .. Len(es) : f[k] \in Seq(Entry)
               /\ f[0] = l0 /\ PutAll(l0, es) = f[Len(es)]
               /\ \A k \in 1 .. Len(es) : f[k] = PutEntry(f[k - 1], es[k])
  <2>1. Entry \in SUBSET Entry
    OBVIOUS
  <2> QED BY <1>1, <2>1, PutAllSteps
<1> DEFINE At(k) == IF Begins(SubSeq(l, 1, k), l0) THEN l0 ELSE SubSeq(l, 1, k)
           Good == {k \in Nat : k <= Len(es) => f[k] = At(prev + k)}
<1>3. 0 \in Good
  <2>1. prev \in 0 .. Len(l)
    BY <1>1
  <2>2. prev <= Len(l0) /\ \A i \in 1 .. prev : l0[i] = l[i]
    <3>1. CASE prev = 0
      BY <1>1, <3>1
    <3>2. CASE prev # 0
      <4>1. /\ prev \in Nat \ {0} /\ prev <= Len(l0) /\ prev <= Len(l)
            /\ l0[prev].term = l[prev].term
        BY <1>1, <3>2
      <4> QED BY <4>1, LogMatching
    <3> QED BY <3>1, <3>2
  <2>3. Begins(SubSeq(l, 1, prev), l0)
    BY <1>1, <2>1, <2>2, FirstOf DEF Begins
  <2> QED BY <1>2, <2>3
<1>4. ASSUME NEW k \in Nat, k \in Good PROVE k + 1 \in Good
  <2> SUFFICES ASSUME k + 1 <= Len(es) PROVE f[k + 1] = At(prev + (k + 1))
    OBVIOUS
  <2>1. f[k] = At(prev + k) /\ f[k] \in Seq(Entry)
    BY <1>1, <1>2, <1>4
  <2>2. f[k + 1] = PutEntry(f[k], es[k + 1]) /\ es[k + 1] = l[prev + (k + 1)]
    BY <1>1, <1>2
  <2>3. PICK i : i = prev + (k + 1)
    OBVIOUS
  <2>4. i \in 1 .. Len(l) /\ i - 1 = prev + k
    <3>1. /\ prev \in Nat /\ k \in Nat /\ Len(es) \in Nat /\ Len(l) = prev + Len(es)
          /\ k + 1 <= Len(es)
      BY <1>1
    <3> QED BY ONLY <2>3, <3>1
  <2>5. f[k] = At(i - 1)
    BY <2>1, <2>4
  <2>6. PutEntry(f[k], l[i]) = At(i)
    BY <2>1, <2>4, <2>5, PutEntryOf
  <2> QED BY <2>2, <2>3, <2>6
<1> HIDE DEF Good
<1>5. Len(es) \in Good
  BY <1>1, <1>3, <1>4, Induct
<1>6. f[Len(es)] = At(Len(l))
  BY <1>1, <1>5 DEF Good
<1>7. SubSeq(l, 1, Len(l)) = l
  BY <1>1
<1> QED BY <1>2, <1>6, <1>7

-----------------------------------------------------------------------------
(* What a step keeps. *)
Steady == Types /\ Types' /\ OneVote /\ OneVote' /\ LeadersStay /\ msgs \subseteq msgs'
\* A new success is of a node that had seen no later term.
AcksLate == \A m \in msgs' \ msgs : IsAck(m) => term[m.src] <= m.term
NoNewAcks == \A m \in msgs' \ msgs : ~IsAck(m)

\* Terms of logs are numbers.
LEMMA TermOfType ==
    ASSUME NEW W \in SUBSET Seq(Entry), NEW c \in Logs(W)
    PROVE  c \in W /\ c \in Seq(Entry) /\ Len(c) \in Nat \ {0} /\ TermOf(c) \in Nat
<1>1. c \in W /\ c \in Seq(Entry) /\ Len(c) \in Nat \ {0}
  BY DEF Logs
<1>2. c[Len(c)] \in Entry
  BY <1>1
<1> QED BY <1>1, <1>2 DEF TermOf, Entry

\* Two majorities share a node.
LEMMA MajoritiesMeet ==
    ASSUME NEW Q \in SUBSET Node, NEW P \in SUBSET Node,
           Cardinality(Q) >= Quorum, Cardinality(P) >= Quorum
    PROVE  \E p \in Node : p \in Q /\ p \in P
<1>1. Cardinality(Node) \in Nat /\ IsFiniteSet(Node)
  BY RaftAssumptions, FS_CardinalityType
<1>2. Cardinality(Q) \in Nat /\ Cardinality(P) \in Nat
  BY <1>1, FS_Subset, FS_CardinalityType
<1>3. Cardinality(Q) + Cardinality(P) > Cardinality(Node)
  BY <1>1, <1>2 DEF Quorum
<1>4. Q \cap P # {}
  BY <1>1, <1>3, FS_MajoritiesIntersect
<1> QED BY <1>4

\* One node is elected in a term, before a step and after it.
OneElected == \A c, d \in Node, t \in Nat : Elected(c, t) /\ Elected(d, t) => c = d
LEMMA ElectedOnce == OneVote => OneElected
BY ElectedUnique DEF OneElected

\* Votes are messages.
LEMMA SteadyVotes ==
    ASSUME Steady
    PROVE  VotesGrow /\ OneElected /\ OneElected'
<1>1. VotesGrow
  BY DEF Steady, VotesGrow, Voted, Asked, Granted
<1>2. OneVote' => OneElected'
  BY ElectedOnce, PTL
<1> QED BY <1>1, <1>2, ElectedOnce DEF Steady

\* Who is elected in the term of a log of W was elected before.
LEMMA ElectedBefore ==
    ASSUME Steady, NEW W \in SUBSET Seq(Entry), Grown(W), NEW c \in Logs(W), NEW p \in Node,
           Elected(p, TermOf(c))'
    PROVE  Elected(p, TermOf(c))
<1>1. TermOf(c) \in Nat
  BY TermOfType
<1>2. PICK q \in Node : Elected(q, TermOf(c))
  BY DEF Grown
<1>3. Elected(q, TermOf(c))'
  BY <1>1, <1>2, SteadyVotes, ElectedGrows
<1>4. p = q
  BY <1>1, <1>3, SteadyVotes DEF OneElected, TermOf
<1> QED BY <1>2, <1>4

\* Who says for the first time that it has c does so now.
LEMMA NewlyAcked ==
    ASSUME Steady, NEW W \in SUBSET Seq(Entry), Grown(W), NEW c \in Logs(W), NEW p \in Node,
           Acked(p, c)', ~Acked(p, c)
    PROVE  \E m \in msgs' \ msgs :
             IsAck(m) /\ m.src = p /\ m.term = TermOf(c) /\ m.match >= Len(c)
<1>1. ~Elected(p, TermOf(c))'
  BY ElectedBefore DEF Acked
<1>2. \E m \in msgs' : IsAck(m) /\ m.src = p /\ m.term = TermOf(c) /\ m.match >= Len(c)
  BY <1>1 DEF Acked, TermOf, IsAck, Elected
<1> QED BY <1>2 DEF Acked

\* What is said stays said.
LEMMA StillAcked ==
    ASSUME Steady, NEW W \in SUBSET Seq(Entry), NEW c \in Logs(W), NEW p \in Node, Acked(p, c)
    PROVE  Acked(p, c)'
<1>1. TermOf(c) \in Nat
  BY TermOfType
<1>2. CASE Elected(p, TermOf(c))
  <2>1. Elected(p, TermOf(c))'
    BY <1>1, <1>2, SteadyVotes, ElectedGrows
  <2> QED BY <2>1 DEF Acked, TermOf
<1>3. CASE ~Elected(p, TermOf(c))
  BY <1>3 DEF Acked, Steady, TermOf, IsAck
<1> QED BY <1>2, <1>3

\* What is chosen stays chosen.
LEMMA StillChosen ==
    ASSUME Steady, NEW W \in SUBSET Seq(Entry), NEW c \in Logs(W), Chosen(c)
    PROVE  Chosen(c)'
<1>1. PICK Q \in SUBSET Node : Cardinality(Q) >= Quorum /\ \A p \in Q : Acked(p, c)
  BY DEF Chosen
<1>2. \A p \in Q : Acked(p, c)'
  BY <1>1, StillAcked
<1> QED BY <1>1, <1>2 DEF Chosen

\* What is chosen may be chosen.
LEMMA ChosenChoosable ==
    ASSUME NEW c, Chosen(c)
    PROVE  Choosable(c)
BY DEF Chosen, Choosable

\* What may be chosen could be chosen before.
LEMMA WasChoosable ==
    ASSUME Steady, AcksLate, NEW W \in SUBSET Seq(Entry), Grown(W), NEW c \in Logs(W),
           Choosable(c)'
    PROVE  Choosable(c)
<1>1. TermOf(c) \in Nat
  BY TermOfType
<1>2. PICK Q \in SUBSET Node :
        Cardinality(Q) >= Quorum /\ \A p \in Q : term'[p] <= TermOf(c) \/ Acked(p, c)'
  BY DEF Choosable, TermOf
<1>3. ASSUME NEW p \in Q PROVE term[p] <= TermOf(c) \/ Acked(p, c)
  <2>1. p \in Node /\ term[p] \in Nat /\ term'[p] \in Nat /\ term[p] <= term'[p]
    BY DEF Steady, Types, LeadersStay
  <2>2. CASE term'[p] <= TermOf(c)
    BY <1>1, <2>1, <2>2
  <2>3. CASE Acked(p, c)' /\ ~Acked(p, c)
    BY <2>1, <2>3, NewlyAcked DEF AcksLate
  <2> QED BY <1>2, <2>2, <2>3
<1> QED BY <1>2, <1>3 DEF Choosable

\* The leader of the term of a log of W keeps it.
LEMMA GrownKept ==
    ASSUME Steady, NEW W \in SUBSET Seq(Entry), Grown(W)
    PROVE  Grown(W)'
<1> SUFFICES ASSUME NEW c \in Logs(W)
             PROVE  \E p \in Node :
                      /\ Elected(p, TermOf(c))' /\ term'[p] >= TermOf(c)
                      /\ term'[p] = TermOf(c) => role'[p] = "Leader" /\ Begins(c, log'[p])
  BY DEF Grown, TermOf, Begins, Logs
<1>1. TermOf(c) \in Nat /\ c \in Seq(Entry) /\ Len(c) \in Nat
  BY TermOfType
<1>2. PICK p \in Node :
        /\ Elected(p, TermOf(c)) /\ term[p] >= TermOf(c)
        /\ term[p] = TermOf(c) => role[p] = "Leader" /\ Begins(c, log[p])
  BY DEF Grown
<1>3. Elected(p, TermOf(c))'
  BY <1>1, <1>2, SteadyVotes, ElectedGrows
<1>4. /\ term[p] \in Nat /\ term'[p] \in Nat /\ term[p] <= term'[p]
      /\ Len(log[p]) \in Nat /\ Len(log'[p]) \in Nat
  BY DEF Steady, Types, LeadersStay
<1>5. ASSUME term'[p] = TermOf(c) PROVE role'[p] = "Leader" /\ Begins(c, log'[p])
  <2>1. term[p] = TermOf(c) /\ role[p] = "Leader" /\ Begins(c, log[p])
    BY <1>1, <1>2, <1>4, <1>5
  <2>2. /\ role'[p] = "Leader" /\ Len(log'[p]) >= Len(log[p])
        /\ \A i \in 1 .. Len(log[p]) : log'[p][i] = log[p][i]
    BY <1>5, <2>1 DEF Steady, LeadersStay
  <2> QED BY <1>1, <1>4, <2>1, <2>2 DEF Begins
<1> QED BY <1>1, <1>2, <1>3, <1>4, <1>5

\* A log that ends in a later term begins with what may still be chosen.
LEMMA LaterKept ==
    ASSUME Steady, AcksLate, NEW W \in SUBSET Seq(Entry), Grown(W), LaterHave(W)
    PROVE  LaterHave(W)'
BY WasChoosable DEF LaterHave, Logs, TermOf, Begins

\* A request carries what it carried.
LEMMA CarriesKept ==
    ASSUME Steady, AcksLate, NEW W \in SUBSET Seq(Entry), Grown(W),
           NEW m \in msgs, NEW l \in W, Carries(m, l, W)
    PROVE  Carries(m, l, W)'
<1>1. m.src \in Node /\ m.term \in Nat /\ l \in Seq(Entry) /\ Len(l) \in Nat
  BY DEF Steady, Types, MessageOK
<1>2. PICK p \in Node : p = m.src
  BY <1>1
<1>3. PICK t \in Nat : t = m.term
  BY <1>1
<1>4. /\ term[p] \in Nat /\ term'[p] \in Nat /\ term[p] <= term'[p] /\ term[p] >= t
      /\ Len(log[p]) \in Nat /\ Len(log'[p]) \in Nat
  BY <1>2, <1>3 DEF Steady, Types, LeadersStay, Carries
<1>5. ASSUME term'[p] = t PROVE role'[p] = "Leader" /\ Begins(l, log'[p])
  <2>1. term[p] = t /\ role[p] = "Leader" /\ Begins(l, log[p])
    BY <1>2, <1>3, <1>4, <1>5 DEF Carries
  <2>2. /\ role'[p] = "Leader" /\ Len(log'[p]) >= Len(log[p])
        /\ \A i \in 1 .. Len(log[p]) : log'[p][i] = log[p][i]
    BY <1>5, <2>1 DEF Steady, LeadersStay
  <2> QED BY <1>1, <1>4, <2>1, <2>2 DEF Begins
<1>6. term'[p] >= t
  BY <1>4
<1>7. \A c \in Logs(W) : TermOf(c) <= m.term /\ Choosable(c)' => Comparable(c, l)
  BY WasChoosable DEF Carries
<1>8. /\ term'[m.src] >= m.term
      /\ term'[m.src] = m.term => role'[m.src] = "Leader" /\ Begins(l, log'[m.src])
  BY <1>2, <1>3, <1>5, <1>6
<1>9. Carries(m, l, W)' <=>
        /\ m.prevIndex \in Nat /\ m.entries \in Seq(Entry)
        /\ Len(l) = m.prevIndex + Len(m.entries)
        /\ \A j \in 1 .. Len(m.entries) : m.entries[j] = l[m.prevIndex + j]
        /\ m.prevTerm = TermAt(l, m.prevIndex)
        /\ \A i \in 1 .. Len(l) : l[i].term <= m.term
        /\ term'[m.src] >= m.term
        /\ term'[m.src] = m.term => role'[m.src] = "Leader" /\ Begins(l, log'[m.src])
        /\ \A c \in Logs(W) : TermOf(c) <= m.term /\ Choosable(c)' => Comparable(c, l)
  BY Zenon DEF Carries, Begins, Comparable, TermOf, Logs, TermAt
<1> QED BY <1>7, <1>8, <1>9 DEF Carries

\* A success told is still true.
LEMMA AckKept ==
    ASSUME Steady, NEW m \in msgs, AckTrue(m)
    PROVE  AckTrue(m)'
<1>1. m.src \in Node /\ m.dst \in Node /\ m.term \in Nat /\ m.match \in Nat
  BY DEF Steady, Types, MessageOK, AckTrue
<1>2. PICK p \in Node : p = m.dst
  BY <1>1
<1>3. PICK t \in Nat : t = m.term
  BY <1>1
<1>4. PICK q \in Node : q = m.src
  BY <1>1
<1>5. /\ term[p] \in Nat /\ term'[p] \in Nat /\ term[p] <= term'[p] /\ term[p] >= t
      /\ Len(log[p]) \in Nat /\ Len(log'[p]) \in Nat
      /\ term[q] \in Nat /\ term'[q] \in Nat /\ term[q] <= term'[q] /\ term[q] >= t
  BY <1>2, <1>3, <1>4 DEF Steady, Types, LeadersStay, AckTrue
<1>6. Elected(p, t)'
  <2>1. Elected(p, t)
    BY <1>2, <1>3 DEF AckTrue
  <2> QED BY <2>1, SteadyVotes, ElectedGrows
<1>7. term'[p] >= t /\ term'[q] >= t
  BY <1>5
<1>8. ASSUME term'[p] = t PROVE role'[p] = "Leader" /\ m.match <= Len(log'[p])
  <2>1. term[p] = t /\ role[p] = "Leader" /\ m.match <= Len(log[p])
    BY <1>2, <1>3, <1>5, <1>8 DEF AckTrue
  <2>2. role'[p] = "Leader" /\ Len(log'[p]) >= Len(log[p])
    BY <1>8, <2>1 DEF Steady, LeadersStay
  <2> QED BY <1>1, <1>5, <2>1, <2>2
<1>9. m.src # m.dst
  BY DEF AckTrue
<1> QED BY <1>1, <1>2, <1>3, <1>4, <1>6, <1>7, <1>8, <1>9 DEF AckTrue

-----------------------------------------------------------------------------
(* Steps that change no log and report no success. *)
Known(W) == W \in SUBSET Seq(Entry) /\ Shape(W)
Idle == Steady /\ log' = log /\ NoNewAcks
NoNewVotes == \A m \in msgs' \ msgs : m.type \in {"AppendEntries", "AppendResponse"}
RequestOK(m, W) ==
    /\ \E l \in W : Carries(m, l, W)
    /\ m.commit \in Nat
    /\ m.commit > 0 =>
         \E c \in Logs(W) : Chosen(c) /\ TermOf(c) <= m.term /\ m.commit <= Len(c)
NewRequestsOK(W) == \A m \in msgs' \ msgs : m.type = "AppendEntries" => RequestOK(m, W)'

\* Nobody says anything new.
LEMMA IdleAcked ==
    ASSUME Idle, NEW W, Known(W), Grown(W), NEW c \in Logs(W)
    PROVE  /\ \A p \in Node : Acked(p, c)' => Acked(p, c)
           /\ Choosable(c)' => Choosable(c)
<1>1. AcksLate
  BY DEF Idle, NoNewAcks, AcksLate
<1>2. Choosable(c)' => Choosable(c)
  BY <1>1, WasChoosable DEF Idle, Known
<1>3. \A p \in Node : Acked(p, c)' => Acked(p, c)
  BY NewlyAcked DEF Idle, Known, NoNewAcks
<1> QED BY <1>2, <1>3

\* Logs, the leaders' entries, and those who have what they said they have.
LEMMA IdleLogs ==
    ASSUME Idle, NEW W, Known(W), Grown(W), LogsIn(W), AcksTrue, AckedHave(W), LaterHave(W)
    PROVE  Grown(W)' /\ LogsIn(W)' /\ AcksTrue' /\ AckedHave(W)' /\ LaterHave(W)'
<1>1. Steady /\ AcksLate /\ W \in SUBSET Seq(Entry)
  BY DEF Idle, NoNewAcks, AcksLate, Known
<1>2. Grown(W)' /\ LaterHave(W)'
  BY <1>1, GrownKept, LaterKept
<1>3. LogsIn(W)'
  <2> SUFFICES ASSUME NEW n \in Node
               PROVE  log[n] \in W /\ \A i \in 1 .. Len(log[n]) : log[n][i].term <= term'[n]
    BY DEF LogsIn, Idle
  <2>1. term[n] \in Nat /\ term'[n] \in Nat /\ term[n] <= term'[n] /\ log[n] \in Seq(Entry)
    BY <1>1 DEF Steady, Types, LeadersStay
  <2>2. ASSUME NEW i \in 1 .. Len(log[n]) PROVE log[n][i].term <= term'[n]
    <3>1. log[n][i] \in Entry
      BY <2>1
    <3>2. log[n][i].term \in Nat
      BY <3>1 DEF Entry
    <3>3. log[n][i].term <= term[n]
      BY DEF LogsIn
    <3> QED BY <2>1, <3>2, <3>3
  <2> QED BY <2>2 DEF LogsIn
<1>4. AcksTrue'
  <2>1. \A m \in msgs' : IsAck(m) => m \in msgs
    BY DEF Idle, NoNewAcks
  <2>2. \A m \in msgs : IsAck(m) => AckTrue(m)'
    BY <1>1, AckKept DEF AcksTrue
  <2> QED BY <2>1, <2>2 DEF AcksTrue, IsAck
<1>5. AckedHave(W)'
  <2> SUFFICES ASSUME NEW c \in Logs(W), NEW p \in Node, Choosable(c)', Acked(p, c)'
               PROVE  Begins(c, log'[p])
    BY DEF AckedHave, Logs, Begins
  <2>1. Choosable(c) /\ Acked(p, c)
    BY IdleAcked
  <2> QED BY <2>1 DEF AckedHave, Idle
<1> QED BY <1>2, <1>3, <1>4, <1>5

\* Requests, old and new.
LEMMA RequestsKept ==
    ASSUME Steady, AcksLate, NEW W, Known(W), Grown(W), RequestsCarry(W), RequestCommits(W),
           NewRequestsOK(W)
    PROVE  RequestsCarry(W)' /\ RequestCommits(W)'
<1>1. W \in SUBSET Seq(Entry)
  BY DEF Known
<1> SUFFICES ASSUME NEW m \in msgs', m.type = "AppendEntries" PROVE RequestOK(m, W)'
  BY DEF RequestsCarry, RequestCommits, RequestOK
<1>2. CASE m \in msgs
  <2>1. PICK l \in W : Carries(m, l, W)
    BY <1>2 DEF RequestsCarry
  <2>2. Carries(m, l, W)'
    BY <1>1, <1>2, <2>1, CarriesKept
  <2>3. m.commit \in Nat
    BY <1>2 DEF RequestCommits
  <2>4. ASSUME m.commit > 0
        PROVE  \E c \in Logs(W) : Chosen(c)' /\ TermOf(c) <= m.term /\ m.commit <= Len(c)
    <3>1. PICK c \in Logs(W) : Chosen(c) /\ TermOf(c) <= m.term /\ m.commit <= Len(c)
      BY <1>2, <2>4 DEF RequestCommits
    <3>2. Chosen(c)'
      BY <1>1, <3>1, StillChosen
    <3> QED BY <3>1, <3>2
  <2> QED BY <2>2, <2>3, <2>4 DEF RequestOK, Logs, TermOf
<1>3. CASE m \notin msgs
  BY <1>3 DEF NewRequestsOK
<1> QED BY <1>2, <1>3

\* Leaders that led in the same term before.
NoNewLeaders ==
    \A n \in Node : role'[n] = "Leader" => role[n] = "Leader" /\ term'[n] = term[n]
LEMMA IdleLeaders ==
    ASSUME Idle, NoNewLeaders, NEW W, Known(W), Grown(W), LeadersHave(W)
    PROVE  LeadersHave(W)'
<1> SUFFICES ASSUME NEW c \in Logs(W), NEW n \in Node, role'[n] = "Leader",
                    term'[n] > TermOf(c), Choosable(c)'
             PROVE  Begins(c, log'[n])
  BY DEF LeadersHave, Logs, Begins, TermOf
<1>1. role[n] = "Leader" /\ term'[n] = term[n]
  BY DEF NoNewLeaders
<1> QED BY <1>1, IdleAcked DEF LeadersHave, Idle

\* Candidates, leaders and their votes when nobody votes or is elected.
LEMMA IdleElections ==
    ASSUME Idle, NoElection, NoNewVotes, NEW W, Known(W), Grown(W), VoteRequestsTrue,
           GrantedAsked, CandidatesHave(W), LeadersHave(W)
    PROVE  VoteRequestsTrue' /\ GrantedAsked' /\ CandidatesHave(W)' /\ LeadersHave(W)'
<1>1. Steady /\ log' = log /\ msgs \subseteq msgs' /\ Types /\ Types'
  BY DEF Idle, Steady
<1>2. \A v, c, t : (Voted(v, c, t)' <=> Voted(v, c, t)) /\ (Granted(v, c, t)' <=> Granted(v, c, t))
                     /\ (Asked(c, t)' <=> Asked(c, t))
  BY <1>1 DEF NoNewVotes, Voted, Granted, Asked
<1>3. VoteRequestsTrue'
  <2> SUFFICES ASSUME NEW m \in msgs', m.type = "RequestVote", role'[m.src] = "Candidate",
                      m.term = term'[m.src]
               PROVE  m.lastIndex = LastIndex(m.src)' /\ m.lastTerm = LastTerm(m.src)'
    BY DEF VoteRequestsTrue
  <2>1. m \in msgs /\ m.src \in Node
    BY <1>1 DEF NoNewVotes, Types, MessageOK
  <2>2. role[m.src] = "Candidate" /\ term[m.src] = m.term
    BY <2>1 DEF NoElection
  <2>3. m.lastIndex = LastIndex(m.src) /\ m.lastTerm = LastTerm(m.src)
    BY <2>1, <2>2 DEF VoteRequestsTrue
  <2> QED BY <1>1, <2>3 DEF LastIndex, LastTerm, TermAt
<1>4. GrantedAsked'
  BY <1>2 DEF GrantedAsked
<1>5. CandidatesHave(W)'
  <2> SUFFICES ASSUME NEW c \in Logs(W), NEW v \in Node, NEW n \in Node, role'[n] = "Candidate",
                      Voted(v, n, term[n])', term'[n] > TermOf(c), Choosable(c)', Acked(v, c)'
               PROVE  Begins(c, log'[n])
    BY DEF CandidatesHave, Logs, Begins, TermOf
  <2>1. role[n] = "Candidate" /\ term'[n] = term[n]
    BY DEF NoElection
  <2>2. Voted(v, n, term[n])
    BY <1>2, <2>1 DEF Voted, Granted, Asked
  <2>3. Choosable(c) /\ Acked(v, c)
    BY IdleAcked
  <2> QED BY <1>1, <2>1, <2>2, <2>3 DEF CandidatesHave
<1>6. LeadersHave(W)'
  BY IdleLeaders DEF NoNewLeaders, NoElection
<1> QED BY <1>3, <1>4, <1>5, <1>6

\* What is committed stays so as long as the logs do.
LEMMA CommitKept ==
    ASSUME Steady, NEW W, Known(W), NEW n \in Node, log'[n] = log[n], NEW k, CommitOK(n, k, W)
    PROVE  CommitOK(n, k, W)'
<1> SUFFICES ASSUME k > 0
             PROVE  \E c \in Logs(W) :
                      /\ Chosen(c)' /\ TermOf(c) <= term'[n] /\ k <= Len(c) /\ k <= Len(log'[n])
                      /\ \A i \in 1 .. k : c[i] = log'[n][i]
  BY DEF CommitOK, Logs, TermOf
<1>1. PICK c \in Logs(W) :
        /\ Chosen(c) /\ TermOf(c) <= term[n] /\ k <= Len(c) /\ k <= Len(log[n])
        /\ \A i \in 1 .. k : c[i] = log[n][i]
  BY DEF CommitOK
<1>2. Chosen(c)'
  BY <1>1, StillChosen DEF Known
<1>3. TermOf(c) \in Nat /\ term[n] \in Nat /\ term'[n] \in Nat /\ term[n] <= term'[n]
  BY TermOfType DEF Steady, Types, LeadersStay, Known
<1>4. TermOf(c) <= term'[n]
  BY <1>1, <1>3
<1> QED BY <1>1, <1>2, <1>4

\* What a leader was told, it was told.
LEMMA MatchesKept ==
    ASSUME Steady, NoNewLeaders, matchIndex' = matchIndex, Matches
    PROVE  Matches'
<1> SUFFICES ASSUME NEW n \in Node, role'[n] = "Leader", NEW p \in Peers(n),
                    matchIndex[n][p] # 0
             PROVE  Told(n, p, matchIndex[n][p])'
  BY DEF Matches, Told
<1>1. role[n] = "Leader" /\ term'[n] = term[n]
  BY DEF NoNewLeaders
<1>2. Told(n, p, matchIndex[n][p])
  BY <1>1 DEF Matches
<1> QED BY <1>1, <1>2 DEF Told, Steady, IsAck

\* The set W is what it was.
LEMMA KnownKept ==
    ASSUME NEW W, Known(W)
    PROVE  (W \in SUBSET Seq(Entry) /\ Shape(W))'
BY DEF Known, Shape, Logs, TermOf, Comparable, Begins

(* All of it together, given what a step does to elections and commits.     *)
LEMMA IdleHistory ==
    ASSUME Idle, NEW W, History(W), NewRequestsOK(W),
           VoteRequestsTrue', GrantedAsked', CandidatesHave(W)', LeadersHave(W)',
           Matches', Commits(W)'
    PROVE  History(W)'
<1>1. Known(W)
  BY DEF History, Known
<1>2. Grown(W)' /\ LogsIn(W)' /\ AcksTrue' /\ AckedHave(W)' /\ LaterHave(W)'
  BY <1>1, IdleLogs DEF History, MessagesTrue, Complete
<1>3. RequestsCarry(W)' /\ RequestCommits(W)'
  BY <1>1, RequestsKept DEF History, MessagesTrue, Committed, Idle, NoNewAcks, AcksLate
<1>4. (W \in SUBSET Seq(Entry) /\ Shape(W))'
  BY <1>1, KnownKept
<1> QED BY <1>2, <1>3, <1>4 DEF History, MessagesTrue, Complete, Committed

\* Nobody commits.
LEMMA IdleCommits ==
    ASSUME Idle, NEW W, History(W), commitIndex' = commitIndex
    PROVE  Commits(W)'
BY CommitKept DEF History, Known, Committed, Commits, Idle

\* Nobody votes, is elected or commits.
LEMMA CalmHistory ==
    ASSUME Idle, NoElection, NoNewVotes, NEW W, History(W), NewRequestsOK(W),
           matchIndex' = matchIndex, commitIndex' = commitIndex
    PROVE  History(W)'
<1>1. Known(W)
  BY DEF History, Known
<1>2. VoteRequestsTrue' /\ GrantedAsked' /\ CandidatesHave(W)' /\ LeadersHave(W)'
  BY <1>1, IdleElections DEF History, MessagesTrue, Complete
<1>3. Matches'
  BY MatchesKept DEF History, Committed, NoNewLeaders, NoElection, Idle
<1>4. Commits(W)'
  BY IdleCommits
<1> QED BY <1>2, <1>3, <1>4, IdleHistory

-----------------------------------------------------------------------------
(* The steps. *)
Before(W) ==
    /\ RaftInv /\ RaftInv' /\ LeadersStay /\ History(W)
    /\ restarts = 0 /\ restarts' = 0 /\ ~deposed /\ ~deposed'

\* What the invariants of votes give to every step.
LEMMA BeforeSteady ==
    ASSUME NEW W, Before(W), msgs \subseteq msgs'
    PROVE  Steady /\ Types /\ Types' /\ Known(W)
BY DEF Before, Steady, RaftInv, VotesInv, History, Known

\* A node meets a later term.
LEMMA StepDownSafe ==
    ASSUME NEW W, Before(W), NEW n \in Node, NEW m \in msgs, StepDown(n, m)
    PROVE  History(W)'
<1>1. /\ m.term > term[n] /\ term' = [term EXCEPT ![n] = m.term]
      /\ votedFor' = [votedFor EXCEPT ![n] = Nil] /\ role' = [role EXCEPT ![n] = "Follower"]
      /\ log' = log /\ votes' = votes /\ msgs' = msgs
      /\ matchIndex' = matchIndex /\ commitIndex' = commitIndex
  BY DEF StepDown, indexes
<1>2. Steady /\ Types
  BY <1>1, BeforeSteady
<1>3. MessageOK(m)
  BY <1>2 DEF Types
<1>4. NoElection
  BY <1>1, <1>2, <1>3 DEF Types, MessageOK, NoElection
<1>5. NoNewAcks /\ NoNewVotes /\ NewRequestsOK(W)
  BY <1>1 DEF NoNewAcks, NoNewVotes, NewRequestsOK
<1> QED BY <1>1, <1>2, <1>4, <1>5, CalmHistory DEF Idle, Before

\* A request of an earlier term is refused.
LEMMA RejectStaleAppendSafe ==
    ASSUME NEW W, Before(W), NEW n \in Node, NEW m \in msgs, RejectStaleAppend(n, m)
    PROVE  History(W)'
<1> DEFINE r == AppendResponse(n, m.src, term[n], FALSE, 0)
<1>1. /\ msgs' = msgs \cup {r} /\ term' = term /\ votedFor' = votedFor /\ log' = log
      /\ role' = role /\ votes' = votes
      /\ matchIndex' = matchIndex /\ commitIndex' = commitIndex
  BY DEF RejectStaleAppend, Send, persistent, indexes
<1>2. r.type = "AppendResponse" /\ ~r.success
  BY DEF AppendResponse
<1> HIDE DEF r
<1>3. Steady
  BY <1>1, BeforeSteady
<1>4. NoElection
  BY <1>1 DEF NoElection
<1>5. NoNewAcks /\ NoNewVotes /\ NewRequestsOK(W)
  BY <1>1, <1>2 DEF NoNewAcks, NoNewVotes, NewRequestsOK, IsAck
<1> QED BY <1>1, <1>3, <1>4, <1>5, CalmHistory DEF Idle, Before

\* A failure, applying what is committed, or nothing at all.
LEMMA QuietSafe ==
    ASSUME NEW W, Before(W),
           term' = term, votedFor' = votedFor, log' = log, role' = role, votes' = votes,
           msgs' = msgs, matchIndex' = matchIndex, commitIndex' = commitIndex
    PROVE  History(W)'
<1>1. Steady
  BY BeforeSteady
<1>2. NoElection
  BY DEF NoElection
<1>3. NoNewAcks /\ NoNewVotes /\ NewRequestsOK(W)
  BY DEF NoNewAcks, NoNewVotes, NewRequestsOK, IsAck
<1> QED BY <1>1, <1>2, <1>3, CalmHistory DEF Idle, Before

\* A leader has what was made in its term.
LEMMA OwnTerm ==
    ASSUME NEW W, RaftInv, restarts = 0, History(W), NEW n \in Node, role[n] = "Leader",
           NEW c \in Logs(W), TermOf(c) = term[n]
    PROVE  Begins(c, log[n])
<1>1. Types /\ VotesInv /\ term[n] \in Nat
  BY DEF RaftInv, Types
<1>2. PICK p \in Node :
        /\ Elected(p, TermOf(c)) /\ term[p] >= TermOf(c)
        /\ term[p] = TermOf(c) => role[p] = "Leader" /\ Begins(c, log[p])
  BY DEF History, Grown
<1>3. Elected(n, TermOf(c))
  BY <1>1, LeaderElected DEF VotesInv
<1>4. p = n
  BY <1>1, <1>2, <1>3, ElectedOnce DEF OneElected, VotesInv
<1> QED BY <1>2, <1>4

\* A leader has what was made in its term and what may be chosen of earlier ones.
LEMMA LeaderComplete ==
    ASSUME NEW W, RaftInv, restarts = 0, History(W), NEW n \in Node, role[n] = "Leader",
           NEW c \in Logs(W), TermOf(c) <= term[n], Choosable(c)
    PROVE  Begins(c, log[n])
<1>1. Types /\ VotesInv /\ W \in SUBSET Seq(Entry)
  BY DEF RaftInv, History
<1>2. TermOf(c) \in Nat /\ term[n] \in Nat
  BY <1>1, TermOfType DEF Types
<1>3. CASE TermOf(c) < term[n]
  BY <1>2, <1>3 DEF History, Complete, LeadersHave
<1>4. CASE TermOf(c) = term[n]
  BY <1>4, OwnTerm
<1> QED BY <1>2, <1>3, <1>4

\* A request is sent.
LEMMA SendAppendSafe ==
    ASSUME NEW W, Before(W), NEW n \in Node, NEW p \in Node, NEW k \in 0 .. MaxLog,
           SendAppend(n, p, k)
    PROVE  History(W)'
<1> DEFINE next == NextFor(n, p)
<1>0. PICK m : m = [type |-> "AppendEntries", term |-> term[n], src |-> n, dst |-> p,
                    prevIndex |-> next - 1, prevTerm |-> PrevTerm(n, next - 1),
                    entries |-> SubSeq(log[n], next, next - 1 + k), commit |-> commitIndex[n]]
  OBVIOUS
<1>1. /\ role[n] = "Leader" /\ next - 1 + k <= Len(log[n]) /\ msgs' = msgs \cup {m}
      /\ term' = term /\ votedFor' = votedFor /\ log' = log /\ role' = role /\ votes' = votes
      /\ matchIndex' = matchIndex /\ commitIndex' = commitIndex
  <2>1. role[n] = "Leader"
    BY Zenon DEF SendAppend, Before
  <2> QED BY <1>0, <2>1 DEF SendAppend, Send, LastIndex, persistent, indexes
<1>2. Steady /\ Types /\ Known(W)
  BY <1>1, BeforeSteady
<1>3. next \in Nat \ {0} /\ k \in Nat
  BY <1>2, RaftAssumptions DEF Types, NextOK, NextFor
<1>4. PICK q \in Nat : q = next - 1
  BY <1>3
<1>5. log[n] \in Seq(Entry) /\ Len(log[n]) \in Nat /\ log[n] \in W /\ term[n] \in Nat
  BY <1>2 DEF Types, Before, History, LogsIn
<1>6. PICK es : es = SubSeq(log[n], next, next - 1 + k)
  OBVIOUS
<1>7. es \in Seq(Entry) /\ Len(es) = k /\ \A j \in 1 .. k : es[j] = log[n][q + j]
  <2> HIDE DEF next
  <2>1. /\ es \in Seq(Entry) /\ Len(es) = k
        /\ \A j \in 1 .. k : es[j] = log[n][next + j - 1]
    BY <1>1, <1>3, <1>5, <1>6
  <2>2. \A j \in 1 .. k : next + j - 1 = q + j
    BY <1>3, <1>4
  <2> QED BY <2>1, <2>2
<1>8. /\ m.type = "AppendEntries" /\ m.src = n /\ m.term = term[n] /\ m.prevIndex = q
      /\ m.prevTerm = TermAt(log[n], q) /\ m.entries = es /\ m.commit = commitIndex[n]
  BY <1>0, <1>4, <1>6 DEF PrevTerm
<1>9. q + k \in 0 .. Len(log[n])
  BY <1>1, <1>3, <1>4, <1>5
<1> HIDE DEF next
<1>10. PICK l : l = SubSeq(log[n], 1, q + k)
  OBVIOUS
<1>11. /\ l \in W /\ l \in Seq(Entry) /\ Len(l) = q + k /\ Begins(l, log[n])
       /\ \A i \in 1 .. q + k : l[i] = log[n][i]
  BY <1>2, <1>5, <1>9, <1>10, FirstOf DEF Known, Shape
<1>12. \A j \in 1 .. Len(es) : es[j] = l[q + j]
  BY <1>7, <1>11
<1>13. TermAt(log[n], q) = TermAt(l, q)
  BY <1>5, <1>9, <1>11 DEF TermAt
<1>14. \A i \in 1 .. Len(l) : l[i].term <= term[n]
  <2>1. \A i \in 1 .. Len(log[n]) : log[n][i].term <= term[n]
    BY DEF Before, History, LogsIn
  <2> QED BY <1>5, <1>9, <1>11, <2>1
<1>15. Idle
  BY <1>1, <1>2, <1>8 DEF Idle, NoNewAcks, IsAck
<1>16. ASSUME NEW c \in Logs(W), TermOf(c) <= term[n], Choosable(c)' PROVE Comparable(c, l)
  <2>1. Choosable(c)
    BY <1>2, <1>15, <1>16, IdleAcked DEF Before, History
  <2>2. Begins(c, log[n])
    BY <1>1, <1>16, <2>1, LeaderComplete DEF Before
  <2> QED BY <1>2, <1>5, <1>11, <2>2, BeginsOf, TermOfType DEF Known
<1>17. Carries(m, l, W)'
  <2>1. /\ m.prevIndex \in Nat /\ m.entries \in Seq(Entry)
        /\ Len(l) = m.prevIndex + Len(m.entries)
        /\ \A j \in 1 .. Len(m.entries) : m.entries[j] = l[m.prevIndex + j]
        /\ m.prevTerm = TermAt(l, m.prevIndex)
        /\ \A i \in 1 .. Len(l) : l[i].term <= m.term
    BY <1>7, <1>8, <1>11, <1>12, <1>13, <1>14
  <2>2. /\ term'[m.src] >= m.term
        /\ term'[m.src] = m.term => role'[m.src] = "Leader" /\ Begins(l, log'[m.src])
    BY <1>1, <1>5, <1>8, <1>11
  <2>3. \A c \in Logs(W) : TermOf(c) <= m.term /\ Choosable(c)' => Comparable(c, l)
    BY <1>8, <1>16
  <2> QED BY <2>1, <2>2, <2>3, Zenon DEF Carries, Begins, Comparable, TermOf, Logs, TermAt
<1>18. ASSUME commitIndex[n] > 0
       PROVE  \E c \in Logs(W) : Chosen(c)' /\ TermOf(c) <= term[n] /\ commitIndex[n] <= Len(c)
  <2>1. PICK c \in Logs(W) : Chosen(c) /\ TermOf(c) <= term[n] /\ commitIndex[n] <= Len(c)
    BY <1>18 DEF Before, History, Committed, Commits, CommitOK
  <2>2. Chosen(c)'
    BY <1>2, <2>1, StillChosen DEF Known
  <2> QED BY <2>1, <2>2
<1>19. commitIndex[n] \in Nat
  BY DEF Before, History, Committed, Commits
<1>20. RequestOK(m, W)'
  BY <1>8, <1>11, <1>17, <1>18, <1>19 DEF RequestOK, Logs, TermOf
<1>21. NoElection
  BY <1>1 DEF NoElection
<1>22. NoNewVotes /\ NewRequestsOK(W)
  BY <1>1, <1>8, <1>20 DEF NoNewVotes, NewRequestsOK
<1> QED BY <1>1, <1>15, <1>21, <1>22, CalmHistory DEF Before

\* A set of numbers with a bound has a greatest member.
LEMMA GreatestNumber ==
    ASSUME NEW S, NEW B \in Nat, S \subseteq 0 .. B, S # {}
    PROVE  \E v \in S : \A u \in S : u <= v
<1> DEFINE D == {k \in Nat : B - k \in S}
<1>1. D \in SUBSET Nat /\ D # {}
  <2>1. PICK v \in S : TRUE
    OBVIOUS
  <2>2. v \in 0 .. B
    BY <2>1
  <2>3. B - v \in Nat /\ B - (B - v) = v
    BY <2>2
  <2> QED BY <2>1, <2>3
<1> HIDE DEF D
<1>2. PICK k \in D : \A j \in D : k <= j
  BY <1>1, LeastNumber
<1>3. k \in Nat /\ B - k \in S
  BY <1>2 DEF D
<1>4. ASSUME NEW u \in S PROVE u <= B - k
  <2>1. u \in 0 .. B
    OBVIOUS
  <2>2. B - u \in Nat /\ B - (B - u) = u
    BY <2>1
  <2>3. B - u \in D
    BY <2>2 DEF D
  <2> QED BY <1>2, <1>3, <2>1, <2>3
<1> QED BY <1>3, <1>4

\* The quorum's match index is one that a majority reaches.
LEMMA QuorumReaches ==
    ASSUME NEW n \in Node, NEW f \in [Peers(n) -> Nat], Len(log[n]) \in Nat,
           \A p \in Peers(n) : f[p] <= Len(log[n]), NEW q, q = QuorumMatch(n, f)
    PROVE  /\ q \in 0 .. Len(log[n])
           /\ Cardinality({p \in Node : p = n \/ f[p] >= q}) >= Quorum
<1> DEFINE at == DOMAIN f \cup {n}
           val(p) == IF p = n THEN LastIndex(n) ELSE f[p]
           reach(v) == Cardinality({p \in at : val(p) >= v})
           vals == {val(p) : p \in at}
           ok == {v \in vals : reach(v) > Cardinality(at) \div 2}
<1>1. at = Node
  BY DEF Peers
<1>2. \A p \in Node : val(p) \in 0 .. Len(log[n])
  BY DEF Peers, LastIndex
<1>3. QuorumMatch(n, f) = CHOOSE v \in ok : \A u \in ok : u <= v
  BY DEF QuorumMatch
<1>4. vals \subseteq 0 .. Len(log[n]) /\ vals # {}
  BY <1>1, <1>2
<1>5. IsFiniteSet(Node) /\ Cardinality(Node) \in Nat /\ Cardinality(Node) > 0
  BY RaftAssumptions, FS_CardinalityType, FS_EmptySet
<1>6. ok # {}
  <2>1. PICK v \in vals : \A u \in vals : v <= u
    <3> HIDE DEF vals
    <3>1. vals \in SUBSET Nat
      BY <1>4
    <3> QED BY <1>4, <3>1, LeastNumber
  <2>2. {p \in at : val(p) >= v} = Node
    BY <1>1, <1>2, <2>1
  <2>3. PICK N \in Nat : N = Cardinality(Node) /\ N > 0
    BY <1>5
  <2>4. reach(v) = N /\ Cardinality(at) = N
    BY <1>1, <2>2, <2>3
  <2>5. N > N \div 2
    BY ONLY <2>3
  <2> QED BY <2>1, <2>4, <2>5
<1>7. \E v \in ok : \A u \in ok : u <= v
  <2>1. ok \subseteq 0 .. Len(log[n])
    BY <1>4
  <2> HIDE DEF ok
  <2> QED BY <1>6, <2>1, GreatestNumber
<1>8. q \in ok
  <2> HIDE DEF ok
  <2> QED BY <1>3, <1>7
<1>9. q \in 0 .. Len(log[n]) /\ reach(q) > Cardinality(Node) \div 2
  BY <1>1, <1>4, <1>8
<1>10. {p \in at : val(p) >= q} = {p \in Node : p = n \/ f[p] >= q}
  BY <1>1, <1>9 DEF LastIndex, Peers
<1>11. reach(q) \in Nat
  <2>1. IsFiniteSet({p \in at : val(p) >= q})
    BY <1>1, <1>5, FS_Subset
  <2> QED BY <2>1, FS_CardinalityType
<1>12. PICK r \in Nat : r = reach(q)
  BY <1>11
<1>13. PICK N \in Nat : N = Cardinality(Node)
  BY <1>5
<1>14. r > N \div 2 => r >= N \div 2 + 1
  BY ONLY <1>12, <1>13
<1>15. r = Cardinality({p \in Node : p = n \/ f[p] >= q})
  BY <1>10, <1>12
<1> HIDE DEF reach
<1> QED BY <1>9, <1>12, <1>13, <1>14, <1>15 DEF Quorum

\* A success of the leader's own term is counted, and may commit.
LEMMA RecordAppendSuccessSafe ==
    ASSUME NEW W, Before(W), NEW n \in Node, NEW m \in msgs, RecordAppendSuccess(n, m),
           m.term = term[n]
    PROVE  History(W)'
<1>1. /\ m.type = "AppendResponse" /\ m.dst = n /\ m.success /\ role[n] = "Leader"
      /\ matchIndex' = [matchIndex EXCEPT ![n] = With(matchIndex[n], m.src, m.match)]
      /\ msgs' = msgs /\ term' = term /\ votedFor' = votedFor /\ log' = log
      /\ role' = role /\ votes' = votes
  BY DEF RecordAppendSuccess, persistent
<1>2. Steady /\ Types /\ Known(W)
  BY <1>1, BeforeSteady
<1>3. AcksTrue /\ IsAck(m)
  BY <1>1 DEF Before, History, MessagesTrue, IsAck
<1>4. m.src \in Peers(n) /\ m.match \in Nat
  BY <1>1, <1>2, <1>3 DEF AcksTrue, AckTrue, Types, MessageOK, Peers
<1>5. Matches
  BY DEF Before, History, Committed
<1>6. PICK f : f = With(matchIndex[n], m.src, m.match)
  OBVIOUS
<1>7. /\ f \in [Peers(n) -> Nat] /\ f[m.src] = m.match
      /\ \A p \in Peers(n) : p # m.src => f[p] = matchIndex[n][p]
  BY <1>4, <1>5, <1>6 DEF With, Matches
<1>8. Told(n, m.src, m.match)
  BY <1>1, <1>3 DEF Told
<1>9. \A p \in Peers(n) : f[p] = 0 \/ Told(n, p, f[p])
  BY <1>1, <1>5, <1>7, <1>8 DEF Matches
<1>10. NoElection
  BY <1>1 DEF NoElection
<1>11. NoNewAcks /\ NoNewVotes /\ NewRequestsOK(W)
  BY <1>1 DEF NoNewAcks, NoNewVotes, NewRequestsOK
<1>12. Idle
  BY <1>1, <1>2, <1>11 DEF Idle
<1>13. Matches'
  <2>1. \A x, p, k : Told(x, p, k)' <=> Told(x, p, k)
    BY <1>1 DEF Told, IsAck
  <2>2. DOMAIN matchIndex' = Node /\ matchIndex'[n] = f
    BY <1>1, <1>5, <1>6 DEF Matches
  <2>3. \A x \in Node : x # n => matchIndex'[x] = matchIndex[x]
    BY <1>1, <1>5 DEF Matches
  <2>4. ASSUME NEW x \in Node
        PROVE  /\ matchIndex'[x] \in [Peers(x) -> Nat]
               /\ role'[x] = "Leader" =>
                    \A p \in Peers(x) : matchIndex'[x][p] = 0 \/ Told(x, p, matchIndex[x][p])'
    <3>1. CASE x = n
      BY <1>7, <1>9, <2>1, <2>2, <3>1
    <3>2. CASE x # n
      BY <1>1, <1>5, <2>1, <2>3, <3>2 DEF Matches
    <3> QED BY <3>1, <3>2
  <2> QED BY <2>2, <2>4 DEF Matches
<1>14. Commits(W)'
  <2>1. Commits(W) /\ commitIndex \in [Node -> Nat]
    BY DEF Before, History, Committed, Commits
  <2>2. PICK q : q = QuorumMatch(n, f)
    OBVIOUS
  <2>3. \/ commitIndex' = commitIndex
        \/ /\ commitIndex' = [commitIndex EXCEPT ![n] = q]
           /\ q > commitIndex[n] /\ PrevTerm(n, q) = term[n]
    <3>1. commitIndex' = [commitIndex EXCEPT ![n] =
            IF m.match > commitIndex[n] /\ q > commitIndex[n] /\ PrevTerm(n, q) = term[n]
            THEN q ELSE commitIndex[n]]
      BY <1>6, <2>2 DEF RecordAppendSuccess
    <3> QED BY <2>1, <3>1
  <2>4. CASE commitIndex' = commitIndex
    BY <1>12, <2>4, IdleCommits DEF Before
  <2>5. CASE /\ commitIndex' = [commitIndex EXCEPT ![n] = q]
             /\ q > commitIndex[n] /\ PrevTerm(n, q) = term[n]
    <3>1. log[n] \in Seq(Entry) /\ Len(log[n]) \in Nat /\ log[n] \in W /\ term[n] \in Nat
      BY <1>2 DEF Types, Before, History, LogsIn
    <3>2. \A p \in Peers(n) : f[p] <= Len(log[n])
      <4> SUFFICES ASSUME NEW p \in Peers(n) PROVE f[p] <= Len(log[n])
        OBVIOUS
      <4>1. CASE f[p] = 0
        BY <3>1, <4>1
      <4>2. CASE Told(n, p, f[p])
        BY <1>3, <4>2 DEF Told, AcksTrue, AckTrue
      <4> QED BY <1>9, <4>1, <4>2
    <3>3. /\ q \in 0 .. Len(log[n])
          /\ Cardinality({p \in Node : p = n \/ f[p] >= q}) >= Quorum
      BY <1>7, <2>2, <3>1, <3>2, QuorumReaches
    <3>4. q \in 1 .. Len(log[n]) /\ q \in Nat /\ commitIndex[n] \in Nat
      BY <2>1, <2>5, <3>1, <3>3
    <3>5. PICK c : c = SubSeq(log[n], 1, q)
      OBVIOUS
    <3>6. c \in W /\ Len(c) = q /\ \A i \in 1 .. q : c[i] = log[n][i]
      BY <1>2, <3>1, <3>3, <3>5, FirstOf DEF Known, Shape
    <3>7. c \in Logs(W) /\ TermOf(c) = term[n]
      BY <2>5, <3>4, <3>6 DEF Logs, TermOf, PrevTerm, TermAt
    <3>8. ASSUME NEW p \in Node, p = n \/ f[p] >= q PROVE Acked(p, c)
      <4>1. CASE p = n
        <5>1. Elected(n, term[n])
          BY <1>1, <1>2, LeaderElected DEF Before, RaftInv, VotesInv
        <5> QED BY <3>7, <4>1, <5>1 DEF Acked
      <4>2. CASE p # n
        <5>1. p \in Peers(n) /\ f[p] >= q /\ f[p] \in Nat
          BY <1>7, <3>8, <4>2 DEF Peers
        <5>2. Told(n, p, f[p])
          BY <1>9, <3>4, <5>1
        <5> QED BY <3>6, <3>7, <5>1, <5>2 DEF Told, Acked
      <4> QED BY <4>1, <4>2
    <3>9. Chosen(c)
      <4>1. PICK Q \in SUBSET Node : Q = {p \in Node : p = n \/ f[p] >= q}
        OBVIOUS
      <4> QED BY <3>3, <3>8, <4>1 DEF Chosen
    <3>10. CommitOK(n, q, W)
      BY <3>1, <3>4, <3>6, <3>7, <3>9 DEF CommitOK
    <3>11. PICK g : g = commitIndex'
      OBVIOUS
    <3>12. \A x \in Node : CommitOK(x, g[x], W)
      BY <2>1, <2>5, <3>10, <3>11 DEF Commits
    <3>13. \A x \in Node : CommitOK(x, g[x], W)'
      BY <1>1, <1>2, <3>12, CommitKept
    <3>14. g \in [Node -> Nat]
      BY <2>1, <2>5, <3>4, <3>11
    <3> QED BY <3>11, <3>13, <3>14 DEF Commits
  <2> QED BY <2>3, <2>4, <2>5
<1>15. VoteRequestsTrue' /\ GrantedAsked' /\ CandidatesHave(W)' /\ LeadersHave(W)'
  BY <1>2, <1>10, <1>11, <1>12, IdleElections DEF Before, History, MessagesTrue, Complete
<1> QED BY <1>11, <1>12, <1>13, <1>14, <1>15, IdleHistory DEF Before

\* A vote is counted.  Who wins has the votes of a majority, and one of them
\* said it has what may be chosen.
LEMMA RecordVoteSafe ==
    ASSUME NEW W, Before(W), NEW n \in Node, NEW m \in msgs, RecordVote(n, m)
    PROVE  History(W)'
<1>1. /\ role[n] = "Candidate" /\ term' = term /\ votedFor' = votedFor /\ log' = log
      /\ msgs' = msgs /\ commitIndex' = commitIndex
  BY DEF RecordVote, persistent
<1>2. Steady /\ Types /\ Types' /\ Known(W)
  BY <1>1, BeforeSteady
<1>3. /\ DOMAIN matchIndex' = Node
      /\ \A x \in Node : x # n => matchIndex'[x] = matchIndex[x] /\ role'[x] = role[x]
      /\ \/ role'[n] = role[n] /\ matchIndex'[n] = matchIndex[n]
         \/ role'[n] = "Leader" /\ matchIndex'[n] = [p \in Peers(n) |-> 0]
  <2>1. DOMAIN matchIndex = Node /\ DOMAIN role = Node
    BY <1>2 DEF Matches, Types, Before, History, Committed
  <2>2. PICK won \in BOOLEAN :
          /\ role' = [role EXCEPT ![n] = IF won THEN "Leader" ELSE role[n]]
          /\ matchIndex' = [matchIndex EXCEPT ![n] =
               IF won THEN [p \in Peers(n) |-> 0] ELSE matchIndex[n]]
    BY Zenon DEF RecordVote
  <2>3. CASE won = TRUE
    BY <2>1, <2>2, <2>3
  <2>4. CASE won = FALSE
    BY <2>1, <2>2, <2>4
  <2> QED BY <2>3, <2>4
<1>4. NoNewAcks /\ NoNewVotes /\ NewRequestsOK(W) /\ Idle
  BY <1>1, <1>2 DEF NoNewAcks, NoNewVotes, NewRequestsOK, Idle
<1>5. \A x \in Node : role'[x] # role[x] => x = n
  BY <1>3
<1>6. \A x \in Node : role'[x] = "Candidate" => role[x] = "Candidate"
  BY <1>1, <1>5
<1>7. \A v, c, t : (Voted(v, c, t)' <=> Voted(v, c, t)) /\ (Granted(v, c, t)' <=> Granted(v, c, t))
                     /\ (Asked(c, t)' <=> Asked(c, t))
  BY <1>1 DEF Voted, Granted, Asked
<1>8. VoteRequestsTrue'
  <2> SUFFICES ASSUME NEW x \in msgs, x.type = "RequestVote", role'[x.src] = "Candidate",
                      x.term = term[x.src]
               PROVE  x.lastIndex = LastIndex(x.src) /\ x.lastTerm = LastTerm(x.src)
    BY <1>1 DEF VoteRequestsTrue, LastIndex, LastTerm
  <2>1. x.src \in Node
    BY <1>2 DEF Types, MessageOK
  <2> QED BY <1>6, <2>1 DEF Before, History, MessagesTrue, VoteRequestsTrue
<1>9. GrantedAsked'
  BY <1>7 DEF Before, History, MessagesTrue, GrantedAsked
<1>10. CandidatesHave(W)'
  <2> SUFFICES ASSUME NEW c \in Logs(W), NEW v \in Node, NEW x \in Node, role'[x] = "Candidate",
                      Voted(v, x, term[x])', term[x] > TermOf(c), Choosable(c)', Acked(v, c)'
               PROVE  Begins(c, log[x])
    BY <1>1 DEF CandidatesHave, Logs, Begins, TermOf
  <2>1. Voted(v, x, term[x])
    BY <1>1, <1>7 DEF Voted, Granted, Asked
  <2>2. Choosable(c) /\ Acked(v, c)
    BY <1>2, <1>4, IdleAcked DEF Before, History
  <2> QED BY <1>6, <2>1, <2>2 DEF Before, History, Complete, CandidatesHave
<1>11. LeadersHave(W)'
  <2> SUFFICES ASSUME NEW c \in Logs(W), NEW x \in Node, role'[x] = "Leader",
                      term[x] > TermOf(c), Choosable(c)'
               PROVE  Begins(c, log[x])
    BY <1>1 DEF LeadersHave, Logs, Begins, TermOf
  <2>1. Choosable(c)
    BY <1>2, <1>4, IdleAcked DEF Before, History
  <2>2. CASE role[x] = "Leader"
    BY <2>1, <2>2 DEF Before, History, Complete, LeadersHave
  <2>3. CASE role[x] # "Leader"
    <3>1. x = n /\ role[x] = "Candidate"
      BY <1>1, <1>5, <2>3
    <3>2. /\ votes'[x] \in SUBSET Node /\ Cardinality(votes'[x]) >= Quorum
          /\ \A v \in votes'[x] : Voted(v, x, term[x])'
      BY <1>2 DEF Before, RaftInv, VotesInv, VotesCounted, Types
    <3>3. \A v \in votes'[x] : Voted(v, x, term[x])
      BY <1>1, <1>7, <3>2 DEF Voted, Granted, Asked
    <3>4. PICK Q \in SUBSET Node :
            Cardinality(Q) >= Quorum /\ \A p \in Q : term[p] <= TermOf(c) \/ Acked(p, c)
      BY <2>1 DEF Choosable
    <3>5. PICK P \in SUBSET Node : P = votes'[x]
      BY <3>2
    <3>6. PICK v \in Node : v \in Q /\ v \in P
      BY <3>2, <3>4, <3>5, MajoritiesMeet
    <3>7. term[x] \in Nat /\ term[v] \in Nat /\ TermOf(c) \in Nat
      BY <1>2, TermOfType DEF Types, Known
    <3>8. Voted(v, x, term[x]) /\ term[v] >= term[x]
      BY <3>3, <3>5, <3>6, <3>7 DEF Before, RaftInv, VotesInv, VotesRemembered
    <3>9. Acked(v, c)
      BY <3>4, <3>6, <3>7, <3>8
    <3> QED BY <2>1, <3>1, <3>8, <3>9 DEF Before, History, Complete, CandidatesHave
  <2> QED BY <2>2, <2>3
<1>12. Matches'
  <2>1. Matches
    BY DEF Before, History, Committed
  <2>2. \A x, p, k : Told(x, p, k)' <=> Told(x, p, k)
    BY <1>1 DEF Told, IsAck
  <2>3. ASSUME NEW x \in Node
        PROVE  /\ matchIndex'[x] \in [Peers(x) -> Nat]
               /\ role'[x] = "Leader" =>
                    \A p \in Peers(x) : matchIndex'[x][p] = 0 \/ Told(x, p, matchIndex[x][p])'
    <3>1. CASE matchIndex'[x] = matchIndex[x] /\ role'[x] = role[x]
      BY <2>1, <2>2, <3>1 DEF Matches
    <3>2. CASE x = n /\ matchIndex'[n] = [p \in Peers(n) |-> 0]
      BY <3>2
    <3> QED BY <1>3, <3>1, <3>2
  <2> QED BY <1>3, <2>3 DEF Matches
<1>13. Commits(W)'
  BY <1>1, <1>4, IdleCommits DEF Before
<1> QED BY <1>4, <1>8, <1>9, <1>10, <1>11, <1>12, <1>13, IdleHistory DEF Before

\* A log that is at least as up to date as one that begins with c does too.
LEMMA UpToDate ==
    ASSUME NEW W, Known(W), LaterHave(W), NEW c \in Logs(W), Choosable(c), NEW a \in W, NEW b \in W,
           Begins(c, a),
           \/ TermAt(b, Len(b)) > TermAt(a, Len(a))
           \/ TermAt(b, Len(b)) = TermAt(a, Len(a)) /\ Len(b) >= Len(a)
    PROVE  Begins(c, b)
<1>1. /\ W \in SUBSET Seq(Entry) /\ Shape(W) /\ a \in Seq(Entry) /\ b \in Seq(Entry)
      /\ Len(a) \in Nat /\ Len(b) \in Nat
  BY DEF Known
<1>2. a \in Logs(W) /\ TermOf(c) <= TermOf(a)
  BY <1>1, BeginsTerm
<1>3. TermOf(c) \in Nat /\ TermOf(a) \in Nat /\ Len(c) \in Nat \ {0} /\ Len(a) \in Nat \ {0}
  BY <1>1, <1>2, TermOfType
<1>4. TermAt(a, Len(a)) = TermOf(a)
  BY <1>3 DEF TermAt, TermOf
<1>5. Len(b) > 0
  <2>1. CASE Len(b) = 0
    <3>1. TermAt(b, Len(b)) = 0
      BY <2>1 DEF TermAt
    <3> QED BY <1>3, <1>4, <2>1, <3>1
  <2> QED BY <1>1, <2>1
<1>6. b \in Logs(W) /\ TermAt(b, Len(b)) = TermOf(b) /\ TermOf(b) \in Nat
  <2>1. b \in Logs(W)
    BY <1>5 DEF Logs
  <2>2. TermOf(b) \in Nat
    BY <1>1, <2>1, TermOfType
  <2> QED BY <1>1, <1>5, <2>1, <2>2 DEF TermAt, TermOf
<1>7. CASE TermOf(b) > TermOf(c)
  BY <1>6, <1>7 DEF LaterHave
<1>8. CASE TermOf(b) = TermOf(c)
  <2>1. Len(b) >= Len(a) /\ Len(a) >= Len(c)
    BY <1>2, <1>3, <1>4, <1>6, <1>8 DEF Begins
  <2>2. Comparable(c, b)
    BY <1>1, <1>6, <1>8 DEF Shape
  <2> QED BY <1>1, <1>3, <2>1, <2>2 DEF Comparable, Begins
<1> QED BY <1>2, <1>3, <1>4, <1>6, <1>7, <1>8

\* A vote is given or refused: given only to a candidate whose log is at least as
\* up to date, which then has what the voter said it has.
LEMMA HandleRequestVoteSafe ==
    ASSUME NEW W, Before(W), NEW n \in Node, NEW m \in msgs, HandleRequestVote(n, m)
    PROVE  History(W)'
<1>1. PICK r : r = VoteResponse(n, m.src, Seen(n, m.term), Grants(n, m))
  OBVIOUS
<1>2. /\ m.type = "RequestVote" /\ m.src # n /\ log' = log /\ msgs' = msgs \cup {r}
      /\ term' = [term EXCEPT ![n] = Seen(n, m.term)]
      /\ role' = [role EXCEPT ![n] = IF m.term > term[n] THEN "Follower" ELSE role[n]]
      /\ matchIndex' = matchIndex /\ commitIndex' = commitIndex
  BY <1>1 DEF HandleRequestVote, Send, indexes
<1>3. Steady /\ Types /\ Types' /\ Known(W)
  BY <1>2, BeforeSteady
<1>4. m.src \in Node /\ m.term \in Nat /\ term[n] \in Nat
  BY <1>3 DEF Types, MessageOK
<1>5. /\ r.type = "VoteResponse" /\ r.src = n /\ r.dst = m.src
      /\ r.term = Seen(n, m.term) /\ r.granted = Grants(n, m)
  BY <1>1 DEF VoteResponse
<1>6. NoNewAcks /\ NewRequestsOK(W) /\ Idle
  BY <1>2, <1>3, <1>5 DEF NoNewAcks, NewRequestsOK, Idle, IsAck
<1>7. \A x \in Node : role'[x] # "Follower" => role'[x] = role[x] /\ term'[x] = term[x]
  BY <1>2, <1>3, <1>4 DEF Types, Seen
<1>8. NoNewLeaders
  BY <1>7 DEF NoNewLeaders
<1>9. \A c, t : Asked(c, t)' <=> Asked(c, t)
  BY <1>2, <1>5 DEF Asked
<1>10. ASSUME NEW v, NEW c, NEW t, Granted(v, c, t)', ~Granted(v, c, t)
       PROVE  v = n /\ c = m.src /\ t = m.term /\ Grants(n, m)
  <2>1. /\ r.granted = TRUE /\ r.src = v /\ r.dst = c /\ r.term = t
    BY <1>2, <1>10 DEF Granted
  <2>2. Grants(n, m)
    BY <1>5, <2>1
  <2>3. Seen(n, m.term) = m.term
    BY <1>4, <2>2 DEF Grants, Seen
  <2> QED BY <1>5, <2>1, <2>2, <2>3
<1>11. VoteRequestsTrue'
  <2> SUFFICES ASSUME NEW x \in msgs', x.type = "RequestVote", role'[x.src] = "Candidate",
                      x.term = term'[x.src]
               PROVE  x.lastIndex = LastIndex(x.src)' /\ x.lastTerm = LastTerm(x.src)'
    BY DEF VoteRequestsTrue
  <2>1. x \in msgs /\ x.src \in Node
    BY <1>2, <1>3, <1>5 DEF Types, MessageOK
  <2>2. x.lastIndex = LastIndex(x.src) /\ x.lastTerm = LastTerm(x.src)
    BY <1>7, <2>1 DEF Before, History, MessagesTrue, VoteRequestsTrue
  <2> QED BY <1>2, <2>2 DEF LastIndex, LastTerm, TermAt
<1>12. GrantedAsked'
  <2> SUFFICES ASSUME NEW v \in Node, NEW c \in Node, NEW t \in Nat, Granted(v, c, t)'
               PROVE  Asked(c, t)
    BY <1>9 DEF GrantedAsked
  <2>1. CASE Granted(v, c, t)
    BY <2>1 DEF Before, History, MessagesTrue, GrantedAsked
  <2>2. CASE ~Granted(v, c, t)
    BY <1>2, <1>10, <2>2 DEF Asked
  <2> QED BY <2>1, <2>2
<1>13. CandidatesHave(W)'
  <2> SUFFICES ASSUME NEW c \in Logs(W), NEW v \in Node, NEW x \in Node, role'[x] = "Candidate",
                      Voted(v, x, term[x])', term'[x] > TermOf(c), Choosable(c)', Acked(v, c)'
               PROVE  Begins(c, log[x])
    BY <1>2 DEF CandidatesHave, Logs, Begins, TermOf
  <2>1. role[x] = "Candidate" /\ term'[x] = term[x]
    BY <1>7
  <2>2. Choosable(c) /\ Acked(v, c)
    BY <1>3, <1>6, IdleAcked DEF Before, History
  <2>3. CASE Voted(v, x, term[x])
    BY <2>1, <2>2, <2>3 DEF Before, History, Complete, CandidatesHave
  <2>4. CASE ~Voted(v, x, term[x])
    <3>1. PICK t : t = term[x]
      OBVIOUS
    <3>2. Voted(v, x, t)' /\ ~Voted(v, x, t)
      BY <2>1, <2>4, <3>1 DEF Voted, Granted, Asked
    <3>3. Granted(v, x, t)' /\ ~Granted(v, x, t)
      BY <1>9, <3>2 DEF Voted
    <3>4. v = n /\ x = m.src /\ t = m.term /\ Grants(n, m)
      BY <1>10, <3>3
    <3>5. m.lastIndex = LastIndex(x) /\ m.lastTerm = LastTerm(x)
      BY <1>2, <2>1, <3>1, <3>4 DEF Before, History, MessagesTrue, VoteRequestsTrue
    <3>6. LogOk(n, m)
      BY <3>4 DEF Grants
    <3>7. Begins(c, log[n]) /\ LaterHave(W) /\ log[n] \in W /\ log[x] \in W
      BY <2>2, <3>4 DEF Before, History, Complete, AckedHave, LogsIn
    <3>8. \/ TermAt(log[x], Len(log[x])) > TermAt(log[n], Len(log[n]))
          \/ /\ TermAt(log[x], Len(log[x])) = TermAt(log[n], Len(log[n]))
             /\ Len(log[x]) >= Len(log[n])
      BY <3>5, <3>6 DEF LogOk, LastTerm, LastIndex
    <3> QED BY <1>3, <2>2, <3>7, <3>8, UpToDate
  <2> QED BY <2>3, <2>4
<1>14. LeadersHave(W)' /\ Matches' /\ Commits(W)'
  BY <1>2, <1>3, <1>6, <1>8, IdleLeaders, MatchesKept, IdleCommits
  DEF Before, History, Complete, Committed
<1> QED BY <1>6, <1>11, <1>12, <1>13, <1>14, IdleHistory DEF Before

\* A node stands for election: nobody voted for it in that term yet but itself.
LEMMA StartElectionSafe ==
    ASSUME NEW W, Before(W), NEW n \in Node, StartElection(n)
    PROVE  History(W)'
<1>1. PICK r : r = RequestVote(n, term[n] + 1)
  OBVIOUS
<1>2. /\ log' = log /\ msgs' = msgs \cup {r} /\ term' = [term EXCEPT ![n] = term[n] + 1]
      /\ role' = [role EXCEPT ![n] = "Candidate"]
      /\ matchIndex' = matchIndex /\ commitIndex' = commitIndex
  BY <1>1 DEF StartElection, Send, indexes
<1>3. Steady /\ Types /\ Types' /\ Known(W)
  BY <1>2, BeforeSteady
<1>4. /\ r.type = "RequestVote" /\ r.src = n /\ r.term = term[n] + 1
      /\ r.lastIndex = LastIndex(n) /\ r.lastTerm = LastTerm(n)
  BY <1>1 DEF RequestVote
<1>5. NoNewAcks /\ NewRequestsOK(W) /\ Idle
  BY <1>2, <1>3, <1>4 DEF NoNewAcks, NewRequestsOK, Idle, IsAck
<1>6. /\ term[n] \in Nat /\ term'[n] = term[n] + 1 /\ role'[n] = "Candidate"
      /\ \A x \in Node : x # n => role'[x] = role[x] /\ term'[x] = term[x]
  BY <1>2, <1>3 DEF Types
<1>7. NoNewLeaders
  BY <1>6 DEF NoNewLeaders
<1>8. ~Asked(n, term[n] + 1)
  <2>1. ASSUME Asked(n, term[n] + 1) PROVE FALSE
    <3>1. Voted(n, n, term[n] + 1)
      BY <2>1 DEF Voted
    <3>2. term[n] >= term[n] + 1
      BY <1>6, <3>1 DEF Before, RaftInv, VotesInv, VotesRemembered
    <3> QED BY <1>6, <3>2
  <2> QED BY <2>1
<1>9. \A v, c, t : /\ Granted(v, c, t)' <=> Granted(v, c, t)
                   /\ Asked(c, t) => Asked(c, t)'
                   /\ c # n => (Asked(c, t)' <=> Asked(c, t))
  BY <1>2, <1>4 DEF Granted, Asked
<1>10. VoteRequestsTrue'
  <2> SUFFICES ASSUME NEW x \in msgs', x.type = "RequestVote", role'[x.src] = "Candidate",
                      x.term = term'[x.src]
               PROVE  x.lastIndex = LastIndex(x.src) /\ x.lastTerm = LastTerm(x.src)
    BY <1>2 DEF VoteRequestsTrue, LastIndex, LastTerm
  <2>1. CASE x = r
    BY <1>4, <2>1
  <2>2. CASE x \in msgs
    <3>1. x.src \in Node
      BY <1>3, <2>2 DEF Types, MessageOK
    <3>2. x.src # n
      BY <1>6, <1>8, <2>2 DEF Asked
    <3> QED BY <1>6, <2>2, <3>1, <3>2 DEF Before, History, MessagesTrue, VoteRequestsTrue
  <2> QED BY <1>2, <2>1, <2>2
<1>11. GrantedAsked'
  BY <1>9 DEF Before, History, MessagesTrue, GrantedAsked
<1>12. CandidatesHave(W)'
  <2> SUFFICES ASSUME NEW c \in Logs(W), NEW v \in Node, NEW x \in Node, role'[x] = "Candidate",
                      Voted(v, x, term[x])', term'[x] > TermOf(c), Choosable(c)', Acked(v, c)'
               PROVE  Begins(c, log[x])
    BY <1>2 DEF CandidatesHave, Logs, Begins, TermOf
  <2>1. Choosable(c) /\ Acked(v, c)
    BY <1>3, <1>5, IdleAcked DEF Before, History
  <2>2. PICK t \in Nat : t = term'[x]
    BY <1>3 DEF Types
  <2>3. Voted(v, x, t)'
    BY <2>2 DEF Voted, Granted, Asked
  <2>4. CASE x = n
    <3>1. ~Granted(v, n, t)
      BY <1>6, <1>8, <2>2, <2>4 DEF Before, History, MessagesTrue, GrantedAsked
    <3>2. v = n
      BY <1>9, <2>3, <2>4, <3>1 DEF Voted
    <3> QED BY <2>1, <2>4, <3>2 DEF Before, History, Complete, AckedHave
  <2>5. CASE x # n
    <3>1. Voted(v, x, t)
      BY <1>9, <2>3, <2>5 DEF Voted
    <3> QED BY <1>6, <2>1, <2>2, <2>5, <3>1 DEF Before, History, Complete, CandidatesHave
  <2> QED BY <2>4, <2>5
<1>13. LeadersHave(W)' /\ Matches' /\ Commits(W)'
  BY <1>2, <1>3, <1>5, <1>7, IdleLeaders, MatchesKept, IdleCommits
  DEF Before, History, Complete, Committed
<1> QED BY <1>5, <1>10, <1>11, <1>12, <1>13, IdleHistory DEF Before

\* Who said it has c had not seen a later term than c's before.
LEMMA AckedTerm ==
    ASSUME Types, OneVote, NEW W, Known(W), Grown(W), AcksTrue, NEW c \in Logs(W), NEW p \in Node,
           Acked(p, c)
    PROVE  term[p] >= TermOf(c)
<1>1. TermOf(c) \in Nat
  BY TermOfType DEF Known
<1>2. CASE Elected(p, TermOf(c))
  <2>1. PICK q \in Node : Elected(q, TermOf(c)) /\ term[q] >= TermOf(c)
    BY DEF Grown
  <2>2. p = q
    BY <1>1, <1>2, <2>1, ElectedOnce DEF OneElected
  <2> QED BY <2>1, <2>2
<1>3. CASE ~Elected(p, TermOf(c))
  BY <1>3 DEF Acked, AcksTrue, AckTrue
<1> QED BY <1>2, <1>3

(* A new entry.  Only its leader has it, and nothing of a later term can    *)
(* have been elected if it may still be chosen.                             *)
LEMMA ProposeNew ==
    ASSUME NEW W, RaftInv, restarts = 0, History(W), NEW n \in Node, role[n] = "Leader",
           NEW L, L \in Seq(Entry), Len(L) = Len(log[n]) + 1, TermOf(L) = term[n]
    PROVE  /\ \A p \in Node : Acked(p, L) => p = n
           /\ Choosable(L) => \A d \in Node, u \in Nat : Elected(d, u) => u <= term[n]
<1>1. Types /\ VotesInv /\ term[n] \in Nat /\ Len(log[n]) \in Nat /\ OneElected
  BY ElectedOnce DEF RaftInv, Types, VotesInv
<1>2. Elected(n, term[n])
  BY <1>1, LeaderElected DEF VotesInv
<1>3. ASSUME NEW p \in Node, Acked(p, L) PROVE p = n
  <2>1. CASE Elected(p, TermOf(L))
    BY <1>1, <1>2, <2>1 DEF OneElected
  <2>2. CASE ~Elected(p, TermOf(L))
    <3>1. PICK m \in msgs :
            IsAck(m) /\ m.src = p /\ m.term = term[n] /\ m.match >= Len(log[n]) + 1
      BY <1>3, <2>2 DEF Acked
    <3>2. AckTrue(m)
      BY <3>1 DEF History, MessagesTrue, AcksTrue
    <3>3. m.dst = n /\ m.match \in Nat
      BY <1>1, <1>2, <3>1, <3>2 DEF OneElected, AckTrue
    <3>4. m.match <= Len(log[n])
      BY <3>1, <3>2, <3>3 DEF AckTrue
    <3> QED BY <1>1, <3>1, <3>3, <3>4
  <2> QED BY <2>1, <2>2
<1>4. ASSUME Choosable(L), NEW d \in Node, NEW u \in Nat, Elected(d, u), u > term[n]
      PROVE  FALSE
  <2>1. PICK Q \in SUBSET Node :
          Cardinality(Q) >= Quorum /\ \A p \in Q : term[p] <= term[n] \/ Acked(p, L)
    BY <1>4 DEF Choosable
  <2>2. PICK P \in SUBSET Node : Cardinality(P) >= Quorum /\ \A v \in P : Voted(v, d, u)
    BY <1>4 DEF Elected
  <2>3. PICK p \in Node : p \in Q /\ p \in P
    BY <2>1, <2>2, MajoritiesMeet
  <2>4. term[p] \in Nat /\ term[p] >= u
    BY <1>1, <2>2, <2>3 DEF VotesInv, VotesRemembered, Types
  <2>5. Acked(p, L)
    BY <1>1, <1>4, <2>1, <2>3, <2>4
  <2> QED BY <1>1, <1>3, <1>4, <2>4, <2>5
<1> QED BY <1>1, <1>3, <1>4

\* W with a new log of a leader is still a set of logs that agree.
LEMMA ProposeShape ==
    ASSUME NEW W, Known(W), NEW l0 \in W, NEW L \in Seq(Entry), Len(L) = Len(l0) + 1,
           \A i \in 1 .. Len(l0) : L[i] = l0[i], L[Len(L)].index = Len(L),
           \A i \in 1 .. Len(l0) : l0[i].term <= TermOf(L),
           \A c \in Logs(W) : TermOf(c) = TermOf(L) => Begins(c, l0)
    PROVE  Known(W \cup {L}) /\ Begins(l0, L) /\ \A c \in W : Begins(c, l0) => Begins(c, L)
<1>1. /\ W \in SUBSET Seq(Entry) /\ Shape(W) /\ l0 \in Seq(Entry) /\ Len(l0) \in Nat
      /\ Len(L) \in Nat \ {0}
  BY DEF Known
<1>2. Begins(l0, L)
  BY <1>1 DEF Begins
<1>3. \A c \in W : Begins(c, l0) => Begins(c, L)
  BY <1>1, <1>2, BeginsTrans
<1> DEFINE V == W \cup {L}
<1>4. <<>> \in V
  BY <1>1 DEF Shape
<1>5. ASSUME NEW k \in 0 .. Len(L) PROVE SubSeq(L, 1, k) \in V
  <2>1. CASE k = Len(L)
    <3>1. SubSeq(L, 1, k) = L
      BY <2>1
    <3> QED BY <3>1
  <2>2. CASE k # Len(L)
    <3>1. k \in 0 .. Len(l0) /\ k \in Nat
      BY <1>1, <2>2
    <3>2. SubSeq(l0, 1, k) \in W
      BY <1>1, <3>1 DEF Shape
    <3>3. /\ SubSeq(l0, 1, k) \in Seq(Entry) /\ Len(SubSeq(l0, 1, k)) = k
          /\ \A i \in 1 .. k : SubSeq(l0, 1, k)[i] = l0[i]
      BY <1>1, <3>1, FirstOf
    <3>4. /\ SubSeq(L, 1, k) \in Seq(Entry) /\ Len(SubSeq(L, 1, k)) = k
          /\ \A i \in 1 .. k : SubSeq(L, 1, k)[i] = L[i]
      BY <1>5, FirstOf
    <3>5. \A i \in 1 .. k : L[i] = l0[i]
      BY <1>1, <3>1
    <3>6. SubSeq(L, 1, k) = SubSeq(l0, 1, k)
      BY <3>1, <3>3, <3>4, <3>5
    <3> QED BY <3>2, <3>6
  <2> QED BY <2>1, <2>2
<1>6. ASSUME NEW i \in 1 .. Len(L) PROVE L[i].index = i
  BY <1>1 DEF Shape
<1>7. ASSUME NEW i \in 1 .. Len(L), NEW j \in 1 .. Len(L), i <= j PROVE L[i].term <= L[j].term
  <2>1. CASE j # Len(L)
    <3>1. i \in 1 .. Len(l0) /\ j \in 1 .. Len(l0)
      BY <1>1, <1>7, <2>1
    <3> QED BY <1>1, <1>7, <3>1 DEF Shape
  <2>2. CASE j = Len(L) /\ i # Len(L)
    <3>1. i \in 1 .. Len(l0)
      BY <1>1, <2>2
    <3> QED BY <2>2, <3>1 DEF TermOf
  <2>3. CASE j = Len(L) /\ i = Len(L)
    <3>1. L[j] \in Entry
      OBVIOUS
    <3>2. L[j].term \in Nat
      BY <3>1 DEF Entry
    <3> QED BY <2>3, <3>2
  <2> QED BY <2>1, <2>2, <2>3
<1>8. ASSUME NEW c \in Logs(V), NEW l \in Logs(V), TermOf(c) = TermOf(l) PROVE Comparable(c, l)
  <2>1. CASE c \in Logs(W) /\ l \in Logs(W)
    BY <1>1, <1>8, <2>1 DEF Shape
  <2>2. CASE c = L /\ l = L
    BY <1>1, <2>2 DEF Comparable, Begins
  <2>3. CASE c = L /\ l \in Logs(W)
    BY <1>3, <1>8, <2>3 DEF Comparable, Logs
  <2>4. CASE c \in Logs(W) /\ l = L
    BY <1>3, <1>8, <2>4 DEF Comparable, Logs
  <2> QED BY <2>1, <2>2, <2>3, <2>4 DEF Logs
<1>9. \A l \in V : \A k \in 0 .. Len(l) : SubSeq(l, 1, k) \in V
  BY <1>1, <1>5 DEF Shape
<1>10. \A l \in V : \A i \in 1 .. Len(l) : l[i].index = i
  BY <1>1, <1>6 DEF Shape
<1>11. \A l \in V : \A i, j \in 1 .. Len(l) : i <= j => l[i].term <= l[j].term
  BY <1>1, <1>7 DEF Shape
<1>12. V \in SUBSET Seq(Entry)
  BY <1>1
<1> HIDE DEF V
<1>13. Known(V)
  BY <1>4, <1>8, <1>9, <1>10, <1>11, <1>12 DEF Known, Shape
<1> QED BY <1>2, <1>3, <1>13 DEF V

\* A leader proposes: its new log joins W.
LEMMA ProposeSafe ==
    ASSUME NEW W, Before(W), NEW n \in Node, NEW cmd \in Command, Propose(n, cmd)
    PROVE  \E V : History(V)'
<1>1. PICK L : L = Append(log[n], [index |-> Len(log[n]) + 1, term |-> term[n], cmd |-> cmd])
  OBVIOUS
<1>2. /\ role[n] = "Leader" /\ log' = [log EXCEPT ![n] = L]
      /\ term' = term /\ role' = role /\ msgs' = msgs /\ votes' = votes
      /\ matchIndex' = matchIndex /\ commitIndex' = commitIndex
  BY <1>1 DEF Propose, indexes
<1>3. Steady /\ Types /\ Types' /\ Known(W) /\ OneElected
  BY <1>2, BeforeSteady, SteadyVotes
<1>4. PICK l0 : l0 = log[n]
  OBVIOUS
<1>5. PICK t : t = term[n]
  OBVIOUS
<1>6. l0 \in W /\ l0 \in Seq(Entry) /\ Len(l0) \in Nat /\ t \in Nat /\ W \in SUBSET Seq(Entry)
  BY <1>3, <1>4, <1>5 DEF Types, Before, History, LogsIn, Known
<1>7. /\ L \in Seq(Entry) /\ Len(L) = Len(l0) + 1 /\ TermOf(L) = t /\ L[Len(L)].index = Len(L)
      /\ \A i \in 1 .. Len(l0) : L[i] = l0[i]
  <2>1. PICK e : e = [index |-> Len(l0) + 1, term |-> t, cmd |-> cmd]
    OBVIOUS
  <2>2. e \in Entry /\ e.term = t /\ e.index = Len(l0) + 1
    BY <1>6, <2>1 DEF Entry
  <2>3. L = Append(l0, e)
    BY <1>1, <1>4, <1>5, <2>1
  <2>4. /\ L \in Seq(Entry) /\ Len(L) = Len(l0) + 1 /\ L[Len(l0) + 1] = e
        /\ \A i \in 1 .. Len(l0) : L[i] = l0[i]
    BY <1>6, <2>2, <2>3
  <2> QED BY <2>2, <2>4 DEF TermOf
<1>8. \A i \in 1 .. Len(l0) : l0[i].term <= TermOf(L)
  BY <1>4, <1>5, <1>7 DEF Before, History, LogsIn
<1>9. \A c \in Logs(W) : TermOf(c) = TermOf(L) => Begins(c, l0)
  BY <1>2, <1>4, <1>5, <1>7, OwnTerm DEF Before
<1>10. PICK V : V = W \cup {L}
  OBVIOUS
<1>11. Known(V) /\ Begins(l0, L) /\ \A c \in W : Begins(c, l0) => Begins(c, L)
  <2>1. /\ Known(W \cup {L}) /\ Begins(l0, L)
        /\ \A c \in W : Begins(c, l0) => Begins(c, L)
    BY <1>3, <1>6, <1>7, <1>8, <1>9, ProposeShape
  <2> QED BY <1>10, <2>1
<1>12. /\ L \in Logs(V) /\ Logs(V) = Logs(W) \cup {L} /\ Begins(L, L)
       /\ Logs(W) \subseteq W
  BY <1>6, <1>7, <1>10 DEF Logs, Begins
<1>13. /\ \A p \in Node : Acked(p, L) => p = n
       /\ Choosable(L) => \A d \in Node, u \in Nat : Elected(d, u) => u <= t
  BY <1>2, <1>4, <1>5, <1>7, ProposeNew DEF Before
<1>14. \A c : (Chosen(c)' <=> Chosen(c)) /\ (Choosable(c)' <=> Choosable(c))
              /\ \A p : Acked(p, c)' <=> Acked(p, c)
  BY <1>2 DEF Chosen, Choosable, Acked, Elected, Voted, Asked, Granted, TermOf, IsAck
<1>15. \A v, c, u : (Voted(v, c, u)' <=> Voted(v, c, u)) /\ (Granted(v, c, u)' <=> Granted(v, c, u))
                      /\ (Asked(c, u)' <=> Asked(c, u)) /\ (Elected(c, u)' <=> Elected(c, u))
  BY <1>2 DEF Elected, Voted, Asked, Granted
<1>16. log'[n] = L /\ \A x \in Node : x # n => log'[x] = log[x]
  BY <1>2, <1>3 DEF Types
<1>17. ASSUME NEW c \in W, NEW x \in Node, Begins(c, log[x]) PROVE Begins(c, log'[x])
  BY <1>4, <1>11, <1>16, <1>17
<1>18. AcksLate
  BY <1>2 DEF AcksLate
<1>19. Elected(n, t)
  BY <1>2, <1>3, <1>5, LeaderElected DEF Before, RaftInv, VotesInv
<1>20. Grown(V)'
  <2>1. Grown(W)'
    BY <1>3, <1>6, GrownKept DEF Before, History
  <2>2. \A c \in Logs(W) : \E p \in Node :
          /\ Elected(p, TermOf(c))' /\ term'[p] >= TermOf(c)
          /\ term'[p] = TermOf(c) => role'[p] = "Leader" /\ Begins(c, log'[p])
    BY <2>1 DEF Grown, TermOf, Begins, Logs
  <2>3. /\ Elected(n, TermOf(L))' /\ term'[n] >= TermOf(L)
        /\ term'[n] = TermOf(L) => role'[n] = "Leader" /\ Begins(L, log'[n])
    BY <1>2, <1>5, <1>6, <1>7, <1>12, <1>15, <1>16, <1>19 DEF Elected, Voted, Asked, Granted
  <2>4. \A c \in Logs(V) : \E p \in Node :
          /\ Elected(p, TermOf(c))' /\ term'[p] >= TermOf(c)
          /\ term'[p] = TermOf(c) => role'[p] = "Leader" /\ Begins(c, log'[p])
    BY <1>12, <2>2, <2>3
  <2> QED BY <2>4 DEF Grown, TermOf, Begins, Logs
<1>21. LogsIn(V)'
  <2>1. \A i \in 1 .. Len(L) : L[i].term <= t
    BY <1>6, <1>7, <1>8 DEF TermOf
  <2> QED BY <1>2, <1>5, <1>10, <1>16, <2>1 DEF LogsIn, Before, History
<1>22. RequestsCarry(V)'
  <2> SUFFICES ASSUME NEW m \in msgs, m.type = "AppendEntries"
               PROVE  \E l \in V : Carries(m, l, V)'
    BY <1>2 DEF RequestsCarry
  <2>1. PICK l \in W : Carries(m, l, W)
    BY DEF Before, History, MessagesTrue, RequestsCarry
  <2>2. Carries(m, l, W)'
    BY <1>3, <1>6, <1>18, <2>1, CarriesKept DEF Before, History
  <2>3. m.src \in Node /\ m.term \in Nat /\ Elected(m.src, m.term)
    BY <1>3 DEF Types, MessageOK, Before, RaftInv, LogsInv, RequestsLed
  <2>4. ASSUME t <= m.term, Choosable(L) PROVE Comparable(L, l)
    <3>1. m.term = t
      BY <1>6, <1>13, <2>3, <2>4
    <3>2. m.src = n
      BY <1>3, <1>6, <1>19, <2>3, <3>1 DEF OneElected
    <3>3. Begins(l, l0)
      BY <1>4, <1>5, <2>1, <3>1, <3>2 DEF Carries
    <3> QED BY <1>11, <3>3 DEF Comparable
  <2>5. \A c \in Logs(V) : TermOf(c) <= m.term /\ Choosable(c)' => Comparable(c, l)
    BY <1>7, <1>12, <1>14, <2>1, <2>4 DEF Carries
  <2>6. Carries(m, l, V)'
    BY <2>2, <2>5, Zenon DEF Carries, Begins, Comparable, TermOf, Logs, TermAt
  <2> QED BY <1>10, <2>6
<1>23. AcksTrue'
  BY <1>2, <1>3, AckKept DEF AcksTrue, Before, History, MessagesTrue, IsAck
<1>24. VoteRequestsTrue'
  <2> SUFFICES ASSUME NEW m \in msgs, m.type = "RequestVote", role[m.src] = "Candidate",
                      m.term = term[m.src]
               PROVE  m.lastIndex = LastIndex(m.src)' /\ m.lastTerm = LastTerm(m.src)'
    BY <1>2 DEF VoteRequestsTrue
  <2>1. log'[m.src] = log[m.src]
    BY <1>2, <1>3, <1>16 DEF Types, MessageOK
  <2>2. m.lastIndex = LastIndex(m.src) /\ m.lastTerm = LastTerm(m.src)
    BY DEF Before, History, MessagesTrue, VoteRequestsTrue
  <2> QED BY <2>1, <2>2 DEF LastIndex, LastTerm, TermAt
<1>25. GrantedAsked'
  BY <1>15 DEF GrantedAsked, Before, History, MessagesTrue
<1>26. AckedHave(V)'
  <2> SUFFICES ASSUME NEW c \in Logs(V), NEW p \in Node, Choosable(c), Acked(p, c)
               PROVE  Begins(c, log'[p])
    BY <1>14 DEF AckedHave, Logs, Begins
  <2>1. CASE c \in Logs(W)
    BY <1>12, <1>17, <2>1 DEF Before, History, Complete, AckedHave
  <2>2. CASE c = L
    BY <1>12, <1>13, <1>16, <2>2
  <2> QED BY <1>12, <2>1, <2>2
<1>27. LaterHave(V)'
  <2> SUFFICES ASSUME NEW c \in Logs(V), NEW l \in Logs(V), Choosable(c), TermOf(l) > TermOf(c)
               PROVE  Begins(c, l)
    BY <1>14 DEF LaterHave, Logs, Begins, TermOf
  <2>1. CASE c \in Logs(W) /\ l \in Logs(W)
    BY <2>1 DEF Before, History, Complete, LaterHave
  <2>2. CASE c \in Logs(W) /\ l = L
    <3>1. Begins(c, l0)
      BY <1>2, <1>4, <1>5, <1>7, <2>2 DEF Before, History, Complete, LeadersHave
    <3> QED BY <1>11, <1>12, <2>2, <3>1
  <2>3. CASE c = L /\ l \in Logs(W)
    <3>1. PICK p \in Node : Elected(p, TermOf(l))
      BY <2>3 DEF Before, History, Grown
    <3>2. TermOf(l) \in Nat
      BY <1>6, <2>3, TermOfType
    <3> QED BY <1>6, <1>7, <1>13, <2>3, <3>1, <3>2
  <2>4. CASE c = L /\ l = L
    BY <1>6, <1>7, <2>4
  <2> QED BY <1>12, <2>1, <2>2, <2>3, <2>4
<1>28. CandidatesHave(V)'
  <2> SUFFICES ASSUME NEW c \in Logs(V), NEW v \in Node, NEW x \in Node, role[x] = "Candidate",
                      Voted(v, x, term[x])', term[x] > TermOf(c), Choosable(c), Acked(v, c)
               PROVE  Begins(c, log'[x])
    BY <1>2, <1>14 DEF CandidatesHave, Logs, Begins, TermOf
  <2>0. Voted(v, x, term[x])
    BY <1>2, <1>15 DEF Voted, Asked, Granted
  <2>1. CASE c \in Logs(W)
    BY <1>12, <1>17, <2>0, <2>1 DEF Before, History, Complete, CandidatesHave
  <2>2. CASE c = L
    <3>1. v = n /\ term[x] \in Nat
      BY <1>3, <1>13, <2>2 DEF Types
    <3>2. term[n] >= term[x]
      BY <2>0, <3>1 DEF Before, RaftInv, VotesInv, VotesRemembered
    <3> QED BY <1>5, <1>6, <1>7, <2>2, <3>1, <3>2
  <2> QED BY <1>12, <2>1, <2>2
<1>29. LeadersHave(V)'
  <2> SUFFICES ASSUME NEW c \in Logs(V), NEW x \in Node, role[x] = "Leader",
                      term[x] > TermOf(c), Choosable(c)
               PROVE  Begins(c, log'[x])
    BY <1>2, <1>14 DEF LeadersHave, Logs, Begins, TermOf
  <2>1. CASE c \in Logs(W)
    BY <1>12, <1>17, <2>1 DEF Before, History, Complete, LeadersHave
  <2>2. CASE c = L
    <3>1. Elected(x, term[x]) /\ term[x] \in Nat
      BY <1>3, LeaderElected DEF Before, RaftInv, VotesInv, Types
    <3> QED BY <1>6, <1>7, <1>13, <2>2, <3>1
  <2> QED BY <1>12, <2>1, <2>2
<1>30. Matches'
  BY <1>2, <1>3, MatchesKept DEF NoNewLeaders, Before, History, Committed
<1>31. Commits(V)'
  <2>1. commitIndex \in [Node -> Nat] /\ \A x \in Node : CommitOK(x, commitIndex[x], W)
    BY DEF Before, History, Committed, Commits
  <2>2. ASSUME NEW x \in Node, commitIndex[x] > 0
        PROVE  \E c \in Logs(V) :
                 /\ Chosen(c)' /\ TermOf(c) <= term'[x] /\ commitIndex[x] <= Len(c)
                 /\ commitIndex[x] <= Len(log'[x])
                 /\ \A i \in 1 .. commitIndex[x] : c[i] = log'[x][i]
    <3>1. PICK c \in Logs(W) :
            /\ Chosen(c) /\ TermOf(c) <= term[x] /\ commitIndex[x] <= Len(c)
            /\ commitIndex[x] <= Len(log[x])
            /\ \A i \in 1 .. commitIndex[x] : c[i] = log[x][i]
      BY <2>1, <2>2 DEF CommitOK
    <3>2. commitIndex[x] \in Nat
      BY <2>1
    <3>3. commitIndex[x] <= Len(log'[x]) /\ \A i \in 1 .. commitIndex[x] : log'[x][i] = log[x][i]
      <4>1. CASE x = n
        <5>1. log'[x] = L /\ log[x] = l0
          BY <1>4, <1>16, <4>1
        <5>2. PICK k \in Nat : k = commitIndex[x]
          BY <3>2
        <5>3. k <= Len(l0)
          BY <3>1, <5>1, <5>2
        <5>4. k <= Len(L) /\ \A i \in 1 .. k : L[i] = l0[i]
          BY <1>6, <1>7, <5>2, <5>3
        <5> QED BY <5>1, <5>2, <5>4
      <4>2. CASE x # n
        BY <1>16, <3>1, <4>2
      <4> QED BY <4>1, <4>2
    <3> QED BY <1>2, <1>12, <1>14, <3>1, <3>3
  <2>3. \A x \in Node : CommitOK(x, commitIndex[x], V)'
    BY <1>2, <2>2 DEF CommitOK, Logs, TermOf
  <2> QED BY <1>2, <2>1, <2>3 DEF Commits
<1>32. RequestCommits(V)'
  <2> SUFFICES ASSUME NEW m \in msgs, m.type = "AppendEntries"
               PROVE  /\ m.commit \in Nat
                      /\ m.commit > 0 =>
                           \E c \in Logs(V) : Chosen(c)' /\ TermOf(c) <= m.term /\ m.commit <= Len(c)
    BY <1>2 DEF RequestCommits, Logs, TermOf
  <2> QED BY <1>12, <1>14 DEF Before, History, Committed, RequestCommits
<1>33. (V \in SUBSET Seq(Entry) /\ Shape(V))'
  BY <1>11, KnownKept
<1>34. MessagesTrue(V)' /\ Complete(V)' /\ Committed(V)'
  BY <1>22, <1>23, <1>24, <1>25, <1>26, <1>27, <1>28, <1>29, <1>30, <1>31, <1>32
  DEF MessagesTrue, Complete, Committed
<1> QED BY <1>20, <1>21, <1>33, <1>34 DEF History

\* What may be chosen and a request do not contradict each other: a log that
\* begins with one of them still does when the request is put in.
LEMMA PutKeeps ==
    ASSUME NEW c \in Seq(Entry), NEW l \in Seq(Entry), NEW l0 \in Seq(Entry), Comparable(c, l),
           NEW k \in Nat, k <= Len(c), k <= Len(l0), \A i \in 1 .. k : c[i] = l0[i],
           NEW R, R = IF Begins(l, l0) THEN l0 ELSE l
    PROVE  k <= Len(R) /\ \A i \in 1 .. k : c[i] = R[i]
<1>1. Len(c) \in Nat /\ Len(l) \in Nat /\ Len(l0) \in Nat
  OBVIOUS
<1>2. CASE Begins(l, l0)
  BY <1>2
<1>3. CASE ~Begins(l, l0)
  <2>1. R = l
    BY <1>3
  <2>2. CASE Begins(c, l)
    BY <1>1, <2>1, <2>2 DEF Begins
  <2>3. CASE Begins(l, c)
    <3>1. Len(l) >= k
      <4>1. ASSUME Len(l) < k PROVE FALSE
        <5>1. \A i \in 1 .. Len(l) : l[i] = l0[i]
          BY <1>1, <2>3, <4>1 DEF Begins
        <5> QED BY <1>1, <1>3, <4>1, <5>1 DEF Begins
      <4> QED BY <1>1, <4>1
    <3> QED BY <1>1, <2>1, <2>3, <3>1 DEF Begins
  <2> QED BY <2>2, <2>3 DEF Comparable
<1> QED BY <1>2, <1>3

\* A request is accepted whose previous entry the follower has, and no commit
\* index beyond what it covers is taken.
LEMMA AcceptSafe ==
    ASSUME NEW W, Before(W), NEW n \in Node, NEW m \in msgs, HandleAppendEntries(n, m),
           LogConsistent(n, m), m.prevIndex <= LastIndex(n),
           \/ commitIndex'[n] = commitIndex[n]
           \/ commitIndex'[n] <= m.prevIndex + Len(m.entries)
    PROVE  History(W)'
<1>1. PICK l0 : l0 = log[n]
  OBVIOUS
<1>2. PICK R : R = PutAll(l0, m.entries)
  OBVIOUS
<1>3. PICK r : r = AppendResponse(n, m.src, m.term, TRUE, m.prevIndex + Len(m.entries))
  OBVIOUS
<1>4. /\ m.type = "AppendEntries" /\ m.dst = n /\ m.term >= term[n]
      /\ term' = [term EXCEPT ![n] = m.term] /\ role' = [role EXCEPT ![n] = "Follower"]
      /\ log' = [log EXCEPT ![n] = R] /\ msgs' = msgs \cup {r}
      /\ commitIndex' = [commitIndex EXCEPT ![n] =
           IF m.commit > commitIndex[n] THEN Minimum(m.commit, Len(R)) ELSE commitIndex[n]]
      /\ matchIndex' = matchIndex
  BY <1>1, <1>2, <1>3 DEF HandleAppendEntries, Send
<1>5. Steady /\ Types /\ Types' /\ Known(W) /\ W \in SUBSET Seq(Entry) /\ Shape(W) /\ OneVote
  BY <1>4, BeforeSteady DEF Known, Steady
<1>6. /\ m.src \in Node /\ m.term \in Nat /\ term[n] \in Nat /\ m.src # n
      /\ Elected(m.src, m.term)
  BY <1>4, <1>5 DEF Types, MessageOK, Before, RaftInv, LogsInv, RequestsLed
<1>7. PICK l \in W : Carries(m, l, W)
  BY <1>4 DEF Before, History, MessagesTrue, RequestsCarry
<1>8. /\ l \in Seq(Entry) /\ l0 \in Seq(Entry) /\ l0 \in W /\ Len(l) \in Nat /\ Len(l0) \in Nat
      /\ \A i \in 1 .. Len(l0) : l0[i].term <= term[n]
  BY <1>1, <1>5, <1>7 DEF Types, Before, History, LogsIn
<1>9. R = IF Begins(l, l0) THEN l0 ELSE l
  <2>1. /\ m.prevIndex \in Nat /\ m.entries \in Seq(Entry)
        /\ Len(l) = m.prevIndex + Len(m.entries)
        /\ \A j \in 1 .. Len(m.entries) : m.entries[j] = l[m.prevIndex + j]
        /\ m.prevTerm = TermAt(l, m.prevIndex)
    BY <1>7 DEF Carries
  <2>2. PICK prev \in Nat : prev = m.prevIndex
    BY <2>1
  <2>3. PICK es \in Seq(Entry) : es = m.entries
    BY <2>1
  <2>4. prev = 0 \/ (prev <= Len(l0) /\ l0[prev].term = l[prev].term)
    <3>1. CASE prev # 0
      <4>1. prev \in 1 .. Len(l0) /\ TermAt(l0, prev) = TermAt(l, prev)
        BY <1>1, <1>8, <2>1, <2>2, <3>1 DEF LogConsistent, LastIndex, PrevTerm
      <4>2. prev \in 1 .. Len(l)
        BY <1>8, <2>1, <2>2, <3>1
      <4> QED BY <4>1, <4>2 DEF TermAt
    <3> QED BY <3>1
  <2>5. Len(l) = prev + Len(es) /\ \A j \in 1 .. Len(es) : es[j] = l[prev + j]
    BY <2>1, <2>2, <2>3
  <2>6. (Begins(l, l0) => PutAll(l0, es) = l0) /\ (~Begins(l, l0) => PutAll(l0, es) = l)
    <3>1. l \in W /\ l0 \in W /\ prev \in Nat /\ es \in Seq(Entry)
      BY <1>7, <1>8, <2>2, <2>3
    <3>2. W \in SUBSET Seq(Entry) /\ Shape(W)
      BY <1>5
    <3> QED BY ONLY <2>4, <2>5, <3>1, <3>2, PutAllOf, ZenonT(60)
  <2> QED BY <1>2, <2>3, <2>6
<1>10. R \in W /\ R \in Seq(Entry) /\ Begins(l, R) /\ Len(R) \in Nat
  BY <1>8, <1>9 DEF Begins
<1>11. /\ r.type = "AppendResponse" /\ r.src = n /\ r.dst = m.src /\ r.term = m.term
       /\ r.match = Len(l) /\ \A x \in msgs' \ msgs : x = r
  BY <1>3, <1>4, <1>7 DEF AppendResponse, Carries
<1>12. /\ log'[n] = R /\ term'[n] = m.term /\ role'[n] = "Follower"
       /\ \A x \in Node : x # n => log'[x] = log[x] /\ term'[x] = term[x] /\ role'[x] = role[x]
  BY <1>4, <1>5 DEF Types
<1>13. AcksLate
  BY <1>4, <1>6, <1>11 DEF AcksLate
<1>14. \A c \in Logs(W) : Choosable(c)' => Choosable(c)
  BY <1>5, <1>13, WasChoosable DEF Before, History
<1>15. ASSUME NEW c \in Logs(W), NEW p \in Node, Acked(p, c)', ~Acked(p, c)
       PROVE  p = n /\ TermOf(c) = m.term /\ Len(c) <= Len(l)
  BY <1>5, <1>11, <1>15, NewlyAcked DEF Before, History
<1>16. ASSUME NEW c \in Logs(W), TermOf(c) <= m.term, Choosable(c) PROVE Comparable(c, l)
  BY <1>7, <1>16 DEF Carries
<1>17. Grown(W)' /\ LaterHave(W)'
  BY <1>5, <1>13, GrownKept, LaterKept DEF Before, History, Complete
<1>18. LogsIn(W)'
  <2>1. ASSUME NEW i \in 1 .. Len(R) PROVE R[i].term <= m.term
    <3>1. CASE R = l
      BY <1>7, <3>1 DEF Carries
    <3>2. CASE R = l0
      <4>1. l0[i] \in Entry
        BY <1>8, <3>2
      <4>2. l0[i].term \in Nat /\ l0[i].term <= term[n]
        BY <1>8, <3>2, <4>1 DEF Entry
      <4> QED BY <1>4, <1>6, <3>2, <4>2
    <3> QED BY <1>9, <3>1, <3>2
  <2> QED BY <1>10, <1>12, <2>1 DEF LogsIn, Before, History
<1>19. RequestsCarry(W)' /\ RequestCommits(W)'
  <2>1. NewRequestsOK(W)
    BY <1>11 DEF NewRequestsOK
  <2> QED BY <1>5, <1>13, <2>1, RequestsKept DEF Before, History, MessagesTrue, Committed
<1>20. AcksTrue'
  <2>1. AckTrue(r)'
    <3>1. Carries(m, l, W)'
      BY <1>5, <1>7, <1>13, CarriesKept DEF Before, History
    <3>2. /\ term'[m.src] >= m.term
          /\ term'[m.src] = m.term => role'[m.src] = "Leader" /\ Len(l) <= Len(log'[m.src])
      BY <3>1 DEF Carries, Begins
    <3>3. PICK s \in Node : s = m.src
      BY <1>6
    <3>4. PICK t \in Nat : t = m.term
      BY <1>6
    <3>5. Elected(s, t)'
      BY <1>5, <1>6, <3>3, <3>4, SteadyVotes, ElectedGrows
    <3> QED BY <1>6, <1>8, <1>11, <1>12, <3>2, <3>3, <3>4, <3>5 DEF AckTrue
  <2>2. \A x \in msgs : IsAck(x) => AckTrue(x)'
    BY <1>5, AckKept DEF Before, History, MessagesTrue, AcksTrue
  <2> QED BY <1>4, <2>1, <2>2 DEF AcksTrue, IsAck
<1>21. \A v, c, t : (Voted(v, c, t)' <=> Voted(v, c, t)) /\ (Granted(v, c, t)' <=> Granted(v, c, t))
                      /\ (Asked(c, t)' <=> Asked(c, t))
  BY <1>4, <1>11 DEF Voted, Granted, Asked
<1>22. VoteRequestsTrue'
  <2> SUFFICES ASSUME NEW x \in msgs', x.type = "RequestVote", role'[x.src] = "Candidate",
                      x.term = term'[x.src]
               PROVE  x.lastIndex = LastIndex(x.src)' /\ x.lastTerm = LastTerm(x.src)'
    BY DEF VoteRequestsTrue
  <2>1. x \in msgs /\ x.src \in Node /\ x.src # n
    BY <1>5, <1>11, <1>12 DEF Types, MessageOK
  <2>2. x.lastIndex = LastIndex(x.src) /\ x.lastTerm = LastTerm(x.src)
    BY <1>12, <2>1 DEF Before, History, MessagesTrue, VoteRequestsTrue
  <2> QED BY <1>12, <2>1, <2>2 DEF LastIndex, LastTerm, TermAt
<1>23. GrantedAsked'
  BY <1>21 DEF Before, History, MessagesTrue, GrantedAsked
<1>24. AckedHave(W)'
  <2> SUFFICES ASSUME NEW c \in Logs(W), NEW p \in Node, Choosable(c)', Acked(p, c)'
               PROVE  Begins(c, log'[p])
    BY DEF AckedHave, Logs, Begins
  <2>1. /\ Choosable(c) /\ c \in Seq(Entry) /\ Len(c) \in Nat \ {0} /\ TermOf(c) \in Nat
    BY <1>5, <1>14, TermOfType
  <2>2. CASE p # n
    BY <1>12, <1>15, <2>1, <2>2 DEF Before, History, Complete, AckedHave
  <2>3. CASE p = n /\ Acked(p, c)
    <3>1. Begins(c, l0)
      BY <1>1, <2>1, <2>3 DEF Before, History, Complete, AckedHave
    <3>2. TermOf(c) <= term[n]
      BY <1>5, <2>3, AckedTerm DEF Before, History, MessagesTrue
    <3>3. Comparable(c, l)
      BY <1>4, <1>6, <1>16, <2>1, <3>2
    <3>4. PICK k \in Nat : k = Len(c)
      BY <2>1
    <3>5. k <= Len(c) /\ k <= Len(l0) /\ \A i \in 1 .. k : c[i] = l0[i]
      BY <2>1, <3>1, <3>4 DEF Begins
    <3>6. k <= Len(R) /\ \A i \in 1 .. k : c[i] = R[i]
      BY <1>8, <1>9, <2>1, <3>3, <3>5, PutKeeps
    <3> QED BY <1>12, <2>3, <3>4, <3>6 DEF Begins
  <2>4. CASE p = n /\ ~Acked(p, c)
    <3>1. TermOf(c) = m.term /\ Len(c) <= Len(l)
      BY <1>15, <2>4
    <3>2. Comparable(c, l)
      BY <1>6, <1>16, <2>1, <3>1
    <3>3. Begins(c, l)
      BY <1>8, <2>1, <3>1, <3>2 DEF Comparable, Begins
    <3>4. Begins(c, R)
      BY <1>8, <1>10, <2>1, <3>3, BeginsTrans
    <3> QED BY <1>12, <2>4, <3>4
  <2> QED BY <2>2, <2>3, <2>4
<1>25. CandidatesHave(W)'
  <2> SUFFICES ASSUME NEW c \in Logs(W), NEW v \in Node, NEW x \in Node, role'[x] = "Candidate",
                      Voted(v, x, term[x])', term'[x] > TermOf(c), Choosable(c)', Acked(v, c)'
               PROVE  Begins(c, log'[x])
    BY DEF CandidatesHave, Logs, Begins, TermOf
  <2>1. x # n /\ role[x] = "Candidate" /\ term'[x] = term[x] /\ log'[x] = log[x]
    BY <1>12
  <2>2. Voted(v, x, term[x])
    BY <1>21, <2>1 DEF Voted, Granted, Asked
  <2>3. Choosable(c) /\ TermOf(c) \in Nat /\ term[x] \in Nat
    BY <1>5, <1>14, TermOfType DEF Types
  <2>4. Acked(v, c)
    <3>1. ASSUME ~Acked(v, c) PROVE FALSE
      <4>1. v = n /\ TermOf(c) = m.term
        BY <1>15, <3>1
      <4>2. term[n] >= term[x]
        BY <2>2, <2>3, <4>1 DEF Before, RaftInv, VotesInv, VotesRemembered
      <4> QED BY <1>4, <1>6, <2>1, <2>3, <4>1, <4>2
    <3> QED BY <3>1
  <2> QED BY <2>1, <2>2, <2>3, <2>4 DEF Before, History, Complete, CandidatesHave
<1>26. NoNewLeaders
  BY <1>12 DEF NoNewLeaders
<1>27. LeadersHave(W)'
  <2> SUFFICES ASSUME NEW c \in Logs(W), NEW x \in Node, role'[x] = "Leader",
                      term'[x] > TermOf(c), Choosable(c)'
               PROVE  Begins(c, log'[x])
    BY DEF LeadersHave, Logs, Begins, TermOf
  <2>1. x # n /\ role[x] = "Leader" /\ term'[x] = term[x] /\ log'[x] = log[x]
    BY <1>12
  <2> QED BY <1>14, <2>1 DEF Before, History, Complete, LeadersHave
<1>28. Matches'
  BY <1>4, <1>5, <1>26, MatchesKept DEF Before, History, Committed
<1>29. commitIndex \in [Node -> Nat] /\ \A x \in Node : CommitOK(x, commitIndex[x], W)
  BY DEF Before, History, Committed, Commits
<1>30. m.commit \in Nat
  BY <1>4 DEF Before, History, Committed, RequestCommits
<1>31. PICK k : k = commitIndex'[n]
  OBVIOUS
<1>32. k \in Nat
  BY <1>4, <1>10, <1>29, <1>30, <1>31 DEF Minimum
<1>33. ASSUME k > 0
       PROVE  \E c \in Logs(W) :
                /\ Chosen(c) /\ TermOf(c) <= m.term /\ k <= Len(c) /\ k <= Len(R)
                /\ \A i \in 1 .. k : c[i] = R[i]
  <2>1. CASE k = commitIndex[n]
    <3>1. PICK c \in Logs(W) :
            /\ Chosen(c) /\ TermOf(c) <= term[n] /\ k <= Len(c) /\ k <= Len(l0)
            /\ \A i \in 1 .. k : c[i] = l0[i]
      BY <1>1, <1>29, <1>33, <2>1 DEF CommitOK
    <3>2. TermOf(c) \in Nat /\ c \in Seq(Entry)
      BY <1>5, TermOfType
    <3>3. TermOf(c) <= m.term
      BY <1>4, <1>6, <3>1, <3>2
    <3>4. Comparable(c, l)
      BY <1>16, <3>1, <3>3, ChosenChoosable
    <3>5. k <= Len(R) /\ \A i \in 1 .. k : c[i] = R[i]
      BY <1>8, <1>9, <1>32, <3>1, <3>2, <3>4, PutKeeps
    <3> QED BY <3>1, <3>3, <3>5
  <2>2. CASE k # commitIndex[n]
    <3>1. m.commit > commitIndex[n] /\ k = Minimum(m.commit, Len(R))
      BY <1>4, <1>29, <1>31, <2>2
    <3>2. k <= m.commit /\ k <= Len(l) /\ m.commit > 0
      <4>1. k <= Len(l)
        BY <1>7, <1>31, <2>2 DEF Carries
      <4>2. commitIndex[n] \in Nat
        BY <1>29
      <4> QED BY <1>10, <1>30, <3>1, <4>1, <4>2 DEF Minimum
    <3>3. PICK c \in Logs(W) : Chosen(c) /\ TermOf(c) <= m.term /\ m.commit <= Len(c)
      BY <1>4, <3>2 DEF Before, History, Committed, RequestCommits
    <3>4. c \in Seq(Entry) /\ Len(c) \in Nat
      BY <1>5, TermOfType
    <3>5. Comparable(c, l)
      BY <1>16, <3>3, ChosenChoosable
    <3>6. k <= Len(c)
      BY <1>30, <1>32, <3>2, <3>3, <3>4
    <3>7. \A i \in 1 .. k : c[i] = l[i]
      BY <1>8, <1>32, <3>2, <3>4, <3>5, <3>6 DEF Comparable, Begins
    <3>8. k <= Len(R) /\ \A i \in 1 .. k : l[i] = R[i]
      BY <1>8, <1>10, <1>32, <3>2 DEF Begins
    <3> QED BY <3>3, <3>6, <3>7, <3>8
  <2> QED BY <2>1, <2>2
<1>34. CommitOK(n, k, W)'
  <2> SUFFICES ASSUME k > 0
               PROVE  \E c \in Logs(W) :
                        /\ Chosen(c)' /\ TermOf(c) <= term'[n] /\ k <= Len(c) /\ k <= Len(log'[n])
                        /\ \A i \in 1 .. k : c[i] = log'[n][i]
    BY DEF CommitOK, Logs, TermOf
  <2>1. PICK c \in Logs(W) :
          /\ Chosen(c) /\ TermOf(c) <= m.term /\ k <= Len(c) /\ k <= Len(R)
          /\ \A i \in 1 .. k : c[i] = R[i]
    BY <1>33
  <2>2. Chosen(c)'
    BY <1>5, <2>1, StillChosen
  <2> QED BY <1>12, <2>1, <2>2
<1>35. Commits(W)'
  <2>1. PICK g : g = commitIndex'
    OBVIOUS
  <2>2. g \in [Node -> Nat] /\ g[n] = k /\ \A x \in Node : x # n => g[x] = commitIndex[x]
    BY <1>4, <1>29, <1>31, <1>32, <2>1
  <2>3. ASSUME NEW x \in Node PROVE CommitOK(x, g[x], W)'
    <3>1. CASE x = n
      BY <1>34, <2>2, <3>1
    <3>2. CASE x # n
      <4>1. CommitOK(x, g[x], W) /\ log'[x] = log[x]
        BY <1>12, <1>29, <2>2, <3>2
      <4> QED BY <1>5, <4>1, CommitKept
    <3> QED BY <3>1, <3>2
  <2> QED BY <2>1, <2>2, <2>3 DEF Commits
<1>36. (W \in SUBSET Seq(Entry) /\ Shape(W))'
  BY <1>5, KnownKept
<1>37. MessagesTrue(W)' /\ Complete(W)' /\ Committed(W)'
  BY <1>17, <1>19, <1>20, <1>22, <1>23, <1>24, <1>25, <1>27, <1>28, <1>35
  DEF MessagesTrue, Complete, Committed
<1> QED BY <1>17, <1>18, <1>36, <1>37 DEF History

\* A request is refused whose previous entry the follower does not have.
LEMMA RefuseSafe ==
    ASSUME NEW W, Before(W), NEW n \in Node, NEW m \in msgs, HandleAppendEntries(n, m),
           ~LogConsistent(n, m)
    PROVE  History(W)'
<1>1. PICK r : r = AppendResponse(n, m.src, m.term, FALSE, 0)
  OBVIOUS
<1>2. /\ m.term >= term[n] /\ term' = [term EXCEPT ![n] = m.term]
      /\ votedFor' = [votedFor EXCEPT ![n] = VoteAfter(n, m.term)]
      /\ role' = [role EXCEPT ![n] = "Follower"] /\ votes' = votes
      /\ log' = log /\ commitIndex' = commitIndex /\ matchIndex' = matchIndex
      /\ msgs' = msgs \cup {r}
  BY <1>1 DEF HandleAppendEntries, Send
<1>3. r.type = "AppendResponse" /\ ~r.success
  BY <1>1 DEF AppendResponse
<1>4. Steady /\ Types
  BY <1>2, BeforeSteady
<1>5. m.term \in Nat
  BY <1>4 DEF Types, MessageOK
<1>6. NoElection
  BY <1>2, <1>4, <1>5 DEF Types, NoElection, VoteAfter
<1>7. NoNewAcks /\ NoNewVotes /\ NewRequestsOK(W)
  BY <1>2, <1>3 DEF NoNewAcks, NoNewVotes, NewRequestsOK, IsAck
<1> QED BY <1>2, <1>4, <1>6, <1>7, CalmHistory DEF Idle, Before

\* A request is handled without being accepted beyond the end of the log, or
\* for its commit index alone.
LEMMA HandleAppendEntriesSafe ==
    ASSUME NEW W, Before(W), NEW n \in Node, NEW m \in msgs, HandleAppendEntries(n, m), ~skewed'
    PROVE  History(W)'
<1>1. /\ ~(m.prevIndex > LastIndex(n))
      /\ commitIndex'[n] = commitIndex[n]
           \/ ~(commitIndex'[n] > m.prevIndex + Len(m.entries))
  BY Zenon DEF HandleAppendEntries
<1>2. CASE LogConsistent(n, m)
  <2>1. m.type = "AppendEntries" /\ Types
    BY DEF HandleAppendEntries, Before, RaftInv
  <2>10. m.prevIndex \in Nat /\ m.entries \in Seq(Entry) /\ Len(m.entries) \in Nat
    BY <2>1 DEF Types, MessageOK
  <2>2. LastIndex(n) \in Nat
    BY <2>1 DEF Types, LastIndex
  <2>3. m.commit \in Nat /\ commitIndex \in [Node -> Nat]
    BY <2>1 DEF Before, History, Committed, RequestCommits, Commits
  <2>4. PICK R : R = PutAll(log[n], m.entries)
    OBVIOUS
  <2>5. log'[n] = R /\ Len(R) \in Nat
    <3>1. Types' /\ log' = [log EXCEPT ![n] = R]
      BY <1>2, <2>4 DEF HandleAppendEntries, Before, RaftInv
    <3> QED BY <2>1, <3>1 DEF Types
  <2>6. commitIndex'[n] \in Nat
    BY <1>2, <2>3, <2>4, <2>5 DEF HandleAppendEntries, Minimum
  <2>7. m.prevIndex <= LastIndex(n)
    BY <1>1, <2>10, <2>2
  <2>8. commitIndex'[n] = commitIndex[n] \/ commitIndex'[n] <= m.prevIndex + Len(m.entries)
    BY <1>1, <2>10, <2>6
  <2> QED BY <1>2, <2>7, <2>8, AcceptSafe
<1>3. CASE ~LogConsistent(n, m)
  BY <1>3, RefuseSafe
<1> QED BY <1>2, <1>3

-----------------------------------------------------------------------------
(* The invariant of commits holds initially. *)
LEMMA InitSafe == Init => SafeInv
<1> SUFFICES ASSUME Init PROVE \E W : History(W)
  BY DEF SafeInv
<1>1. PICK W : W = {<<>>}
  OBVIOUS
<1>2. W \in SUBSET Seq(Entry) /\ Logs(W) = {} /\ <<>> \in W
  BY <1>1 DEF Logs
<1>3. Shape(W)
  <2>1. \A l \in W : l = <<>> /\ Len(l) = 0 /\ \A k \in 0 .. Len(l) : SubSeq(l, 1, k) = <<>>
    BY <1>1
  <2>2. \A l \in W : \A k \in 0 .. Len(l) : SubSeq(l, 1, k) \in W
    BY <1>2, <2>1
  <2>3. \A l \in W : \A i \in 1 .. Len(l) : FALSE
    BY <2>1
  <2> QED BY <1>2, <2>2, <2>3 DEF Shape
<1>4. Grown(W) /\ Complete(W)
  BY <1>2 DEF Grown, Complete, AckedHave, LaterHave, CandidatesHave, LeadersHave
<1>5. msgs = {} /\ \A n \in Node : log[n] = <<>> /\ role[n] = "Follower"
  BY DEF Init
<1>6. LogsIn(W)
  BY <1>2, <1>5 DEF LogsIn
<1>7. MessagesTrue(W)
  BY <1>5 DEF MessagesTrue, RequestsCarry, AcksTrue, VoteRequestsTrue, GrantedAsked, Granted
<1>8. Committed(W)
  <2>1. Matches
    BY <1>5 DEF Matches, Init
  <2>2. Commits(W) /\ RequestCommits(W)
    BY <1>5 DEF Init, Commits, CommitOK, RequestCommits
  <2> QED BY <2>1, <2>2 DEF Committed
<1> QED BY <1>2, <1>3, <1>4, <1>6, <1>7, <1>8 DEF History

\* Nothing is forgotten of what CommittedIsReplicated leaves out.
LEMMA ReceiveCounts ==
    ASSUME NEW n \in Node, NEW m \in msgs, Receive(n, m)
    PROVE  restarts' = restarts /\ removals' = removals /\ (skewed => skewed')
             /\ deposed' = deposed
<1>1. CASE HandleAppendEntries(n, m)
  <2>1. restarts' = restarts /\ removals' = removals /\ deposed' = deposed
    BY <1>1 DEF HandleAppendEntries, ticks
  <2>2. skewed => skewed'
    BY <1>1, Zenon DEF HandleAppendEntries
  <2> QED BY <2>1, <2>2
<1>2. CASE RecordAppendSuccess(n, m)
  <2>1. restarts' = restarts /\ removals' = removals /\ deposed' = deposed
    BY <1>2 DEF RecordAppendSuccess, ticks
  <2>2. skewed => skewed'
    BY <1>2, Zenon DEF RecordAppendSuccess
  <2> QED BY <2>1, <2>2
<1>3. CASE HandleRequestVote(n, m) \/ StepDown(n, m) \/ RecordVote(n, m)
  BY <1>3 DEF HandleRequestVote, StepDown, RecordVote, bounded, ticks
<1>4. CASE RejectStaleAppend(n, m)
  BY <1>4 DEF RejectStaleAppend, bounded, ticks
<1>5. CASE RecordAppendFailure(n, m)
  BY <1>5 DEF RecordAppendFailure, bounded, ticks
<1> QED BY <1>1, <1>2, <1>3, <1>4, <1>5 DEF Receive

\* Only reloading a node and removing a peer are counted.
LEMMA StepCounts ==
    ASSUME [Next]_vars, ~(\E n \in Node : Restart(n)), ~(\E n, p \in Node : RemovePeer(n, p))
    PROVE  restarts' = restarts /\ removals' = removals /\ (skewed => skewed')
             /\ (deposed => deposed')
<1>1. CASE \E n \in Node : StartElection(n) \/ ApplyCommitted(n)
  BY <1>1 DEF StartElection, ApplyCommitted, bounded, ticks
<1>2. CASE \E n \in Node, m \in msgs : Receive(n, m)
  BY <1>2, ReceiveCounts
<1>3. CASE \E n \in Node, c \in Command : Propose(n, c)
  BY <1>3 DEF Propose, bounded, ticks
<1>4. CASE \E n, p \in Node, k \in 0 .. MaxLog : SendAppend(n, p, k)
  <2>1. restarts' = restarts /\ removals' = removals /\ skewed' = skewed
    BY <1>4 DEF SendAppend, bounded
  <2>2. deposed => deposed'
    BY <1>4, Zenon DEF SendAppend
  <2> QED BY <2>1, <2>2
<1>5. CASE UNCHANGED vars
  BY <1>5 DEF vars
<1> QED BY <1>1, <1>2, <1>3, <1>4, <1>5 DEF Next

\* A step that leaves out nothing was preceded by such steps only.
LEMMA LiveBefore ==
    ASSUME RaftInv, removals \in Nat, Live', [Next]_vars
    PROVE  Live /\ ~(\E n \in Node : Restart(n)) /\ ~(\E n, p \in Node : RemovePeer(n, p))
<1>1. restarts \in Nat
  BY DEF RaftInv, Types
<1>2. restarts' = 0 /\ removals' = 0 /\ ~skewed' /\ ~deposed'
  BY DEF Live
<1>3. (~\E n \in Node : Restart(n)) /\ (~\E n, p \in Node : RemovePeer(n, p))
  BY <1>1, <1>2 DEF Restart, RemovePeer
<1> QED BY <1>2, <1>3, StepCounts DEF Live

\* A message is received.
LEMMA ReceiveSafe ==
    ASSUME NEW W, Before(W), ~skewed', NEW n \in Node, NEW m \in msgs, Receive(n, m)
    PROVE  History(W)'
<1>1. CASE RecordAppendSuccess(n, m)
  <2>1. m.term <= term[n] /\ m.term \in Nat /\ term[n] \in Nat
    BY <1>1 DEF RecordAppendSuccess, Before, RaftInv, Types, MessageOK
  <2>2. ~(m.term < term[n])
    BY <1>1, Zenon DEF RecordAppendSuccess
  <2>3. m.term = term[n]
    BY <2>1, <2>2
  <2> QED BY <1>1, <2>3, RecordAppendSuccessSafe
<1>2. CASE RecordAppendFailure(n, m)
  BY <1>2, QuietSafe DEF RecordAppendFailure, persistent
<1>3. CASE HandleAppendEntries(n, m)
  BY <1>3, HandleAppendEntriesSafe
<1>4. CASE StepDown(n, m)
  BY <1>4, StepDownSafe
<1> QED BY <1>1, <1>2, <1>3, <1>4, HandleRequestVoteSafe, RecordVoteSafe, RejectStaleAppendSafe
  DEF Receive

\* Every step keeps the invariant of commits.
LEMMA StepSafe ==
    ASSUME RaftInv, removals \in Nat, SafeInv, [Next]_vars
    PROVE  SafeInv'
<1> SUFFICES ASSUME Live' PROVE \E W : History(W)'
  BY DEF SafeInv
<1>1. Live /\ ~(\E n \in Node : Restart(n)) /\ ~(\E n, p \in Node : RemovePeer(n, p))
  BY LiveBefore
<1>2. PICK W : History(W)
  BY <1>1 DEF SafeInv
<1>3. restarts = 0 /\ restarts' = 0 /\ ~skewed' /\ ~deposed /\ ~deposed'
  BY <1>1 DEF Live
<1>4. Before(W)
  BY <1>2, <1>3, StepInv DEF StepOK, Before
<1>5. CASE \E n \in Node : StartElection(n)
  BY <1>4, <1>5, StartElectionSafe
<1>6. CASE \E n \in Node, m \in msgs : Receive(n, m)
  BY <1>3, <1>4, <1>6, ReceiveSafe
<1>7. CASE \E n \in Node, c \in Command : Propose(n, c)
  BY <1>4, <1>7, ProposeSafe
<1>8. CASE \E n, p \in Node, k \in 0 .. MaxLog : SendAppend(n, p, k)
  BY <1>4, <1>8, SendAppendSafe
<1>9. CASE \E n \in Node : ApplyCommitted(n)
  BY <1>4, <1>9, QuietSafe DEF ApplyCommitted, persistent
<1>10. CASE UNCHANGED vars
  BY <1>4, <1>10, QuietSafe DEF vars
<1> QED BY <1>1, <1>5, <1>6, <1>7, <1>8, <1>9, <1>10 DEF Next

\* What is the beginning of a chosen log is in the logs of a majority.
LEMMA CommitsHeld ==
    ASSUME NEW W, RaftInv, History(W), NEW n \in Node, NEW k \in 1 .. commitIndex[n]
    PROVE  /\ k <= Len(log[n])
           /\ Cardinality({p \in Node : k <= Len(log[p]) /\ log[p][k] = log[n][k]}) >= Quorum
<1>1. commitIndex[n] \in Nat /\ k \in Nat /\ k <= commitIndex[n] /\ commitIndex[n] > 0
  BY DEF History, Committed, Commits
<1>2. PICK c \in Logs(W) :
        /\ Chosen(c) /\ commitIndex[n] <= Len(c) /\ commitIndex[n] <= Len(log[n])
        /\ \A i \in 1 .. commitIndex[n] : c[i] = log[n][i]
  BY <1>1 DEF History, Committed, Commits, CommitOK
<1>3. PICK Q \in SUBSET Node : Cardinality(Q) >= Quorum /\ \A p \in Q : Acked(p, c)
  BY <1>2 DEF Chosen
<1>4. Len(c) \in Nat /\ log \in [Node -> Seq(Entry)]
  BY <1>2, TermOfType DEF History, RaftInv, Types
<1>5. \A p \in Q : Begins(c, log[p])
  BY <1>2, <1>3, ChosenChoosable DEF History, Complete, AckedHave
<1>6. k <= Len(c) /\ c[k] = log[n][k] /\ k <= Len(log[n])
  BY <1>1, <1>2, <1>4
<1> DEFINE H == {p \in Node : k <= Len(log[p]) /\ log[p][k] = log[n][k]}
<1>7. Q \subseteq H
  BY <1>1, <1>3, <1>4, <1>5, <1>6 DEF Begins
<1>8. IsFiniteSet(H)
  BY RaftAssumptions, FS_Subset
<1>9. Cardinality(Q) <= Cardinality(H) /\ IsFiniteSet(Q)
  BY <1>7, <1>8, FS_Subset
<1>10. Cardinality(Q) \in Nat /\ Cardinality(H) \in Nat /\ Quorum \in Nat
  BY <1>8, <1>9, RaftAssumptions, FS_CardinalityType DEF Quorum
<1> QED BY <1>3, <1>6, <1>9, <1>10

\* The invariant of commits holds in every state.
THEOREM CommitInvariance == Spec => []SafeInv
<1>1. Init => removals \in Nat
  BY DEF Init
<1>2. ASSUME removals \in Nat, [Next]_vars PROVE (removals \in Nat)'
  <2>1. CASE \E n, p \in Node : RemovePeer(n, p)
    BY <1>2, <2>1 DEF RemovePeer
  <2>2. CASE \E n \in Node : Restart(n)
    BY <1>2, <2>2 DEF Restart
  <2> QED BY <1>2, <2>1, <2>2, StepCounts
<1>3. removals \in Nat /\ RaftInv /\ SafeInv /\ [Next]_vars => (removals \in Nat)' /\ SafeInv'
  BY <1>2, StepSafe
<1> QED BY <1>1, <1>3, InitSafe, Invariance, PTL DEF Spec

(* What a node has committed is in the logs of a majority and stays there,  *)
(* across elections, truncations and repeated or reordered messages, as     *)
(* long as no node was reloaded or removed, nothing was accepted beyond the *)
(* end of a log, no success of an earlier term was counted, no commit index *)
(* was taken for entries the request does not cover and no request was      *)
(* built by a node that led no longer.                                      *)
THEOREM CommittedReplicated == Spec => []CommittedIsReplicated
<1>1. RaftInv /\ SafeInv => CommittedIsReplicated
  BY CommitsHeld DEF SafeInv, Live, CommittedIsReplicated
<1> QED BY <1>1, Invariance, CommitInvariance, PTL

\* Two nodes have the same entry wherever both have committed.
CommittedAgree ==
    Live => \A n, p \in Node : \A k \in Nat \ {0} :
              k <= commitIndex[n] /\ k <= commitIndex[p] => log[n][k] = log[p][k]

\* Of two chosen logs one is how the other begins.
LEMMA ChosenComparable ==
    ASSUME NEW W, History(W), NEW c \in Logs(W), NEW d \in Logs(W), Chosen(c), Chosen(d)
    PROVE  Comparable(c, d)
<1>1. TermOf(c) \in Nat /\ TermOf(d) \in Nat
  BY TermOfType DEF History
<1>2. Choosable(c) /\ Choosable(d)
  BY ChosenChoosable
<1>3. CASE TermOf(c) = TermOf(d)
  BY <1>3 DEF History, Shape
<1>4. CASE TermOf(c) < TermOf(d)
  BY <1>1, <1>2, <1>4 DEF History, Complete, LaterHave, Comparable
<1>5. CASE TermOf(d) < TermOf(c)
  BY <1>1, <1>2, <1>5 DEF History, Complete, LaterHave, Comparable
<1> QED BY <1>1, <1>3, <1>4, <1>5

(* What two nodes have committed, and apply_committed hands to their state  *)
(* machines, never differs, under the same conditions.                      *)
THEOREM CommitsAgree == Spec => []CommittedAgree
<1>1. RaftInv /\ SafeInv => CommittedAgree
  <2> SUFFICES ASSUME Live, NEW W, History(W), NEW n \in Node, NEW p \in Node,
                      NEW k \in Nat \ {0}, k <= commitIndex[n], k <= commitIndex[p]
               PROVE  log[n][k] = log[p][k]
    BY DEF SafeInv, CommittedAgree
  <2>1. commitIndex[n] \in Nat /\ commitIndex[p] \in Nat
    BY DEF History, Committed, Commits
  <2>2. PICK c \in Logs(W) :
          Chosen(c) /\ commitIndex[n] <= Len(c) /\ \A i \in 1 .. commitIndex[n] : c[i] = log[n][i]
    BY <2>1 DEF History, Committed, Commits, CommitOK
  <2>3. PICK d \in Logs(W) :
          Chosen(d) /\ commitIndex[p] <= Len(d) /\ \A i \in 1 .. commitIndex[p] : d[i] = log[p][i]
    BY <2>1 DEF History, Committed, Commits, CommitOK
  <2>4. Len(c) \in Nat /\ Len(d) \in Nat
    BY <2>2, <2>3, TermOfType DEF History
  <2>5. Comparable(c, d)
    BY <2>2, <2>3, ChosenComparable
  <2>6. c[k] = d[k]
    BY <2>1, <2>2, <2>3, <2>4, <2>5 DEF Comparable, Begins
  <2> QED BY <2>1, <2>2, <2>3, <2>6
<1> QED BY <1>1, Invariance, CommitInvariance, PTL

\* Logs that have an entry of the same term at one position agree up to it.
LogsMatch ==
    Live => \A n, p \in Node : \A i \in Nat \ {0} :
              i <= Len(log[n]) /\ i <= Len(log[p]) /\ log[n][i].term = log[p][i].term
                => \A j \in 1 .. i : log[n][j] = log[p][j]

(* The check of the previous entry in handle_append_entries is enough: logs *)
(* that have the same term at a position are the same up to it, under the   *)
(* same conditions.                                                         *)
THEOREM LogsAgree == Spec => []LogsMatch
<1>1. SafeInv => LogsMatch
  <2> SUFFICES ASSUME NEW W, History(W), NEW n \in Node, NEW p \in Node, NEW i \in Nat \ {0},
                      i <= Len(log[n]), i <= Len(log[p]), log[n][i].term = log[p][i].term
               PROVE  \A j \in 1 .. i : log[n][j] = log[p][j]
    BY DEF SafeInv, LogsMatch
  <2>1. W \in SUBSET Seq(Entry) /\ Shape(W) /\ log[n] \in W /\ log[p] \in W
    BY DEF History, LogsIn
  <2> QED BY <2>1, LogMatching
<1> QED BY <1>1, CommitInvariance, PTL
=============================================================================
