------------------------------ MODULE RaftLocks ------------------------------
(***************************************************************************)
(* The two mutexes of one RaftNode (src/raft.rs) shared by several threads *)
(* through SharedRaftNode.  A method is the sequence of locks it takes and *)
(* drops and of the reads and writes it makes in between.                  *)
(***************************************************************************)
EXTENDS Naturals, Sequences

CONSTANTS
    Thread,    \* threads with a handle to the node
    Nobody,    \* an unlocked mutex
    MaxCalls   \* bound: calls made

VARIABLES
    persistent,  \* the thread that holds the persistent mutex
    volatile,    \* the thread that holds the volatile mutex
    call,        \* what is left of each thread's call
    role,        \* the node's role
    calls

vars == <<persistent, volatile, call, role, calls>>

Method == {"start_election", "record_vote", "propose", "apply_committed",
           "current_term", "role"}

\* The methods.  A guard drops at the end of its statement or of the method,
\* the last one taken first.
Program(m) ==
    CASE m = "start_election"  -> <<"lockP", "lockV", "elect", "unlockV", "unlockP">>
      [] m = "record_vote"     -> <<"lockP", "lockV", "win", "unlockV", "unlockP">>
      [] m = "propose"         -> <<"lockV", "check", "lockP", "unlockP",
                                    "lockP", "unlockP", "unlockV">>
      [] m = "apply_committed" -> <<"lockV", "lockP", "unlockP", "unlockV">>
      [] m = "current_term"    -> <<"lockP", "unlockP">>
      [] m = "role"            -> <<"lockV", "unlockV">>

Init ==
    /\ persistent = Nobody /\ volatile = Nobody
    /\ call = [t \in Thread |-> <<>>]
    /\ role = "Follower" /\ calls = 0

Call(t, m) ==
    /\ call[t] = <<>> /\ calls < MaxCalls
    /\ call' = [call EXCEPT ![t] = Program(m)]
    /\ calls' = calls + 1
    /\ UNCHANGED <<persistent, volatile, role>>

At(t, s) == call[t] # <<>> /\ Head(call[t]) = s
Advance(t) == call' = [call EXCEPT ![t] = Tail(@)] /\ UNCHANGED calls

Lock(t) ==
    /\ \/ At(t, "lockP") /\ persistent = Nobody /\ persistent' = t /\ UNCHANGED volatile
       \/ At(t, "lockV") /\ volatile = Nobody /\ volatile' = t /\ UNCHANGED persistent
    /\ Advance(t) /\ UNCHANGED role

Unlock(t) ==
    /\ \/ At(t, "unlockP") /\ persistent' = Nobody /\ UNCHANGED volatile
       \/ At(t, "unlockV") /\ volatile' = Nobody /\ UNCHANGED persistent
    /\ Advance(t) /\ UNCHANGED role

Elect(t) ==
    /\ At(t, "elect") /\ role' = "Candidate"
    /\ Advance(t) /\ UNCHANGED <<persistent, volatile>>

\* A vote may make a candidate the leader, a later term makes a node follower.
Win(t) ==
    /\ At(t, "win")
    /\ role' \in {role, "Follower"} \cup (IF role = "Candidate" THEN {"Leader"} ELSE {})
    /\ Advance(t) /\ UNCHANGED <<persistent, volatile>>

\* propose returns at once unless the node leads; a leader reads its term and
\* appends the entry, each under the persistent mutex.
CheckLeader(t) ==
    /\ At(t, "check")
    /\ call' = [call EXCEPT ![t] = IF role = "Leader" THEN Tail(@) ELSE <<"unlockV">>]
    /\ UNCHANGED <<persistent, volatile, role, calls>>

Step(t) == Lock(t) \/ Unlock(t) \/ Elect(t) \/ Win(t) \/ CheckLeader(t)

Next == \E t \in Thread : Step(t) \/ \E m \in Method : Call(t, m)

Spec == Init /\ [][Next]_vars

-----------------------------------------------------------------------------
(* Properties.                                                             *)

\* No two threads that share the node wait for each other's mutex (raft.rs,
\* SharedRaftNode).
NoDeadlock ==
    ~\E t, u \in Thread :
       persistent = t /\ At(t, "lockV") /\ volatile = u /\ At(u, "lockP")
=============================================================================
