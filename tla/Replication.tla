----------------------------- MODULE Replication -----------------------------
(***************************************************************************)
(* A Follower (src/replication.rs) that polls the change log an Engine     *)
(* writes, and applies what a poll returns to a replica of the documents.  *)
(***************************************************************************)
EXTENDS Engine

VARIABLES
    lastSeq,   \* Follower::last_sequence
    got,       \* history: the numbers of the changes that polls returned
    replica,   \* the follower's documents
    polling,   \* poll has opened the log and is about to read it
    torn       \* history: some poll has met a record it could not read

followerVars == <<lastSeq, got, replica, polling, torn>>
allVars == <<vars, followerVars>>

RInit ==
    /\ Init
    /\ lastSeq = 0 /\ got = {} /\ replica = NoDocs /\ polling = FALSE /\ torn = FALSE

\* Records up to the first that is cut off.
Reachable == IF feedBad = 0 THEN DOMAIN feed ELSE 1 .. (feedBad - 1)

\* Mutant: polling starts one record too late.
Unread_SkipsOne == {k \in Reachable : feed[k].sequence > lastSeq + 1}
Unread == {k \in Reachable : feed[k].sequence >= lastSeq + 1}
LastUnread(i) ==
    CHOOSE k \in Unread : feed[k].id = i /\ \A j \in Unread : feed[j].id = i => j <= k

\* ReplicationLog::open scans the whole log, as when the engine opens it.
PollOpen ==
    /\ ~polling /\ ScanOk
    /\ polling' = TRUE
    /\ UNCHANGED <<vars, lastSeq, got, replica, torn>>

\* Mutant: what was read is dropped although the position has moved.
Deliver_Dropped == UNCHANGED <<got, replica>>

\* What a poll that met no cut-off record returns, and what is made of it.
Deliver ==
    /\ got' = got \cup {feed[k].sequence : k \in Unread}
    /\ replica' = [i \in Ids |-> IF \E k \in Unread : feed[k].id = i
                                THEN feed[LastUnread(i)].val ELSE replica[i]]

\* The loop of poll moves last_sequence record by record; if it then meets a
\* cut-off record it returns the error and the records it had collected are gone.
PollRead ==
    /\ polling /\ polling' = FALSE
    /\ lastSeq' = IF Unread = {} THEN lastSeq
                  ELSE feed[CHOOSE k \in Unread : \A j \in Unread : j <= k].sequence
    /\ \/ ScanFails /\ torn' = TRUE /\ UNCHANGED <<got, replica>>
       \/ ~ScanFails /\ UNCHANGED torn /\ Deliver
    /\ UNCHANGED vars

PrimaryNext == Next /\ UNCHANGED followerVars

RNext == PrimaryNext \/ PollOpen \/ PollRead

RSpec == RInit /\ [][RNext]_allVars

\* The engine's thread keeps serving its call and the follower keeps polling.
RFairness ==
    /\ WF_allVars(CallStep /\ UNCHANGED followerVars)
    /\ WF_allVars(PollOpen) /\ WF_allVars(PollRead)

-----------------------------------------------------------------------------
CaughtUp == Unread = {} /\ ~polling

\* A follower that has read every change holds the primary's documents.
FollowerInSync == mode = "up" /\ call = Idle /\ CaughtUp => replica = docs

NoFailures == crashes = 0 /\ powerLosses = 0 /\ ioErrors = 0

\* That holds while the primary neither fails nor compacts, however its writes
\* fall between the open and the read of a poll, unless a poll met a record
\* whose body was not there yet.
InSyncWithoutFaults == NoFailures /\ compactions = 0 /\ ~torn => FollowerInSync

\* A crash cut the log off between a length and its record, so that nobody can
\* open it (replication.rs:145).
CutOff == feedTorn /\ mode # "up"

\* Every change in the log is handed to the follower's caller sooner or later,
\* unless a poll met a record being written and dropped what it had collected
\* (replication.rs:263), a compaction started the numbers over below the
\* follower's position (replication.rs:127), or nobody can open the log.
EveryChangeDelivered ==
    \A n \in 1 .. MaxWal : Len(feed) >= n ~> n \in got \/ torn \/ compactions > 0 \/ CutOff
=============================================================================
