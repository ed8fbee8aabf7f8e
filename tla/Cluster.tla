------------------------------ MODULE Cluster -------------------------------
(***************************************************************************)
(* ClusterNode and ClusterManager (src/cluster.rs): every node keeps its   *)
(* own copy of the cluster configuration in memory and in a file, and a    *)
(* Raft node next to it.  The methods take &self and lock config, file     *)
(* write and Raft state one after the other, so calls of several threads   *)
(* interleave; call[t].step is the next of these steps.                    *)
(*                                                                         *)
(* Of the Raft node only what the cluster uses is kept: whether it leads   *)
(* (module Raft says when; here it may change at any time), its fixed      *)
(* peers, the peers it tracks and the commands it was given to propose.    *)
(***************************************************************************)
EXTENDS Naturals, Sequences, FiniteSets

CONSTANTS
    Node,        \* node ids
    Thread,      \* threads that call a node's methods
    NoNode,      \* no ClusterNode is running
    NoFile,      \* no cluster.json
    Torn,        \* a cluster.json that does not parse
    AddRoles,    \* roles add_node is called with
    ShardCounts, \* numbers of shards the allocator is asked for
    MaxRunning,  \* bound: nodes running at the same time
    MaxStarts,   \* bound: nodes created
    MaxCalls,    \* bound: calls made
    MaxFaults    \* bound: failed saves, process ends and commands of the CLI

Role == {"Primary", "Secondary", "Observer"}
Info == [id : Node, role : Role]
Config == [seed : Node, failover : BOOLEAN, nodes : Seq(Info)]
Command == {"add", "remove"} \X Node
ClusterNode ==
    [config : Config, leader : BOOLEAN, cooling : BOOLEAN, log : Seq(Command),
     peers : SUBSET Node, tracked : SUBSET Node,
     base : SUBSET Node, removed : SUBSET Node, skewed : BOOLEAN]

ASSUME ClusterAssumptions ==
    /\ AddRoles \subseteq Role
    /\ NoNode \notin Node \cup ClusterNode
    /\ NoFile \notin Config /\ Torn \notin Config
    /\ IsFiniteSet(Node)
    /\ {MaxRunning, MaxStarts, MaxCalls, MaxFaults} \subseteq Nat
\* A shard's name has four digits, so up to here names are ordered as numbers.
ASSUME ShardAssumption == IsFiniteSet(ShardCounts) /\ ShardCounts \subseteq 0 .. 10000

VARIABLES
    node,        \* node[n]: the ClusterNode of n, or NoNode
    file,        \* file[n]: n's cluster.json
    call,        \* call[t]: the call thread t is in
    dirty,       \* history, dirty[n]: file[n] was not written from n's memory
    seconded,    \* history: add_node was called with the role Primary
    starts, calls, faults

vars == <<node, file, call, dirty, seconded, starts, calls, faults>>


-----------------------------------------------------------------------------
(* ClusterConfig.                                                          *)

Members(c) == {c.nodes[k].id : k \in 1 .. Len(c.nodes)}
Primaries(c) == {c.nodes[k].id : k \in {j \in 1 .. Len(c.nodes) : c.nodes[j].role = "Primary"}}

ConfigNew(seed) == [seed |-> seed, failover |-> TRUE,
                    nodes |-> <<[id |-> seed, role |-> "Primary"]>>]
ConfigAdd(c, m, r) ==
    IF m \in Members(c) THEN c ELSE [c EXCEPT !.nodes = Append(@, [id |-> m, role |-> r])]
\* Vec::retain.
Others(infos, m) ==
    LET f[k \in 0 .. Len(infos)] ==
          IF k = 0 THEN <<>>
          ELSE IF infos[k].id = m THEN f[k - 1] ELSE Append(f[k - 1], infos[k])
    IN  f[Len(infos)]
ConfigRemove(c, m) == [c EXCEPT !.nodes = Others(@, m)]

\* The loop of perform_failover over the nodes.
ConfigFailover(c, failed, local) ==
    [c EXCEPT !.nodes = [k \in 1 .. Len(@) |->
        CASE @[k].id = local  -> [@[k] EXCEPT !.role = "Primary"]
          [] @[k].id = failed /\ failed # local -> [@[k] EXCEPT !.role = "Secondary"]
          [] OTHER -> @[k]]]

\* ShardAllocator::allocate: shard i goes to node i % node_ids.len().
Allocate(num, ids) == [i \in 0 .. (num - 1) |-> ids[(i % Len(ids)) + 1]]

\* Mutant: the turn never moves on.
ReassignFailedNode_First(map, failed, healthy) ==
    IF healthy = <<>> THEN map
    ELSE [i \in DOMAIN map |-> IF map[i] = failed THEN healthy[1] ELSE map[i]]

\* ShardAllocator::reassign_failed_node: only the shards of the failed node move,
\* in turn to the healthy ones.
ReassignFailedNode(map, failed, healthy) ==
    LET turn(i) == Cardinality({j \in DOMAIN map : j < i /\ map[j] = failed})
    IN IF healthy = <<>> THEN map
       ELSE [i \in DOMAIN map |->
               IF map[i] = failed THEN healthy[(turn(i) % Len(healthy)) + 1] ELSE map[i]]

-----------------------------------------------------------------------------
(* Nodes come and go.                                                      *)

Running(n) == node[n] # NoNode
HasFile(n) == file[n] \notin {NoFile, Torn}
Idle == [op |-> "none", node |-> NoNode, arg |-> NoNode, role |-> "Observer", step |-> "done"]
Membership == {"add", "remove"}
InCall(n) == {t \in Thread : call[t].node = n}

\* A new ClusterNode with its new RaftNode: a follower that knows as peers the
\* other nodes of the configuration it starts with.
NewNode(n, c) ==
    [config |-> c, leader |-> FALSE, peers |-> Members(c) \ {n}, tracked |-> {},
     log |-> <<>>, cooling |-> FALSE,
     base |-> Members(c), removed |-> {}, skewed |-> FALSE]

\* A formed cluster: s has added the others, and each has saved what it joined.
Formed(s, ids) ==
    [seed |-> s, failover |-> TRUE,
     nodes |-> [k \in 1 .. Len(ids) |->
                  [id |-> ids[k], role |-> IF ids[k] = s THEN "Primary" ELSE "Secondary"]]]

Start(n) ==
    /\ ~Running(n) /\ Cardinality({m \in Node : Running(m)}) < MaxRunning
    /\ starts < MaxStarts /\ starts' = starts + 1

Init ==
    /\ node = [n \in Node |-> NoNode]
    /\ \/ file = [n \in Node |-> NoFile]
       \/ \E ids \in [1 .. Cardinality(Node) -> Node] :
            /\ \A j, k \in DOMAIN ids : j # k => ids[j] # ids[k]
            /\ file = [n \in Node |-> Formed(ids[1], ids)]
    /\ call = [t \in Thread |-> Idle]
    /\ dirty = [n \in Node |-> FALSE] /\ seconded = FALSE
    /\ starts = 0 /\ calls = 0 /\ faults = 0

InitCluster(n) ==
    /\ Start(n)
    /\ file' = [file EXCEPT ![n] = ConfigNew(n)]
    /\ node' = [node EXCEPT ![n] = NewNode(n, ConfigNew(n))]
    /\ dirty' = [dirty EXCEPT ![n] = FALSE]
    /\ UNCHANGED <<call, seconded, calls, faults>>

\* Discovery hands over some node's file; it is not saved.
JoinCluster(n, m) ==
    /\ Start(n) /\ HasFile(m)
    /\ node' = [node EXCEPT ![n] = NewNode(n, file[m])]
    /\ dirty' = [dirty EXCEPT ![n] = TRUE]
    /\ UNCHANGED <<file, call, seconded, calls, faults>>

\* Fails, and changes nothing, without a readable file.
Load(n) ==
    /\ Start(n) /\ HasFile(n)
    /\ node' = [node EXCEPT ![n] = NewNode(n, file[n])]
    /\ dirty' = [dirty EXCEPT ![n] = FALSE]
    /\ UNCHANGED <<file, call, seconded, calls, faults>>

\* The process ends, maybe inside fs::write, which truncates the file first.
Stop(n) ==
    /\ Running(n) /\ faults < MaxFaults /\ faults' = faults + 1
    /\ node' = [node EXCEPT ![n] = NoNode]
    /\ call' = [t \in Thread |-> IF t \in InCall(n) THEN Idle ELSE call[t]]
    /\ \/ UNCHANGED file
       \/ (\E t \in InCall(n) : call[t].step = "save") /\ file' = [file EXCEPT ![n] = Torn]
    /\ UNCHANGED <<dirty, seconded, starts, calls>>

\* The command line, on n's directory: it loads the configuration as the node
\* "unknown", which is never a member and never leads, so adding and removing
\* nodes is refused and a failover demotes without promoting.
CliFailover(n, f) ==
    /\ HasFile(n) /\ faults < MaxFaults /\ faults' = faults + 1
    /\ file[n].failover /\ f \in Primaries(file[n])
    /\ file' = [file EXCEPT ![n] = ConfigFailover(file[n], f, NoNode)]
    /\ dirty' = [dirty EXCEPT ![n] = TRUE]
    /\ UNCHANGED <<node, call, seconded, starts, calls>>

CliLeave(n) ==
    /\ file[n] # NoFile /\ faults < MaxFaults /\ faults' = faults + 1
    /\ file' = [file EXCEPT ![n] = NoFile]
    /\ dirty' = [dirty EXCEPT ![n] = TRUE]
    /\ UNCHANGED <<node, call, seconded, starts, calls>>

-----------------------------------------------------------------------------
(* The Raft node.                                                          *)

\* record_vote wins an election (the caller's, or that of a tick, which answers
\* for the peers itself): every fixed peer is tracked again.  A leader's tick
\* records heartbeats in the health map, which only the status report reads.
BecomeLeader(n) ==
    /\ Running(n) /\ ~node[n].leader
    /\ node' = [node EXCEPT ![n].leader = TRUE, ![n].tracked = @ \cup node[n].peers]
    /\ UNCHANGED <<file, call, dirty, seconded, starts, calls, faults>>

\* A message with a later term arrives, or a new election is started.
StepDown(n) ==
    /\ Running(n) /\ node[n].leader
    /\ node' = [node EXCEPT ![n].leader = FALSE]
    /\ UNCHANGED <<file, call, dirty, seconded, starts, calls, faults>>

-----------------------------------------------------------------------------
(* Calls that change the configuration.                                    *)

Enter(t, n, op, arg, role) ==
    /\ Running(n) /\ call[t] = Idle /\ calls < MaxCalls /\ calls' = calls + 1
    /\ call' = [call EXCEPT ![t] = [op |-> op, node |-> n, arg |-> arg, role |-> role,
                                    step |-> "config"]]
Goto(t, s) == call' = [call EXCEPT ![t].step = s]
Return(t) == call' = [call EXCEPT ![t] = Idle]

\* Two membership calls of one node that overlap may be applied in one order
\* and proposed in the other.
EnterMembership(t, n) ==
    /\ node[n].leader
    /\ node' = [node EXCEPT ![n].skewed = @ \/ \E u \in InCall(n) : call[u].op \in Membership]
    /\ UNCHANGED <<file, dirty, starts, faults>>

AddNode(t, n, m, r) ==
    /\ Enter(t, n, "add", m, r) /\ EnterMembership(t, n)
    /\ seconded' = (seconded \/ r = "Primary")

RemoveNode(t, n, m) ==
    /\ Enter(t, n, "remove", m, "Observer") /\ EnterMembership(t, n)
    /\ UNCHANGED seconded

\* Mutant: any member counts as a failed primary.
ShouldFailover_AnyRole(n, f) ==
    node[n].config.failover /\ f \in Members(node[n].config) /\ f # n /\ ~node[n].cooling
ShouldFailover(n, f) ==
    node[n].config.failover /\ f \in Primaries(node[n].config) /\ f # n /\ ~node[n].cooling

PerformFailover(t, n, f) ==
    /\ Enter(t, n, "failover", f, "Observer") /\ ShouldFailover(n, f)
    /\ UNCHANGED <<node, file, dirty, seconded, starts, faults>>

\* set_failover_enabled(false) or, with the role Primary, (true).
SetFailoverEnabled(t, n, r) ==
    /\ Enter(t, n, "toggle", NoNode, r)
    /\ UNCHANGED <<node, file, dirty, seconded, starts, faults>>

Changed(c, k) ==
    CASE k.op = "add"      -> ConfigAdd(c, k.arg, k.role)
      [] k.op = "remove"   -> ConfigRemove(c, k.arg)
      [] k.op = "failover" -> ConfigFailover(c, k.arg, k.node)
      [] k.op = "toggle"   -> [c EXCEPT !.failover = (k.role = "Primary")]

\* The block that holds the configuration's mutex.
ChangeConfig(t) ==
    /\ call[t].step = "config"
    /\ node' = [node EXCEPT ![call[t].node].config = Changed(@, call[t])]
    /\ Goto(t, "save")
    /\ UNCHANGED <<file, dirty, seconded, starts, calls, faults>>

AfterSave(t) ==
    CASE call[t].op \in Membership -> Goto(t, "track")
      [] call[t].op = "failover"   -> Goto(t, "cool")
      [] OTHER                     -> Return(t)

\* Mutant: what is written is this call's change to the old file.
SaveConfig_OwnChange(t) ==
    LET n == call[t].node IN
    /\ call[t].step = "save"
    /\ file' = [file EXCEPT ![n] = IF HasFile(n) THEN Changed(file[n], call[t]) ELSE node[n].config]
    /\ dirty' = [dirty EXCEPT ![n] = FALSE]
    /\ AfterSave(t)
    /\ UNCHANGED <<node, seconded, starts, calls, faults>>

\* save_config locks the configuration again and writes what it finds.
SaveConfig(t) ==
    LET n == call[t].node IN
    /\ call[t].step = "save"
    /\ file' = [file EXCEPT ![n] = node[n].config]
    /\ dirty' = [dirty EXCEPT ![n] = FALSE]
    /\ AfterSave(t)
    /\ UNCHANGED <<node, seconded, starts, calls, faults>>

\* The write fails, before or after the file was truncated: the call returns
\* the error and the change stays in memory.
SaveFails(t) ==
    LET n == call[t].node IN
    /\ call[t].step = "save" /\ faults < MaxFaults /\ faults' = faults + 1
    /\ UNCHANGED file \/ file' = [file EXCEPT ![n] = Torn]
    /\ dirty' = [dirty EXCEPT ![n] = TRUE]
    /\ node' = [node EXCEPT ![n].skewed = TRUE]
    /\ Return(t)
    /\ UNCHANGED <<seconded, starts, calls>>

\* Mutant: add_peer keeps only the fixed peers.
TrackPeer_FixedOnly(t) ==
    LET n == call[t].node
        m == call[t].arg IN
    /\ call[t].step = "track"
    /\ node' = [node EXCEPT ![n].tracked = IF call[t].op = "add" THEN @ \cap node[n].peers ELSE @ \ {m},
                            ![n].removed = IF call[t].op = "remove" THEN @ \cup {m} ELSE @]
    /\ Goto(t, "propose")
    /\ UNCHANGED <<file, dirty, seconded, starts, calls, faults>>

\* add_peer does nothing for a fixed peer; remove_peer stops tracking.
TrackPeer(t) ==
    LET n == call[t].node
        m == call[t].arg IN
    /\ call[t].step = "track"
    /\ node' = [node EXCEPT ![n].tracked =
                  CASE call[t].op = "remove" -> @ \ {m}
                    [] call[t].op = "add" /\ m \notin node[n].peers \cup {n} -> @ \cup {m}
                    [] OTHER -> @,
                            ![n].removed = IF call[t].op = "remove" THEN @ \cup {m} ELSE @]
    /\ Goto(t, "propose")
    /\ UNCHANGED <<file, dirty, seconded, starts, calls, faults>>

\* Mutant: the command is proposed for the calling node.
Propose_Self(t) ==
    LET n == call[t].node IN
    /\ call[t].step = "propose"
    /\ node' = IF node[n].leader
               THEN [node EXCEPT ![n].log = Append(@, <<call[t].op, n>>)]
               ELSE [node EXCEPT ![n].skewed = TRUE]
    /\ Return(t)
    /\ UNCHANGED <<file, dirty, seconded, starts, calls, faults>>

\* RaftNode::propose fails if the node stepped down since the first check.
Propose(t) ==
    LET n == call[t].node IN
    /\ call[t].step = "propose"
    /\ node' = IF node[n].leader
               THEN [node EXCEPT ![n].log = Append(@, <<call[t].op, call[t].arg>>)]
               ELSE [node EXCEPT ![n].skewed = TRUE]
    /\ Return(t)
    /\ UNCHANGED <<file, dirty, seconded, starts, calls, faults>>

StartCooldown(t) ==
    /\ call[t].step = "cool"
    /\ node' = [node EXCEPT ![call[t].node].cooling = TRUE]
    /\ Return(t)
    /\ UNCHANGED <<file, dirty, seconded, starts, calls, faults>>

\* failover_cooldown has passed.
EndCooldown(n) ==
    /\ Running(n) /\ node[n].cooling
    /\ node' = [node EXCEPT ![n].cooling = FALSE]
    /\ UNCHANGED <<file, call, dirty, seconded, starts, calls, faults>>

-----------------------------------------------------------------------------
Lifecycle(n) ==
    \/ InitCluster(n) \/ Load(n) \/ Stop(n) \/ CliLeave(n)
    \/ BecomeLeader(n) \/ StepDown(n) \/ EndCooldown(n)
    \/ \E m \in Node : JoinCluster(n, m) \/ CliFailover(n, m)

Calls(t, n) ==
    \/ \E m \in Node : RemoveNode(t, n, m) \/ PerformFailover(t, n, m)
    \/ \E m \in Node, r \in AddRoles : AddNode(t, n, m, r)
    \/ \E r \in {"Primary", "Observer"} : SetFailoverEnabled(t, n, r)

CallStep(t) ==
    \/ ChangeConfig(t) \/ SaveConfig(t) \/ SaveFails(t)
    \/ TrackPeer(t) \/ Propose(t) \/ StartCooldown(t)

Next ==
    \/ \E n \in Node : Lifecycle(n) \/ \E t \in Thread : Calls(t, n)
    \/ \E t \in Thread : CallStep(t)

Spec == Init /\ [][Next]_vars

-----------------------------------------------------------------------------
(* Properties.                                                             *)

Configs == {node[n].config : n \in {m \in Node : Running(m)}}
           \cup {file[n] : n \in {m \in Node : HasFile(m)}}

\* Whatever threads, nodes and commands change them, no configuration in memory
\* or in a file names two primaries (should_failover, perform_failover), as long
\* as add_node was never asked to add one, which nothing refuses.
OnePrimary == ~seconded => \A c \in Configs : Cardinality(Primaries(c)) <= 1

\* When no call is between its change and its save, cluster.json is the
\* configuration in memory: save_config writes what it finds under the lock, so
\* overlapping calls cannot leave an older state behind.  (After join_cluster, a
\* failed save or a command of the CLI it holds again with the next save.)
FileIsCurrent ==
    \A n \in Node :
      Running(n) /\ ~dirty[n] /\ (\A t \in InCall(n) : call[t].step # "save") =>
        file[n] = node[n].config

\* Replay of the commands proposed by a node since it was created.
Replayed(n) ==
    LET log == node[n].log
        last(m) == {k \in 1 .. Len(log) :
                      log[k][2] = m /\ \A j \in (k + 1) .. Len(log) : log[j][2] # m}
    IN {m \in Node : IF last(m) = {} THEN m \in node[n].base
                     ELSE \A k \in last(m) : log[k][1] = "add"}

\* Between membership calls the members in the configuration are those the
\* proposed commands lead to, unless a call ended in an error half way (the
\* save, or propose after the node stepped down) or two calls overlapped:
\* add_node and remove_node change the configuration before the log accepts it.
ConfigFollowsLog ==
    \A n \in Node :
      Running(n) /\ ~node[n].skewed /\ (\A t \in InCall(n) : call[t].op \notin Membership) =>
        Members(node[n].config) = Replayed(n)

\* A leader sends entries to every other member: the fixed peers are tracked
\* when it wins and the nodes added later by add_peer, over any number of
\* elections, unless a call failed or overlapped.  A node that was removed once is
\* left out from then on, also if it is added again: a fixed peer is then not
\* tracked until the next election.
MembersTracked ==
    \A n \in Node :
      /\ Running(n) /\ node[n].leader /\ ~node[n].skewed
      /\ \A t \in InCall(n) : call[t].op \notin Membership
      => Members(node[n].config) \ (node[n].removed \cup {n}) \subseteq node[n].tracked

\* The nodes of a set in any order.
Orders(S) == {h \in [1 .. Cardinality(S) -> S] : \A j, k \in DOMAIN h : h[j] = h[k] => j = k}

\* The shards allocated to a configuration's nodes, and reassigned when any one
\* of them fails to the others in whichever order: every shard is with a healthy
\* node, only the failed node's have moved, and no node has three shards more
\* than another (both round-robin turns start at the first node).
ShardsSpread ==
    \A c \in Configs, num \in ShardCounts : \A f \in Members(c) : \A healthy \in Orders(Members(c) \ {f}) :
      LET old == Allocate(num, [k \in 1 .. Len(c.nodes) |-> c.nodes[k].id])
          new == ReassignFailedNode(old, f, healthy)
          load(n) == Cardinality({i \in DOMAIN new : new[i] = n})
          alive == Members(c) \ {f}
      IN alive # {} =>
           /\ \A i \in DOMAIN new : new[i] \in alive /\ (old[i] # f => new[i] = old[i])
           /\ \A n, m \in alive : load(n) <= load(m) + 2
=============================================================================
