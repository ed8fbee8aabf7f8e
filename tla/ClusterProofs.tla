--------------------------- MODULE ClusterProofs ----------------------------
(***************************************************************************)
(* Proofs about Cluster, for any set of nodes and threads and any bounds:  *)
(* one primary per configuration, the file is the configuration in memory, *)
(* the members follow the proposed commands, the leader tracks them, and   *)
(* shards dealt in two turns are spread evenly.                            *)
(***************************************************************************)
EXTENDS Cluster, Induction

Call == [op : {"none", "add", "remove", "failover", "toggle"}, node : Node \cup {NoNode},
         arg : Node \cup {NoNode}, role : Role,
         step : {"done", "config", "save", "track", "propose", "cool"}]
\* The step a call is at is one of its kind, and its node is running.
CallOK(k) ==
    \/ k = Idle
    \/ /\ k.node \in Node /\ Running(k.node)
       /\ k.op \in {"add", "remove", "failover", "toggle"}
       /\ k.step \in {"config", "save", "track", "propose", "cool"}
       /\ k.op \in {"add", "remove", "failover"} => k.arg \in Node
       /\ k.step \in {"track", "propose"} => k.op \in Membership
       /\ k.step = "cool" => k.op \notin Membership
       /\ k.op = "add" /\ k.role = "Primary" => seconded
Types ==
    /\ node \in [Node -> ClusterNode \cup {NoNode}]
    /\ file \in [Node -> Config \cup {NoFile, Torn}]
    /\ call \in [Thread -> Call]
    /\ dirty \in [Node -> BOOLEAN]
    /\ \A t \in Thread : CallOK(call[t])

-----------------------------------------------------------------------------
(* Configurations. *)

\* No node is listed twice.
OneInfo(infos) == \A j, k \in 1 .. Len(infos) : infos[j].id = infos[k].id => j = k

(* Vec::retain keeps exactly the infos of the other nodes, each as often as before. *)
LEMMA OthersFrom ==
    ASSUME NEW infos \in Seq(Info), NEW m
    PROVE  /\ Others(infos, m) \in Seq(Info)
           /\ \A x : (\E i \in 1 .. Len(Others(infos, m)) : x = Others(infos, m)[i])
                     <=> (\E i \in 1 .. Len(infos) : x = infos[i] /\ x.id # m)
           /\ OneInfo(infos) => OneInfo(Others(infos, m))
<1> DEFINE N == Len(infos)
           S == Seq(Info)
           Put(s, k) == IF infos[k].id = m THEN s ELSE Append(s, infos[k])
           step == [x \in S \X (1 .. N) |-> Put(x[1], x[2])]
           Def(f) == [k \in 0 .. N |-> IF k = 0 THEN <<>>
                                       ELSE IF infos[k].id = m THEN f[k - 1]
                                            ELSE Append(f[k - 1], infos[k])]
           f == CHOOSE f : f = Def(f)
<1>1. N \in Nat /\ <<>> \in S /\ \A k \in 1 .. N : infos[k] \in Info
  OBVIOUS
<1>2. \A s \in S, k \in 1 .. N : Put(s, k) \in S
  BY <1>1
<1>3. Others(infos, m) = f[N]
  BY DEF Others
<1> HIDE DEF N, S, Put
<1>4. step \in Steps(S, N)
  BY <1>1, <1>2 DEF Steps
<1>5. \A s \in S, k \in 1 .. N : step[<<s, k>>] = Put(s, k)
  OBVIOUS
<1> HIDE DEF step
<1>6. PICK g : Solves(g, S, <<>>, N, step)
  BY <1>1, <1>4, Recurrence
<1>7. g = Def(g)
  <2>1. \A k \in 1 .. N : g[k - 1] \in S
    BY <1>1, <1>6 DEF Solves
  <2>2. \A k \in 1 .. N : g[k] = Put(g[k - 1], k)
    BY <1>5, <1>6, <2>1 DEF Solves
  <2>3. \A k \in 0 .. N : g[k] = IF k = 0 THEN <<>> ELSE Put(g[k - 1], k)
    BY <1>1, <1>6, <2>2 DEF Solves
  <2>4. g \in [0 .. N -> S]
    BY <1>6 DEF Solves
  <2>5. g = [k \in 0 .. N |-> IF k = 0 THEN <<>> ELSE Put(g[k - 1], k)]
    BY <2>3, <2>4
  <2> QED BY <2>5, Zenon DEF Put
<1>8. f = Def(f)
  BY <1>7, Zenon
<1>9. f[0] = <<>> /\ \A k \in 1 .. N : f[k] = Put(f[k - 1], k)
  <2>1. f = [k \in 0 .. N |-> IF k = 0 THEN <<>> ELSE Put(f[k - 1], k)]
    BY <1>8, Zenon DEF Put
  <2> HIDE DEF f
  <2> QED BY <1>1, <2>1
<1> HIDE DEF f, Def
<1> DEFINE In(x, s) == \E i \in 1 .. Len(s) : x = s[i]
           From(x, k) == \E i \in 1 .. k : x = infos[i] /\ x.id # m
           Kept(k) == \A x : In(x, f[k]) <=> From(x, k)
           Once(k) == OneInfo(infos) => OneInfo(f[k])
           Good == {k \in Nat : k <= N => f[k] \in S /\ Kept(k) /\ Once(k)}
<1>10. 0 \in Good
  BY <1>1, <1>9 DEF OneInfo
<1>11. ASSUME NEW k \in Nat, k \in Good PROVE k + 1 \in Good
  <2> SUFFICES ASSUME k + 1 <= N PROVE f[k + 1] \in S /\ Kept(k + 1) /\ Once(k + 1)
    OBVIOUS
  <2>1. f[k] \in S /\ Kept(k) /\ Once(k)
    BY <1>1, <1>11
  <2>2. k + 1 \in 1 .. N /\ f[k + 1] = Put(f[k], k + 1) /\ infos[k + 1] \in Info
    BY <1>1, <1>9
  <2>3. \A x : From(x, k + 1) <=> From(x, k) \/ (x = infos[k + 1] /\ x.id # m)
    <3>1. \A i : i \in 1 .. k + 1 <=> i \in 1 .. k \/ i = k + 1
      OBVIOUS
    <3> QED BY <3>1, Zenon
  <2>4. CASE infos[k + 1].id = m
    <3>1. f[k + 1] = f[k]
      BY <2>2, <2>4 DEF Put
    <3>2. Once(k + 1)
      BY <2>1, <3>1
    <3> HIDE DEF In, From, Once
    <3> QED BY <2>1, <2>3, <2>4, <3>1, <3>2
  <2>5. CASE infos[k + 1].id # m
    <3>1. f[k + 1] = Append(f[k], infos[k + 1])
      BY <2>2, <2>5 DEF Put
    <3>2. f[k + 1] \in S
      BY <1>2, <2>1, <2>2
    <3>3. \A x : In(x, f[k + 1]) <=> In(x, f[k]) \/ x = infos[k + 1]
      <4>1. f[k] \in Seq(Info) /\ Len(f[k]) \in Nat
        BY <2>1 DEF S
      <4>2. /\ Len(f[k + 1]) = Len(f[k]) + 1 /\ f[k + 1][Len(f[k]) + 1] = infos[k + 1]
            /\ \A i \in 1 .. Len(f[k]) : f[k + 1][i] = f[k][i]
        <5>1. PICK s, info : s = f[k] /\ info = infos[k + 1]
          OBVIOUS
        <5>2. s \in Seq(Info) /\ info \in Info /\ f[k + 1] = Append(s, info)
          BY <2>2, <3>1, <4>1, <5>1
        <5>3. /\ Len(Append(s, info)) = Len(s) + 1 /\ Append(s, info)[Len(s) + 1] = info
              /\ \A i \in 1 .. Len(s) : Append(s, info)[i] = s[i]
          BY <5>2
        <5> QED BY <5>1, <5>2, <5>3, Zenon
      <4>3. \A i : i \in 1 .. Len(f[k + 1]) <=> i \in 1 .. Len(f[k]) \/ i = Len(f[k]) + 1
        BY <4>1, <4>2
      <4> QED BY <4>2, <4>3, Zenon
    <3>4. Once(k + 1)
      <4> SUFFICES ASSUME OneInfo(infos), NEW i \in 1 .. Len(f[k + 1]), NEW j \in 1 .. Len(f[k + 1]),
                          f[k + 1][i].id = f[k + 1][j].id
                   PROVE  i = j
        BY DEF OneInfo
      <4>1. PICK s, info : s = f[k] /\ info = infos[k + 1]
        OBVIOUS
      <4>2. s \in Seq(Info) /\ info \in Info /\ f[k + 1] = Append(s, info)
        BY <2>1, <2>2, <3>1, <4>1 DEF S
      <4>3. /\ Len(f[k + 1]) = Len(s) + 1 /\ f[k + 1][Len(s) + 1] = info
            /\ \A l \in 1 .. Len(s) : f[k + 1][l] = s[l]
        BY <4>2
      <4>4. Len(s) \in Nat /\ OneInfo(s)
        BY <2>1, <4>1, <4>2
      <4>5. ASSUME NEW l \in 1 .. Len(s), s[l].id = info.id PROVE FALSE
        <5>1. In(s[l], f[k])
          BY <4>1, <4>5
        <5>2. PICK e \in 1 .. k : s[l] = infos[e]
          BY <2>1, <5>1
        <5>3. infos[e].id = infos[k + 1].id /\ e \in 1 .. N /\ k + 1 \in 1 .. N /\ e # k + 1
          BY <1>1, <2>2, <4>1, <4>5, <5>2
        <5> QED BY <5>3 DEF OneInfo, N
      <4>6. CASE i <= Len(s) /\ j <= Len(s)
        <5>1. i \in 1 .. Len(s) /\ j \in 1 .. Len(s)
          BY <4>3, <4>4, <4>6
        <5> QED BY <4>3, <4>4, <5>1 DEF OneInfo
      <4>7. CASE i <= Len(s) /\ j = Len(s) + 1
        <5>1. i \in 1 .. Len(s)
          BY <4>3, <4>4, <4>7
        <5> QED BY <4>3, <4>5, <4>7, <5>1
      <4>8. CASE i = Len(s) + 1 /\ j <= Len(s)
        <5>1. j \in 1 .. Len(s)
          BY <4>3, <4>4, <4>8
        <5> QED BY <4>3, <4>5, <4>8, <5>1
      <4> QED BY <4>3, <4>4, <4>6, <4>7, <4>8
    <3> HIDE DEF In, From, Once
    <3> QED BY <2>1, <2>3, <2>5, <3>2, <3>3, <3>4
  <2> QED BY <2>4, <2>5
<1> HIDE DEF Good
<1>12. N \in Good
  BY <1>1, <1>10, <1>11, Induct
<1> QED BY <1>1, <1>3, <1>12 DEF Good, S, N

(* The members and the primaries, by the infos. *)
LEMMA MembersAre ==
    ASSUME NEW c \in Config
    PROVE  /\ c.nodes \in Seq(Info)
           /\ \A x : x \in Members(c) <=> \E k \in 1 .. Len(c.nodes) : x = c.nodes[k].id
           /\ \A x : x \in Primaries(c) <=>
                \E k \in 1 .. Len(c.nodes) : x = c.nodes[k].id /\ c.nodes[k].role = "Primary"
           /\ Members(c) \subseteq Node /\ Primaries(c) \subseteq Node
<1>1. c.nodes \in Seq(Info)
  BY DEF Config
<1>2. \A k \in 1 .. Len(c.nodes) : c.nodes[k] \in Info /\ c.nodes[k].id \in Node
  <2>1. \A i \in Info : i.id \in Node
    BY DEF Info
  <2> QED BY <1>1, <2>1
<1> QED BY <1>1, <1>2 DEF Members, Primaries

\* A new configuration has one member, its own node.
LEMMA ConfigNewIs ==
    ASSUME NEW n \in Node
    PROVE  /\ ConfigNew(n) \in Config /\ Members(ConfigNew(n)) = {n}
           /\ Primaries(ConfigNew(n)) \subseteq {n}
<1>1. ConfigNew(n) \in Config
  BY DEF ConfigNew, Config, Info, Role
<1>2. Len(ConfigNew(n).nodes) = 1 /\ ConfigNew(n).nodes[1].id = n
  BY DEF ConfigNew
<1> QED BY <1>1, <1>2, MembersAre

\* A formed configuration has its first node as the only primary.
LEMMA FormedIs ==
    ASSUME NEW N \in Nat, NEW ids \in [1 .. N -> Node], NEW s \in Node
    PROVE  Formed(s, ids) \in Config /\ Primaries(Formed(s, ids)) \subseteq {s}
<1> DEFINE infos == [k \in 1 .. Len(ids) |->
                      [id |-> ids[k], role |-> IF ids[k] = s THEN "Primary" ELSE "Secondary"]]
<1>1. ids \in Seq(Node) /\ Len(ids) = N
  OBVIOUS
<1>2. \A k \in 1 .. N : infos[k] \in Info /\ (infos[k].role = "Primary" => infos[k].id = s)
  BY <1>1 DEF Info, Role
<1>3. infos \in Seq(Info) /\ Len(infos) = N
  BY <1>1, <1>2
<1>4. Formed(s, ids) = [seed |-> s, failover |-> TRUE, nodes |-> infos]
  BY DEF Formed
<1> HIDE DEF infos
<1>5. Formed(s, ids) \in Config /\ Formed(s, ids).nodes = infos
  BY <1>3, <1>4 DEF Config
<1> QED BY <1>2, <1>3, <1>5, MembersAre

\* add_node adds a member, and a primary only if asked to.
LEMMA ConfigAddIs ==
    ASSUME NEW c \in Config, NEW m \in Node, NEW r \in Role
    PROVE  /\ ConfigAdd(c, m, r) \in Config
           /\ Members(ConfigAdd(c, m, r)) = Members(c) \cup {m}
           /\ r # "Primary" => Primaries(ConfigAdd(c, m, r)) \subseteq Primaries(c)
<1>1. CASE m \in Members(c)
  BY <1>1 DEF ConfigAdd
<1>2. CASE m \notin Members(c)
  <2> DEFINE d == ConfigAdd(c, m, r)
             i == [id |-> m, role |-> r]
  <2>1. c.nodes \in Seq(Info) /\ i \in Info /\ i.id = m /\ i.role = r
    BY MembersAre DEF Info
  <2>2. d \in Config /\ d.nodes = Append(c.nodes, i)
    BY <1>2, <2>1 DEF ConfigAdd, Config
  <2> HIDE DEF d, i
  <2>3. /\ Len(d.nodes) = Len(c.nodes) + 1 /\ d.nodes[Len(c.nodes) + 1] = i
        /\ \A k \in 1 .. Len(c.nodes) : d.nodes[k] = c.nodes[k]
        /\ Len(c.nodes) \in Nat
    BY <2>1, <2>2
  <2>4. \A k : k \in 1 .. Len(d.nodes) <=> k \in 1 .. Len(c.nodes) \/ k = Len(c.nodes) + 1
    BY <2>3
  <2>5. \A x : x \in Members(d) <=> x \in Members(c) \/ x = m
    <3>1. /\ \A x : x \in Members(c) <=> \E k \in 1 .. Len(c.nodes) : x = c.nodes[k].id
          /\ \A x : x \in Members(d) <=> \E k \in 1 .. Len(d.nodes) : x = d.nodes[k].id
      BY <2>2, MembersAre
    <3> SUFFICES ASSUME NEW x PROVE x \in Members(d) <=> x \in Members(c) \/ x = m
      OBVIOUS
    <3>2. x \in Members(d) => x \in Members(c) \/ x = m
      BY <2>1, <2>3, <2>4, <3>1
    <3>3. x \in Members(c) => x \in Members(d)
      BY <2>3, <2>4, <3>1
    <3>4. m \in Members(d)
      BY <2>1, <2>3, <2>4, <3>1
    <3> QED BY <3>2, <3>3, <3>4
  <2>6. r # "Primary" => Primaries(d) \subseteq Primaries(c)
    <3> SUFFICES ASSUME r # "Primary", NEW x \in Primaries(d) PROVE x \in Primaries(c)
      OBVIOUS
    <3>1. PICK k \in 1 .. Len(d.nodes) : x = d.nodes[k].id /\ d.nodes[k].role = "Primary"
      BY <2>2, MembersAre
    <3>2. k # Len(c.nodes) + 1
      BY <2>1, <2>3, <3>1
    <3>3. k \in 1 .. Len(c.nodes) /\ d.nodes[k] = c.nodes[k]
      BY <2>3, <2>4, <3>2
    <3>4. x = c.nodes[k].id /\ c.nodes[k].role = "Primary"
      BY <3>1, <3>3
    <3> QED BY <3>3, <3>4, MembersAre
  <2> QED BY <2>2, <2>5, <2>6 DEF d
<1> QED BY <1>1, <1>2

\* remove_node takes out one member and makes no primary.
LEMMA ConfigRemoveIs ==
    ASSUME NEW c \in Config, NEW m
    PROVE  /\ ConfigRemove(c, m) \in Config
           /\ Members(ConfigRemove(c, m)) = Members(c) \ {m}
           /\ Primaries(ConfigRemove(c, m)) \subseteq Primaries(c)
<1> DEFINE d == ConfigRemove(c, m)
<1>1. c.nodes \in Seq(Info)
  BY MembersAre
<1>2. d \in Config /\ d.nodes = Others(c.nodes, m)
  BY <1>1, OthersFrom DEF ConfigRemove, Config
<1> HIDE DEF d
<1>3. \A x : (\E i \in 1 .. Len(d.nodes) : x = d.nodes[i])
             <=> (\E i \in 1 .. Len(c.nodes) : x = c.nodes[i] /\ x.id # m)
  BY <1>1, <1>2, OthersFrom
<1>4. \A x : x \in Members(d) <=> x \in Members(c) /\ x # m
  <2>1. /\ \A x : x \in Members(c) <=> \E k \in 1 .. Len(c.nodes) : x = c.nodes[k].id
        /\ \A x : x \in Members(d) <=> \E k \in 1 .. Len(d.nodes) : x = d.nodes[k].id
    BY <1>2, MembersAre
  <2> SUFFICES ASSUME NEW x PROVE x \in Members(d) <=> x \in Members(c) /\ x # m
    OBVIOUS
  <2>2. x \in Members(d) => x \in Members(c) /\ x # m
    BY <1>3, <2>1
  <2>3. ASSUME x \in Members(c), x # m PROVE x \in Members(d)
    <3>1. PICK k \in 1 .. Len(c.nodes) : x = c.nodes[k].id
      BY <2>1, <2>3
    <3>2. PICK i \in 1 .. Len(d.nodes) : c.nodes[k] = d.nodes[i]
      BY <1>3, <2>3, <3>1
    <3> QED BY <2>1, <3>1, <3>2
  <2> QED BY <2>2, <2>3
<1>5. Primaries(d) \subseteq Primaries(c)
  BY <1>2, <1>3, MembersAre
<1> QED BY <1>2, <1>4, <1>5 DEF d

\* failover keeps the members, demotes one and promotes one.
LEMMA ConfigFailoverIs ==
    ASSUME NEW c \in Config, NEW f, NEW l, f # l
    PROVE  /\ ConfigFailover(c, f, l) \in Config
           /\ Members(ConfigFailover(c, f, l)) = Members(c)
           /\ Primaries(ConfigFailover(c, f, l)) \subseteq (Primaries(c) \ {f}) \cup {l}
<1> DEFINE d == ConfigFailover(c, f, l)
           N == Len(c.nodes)
           new(i) == CASE i.id = l -> [i EXCEPT !.role = "Primary"]
                       [] i.id = f /\ f # l -> [i EXCEPT !.role = "Secondary"]
                       [] OTHER -> i
           infos == [k \in 1 .. N |-> new(c.nodes[k])]
<1>1. c.nodes \in Seq(Info) /\ N \in Nat /\ \A k \in 1 .. N : c.nodes[k] \in Info
  BY MembersAre
<1>2. ASSUME NEW i \in Info
      PROVE  /\ new(i) \in Info /\ new(i).id = i.id
             /\ new(i).role = "Primary" => i.id = l \/ (i.id # f /\ i.role = "Primary")
  BY DEF Info, Role
<1> HIDE DEF new
<1>3. infos \in Seq(Info) /\ Len(infos) = N /\ \A k \in 1 .. N : infos[k] = new(c.nodes[k])
  BY <1>1, <1>2
<1>4. d = [c EXCEPT !.nodes = infos]
  BY DEF ConfigFailover, new
<1> HIDE DEF infos, d
<1>5. d \in Config /\ d.nodes = infos
  BY <1>3, <1>4 DEF Config
<1>6. \A x : x \in Members(d) <=> x \in Members(c)
  BY <1>1, <1>2, <1>3, <1>5, MembersAre
<1>7. Primaries(d) \subseteq (Primaries(c) \ {f}) \cup {l}
  <2> SUFFICES ASSUME NEW x \in Primaries(d), x # l PROVE x \in Primaries(c) /\ x # f
    OBVIOUS
  <2>1. PICK k \in 1 .. N : x = infos[k].id /\ infos[k].role = "Primary"
    BY <1>3, <1>5, MembersAre
  <2>2. c.nodes[k].id = x /\ x # f /\ c.nodes[k].role = "Primary"
    BY <1>1, <1>2, <1>3, <2>1
  <2> QED BY <2>2, MembersAre
<1> QED BY <1>5, <1>6, <1>7 DEF d

\* What each kind of call does to the members and the primaries.
LEMMA ChangedIs ==
    ASSUME NEW c \in Config, NEW k \in Call, k.op \in {"add", "remove", "failover", "toggle"},
           k.op # "toggle" => k.arg \in Node, k.op = "failover" => k.arg # k.node
    PROVE  LET d == Changed(c, k) IN
           /\ d \in Config
           /\ k.op = "add" => Members(d) = Members(c) \cup {k.arg}
           /\ k.op = "remove" => Members(d) = Members(c) \ {k.arg}
           /\ k.op \notin Membership => Members(d) = Members(c)
           /\ k.op = "failover" => Primaries(d) \subseteq (Primaries(c) \ {k.arg}) \cup {k.node}
           /\ k.op # "failover" /\ ~(k.op = "add" /\ k.role = "Primary") =>
                Primaries(d) \subseteq Primaries(c)
<1>1. CASE k.op = "add"
  <2>1. Changed(c, k) = ConfigAdd(c, k.arg, k.role) /\ k.role \in Role /\ k.arg \in Node
    BY <1>1 DEF Changed, Call
  <2> QED BY <1>1, <2>1, ConfigAddIs DEF Membership
<1>2. CASE k.op = "remove"
  <2>1. Changed(c, k) = ConfigRemove(c, k.arg)
    BY <1>2 DEF Changed
  <2> QED BY <1>2, <2>1, ConfigRemoveIs DEF Membership
<1>3. CASE k.op = "failover"
  <2>1. Changed(c, k) = ConfigFailover(c, k.arg, k.node) /\ k.arg # k.node
    BY <1>3 DEF Changed
  <2> QED BY <1>3, <2>1, ConfigFailoverIs DEF Membership
<1>4. CASE k.op = "toggle"
  <2>1. Changed(c, k) = [c EXCEPT !.failover = (k.role = "Primary")]
    BY <1>4 DEF Changed
  <2>2. (k.role = "Primary") \in BOOLEAN
    OBVIOUS
  <2>3. Changed(c, k) \in Config /\ Changed(c, k).nodes = c.nodes
    BY <2>1, <2>2 DEF Config
  <2> QED BY <1>4, <2>3 DEF Members, Primaries, Membership
<1> QED BY <1>1, <1>2, <1>3, <1>4

-----------------------------------------------------------------------------
(* The replay of the proposed commands. *)
LEMMA ReplayKept ==
    ASSUME NEW p \in Node, node'[p].log = node[p].log, node'[p].base = node[p].base
    PROVE  Replayed(p)' = Replayed(p)
BY DEF Replayed

\* One more proposed command is one more change of the members.
LEMMA ReplayAppended ==
    ASSUME NEW p \in Node, node[p].log \in Seq(Command), NEW op \in {"add", "remove"},
           NEW m \in Node, node'[p].log = Append(node[p].log, <<op, m>>),
           node'[p].base = node[p].base
    PROVE  Replayed(p)' = IF op = "add" THEN Replayed(p) \cup {m} ELSE Replayed(p) \ {m}
<1> DEFINE Last(log, x) == {k \in 1 .. Len(log) :
                              log[k][2] = x /\ \A j \in (k + 1) .. Len(log) : log[j][2] # x}
           In(log, x) == IF Last(log, x) = {} THEN x \in node[p].base
                         ELSE \A k \in Last(log, x) : log[k][1] = "add"
<1>1. PICK old, new : old = node[p].log /\ new = node'[p].log
  OBVIOUS
<1>2. /\ old \in Seq(Command) /\ Len(old) \in Nat /\ Len(new) = Len(old) + 1
      /\ new[Len(old) + 1] = <<op, m>>
      /\ \A k \in 1 .. Len(old) : new[k] = old[k]
  <2>1. <<op, m>> \in Command
    BY DEF Command
  <2> QED BY <1>1, <2>1
<1>3. /\ Replayed(p) = {x \in Node : In(old, x)}
      /\ Replayed(p)' = {x \in Node : In(new, x)}
  BY <1>1 DEF Replayed
<1>4. Last(new, m) = {Len(old) + 1}
  BY <1>2
<1>5. ASSUME NEW x \in Node, x # m PROVE Last(new, x) = Last(old, x)
  <2>1. new[Len(old) + 1][2] # x
    BY <1>2, <1>5
  <2>2. \A k : k \in 1 .. Len(new) <=> k \in 1 .. Len(old) \/ k = Len(old) + 1
    BY <1>2
  <2>3. ASSUME NEW k \in 1 .. Len(old)
        PROVE  (\A j \in (k + 1) .. Len(new) : new[j][2] # x)
               <=> (\A j \in (k + 1) .. Len(old) : old[j][2] # x)
    <3>1. \A j : j \in (k + 1) .. Len(new) <=> j \in (k + 1) .. Len(old) \/ j = Len(old) + 1
      BY <1>2
    <3>2. \A j \in (k + 1) .. Len(old) : j \in 1 .. Len(old)
      BY <1>2
    <3> QED BY <1>2, <2>1, <3>1, <3>2
  <2>4. \A k : k \in Last(new, x) <=> k \in Last(old, x)
    BY <1>2, <2>1, <2>2, <2>3
  <2> QED BY <2>4, Zenon
<1> HIDE DEF Last
<1>6. In(new, m) <=> op = "add"
  BY <1>2, <1>4
<1>7. ASSUME NEW x \in Node, x # m PROVE In(new, x) <=> In(old, x)
  <2>1. Last(old, x) \subseteq 1 .. Len(old)
    BY DEF Last
  <2> QED BY <1>2, <1>5, <1>7, <2>1
<1> HIDE DEF In
<1> QED BY <1>3, <1>6, <1>7

-----------------------------------------------------------------------------
(* The inductive invariant, node by node. *)

AtMostOne(c) == \A x, y \in Primaries(c) : x = y

FileOK(p) ==
    Running(p) /\ ~dirty[p] /\ (\A t \in InCall(p) : call[t].step # "save") =>
      file[p] = node[p].config

\* A failover on its way will leave no other primary than its node.
PrimaryOK(p) ==
    /\ \A t \in InCall(p) : call[t].op = "failover" => call[t].arg # p
    /\ ~seconded =>
         /\ Running(p) => AtMostOne(node[p].config)
         /\ HasFile(p) => AtMostOne(file[p])
         /\ \A t \in InCall(p) : call[t].op = "failover" /\ call[t].step = "config" =>
              Primaries(node[p].config) \subseteq {call[t].arg, p}

Pending(p) == {t \in InCall(p) : call[t].op \in Membership}

\* A membership call past its change is one command ahead of the log.
LogOK(p) ==
    Running(p) /\ ~node[p].skewed =>
      /\ \A t, u \in Pending(p) : t = u
      /\ (\A t \in Pending(p) : call[t].step = "config") => Members(node[p].config) = Replayed(p)
      /\ \A t \in Pending(p) : call[t].step # "config" =>
           Members(node[p].config) =
             IF call[t].op = "add" THEN Replayed(p) \cup {call[t].arg}
             ELSE Replayed(p) \ {call[t].arg}

\* The nodes added by calls that do not track them yet.
Untracked(p) ==
    {call[t].arg : t \in {u \in InCall(p) : call[u].op = "add" /\ call[u].step \in {"save", "track"}}}
TrackOK(p) ==
    Running(p) =>
      /\ node[p].leader => node[p].peers \subseteq node[p].tracked \cup node[p].removed
      /\ ~node[p].skewed =>
           Members(node[p].config) \ (node[p].removed \cup {p})
             \subseteq node[p].tracked \cup node[p].peers \cup Untracked(p)

NodeOK(p) == FileOK(p) /\ PrimaryOK(p) /\ LogOK(p) /\ TrackOK(p)
ClusterInv == Types /\ \A p \in Node : NodeOK(p)

(* A node that a step does not touch stays as it is. *)
LEMMA Untouched ==
    ASSUME NEW p \in Node, NodeOK(p), node'[p] = node[p], file'[p] = file[p], dirty'[p] = dirty[p],
           \A t \in Thread : call[t].node = p \/ call'[t].node = p => call'[t] = call[t],
           seconded => seconded'
    PROVE  NodeOK(p)'
<1>1. InCall(p)' = InCall(p) /\ \A t \in InCall(p) : t \in Thread /\ call'[t] = call[t]
  BY DEF InCall
<1>2. Pending(p)' = Pending(p) /\ \A t \in Pending(p) : t \in InCall(p)
  BY <1>1 DEF Pending
<1>3. FileOK(p)' /\ PrimaryOK(p)'
  BY <1>1 DEF NodeOK, FileOK, PrimaryOK, Running, HasFile, AtMostOne
<1>4. Replayed(p)' = Replayed(p)
  BY ReplayKept
<1>5. LogOK(p)'
  BY <1>1, <1>2, <1>4 DEF NodeOK, LogOK, Running
<1>6. Untracked(p)' = Untracked(p)
  BY <1>1 DEF Untracked
<1>7. TrackOK(p)'
  BY <1>6 DEF NodeOK, TrackOK, Running
<1> QED BY <1>3, <1>5, <1>7 DEF NodeOK

(* So a step about one node has that node's part to show. *)
LEMMA OneNode ==
    ASSUME ClusterInv, NEW n \in Node, Types', NodeOK(n)', seconded => seconded',
           \A p \in Node : p # n =>
             node'[p] = node[p] /\ file'[p] = file[p] /\ dirty'[p] = dirty[p],
           \A t \in Thread : call'[t] = call[t]
             \/ (call[t].node \in {n, NoNode} /\ call'[t].node \in {n, NoNode})
    PROVE  ClusterInv'
<1> SUFFICES ASSUME NEW p \in Node, p # n PROVE NodeOK(p)'
  BY DEF ClusterInv
<1>1. p # NoNode
  BY ClusterAssumptions
<1> QED BY <1>1, Untouched DEF ClusterInv

(* The calls of a node that is not running have ended. *)
LEMMA NoCalls ==
    ASSUME Types, NEW n \in Node
    PROVE  /\ ~Running(n) => InCall(n) = {}
           /\ Running(n) => node[n] \in ClusterNode
           /\ HasFile(n) => file[n] \in Config
           /\ n # NoNode
<1>1. n # NoNode
  BY ClusterAssumptions
<1>2. \A t \in Thread : CallOK(call[t])
  BY DEF Types
<1>3. \A t \in InCall(n) : t \in Thread /\ call[t].node = n
  BY DEF InCall
<1>4. \A t \in InCall(n) : Running(n)
  BY <1>1, <1>2, <1>3 DEF CallOK, Idle
<1> QED BY <1>1, <1>4 DEF Types, Running, HasFile

(* A thread in a call, and what the call is. *)
LEMMA InACall ==
    ASSUME Types, NEW t \in Thread, call[t].step # "done"
    PROVE  /\ call[t].node \in Node /\ Running(call[t].node) /\ node[call[t].node] \in ClusterNode
           /\ call[t] \in Call /\ t \in InCall(call[t].node)
           /\ call[t].op \in {"add", "remove", "failover", "toggle"}
           /\ call[t].op \in {"add", "remove", "failover"} => call[t].arg \in Node
           /\ call[t].step \in {"track", "propose"} => call[t].op \in Membership
           /\ call[t].step = "cool" => call[t].op \notin Membership
           /\ call[t].op = "add" /\ call[t].role = "Primary" => seconded
<1>1. CallOK(call[t]) /\ call[t] \in Call
  BY DEF Types
<1>2. call[t] # Idle
  BY DEF Idle
<1> QED BY <1>1, <1>2, NoCalls DEF CallOK, InCall

-----------------------------------------------------------------------------
(* Nodes come and go. *)

\* The invariant holds of a node not started and of a formed cluster.
LEMMA InitInv == Init => ClusterInv
<1> SUFFICES ASSUME Init PROVE ClusterInv
  OBVIOUS
<1>1. \A p \in Node : ~Running(p) /\ p # NoNode
  BY ClusterAssumptions DEF Init, Running
<1>2. Idle \in Call /\ CallOK(Idle)
  BY DEF Idle, Call, CallOK, Role
<1>3. \A p \in Node : InCall(p) = {}
  BY <1>1 DEF Init, InCall, Idle
<1>4. \A p \in Node : file[p] = NoFile \/ (file[p] \in Config /\ AtMostOne(file[p]))
  <2>1. CASE file = [n \in Node |-> NoFile]
    BY <2>1
  <2>2. ASSUME NEW ids \in [1 .. Cardinality(Node) -> Node],
               file = [n \in Node |-> Formed(ids[1], ids)], NEW p \in Node
        PROVE  file[p] \in Config /\ AtMostOne(file[p])
    <3>1. Cardinality(Node) \in Nat
      BY ClusterAssumptions, FS_CardinalityType
    <3>2. Cardinality(Node) # 0
      BY ClusterAssumptions, FS_EmptySet
    <3>3. ids[1] \in Node
      BY <3>1, <3>2
    <3> QED BY <2>2, <3>1, <3>3, FormedIs DEF AtMostOne
  <2> QED BY <2>1, <2>2 DEF Init
<1>5. Types
  <2>1. node \in [Node -> ClusterNode \cup {NoNode}] /\ dirty \in [Node -> BOOLEAN]
    BY DEF Init
  <2>2. file \in [Node -> Config \cup {NoFile, Torn}]
    BY <1>4 DEF Init
  <2>3. call \in [Thread -> Call] /\ \A t \in Thread : call[t] = Idle
    BY <1>2 DEF Init
  <2> QED BY <1>2, <2>1, <2>2, <2>3 DEF Types
<1>6. \A p \in Node : NodeOK(p)
  BY <1>1, <1>3, <1>4 DEF NodeOK, FileOK, PrimaryOK, LogOK, TrackOK, HasFile
<1> QED BY <1>5, <1>6 DEF ClusterInv

(* A node that starts follows its own configuration: no call is under way, no
   command was proposed, and it tracks nobody. *)
LEMMA StartedOK ==
    ASSUME ClusterInv, NEW n \in Node, ~Running(n), NEW c \in Config, ~seconded => AtMostOne(c),
           NEW f \in Config \cup {NoFile, Torn}, f = c \/ f = file[n],
           NEW d \in BOOLEAN, d \/ f = c,
           node' = [node EXCEPT ![n] = NewNode(n, c)], file' = [file EXCEPT ![n] = f],
           dirty' = [dirty EXCEPT ![n] = d], call' = call, seconded' = seconded
    PROVE  ClusterInv'
<1> USE DEF ClusterInv
<1>1. InCall(n) = {} /\ n # NoNode
  BY NoCalls
<1>2. InCall(n)' = {}
  BY <1>1 DEF InCall
<1>3. NewNode(n, c) \in ClusterNode /\ NewNode(n, c) # NoNode /\ Members(c) \subseteq Node
  <2>1. Members(c) \subseteq Node
    BY MembersAre
  <2>2. NewNode(n, c) \in ClusterNode
    BY <2>1 DEF NewNode, ClusterNode
  <2> QED BY <2>1, <2>2, ClusterAssumptions
<1>4. /\ node'[n] = NewNode(n, c) /\ file'[n] = f /\ dirty'[n] = d
      /\ \A p \in Node : p # n =>
           node'[p] = node[p] /\ file'[p] = file[p] /\ dirty'[p] = dirty[p]
  BY DEF Types
<1>5. Types'
  <2>1. ASSUME NEW t \in Thread PROVE CallOK(call[t])'
    <3>1. CallOK(call[t])
      BY DEF Types
    <3> QED BY <1>3, <1>4, <3>1 DEF CallOK, Running
  <2>2. node' \in [Node -> ClusterNode \cup {NoNode}]
    BY <1>3 DEF Types
  <2> QED BY <2>1, <2>2 DEF Types
<1>6. FileOK(n)'
  BY <1>4 DEF FileOK, NewNode
<1>7. PrimaryOK(n)'
  BY <1>2, <1>4 DEF NodeOK, PrimaryOK, AtMostOne, HasFile, NewNode
<1>8. Replayed(n)' = Members(c)
  <2>1. node'[n].log = <<>> /\ node'[n].base = Members(c)
    BY <1>4 DEF NewNode
  <2> QED BY <1>3, <2>1 DEF Replayed
<1>9. LogOK(n)' /\ TrackOK(n)'
  BY <1>2, <1>4, <1>8 DEF LogOK, TrackOK, Pending, NewNode
<1> QED BY <1>4, <1>5, <1>6, <1>7, <1>9, OneNode DEF NodeOK

\* init, join and load start a node from a new or a written configuration.
LEMMA StartInv ==
    ASSUME ClusterInv, NEW n \in Node,
           InitCluster(n) \/ Load(n) \/ \E m \in Node : JoinCluster(n, m)
    PROVE  ClusterInv'
<1>1. file \in [Node -> Config \cup {NoFile, Torn}] /\ file[n] \in Config \cup {NoFile, Torn}
  BY DEF ClusterInv, Types
<1>2. file = [file EXCEPT ![n] = file[n]]
  BY <1>1
<1>3. CASE InitCluster(n)
  <2>1. ConfigNew(n) \in Config /\ AtMostOne(ConfigNew(n))
    BY ConfigNewIs DEF AtMostOne
  <2> QED BY <1>3, <2>1, StartedOK DEF InitCluster, Start
<1>4. ASSUME NEW m \in Node, HasFile(m) PROVE file[m] \in Config /\ (~seconded => AtMostOne(file[m]))
  BY <1>4, NoCalls DEF ClusterInv, NodeOK, PrimaryOK
<1>5. CASE Load(n)
  BY <1>1, <1>2, <1>4, <1>5, StartedOK DEF Load, Start
<1>6. ASSUME NEW m \in Node, JoinCluster(n, m) PROVE ClusterInv'
  BY <1>1, <1>2, <1>4, <1>6, StartedOK DEF JoinCluster, Start
<1> QED BY <1>3, <1>5, <1>6

\* The process ends, possibly inside the write of its file.
LEMMA StopInv ==
    ASSUME ClusterInv, NEW n \in Node, Stop(n)
    PROVE  ClusterInv'
<1> USE DEF ClusterInv
<1>1. /\ node' = [node EXCEPT ![n] = NoNode] /\ dirty' = dirty /\ seconded' = seconded
      /\ call' = [t \in Thread |-> IF t \in InCall(n) THEN Idle ELSE call[t]]
      /\ file' = file \/ file' = [file EXCEPT ![n] = Torn]
  BY DEF Stop
<1>2. /\ node'[n] = NoNode /\ file'[n] \in {file[n], Torn}
      /\ \A p \in Node : p # n => node'[p] = node[p] /\ file'[p] = file[p] /\ dirty'[p] = dirty[p]
  BY <1>1 DEF Types
<1>3. \A t \in Thread : IF call[t].node = n THEN call'[t] = Idle ELSE call'[t] = call[t]
  BY <1>1 DEF InCall
<1>4. Idle.node = NoNode /\ n # NoNode /\ Idle \in Call
  BY NoCalls DEF Idle, Call, Role
<1>5. Types'
  <2>1. ASSUME NEW t \in Thread PROVE CallOK(call[t])'
    <3>1. CallOK(call[t])
      BY DEF Types
    <3>2. CASE call'[t] = Idle
      BY <3>2 DEF CallOK, Idle
    <3>3. CASE call'[t] = call[t] /\ call[t].node # n
      BY <1>1, <1>2, <3>1, <3>3 DEF CallOK, Running, Idle
    <3> QED BY <1>3, <3>2, <3>3
  <2>2. node' \in [Node -> ClusterNode \cup {NoNode}] /\ file' \in [Node -> Config \cup {NoFile, Torn}]
    BY <1>1 DEF Types
  <2>3. call' \in [Thread -> Call]
    BY <1>1, <1>4 DEF Types
  <2> QED BY <1>1, <2>1, <2>2, <2>3 DEF Types
<1>6. InCall(n)' = {}
  BY <1>3, <1>4 DEF InCall
<1>7. NodeOK(n)'
  BY <1>1, <1>2, <1>6 DEF NodeOK, FileOK, PrimaryOK, LogOK, TrackOK, Running, HasFile, AtMostOne
<1> QED BY <1>1, <1>2, <1>3, <1>4, <1>5, <1>7, OneNode

(* The command line writes the file only. *)
LEMMA CliInv ==
    ASSUME ClusterInv, NEW n \in Node, CliLeave(n) \/ \E f \in Node : CliFailover(n, f)
    PROVE  ClusterInv'
<1> USE DEF ClusterInv
<1>1. node' = node /\ call' = call /\ seconded' = seconded /\ dirty' = [dirty EXCEPT ![n] = TRUE]
  BY DEF CliLeave, CliFailover
<1>2. PICK g \in Config \cup {NoFile} :
         file' = [file EXCEPT ![n] = g] /\ (g # NoFile /\ ~seconded => AtMostOne(g))
  <2>1. CASE CliLeave(n)
    BY <2>1 DEF CliLeave
  <2>2. ASSUME NEW f \in Node, CliFailover(n, f)
        PROVE \E g \in Config : file' = [file EXCEPT ![n] = g] /\ (~seconded => AtMostOne(g))
    <3>1. HasFile(n) /\ f # NoNode /\ file' = [file EXCEPT ![n] = ConfigFailover(file[n], f, NoNode)]
      BY <2>2, ClusterAssumptions DEF CliFailover
    <3>2. file[n] \in Config /\ (~seconded => AtMostOne(file[n]))
      BY <3>1, NoCalls DEF NodeOK, PrimaryOK
    <3> DEFINE g == ConfigFailover(file[n], f, NoNode)
    <3>3. g \in Config /\ Primaries(g) \subseteq (Primaries(file[n]) \ {f}) \cup {NoNode}
      BY <3>1, <3>2, ConfigFailoverIs
    <3>4. NoNode \notin Primaries(g)
      BY <3>3, MembersAre, ClusterAssumptions
    <3> HIDE DEF g
    <3>5. ~seconded => AtMostOne(g)
      BY <3>2, <3>3, <3>4 DEF AtMostOne
    <3> QED BY <3>1, <3>3, <3>5 DEF g
  <2> QED BY <2>1, <2>2
<1>3. /\ file'[n] = g /\ dirty'[n] = TRUE
      /\ \A p \in Node : p # n => file'[p] = file[p] /\ dirty'[p] = dirty[p]
  BY <1>1, <1>2 DEF Types
<1>4. Types'
  <2>1. \A t \in Thread : CallOK(call[t]) /\ (CallOK(call[t]))' = CallOK(call[t])
    BY <1>1 DEF Types, CallOK, Running
  <2>2. file' \in [Node -> Config \cup {NoFile, Torn}]
    BY <1>2 DEF Types
  <2> QED BY <1>1, <2>1, <2>2 DEF Types
<1>5. InCall(n)' = InCall(n) /\ \A t \in InCall(n) : t \in Thread
  BY <1>1 DEF InCall
<1>6. FileOK(n)'
  BY <1>3 DEF FileOK
<1>7. PrimaryOK(n)'
  BY <1>1, <1>2, <1>3, <1>5 DEF NodeOK, PrimaryOK, HasFile, AtMostOne, Running
<1>8. Replayed(n)' = Replayed(n) /\ Pending(n)' = Pending(n) /\ Untracked(n)' = Untracked(n)
  BY <1>1, <1>5, ReplayKept DEF Pending, Untracked
<1>9. LogOK(n)' /\ TrackOK(n)'
  BY <1>1, <1>8 DEF NodeOK, LogOK, TrackOK, Running
<1> QED BY <1>1, <1>3, <1>4, <1>6, <1>7, <1>9, OneNode DEF NodeOK

-----------------------------------------------------------------------------
(* Steps of a running node. *)

(* What a step that changes one running node and at most one call leaves. *)
LEMMA RunningStep ==
    ASSUME ClusterInv, NEW n \in Node, NEW x \in ClusterNode, Running(n),
           node' = [node EXCEPT ![n] = x],
           NEW f \in Config \cup {NoFile, Torn}, file' = [file EXCEPT ![n] = f],
           NEW d \in BOOLEAN, dirty' = [dirty EXCEPT ![n] = d],
           call' \in [Thread -> Call], seconded => seconded',
           \A t \in Thread : call'[t] = call[t]
             \/ (call[t].node \in {n, NoNode} /\ call'[t].node \in {n, NoNode} /\ CallOK(call[t])'),
           FileOK(n)', PrimaryOK(n)', LogOK(n)', TrackOK(n)'
    PROVE  ClusterInv'
<1> USE DEF ClusterInv
<1>1. x # NoNode
  BY ClusterAssumptions
<1>2. \A p \in Node : IF p = n THEN node'[p] = x
                      ELSE node'[p] = node[p] /\ file'[p] = file[p] /\ dirty'[p] = dirty[p]
  BY DEF Types
<1>3. ASSUME NEW t \in Thread, call'[t] = call[t] PROVE CallOK(call[t])'
  <2>1. CallOK(call[t])
    BY DEF Types
  <2> QED BY <1>1, <1>2, <1>3, <2>1 DEF CallOK, Running
<1>4. Types'
  BY <1>3 DEF Types
<1> QED BY <1>2, <1>4, OneNode DEF NodeOK

(* The updated fields are what they are updated to. *)
LEMMA Fields ==
    ASSUME NEW x \in ClusterNode
    PROVE  /\ x.config \in Config /\ x.leader \in BOOLEAN /\ x.log \in Seq(Command)
           /\ x.peers \subseteq Node /\ x.tracked \subseteq Node /\ x.base \subseteq Node
           /\ x.removed \subseteq Node /\ x.skewed \in BOOLEAN /\ x.cooling \in BOOLEAN
BY DEF ClusterNode

\* Leadership comes and goes, and the cooldown ends.
LEMMA RaftStepInv ==
    ASSUME ClusterInv, NEW n \in Node, BecomeLeader(n) \/ StepDown(n) \/ EndCooldown(n)
    PROVE  ClusterInv'
<1> USE DEF ClusterInv
<1>1. /\ Running(n) /\ file' = file /\ call' = call /\ dirty' = dirty /\ seconded' = seconded
      /\ node[n] \in ClusterNode
  BY NoCalls DEF BecomeLeader, StepDown, EndCooldown
<1>2. PICK x \in ClusterNode :
        /\ node' = [node EXCEPT ![n] = x]
        /\ x.config = node[n].config /\ x.log = node[n].log /\ x.base = node[n].base
        /\ x.peers = node[n].peers /\ x.removed = node[n].removed /\ x.skewed = node[n].skewed
        /\ node[n].tracked \subseteq x.tracked
        /\ x.leader => node[n].leader \/ x.tracked = node[n].tracked \cup node[n].peers
  <2>1. CASE BecomeLeader(n)
    <3> DEFINE x == [node[n] EXCEPT !.leader = TRUE, !.tracked = @ \cup node[n].peers]
    <3>1. node' = [node EXCEPT ![n] = x]
      BY <2>1 DEF BecomeLeader
    <3>2. x \in ClusterNode
      BY <1>1 DEF ClusterNode
    <3>3. /\ x.config = node[n].config /\ x.log = node[n].log /\ x.base = node[n].base
          /\ x.peers = node[n].peers /\ x.removed = node[n].removed /\ x.skewed = node[n].skewed
          /\ x.tracked = node[n].tracked \cup node[n].peers
      BY <1>1 DEF ClusterNode
    <3> HIDE DEF x
    <3> QED BY <3>1, <3>2, <3>3
  <2>2. CASE StepDown(n)
    <3> DEFINE x == [node[n] EXCEPT !.leader = FALSE]
    <3>1. node' = [node EXCEPT ![n] = x]
      BY <2>2 DEF StepDown
    <3>2. x \in ClusterNode
      BY <1>1 DEF ClusterNode
    <3>3. /\ x.config = node[n].config /\ x.log = node[n].log /\ x.base = node[n].base
          /\ x.peers = node[n].peers /\ x.removed = node[n].removed /\ x.skewed = node[n].skewed
          /\ x.tracked = node[n].tracked /\ ~x.leader
      BY <1>1 DEF ClusterNode
    <3> HIDE DEF x
    <3> QED BY <3>1, <3>2, <3>3
  <2>3. CASE EndCooldown(n)
    <3> DEFINE x == [node[n] EXCEPT !.cooling = FALSE]
    <3>1. node' = [node EXCEPT ![n] = x]
      BY <2>3 DEF EndCooldown
    <3>2. x \in ClusterNode
      BY <1>1 DEF ClusterNode
    <3>3. /\ x.config = node[n].config /\ x.log = node[n].log /\ x.base = node[n].base
          /\ x.peers = node[n].peers /\ x.removed = node[n].removed /\ x.skewed = node[n].skewed
          /\ x.tracked = node[n].tracked /\ x.leader = node[n].leader
      BY <1>1 DEF ClusterNode
    <3> HIDE DEF x
    <3> QED BY <3>1, <3>2, <3>3, Zenon
  <2> QED BY <2>1, <2>2, <2>3
<1>3. node'[n] = x
  BY <1>2 DEF Types
<1>4. InCall(n)' = InCall(n) /\ \A t \in InCall(n) : t \in Thread
  BY <1>1 DEF InCall
<1>5. Replayed(n)' = Replayed(n) /\ Pending(n)' = Pending(n) /\ Untracked(n)' = Untracked(n)
  BY <1>1, <1>2, <1>3, <1>4, ReplayKept DEF Pending, Untracked
<1>6. FileOK(n)' /\ PrimaryOK(n)'
  BY <1>1, <1>2, <1>3, <1>4 DEF NodeOK, FileOK, PrimaryOK, HasFile, AtMostOne, Running
<1>7. LogOK(n)'
  BY <1>1, <1>2, <1>3, <1>5 DEF NodeOK, LogOK, Running
<1>8. TrackOK(n)'
  <2>1. TrackOK(n)
    BY DEF NodeOK
  <2>2. x.leader => x.peers \subseteq x.tracked \cup x.removed
    <3>1. CASE node[n].leader
      BY <1>1, <1>2, <2>1, <3>1 DEF TrackOK
    <3>2. CASE x.tracked = node[n].tracked \cup node[n].peers
      BY <1>2, <3>2
    <3> QED BY <1>2, <3>1, <3>2
  <2>3. ~x.skewed => Members(x.config) \ (x.removed \cup {n}) \subseteq x.tracked \cup x.peers \cup Untracked(n)
    BY <1>1, <1>2, <2>1 DEF TrackOK
  <2> QED BY <1>3, <1>5, <2>2, <2>3 DEF TrackOK
<1>9. file[n] \in Config \cup {NoFile, Torn} /\ file = [file EXCEPT ![n] = file[n]]
  BY DEF Types
<1>10. dirty[n] \in BOOLEAN /\ dirty = [dirty EXCEPT ![n] = dirty[n]]
  BY DEF Types
<1> QED BY <1>1, <1>2, <1>6, <1>7, <1>8, <1>9, <1>10, RunningStep DEF Types

-----------------------------------------------------------------------------
(* Calls begin. *)

\* A call that begins leaves configuration, file and commands alone.
LEMMA EnterOK ==
    ASSUME ClusterInv, NEW t \in Thread, NEW n \in Node,
           NEW op \in {"add", "remove", "failover", "toggle"}, NEW arg \in Node \cup {NoNode},
           NEW role \in Role, Enter(t, n, op, arg, role),
           op # "toggle" => arg \in Node,
           op = "add" /\ role = "Primary" => seconded',
           op = "failover" => arg # n /\ arg \in Primaries(node[n].config),
           NEW x \in ClusterNode, node' = [node EXCEPT ![n] = x],
           x.config = node[n].config, x.log = node[n].log, x.base = node[n].base,
           x.peers = node[n].peers, x.removed = node[n].removed, x.tracked = node[n].tracked,
           x.leader = node[n].leader, node[n].skewed => x.skewed,
           op \in Membership /\ ~x.skewed => Pending(n) = {},
           file' = file, dirty' = dirty, seconded => seconded'
    PROVE  ClusterInv'
<1> USE DEF ClusterInv
<1> DEFINE k == [op |-> op, node |-> n, arg |-> arg, role |-> role, step |-> "config"]
<1>1. Running(n) /\ call[t] = Idle /\ call' = [call EXCEPT ![t] = k]
  BY DEF Enter
<1>2. /\ k \in Call /\ k.op = op /\ k.node = n /\ k.arg = arg /\ k.role = role /\ k.step = "config"
      /\ n # NoNode /\ call[t].node = NoNode
  BY <1>1, NoCalls DEF Call, Idle
<1> HIDE DEF k
<1>3. /\ call' \in [Thread -> Call] /\ call'[t] = k
      /\ \A u \in Thread : u # t => call'[u] = call[u]
  BY <1>1, <1>2 DEF Types
<1>4. node'[n] = x /\ x # NoNode
  BY ClusterAssumptions DEF Types
<1>5. /\ InCall(n)' = InCall(n) \cup {t} /\ t \notin InCall(n)
      /\ \A u \in InCall(n) : u \in Thread /\ u # t /\ call'[u] = call[u]
  BY <1>2, <1>3 DEF InCall
<1>6. CallOK(call[t])'
  BY <1>2, <1>3, <1>4 DEF CallOK, Running, Membership
<1>7. FileOK(n)'
  BY <1>1, <1>4, <1>5 DEF NodeOK, FileOK
<1>8. PrimaryOK(n)'
  <2>1. PrimaryOK(n)
    BY DEF NodeOK
  <2>2. op = "failover" /\ ~seconded => Primaries(x.config) \subseteq {arg, n}
    BY <1>1, <2>1 DEF PrimaryOK, AtMostOne
  <2>3. \A u \in InCall(n)' : call'[u].op = "failover" => call'[u].arg # n
    BY <1>2, <1>3, <1>5, <2>1 DEF PrimaryOK
  <2>4. ASSUME ~seconded'
        PROVE  /\ AtMostOne(x.config) /\ (HasFile(n) => AtMostOne(file[n]))
               /\ \A u \in InCall(n)' : call'[u].op = "failover" /\ call'[u].step = "config" =>
                    Primaries(x.config) \subseteq {call'[u].arg, n}
    <3>1. ~seconded
      BY <2>4
    <3>2. AtMostOne(x.config) /\ (HasFile(n) => AtMostOne(file[n]))
      BY <1>1, <2>1, <3>1 DEF PrimaryOK
    <3>3. ASSUME NEW u \in InCall(n), call'[u].op = "failover", call'[u].step = "config"
          PROVE Primaries(x.config) \subseteq {call'[u].arg, n}
      BY <1>5, <2>1, <3>1, <3>3 DEF PrimaryOK
    <3> QED BY <1>2, <1>3, <1>5, <2>2, <3>1, <3>2, <3>3
  <2> QED BY <1>4, <2>3, <2>4 DEF PrimaryOK, HasFile, AtMostOne
<1>9. Replayed(n)' = Replayed(n)
  BY <1>4, ReplayKept
<1>10. \A u : u \in Pending(n)' <=> u \in Pending(n) \/ (u = t /\ op \in Membership)
  BY <1>2, <1>3, <1>5 DEF Pending
<1>11. LogOK(n)'
  <2> SUFFICES ASSUME ~x.skewed
               PROVE  /\ \A u, v \in Pending(n)' : u = v
                      /\ (\A u \in Pending(n)' : call'[u].step = "config") => Members(x.config) = Replayed(n)
                      /\ \A u \in Pending(n)' : call'[u].step # "config" =>
                           Members(x.config) = IF call'[u].op = "add" THEN Replayed(n) \cup {call'[u].arg}
                                               ELSE Replayed(n) \ {call'[u].arg}
    BY <1>4, <1>9 DEF LogOK
  <2>1. LogOK(n) /\ ~node[n].skewed
    BY DEF NodeOK
  <2>2. \A u \in Pending(n) : call'[u] = call[u]
    BY <1>5 DEF Pending
  <2>3. CASE op \in Membership
    <3>1. Pending(n) = {} /\ \A u \in Pending(n)' : u = t
      BY <1>10, <2>3
    <3> QED BY <1>1, <1>2, <1>3, <2>1, <3>1 DEF LogOK
  <2>4. CASE op \notin Membership
    <3>1. Pending(n)' = Pending(n)
      BY <1>10, <2>4
    <3> QED BY <1>1, <2>1, <2>2, <3>1 DEF LogOK
  <2> QED BY <2>3, <2>4
<1>12. Untracked(n)' = Untracked(n)
  BY <1>2, <1>3, <1>5 DEF Untracked
<1>13. TrackOK(n)'
  BY <1>1, <1>4, <1>12 DEF NodeOK, TrackOK
<1>14. file[n] \in Config \cup {NoFile, Torn} /\ file = [file EXCEPT ![n] = file[n]]
  BY DEF Types
<1>15. dirty[n] \in BOOLEAN /\ dirty = [dirty EXCEPT ![n] = dirty[n]]
  BY DEF Types
<1>16. \A u \in Thread : call'[u] = call[u]
         \/ (call[u].node \in {n, NoNode} /\ call'[u].node \in {n, NoNode} /\ CallOK(call[u])')
  BY <1>2, <1>3, <1>6
<1> QED BY <1>1, <1>3, <1>7, <1>8, <1>11, <1>13, <1>14, <1>15, <1>16, RunningStep

\* Every call begins from a state its guards accept.
LEMMA CallsInv ==
    ASSUME ClusterInv, NEW t \in Thread, NEW n \in Node, Calls(t, n)
    PROVE  ClusterInv'
<1> USE DEF ClusterInv
<1>1. Running(n) /\ node[n] \in ClusterNode
  <2>1. Running(n)
    BY DEF Calls, RemoveNode, PerformFailover, AddNode, SetFailoverEnabled, Enter
  <2> QED BY <2>1, NoCalls
<1>2. node = [node EXCEPT ![n] = node[n]]
  BY DEF Types
<1>3. ASSUME EnterMembership(t, n)
      PROVE  \E x \in ClusterNode :
               /\ node' = [node EXCEPT ![n] = x]
               /\ x.config = node[n].config /\ x.log = node[n].log /\ x.base = node[n].base
               /\ x.peers = node[n].peers /\ x.removed = node[n].removed
               /\ x.tracked = node[n].tracked /\ x.leader = node[n].leader
               /\ node[n].skewed => x.skewed
               /\ ~x.skewed => Pending(n) = {}
  <2> DEFINE some == \E u \in InCall(n) : call[u].op \in Membership
             b == node[n].skewed \/ some
             x == [node[n] EXCEPT !.skewed = b]
  <2>1. node' = [node EXCEPT ![n] = x]
    BY <1>3 DEF EnterMembership
  <2>2. b \in BOOLEAN
    BY Zenon
  <2>3. ~b => ~node[n].skewed /\ Pending(n) = {}
    BY DEF Pending
  <2> HIDE DEF b
  <2>4. x \in ClusterNode
    BY <1>1, <2>2 DEF ClusterNode
  <2>5. /\ x.config = node[n].config /\ x.log = node[n].log /\ x.base = node[n].base
        /\ x.peers = node[n].peers /\ x.removed = node[n].removed
        /\ x.tracked = node[n].tracked /\ x.leader = node[n].leader /\ x.skewed = b
    BY <1>1 DEF ClusterNode
  <2> HIDE DEF x
  <2>6. (node[n].skewed => x.skewed) /\ (~x.skewed => Pending(n) = {})
    BY <2>3, <2>5, Zenon
  <2> QED BY <2>1, <2>4, <2>5, <2>6
<1>4. ASSUME NEW m \in Node, NEW r \in AddRoles, AddNode(t, n, m, r) PROVE ClusterInv'
  <2>1. /\ Enter(t, n, "add", m, r) /\ EnterMembership(t, n) /\ file' = file /\ dirty' = dirty
        /\ (seconded => seconded') /\ (r = "Primary" => seconded') /\ r \in Role
    BY <1>4, ClusterAssumptions DEF AddNode, EnterMembership
  <2> QED BY <1>3, <2>1, EnterOK
<1>5. ASSUME NEW m \in Node, RemoveNode(t, n, m) PROVE ClusterInv'
  <2>1. /\ Enter(t, n, "remove", m, "Observer") /\ EnterMembership(t, n) /\ file' = file
        /\ dirty' = dirty /\ seconded' = seconded /\ "Observer" \in Role
    BY <1>5 DEF RemoveNode, EnterMembership, Role
  <2> QED BY <1>3, <2>1, EnterOK
<1>6. ASSUME NEW m \in Node, PerformFailover(t, n, m) PROVE ClusterInv'
  <2>1. /\ Enter(t, n, "failover", m, "Observer") /\ node' = node /\ file' = file /\ dirty' = dirty
        /\ seconded' = seconded /\ "Observer" \in Role /\ "failover" \notin Membership
        /\ m # n /\ m \in Primaries(node[n].config)
    BY <1>6 DEF PerformFailover, ShouldFailover, Role, Membership
  <2> QED BY <1>1, <1>2, <2>1, EnterOK
<1>7. ASSUME NEW r \in {"Primary", "Observer"}, SetFailoverEnabled(t, n, r) PROVE ClusterInv'
  <2>1. /\ Enter(t, n, "toggle", NoNode, r) /\ node' = node /\ file' = file /\ dirty' = dirty
        /\ seconded' = seconded /\ r \in Role /\ "toggle" \notin Membership
    BY <1>7 DEF SetFailoverEnabled, Role, Membership
  <2> QED BY <1>1, <1>2, <2>1, EnterOK
<1> QED BY <1>4, <1>5, <1>6, <1>7 DEF Calls

-----------------------------------------------------------------------------
(* Steps of a call. *)

(* The call of t at node n goes on at step s, or returns. *)
LEMMA GoesOn ==
    ASSUME Types, NEW t \in Thread, call[t].step # "done", NEW n, n = call[t].node,
           NEW s \in {"config", "save", "track", "propose", "cool"}, Goto(t, s),
           s \in {"track", "propose"} => call[t].op \in Membership,
           s = "cool" => call[t].op \notin Membership,
           Running(n)', seconded => seconded'
    PROVE  /\ call' \in [Thread -> Call] /\ InCall(n)' = InCall(n)
           /\ call'[t].op = call[t].op /\ call'[t].arg = call[t].arg
           /\ call'[t].step = s
           /\ \A u \in Thread : u # t => call'[u] = call[u]
           /\ \A u \in Thread : call'[u] = call[u]
                \/ (call[u].node \in {n, NoNode} /\ call'[u].node \in {n, NoNode} /\ CallOK(call[u])')
<1> DEFINE k == [call[t] EXCEPT !.step = s]
<1>1. /\ call[t] \in Call /\ n \in Node
      /\ call[t].op \in {"add", "remove", "failover", "toggle"}
      /\ call[t].op \in {"add", "remove", "failover"} => call[t].arg \in Node
      /\ call[t].op = "add" /\ call[t].role = "Primary" => seconded
  BY InACall
<1>2. /\ k \in Call /\ k.op = call[t].op /\ k.arg = call[t].arg /\ k.node = n
      /\ k.role = call[t].role /\ k.step = s
  BY <1>1 DEF Call
<1>3. call' = [call EXCEPT ![t] = k]
  BY DEF Goto
<1> HIDE DEF k
<1>4. /\ call' \in [Thread -> Call] /\ call'[t] = k
      /\ \A u \in Thread : u # t => call'[u] = call[u]
  BY <1>2, <1>3 DEF Types
<1>5. InCall(n)' = InCall(n)
  BY <1>2, <1>4 DEF InCall
<1>6. CallOK(call[t])'
  BY <1>1, <1>2, <1>4 DEF CallOK
<1> QED BY <1>2, <1>4, <1>5, <1>6

\* A call that returns leaves the others of its node under way.
LEMMA Returns ==
    ASSUME Types, NEW t \in Thread, NEW n \in Node, n = call[t].node, Return(t)
    PROVE  /\ call' \in [Thread -> Call] /\ InCall(n)' = InCall(n) \ {t}
           /\ \A u \in Thread : u # t => call'[u] = call[u]
           /\ \A u \in Thread : call'[u] = call[u]
                \/ (call[u].node \in {n, NoNode} /\ call'[u].node \in {n, NoNode} /\ CallOK(call[u])')
<1>1. Idle \in Call /\ Idle.node = NoNode /\ n # NoNode
  BY NoCalls DEF Idle, Call, Role
<1>2. /\ call' \in [Thread -> Call] /\ call'[t] = Idle
      /\ \A u \in Thread : u # t => call'[u] = call[u]
  BY <1>1 DEF Return, Types
<1>3. CallOK(call[t])'
  BY <1>2 DEF CallOK, Idle
<1>4. InCall(n)' = InCall(n) \ {t}
  BY <1>1, <1>2 DEF InCall
<1> QED BY <1>1, <1>2, <1>3, <1>4

(* The node and its file, where a step keeps the file or the whole of it. *)
LEMMA Kept ==
    ASSUME Types, NEW n \in Node
    PROVE  /\ node = [node EXCEPT ![n] = node[n]]
           /\ file[n] \in Config \cup {NoFile, Torn} /\ file = [file EXCEPT ![n] = file[n]]
           /\ dirty[n] \in BOOLEAN /\ dirty = [dirty EXCEPT ![n] = dirty[n]]
           /\ \A x : node' = [node EXCEPT ![n] = x] => node'[n] = x
           /\ \A t \in InCall(n) : t \in Thread
BY DEF Types, InCall

\* The step under the configuration's mutex.
LEMMA ChangeConfigInv ==
    ASSUME ClusterInv, NEW t \in Thread, ChangeConfig(t)
    PROVE  ClusterInv'
<1> USE DEF ClusterInv
<1>1. PICK n, k : n = call[t].node /\ k = call[t]
  OBVIOUS
<1>2. call[t].step = "config" /\ Goto(t, "save") /\ file' = file /\ dirty' = dirty /\ seconded' = seconded
  BY DEF ChangeConfig
<1>3. /\ n \in Node /\ Running(n) /\ node[n] \in ClusterNode /\ t \in InCall(n) /\ k \in Call
      /\ k.op \in {"add", "remove", "failover", "toggle"} /\ (k.op # "toggle" => k.arg \in Node)
      /\ (k.op = "add" /\ k.role = "Primary" => seconded) /\ n # NoNode
  BY <1>1, <1>2, InACall, NoCalls
<1>4. PICK c \in Config : c = node[n].config
  BY <1>3, Fields
<1>5. PrimaryOK(n) /\ LogOK(n) /\ TrackOK(n)
  BY <1>3 DEF NodeOK
<1>6. k.op = "failover" => k.arg # k.node /\ (~seconded => Primaries(c) \subseteq {k.arg, n})
  BY <1>1, <1>2, <1>3, <1>4, <1>5 DEF PrimaryOK
<1>7. PICK d : /\ d = Changed(c, k) /\ d \in Config
               /\ k.op = "add" => Members(d) = Members(c) \cup {k.arg}
               /\ k.op = "remove" => Members(d) = Members(c) \ {k.arg}
               /\ k.op \notin Membership => Members(d) = Members(c)
               /\ k.op = "failover" => Primaries(d) \subseteq (Primaries(c) \ {k.arg}) \cup {k.node}
               /\ k.op # "failover" /\ ~(k.op = "add" /\ k.role = "Primary") =>
                    Primaries(d) \subseteq Primaries(c)
  BY <1>3, <1>6, ChangedIs
<1>8. PICK x \in ClusterNode :
         /\ node' = [node EXCEPT ![n] = x] /\ x.config = d
         /\ x.log = node[n].log /\ x.base = node[n].base /\ x.peers = node[n].peers
         /\ x.removed = node[n].removed /\ x.tracked = node[n].tracked
         /\ x.leader = node[n].leader /\ x.skewed = node[n].skewed
  <2> DEFINE x == [node[n] EXCEPT !.config = d]
  <2>1. node' = [node EXCEPT ![n] = x]
    BY <1>1, <1>4, <1>7 DEF ChangeConfig
  <2>2. /\ x \in ClusterNode /\ x.config = d
        /\ x.log = node[n].log /\ x.base = node[n].base /\ x.peers = node[n].peers
        /\ x.removed = node[n].removed /\ x.tracked = node[n].tracked
        /\ x.leader = node[n].leader /\ x.skewed = node[n].skewed
    BY <1>3, <1>7 DEF ClusterNode
  <2> HIDE DEF x
  <2> QED BY <2>1, <2>2
<1>9. node'[n] = x /\ Running(n)'
  <2>1. node'[n] = x
    BY <1>3, <1>8 DEF Types
  <2>2. x # NoNode
    BY ClusterAssumptions
  <2> QED BY <2>1, <2>2 DEF Running
<1>10. /\ call' \in [Thread -> Call] /\ InCall(n)' = InCall(n)
       /\ call'[t].op = k.op /\ call'[t].arg = k.arg /\ call'[t].step = "save"
       /\ \A u \in InCall(n) : u \in Thread /\ (u # t => call'[u] = call[u])
       /\ \A u \in Thread : call'[u] = call[u]
            \/ (call[u].node \in {n, NoNode} /\ call'[u].node \in {n, NoNode} /\ CallOK(call[u])')
  BY <1>1, <1>2, <1>3, <1>9, GoesOn, Kept
<1>11. FileOK(n)'
  BY <1>3, <1>10 DEF FileOK
<1>12. PrimaryOK(n)'
  <2>1. \A u \in InCall(n)' : call'[u].op = "failover" => call'[u].arg # n
    BY <1>1, <1>5, <1>6, <1>10 DEF PrimaryOK
  <2>2. ASSUME ~seconded
        PROVE  /\ AtMostOne(d) /\ (HasFile(n) => AtMostOne(file[n]))
               /\ \A u \in InCall(n)' : call'[u].op = "failover" /\ call'[u].step = "config" =>
                    Primaries(d) \subseteq {call'[u].arg, n}
    <3>1. AtMostOne(c) /\ (HasFile(n) => AtMostOne(file[n]))
      BY <1>3, <1>4, <1>5, <2>2 DEF PrimaryOK
    <3>2. Primaries(d) \subseteq {n} \/ Primaries(d) \subseteq Primaries(c)
      BY <1>1, <1>3, <1>6, <1>7, <2>2
    <3>3. AtMostOne(d)
      BY <3>1, <3>2 DEF AtMostOne
    <3>4. ASSUME NEW u \in InCall(n)', call'[u].op = "failover", call'[u].step = "config"
          PROVE Primaries(d) \subseteq {call'[u].arg, n}
      <4>1. u # t /\ u \in InCall(n) /\ call'[u] = call[u]
        BY <1>10, <3>4
      <4>2. Primaries(c) \subseteq {call[u].arg, n}
        BY <1>4, <1>5, <2>2, <3>4, <4>1 DEF PrimaryOK
      <4> QED BY <3>2, <4>1, <4>2
    <3> QED BY <3>1, <3>3, <3>4
  <2> QED BY <1>2, <1>9, <1>8, <2>1, <2>2 DEF PrimaryOK, HasFile, AtMostOne
<1>13. Replayed(n)' = Replayed(n)
  BY <1>3, <1>8, <1>9, ReplayKept
<1>14. /\ Pending(n)' = Pending(n) /\ (t \in Pending(n) <=> k.op \in Membership)
       /\ \A u \in Pending(n) : u # t => call'[u] = call[u]
  BY <1>1, <1>3, <1>10 DEF Pending
<1>15. LogOK(n)'
  <2> SUFFICES ASSUME ~node[n].skewed
               PROVE  /\ \A u, v \in Pending(n) : u = v
                      /\ (\A u \in Pending(n) : call'[u].step = "config") => Members(d) = Replayed(n)
                      /\ \A u \in Pending(n) : call'[u].step # "config" =>
                           Members(d) = IF call'[u].op = "add" THEN Replayed(n) \cup {call'[u].arg}
                                        ELSE Replayed(n) \ {call'[u].arg}
    BY <1>8, <1>9, <1>13, <1>14 DEF LogOK
  <2>1. /\ \A u, v \in Pending(n) : u = v
        /\ (\A u \in Pending(n) : call[u].step = "config") => Members(c) = Replayed(n)
        /\ \A u \in Pending(n) : call[u].step # "config" =>
             Members(c) = IF call[u].op = "add" THEN Replayed(n) \cup {call[u].arg}
                          ELSE Replayed(n) \ {call[u].arg}
    BY <1>3, <1>4, <1>5 DEF LogOK
  <2>2. CASE k.op \in Membership
    <3>1. t \in Pending(n) /\ \A u \in Pending(n) : u = t
      BY <1>14, <2>1, <2>2
    <3>2. Members(c) = Replayed(n)
      BY <1>1, <1>2, <2>1, <3>1
    <3> QED BY <1>7, <1>10, <2>2, <3>1, <3>2 DEF Membership
  <2>3. CASE k.op \notin Membership
    <3>1. Members(d) = Members(c) /\ \A u \in Pending(n) : call'[u] = call[u]
      BY <1>7, <1>14, <2>3
    <3> QED BY <2>1, <3>1
  <2> QED BY <2>2, <2>3
<1>16. Members(d) \subseteq Members(c) \cup Untracked(n)' /\ Untracked(n) \subseteq Untracked(n)'
  <2>1. \A u : u \in Untracked(n) <=>
          \E v \in InCall(n) : u = call[v].arg /\ call[v].op = "add" /\ call[v].step \in {"save", "track"}
    BY DEF Untracked
  <2>2. \A u : u \in Untracked(n)' <=>
          \E v \in InCall(n) : u = call'[v].arg /\ call'[v].op = "add" /\ call'[v].step \in {"save", "track"}
    BY <1>10 DEF Untracked
  <2>3. Untracked(n) \subseteq Untracked(n)'
    <3> SUFFICES ASSUME NEW u \in Untracked(n) PROVE u \in Untracked(n)'
      OBVIOUS
    <3>1. PICK v \in InCall(n) : u = call[v].arg /\ call[v].op = "add" /\ call[v].step \in {"save", "track"}
      BY <2>1
    <3>2. v # t
      BY <1>2, <3>1
    <3> QED BY <1>10, <2>2, <3>1, <3>2
  <2>4. k.op = "add" => k.arg \in Untracked(n)'
    BY <1>3, <1>10, <2>2
  <2> QED BY <1>3, <1>7, <2>3, <2>4 DEF Membership
<1>17. TrackOK(n)'
  <2>1. node[n].leader => node[n].peers \subseteq node[n].tracked \cup node[n].removed
    BY <1>3, <1>5 DEF TrackOK
  <2>2. ~node[n].skewed => Members(c) \ (node[n].removed \cup {n})
                             \subseteq node[n].tracked \cup node[n].peers \cup Untracked(n)
    BY <1>3, <1>4, <1>5 DEF TrackOK
  <2> QED BY <1>8, <1>9, <1>16, <2>1, <2>2 DEF TrackOK
<1> QED BY <1>2, <1>3, <1>8, <1>10, <1>11, <1>12, <1>15, <1>17, Kept, RunningStep

\* The write of the file.
LEMMA SaveConfigInv ==
    ASSUME ClusterInv, NEW t \in Thread, SaveConfig(t)
    PROVE  ClusterInv'
<1> USE DEF ClusterInv
<1>1. PICK n, k : n = call[t].node /\ k = call[t]
  OBVIOUS
<1>2. /\ call[t].step = "save" /\ AfterSave(t) /\ node' = node /\ seconded' = seconded
      /\ file' = [file EXCEPT ![n] = node[n].config] /\ dirty' = [dirty EXCEPT ![n] = FALSE]
  BY <1>1 DEF SaveConfig
<1>3. /\ n \in Node /\ Running(n) /\ node[n] \in ClusterNode /\ t \in InCall(n) /\ n # NoNode
      /\ k.op \in {"add", "remove", "failover", "toggle"} /\ Running(n)'
  BY <1>1, <1>2, InACall, NoCalls DEF Running
<1>4. node[n].config \in Config /\ FALSE \in BOOLEAN
  BY <1>3, Fields
<1>5. PrimaryOK(n) /\ LogOK(n) /\ TrackOK(n)
  BY <1>3 DEF NodeOK
<1>6. /\ call' \in [Thread -> Call] /\ InCall(n)' \subseteq InCall(n)
      /\ k.op \in Membership => t \in InCall(n)' /\ call'[t].step = "track"
      /\ t \in InCall(n)' => call'[t].op = k.op /\ call'[t].arg = k.arg /\ call'[t].step \in {"track", "cool"}
      /\ \A u \in InCall(n) : u \in Thread /\ (u # t => call'[u] = call[u] /\ u \in InCall(n)')
      /\ \A u \in Thread : call'[u] = call[u]
           \/ (call[u].node \in {n, NoNode} /\ call'[u].node \in {n, NoNode} /\ CallOK(call[u])')
  <2>1. CASE k.op \in Membership
    <3>1. Goto(t, "track")
      BY <1>1, <1>2, <2>1 DEF AfterSave, Membership
    <3> QED BY <1>1, <1>2, <1>3, <2>1, <3>1, GoesOn, Kept
  <2>2. CASE k.op = "failover"
    <3>1. Goto(t, "cool") /\ k.op \notin Membership
      BY <1>1, <1>2, <2>2 DEF AfterSave, Membership
    <3>2. /\ call' \in [Thread -> Call] /\ InCall(n)' = InCall(n)
          /\ call'[t].op = k.op /\ call'[t].arg = k.arg /\ call'[t].step = "cool"
          /\ \A u \in Thread : u # t => call'[u] = call[u]
          /\ \A u \in Thread : call'[u] = call[u]
               \/ (call[u].node \in {n, NoNode} /\ call'[u].node \in {n, NoNode} /\ CallOK(call[u])')
      BY <1>1, <1>2, <1>3, <3>1, GoesOn
    <3> QED BY <1>3, <3>1, <3>2, Kept
  <2>3. CASE k.op \notin Membership \cup {"failover"}
    <3>1. Return(t) /\ k.op \notin Membership
      BY <1>1, <1>2, <2>3 DEF AfterSave
    <3> QED BY <1>1, <1>2, <1>3, <2>3, <3>1, Returns, Kept
  <2> QED BY <2>1, <2>2, <2>3
<1>7. file'[n] = node[n].config /\ dirty'[n] = FALSE
  BY <1>2, <1>3 DEF Types
<1>8. FileOK(n)'
  BY <1>2, <1>7 DEF FileOK
<1>9. PrimaryOK(n)'
  BY <1>1, <1>2, <1>3, <1>5, <1>6, <1>7 DEF PrimaryOK, HasFile, AtMostOne
<1>10. Replayed(n)' = Replayed(n)
  BY <1>2, <1>3, ReplayKept
<1>11. \A u : u \in Pending(n)' <=> u \in Pending(n)
  BY <1>1, <1>3, <1>6 DEF Pending
<1>12. \A u \in Pending(n) : /\ call'[u].op = call[u].op /\ call'[u].arg = call[u].arg
                             /\ call'[u].step = "config" <=> call[u].step = "config"
  <2>1. \A u \in Pending(n) : u \in InCall(n) /\ call[u].op \in Membership
    BY DEF Pending
  <2>2. \A u \in Pending(n) : u # t => call'[u] = call[u]
    BY <1>6, <2>1
  <2>3. t \in Pending(n) => t \in InCall(n)' /\ call'[t].step = "track"
    BY <1>1, <1>6, <2>1
  <2> QED BY <1>1, <1>2, <1>6, <2>2, <2>3
<1>13. LogOK(n)'
  <2>1. CASE node[n].skewed
    BY <1>2, <2>1 DEF LogOK
  <2>2. CASE ~node[n].skewed
    <3>1. /\ \A u, w \in Pending(n) : u = w
          /\ (\A u \in Pending(n) : call[u].step = "config") =>
               Members(node[n].config) = Replayed(n)
          /\ \A u \in Pending(n) : call[u].step # "config" =>
               Members(node[n].config) =
                 IF call[u].op = "add" THEN Replayed(n) \cup {call[u].arg}
                 ELSE Replayed(n) \ {call[u].arg}
      BY <1>3, <1>5, <2>2 DEF LogOK
    <3>2. \A u, w \in Pending(n)' : u = w
      BY ONLY <1>11, <3>1
    <3>3. (\A u \in Pending(n)' : call'[u].step = "config") =>
            Members(node[n].config) = Replayed(n)'
      BY ONLY <1>10, <1>11, <1>12, <3>1
    <3>4. \A u \in Pending(n)' : call'[u].step # "config" =>
            Members(node[n].config) =
              IF call'[u].op = "add" THEN Replayed(n)' \cup {call'[u].arg}
              ELSE Replayed(n)' \ {call'[u].arg}
      BY ONLY <1>10, <1>11, <1>12, <3>1
    <3> QED BY <1>2, <3>2, <3>3, <3>4 DEF LogOK
  <2> QED BY <2>1, <2>2
<1>14. Untracked(n) \subseteq Untracked(n)'
  <2> SUFFICES ASSUME NEW u \in InCall(n), call[u].op = "add", call[u].step \in {"save", "track"}
               PROVE  call[u].arg \in Untracked(n)'
    BY DEF Untracked
  <2>1. CASE u = t
    <3>1. call'[t].op = "add" /\ call'[t].arg = call[u].arg /\ call'[t].step = "track" /\ t \in InCall(n)'
      BY <1>1, <1>6, <2>1 DEF Membership
    <3> QED BY <3>1 DEF Untracked
  <2>2. CASE u # t
    <3>1. call'[u] = call[u] /\ u \in InCall(n)'
      BY <1>6, <2>2
    <3> QED BY <3>1 DEF Untracked
  <2> QED BY <2>1, <2>2
<1>15. TrackOK(n)'
  BY <1>2, <1>3, <1>5, <1>14 DEF TrackOK
<1> QED BY <1>2, <1>3, <1>4, <1>6, <1>8, <1>9, <1>13, <1>15, Kept, RunningStep

\* The write fails and the call returns half done.
LEMMA SaveFailsInv ==
    ASSUME ClusterInv, NEW t \in Thread, SaveFails(t)
    PROVE  ClusterInv'
<1> USE DEF ClusterInv
<1>1. PICK n : n = call[t].node
  OBVIOUS
<1>2. /\ call[t].step = "save" /\ Return(t) /\ seconded' = seconded
      /\ node' = [node EXCEPT ![n].skewed = TRUE] /\ dirty' = [dirty EXCEPT ![n] = TRUE]
      /\ file' = file \/ file' = [file EXCEPT ![n] = Torn]
  BY <1>1 DEF SaveFails
<1>3. n \in Node /\ Running(n) /\ node[n] \in ClusterNode /\ n # NoNode
  BY <1>1, <1>2, InACall, NoCalls
<1>4. PICK x \in ClusterNode :
         /\ node' = [node EXCEPT ![n] = x] /\ x.config = node[n].config /\ x.skewed
         /\ x.peers = node[n].peers /\ x.removed = node[n].removed /\ x.tracked = node[n].tracked
         /\ x.leader = node[n].leader
  <2> DEFINE x == [node[n] EXCEPT !.skewed = TRUE]
  <2>1. node' = [node EXCEPT ![n] = x]
    BY <1>2
  <2>2. /\ x \in ClusterNode /\ x.config = node[n].config /\ x.skewed = TRUE
        /\ x.peers = node[n].peers /\ x.removed = node[n].removed /\ x.tracked = node[n].tracked
        /\ x.leader = node[n].leader
    BY <1>3 DEF ClusterNode
  <2> HIDE DEF x
  <2> QED BY <2>1, <2>2
<1>5. PICK f \in Config \cup {NoFile, Torn} : file' = [file EXCEPT ![n] = f] /\ f \in {file[n], Torn}
  BY <1>2, <1>3, Kept
<1>6. node'[n] = x /\ file'[n] = f /\ dirty'[n] = TRUE
  BY <1>2, <1>3, <1>4, <1>5 DEF Types
<1>7. /\ call' \in [Thread -> Call] /\ InCall(n)' = InCall(n) \ {t}
      /\ \A u \in InCall(n)' : call'[u] = call[u]
      /\ \A u \in Thread : call'[u] = call[u]
           \/ (call[u].node \in {n, NoNode} /\ call'[u].node \in {n, NoNode} /\ CallOK(call[u])')
  <2>1. \A u \in InCall(n) : u \in Thread
    BY DEF InCall
  <2> QED BY <1>1, <1>2, <1>3, <2>1, Returns
<1>8. FileOK(n)' /\ LogOK(n)'
  <2>1. dirty'[n] /\ node'[n].skewed
    BY <1>4, <1>6
  <2> QED BY <2>1, Zenon DEF FileOK, LogOK
<1>9. PrimaryOK(n)'
  <2>1. PrimaryOK(n)
    BY <1>3 DEF NodeOK
  <2>2. ~seconded => AtMostOne(x.config) /\ (f \notin {NoFile, Torn} => AtMostOne(f))
    BY <1>3, <1>4, <1>5, <2>1 DEF PrimaryOK, HasFile
  <2>3. \A u \in InCall(n)' : u \in InCall(n) /\ call'[u] = call[u]
    BY <1>7
  <2> HIDE DEF AtMostOne
  <2> QED BY <1>2, <1>3, <1>4, <1>6, <2>1, <2>2, <2>3 DEF PrimaryOK, HasFile, AtMostOne
<1>10. TrackOK(n)'
  <2>1. x.leader => x.peers \subseteq x.tracked \cup x.removed
    BY <1>3, <1>4 DEF NodeOK, TrackOK
  <2> QED BY <1>4, <1>6, <2>1 DEF TrackOK
<1>11. TRUE \in BOOLEAN
  OBVIOUS
<1> QED BY <1>2, <1>3, <1>4, <1>5, <1>7, <1>8, <1>9, <1>10, <1>11, RunningStep

\* add_peer or remove_peer of the Raft node.
LEMMA TrackPeerInv ==
    ASSUME ClusterInv, NEW t \in Thread, TrackPeer(t)
    PROVE  ClusterInv'
<1> USE DEF ClusterInv
<1>1. PICK n, k : n = call[t].node /\ k = call[t]
  OBVIOUS
<1>2. /\ call[t].step = "track" /\ Goto(t, "propose") /\ file' = file /\ dirty' = dirty
      /\ seconded' = seconded
  BY DEF TrackPeer
<1>3. /\ n \in Node /\ Running(n) /\ node[n] \in ClusterNode /\ t \in InCall(n) /\ n # NoNode
      /\ k.op \in {"add", "remove"} /\ k.arg \in Node
  BY <1>1, <1>2, InACall, NoCalls DEF Membership
<1>4. PICK x \in ClusterNode :
         /\ node' = [node EXCEPT ![n] = x] /\ x.config = node[n].config
         /\ x.log = node[n].log /\ x.base = node[n].base /\ x.peers = node[n].peers
         /\ x.leader = node[n].leader /\ x.skewed = node[n].skewed
         /\ node[n].removed \subseteq x.removed
         /\ node[n].tracked \subseteq x.tracked \cup x.removed
         /\ k.op = "add" => k.arg \in x.tracked \cup x.peers \cup {n}
  <2> DEFINE tr == CASE k.op = "remove" -> node[n].tracked \ {k.arg}
                     [] k.op = "add" /\ k.arg \notin node[n].peers \cup {n} -> node[n].tracked \cup {k.arg}
                     [] OTHER -> node[n].tracked
             re == IF k.op = "remove" THEN node[n].removed \cup {k.arg} ELSE node[n].removed
             x == [node[n] EXCEPT !.tracked = tr, !.removed = re]
  <2>1. node' = [node EXCEPT ![n] = x]
    BY <1>1 DEF TrackPeer
  <2>2. node[n].tracked \subseteq Node /\ node[n].removed \subseteq Node
    BY <1>3, Fields
  <2>3. CASE k.op = "remove"
    <3>1. tr = node[n].tracked \ {k.arg} /\ re = node[n].removed \cup {k.arg}
      BY <2>3
    <3> HIDE DEF tr, re
    <3>2. tr \subseteq Node /\ re \subseteq Node
      BY <1>3, <2>2, <3>1
    <3>3. /\ x \in ClusterNode /\ x.config = node[n].config
          /\ x.log = node[n].log /\ x.base = node[n].base /\ x.peers = node[n].peers
          /\ x.leader = node[n].leader /\ x.skewed = node[n].skewed
          /\ x.tracked = tr /\ x.removed = re
      BY <1>3, <3>2 DEF ClusterNode
    <3> HIDE DEF x
    <3> QED BY <2>1, <2>3, <3>1, <3>3
  <2>4. CASE k.op = "add"
    <3>1. /\ re = node[n].removed
          /\ tr = IF k.arg \notin node[n].peers \cup {n} THEN node[n].tracked \cup {k.arg}
                  ELSE node[n].tracked
      BY <2>4
    <3> HIDE DEF tr, re
    <3>2. tr \subseteq Node /\ re \subseteq Node
      BY <1>3, <2>2, <3>1
    <3>3. /\ x \in ClusterNode /\ x.config = node[n].config
          /\ x.log = node[n].log /\ x.base = node[n].base /\ x.peers = node[n].peers
          /\ x.leader = node[n].leader /\ x.skewed = node[n].skewed
          /\ x.tracked = tr /\ x.removed = re
      BY <1>3, <3>2 DEF ClusterNode
    <3> HIDE DEF x
    <3> QED BY <2>1, <2>4, <3>1, <3>3
  <2> QED BY <1>3, <2>3, <2>4
<1>5. node'[n] = x /\ Running(n)'
  <2>1. node'[n] = x
    BY <1>3, <1>4 DEF Types
  <2>2. x # NoNode
    BY ClusterAssumptions
  <2> QED BY <2>1, <2>2 DEF Running
<1>6. /\ call' \in [Thread -> Call] /\ InCall(n)' = InCall(n)
      /\ call'[t].op = k.op /\ call'[t].arg = k.arg /\ call'[t].step = "propose"
      /\ \A u \in Thread : u # t => call'[u] = call[u]
      /\ \A u \in Thread : call'[u] = call[u]
           \/ (call[u].node \in {n, NoNode} /\ call'[u].node \in {n, NoNode} /\ CallOK(call[u])')
  BY <1>1, <1>2, <1>3, <1>5, GoesOn DEF Membership
<1>7. \A u \in InCall(n) : u \in Thread
  BY DEF InCall
<1>8. FileOK(n)'
  BY <1>1, <1>2, <1>3, <1>4, <1>5, <1>6, <1>7 DEF NodeOK, FileOK
<1>9. PrimaryOK(n)'
  <2>1. PrimaryOK(n)
    BY <1>3 DEF NodeOK
  <2>2. \A u \in InCall(n) : call'[u].op = "failover" => call'[u] = call[u]
    BY <1>3, <1>6, <1>7
  <2> QED BY <1>2, <1>3, <1>4, <1>5, <1>6, <2>1, <2>2 DEF PrimaryOK, HasFile, AtMostOne
<1>10. Replayed(n)' = Replayed(n)
  BY <1>3, <1>4, <1>5, ReplayKept
<1>11. Pending(n)' = Pending(n)
  BY <1>1, <1>6, <1>7 DEF Pending
<1>12. \A u \in Pending(n) : /\ call'[u].op = call[u].op /\ call'[u].arg = call[u].arg
                             /\ call'[u].step = "config" <=> call[u].step = "config"
  BY <1>1, <1>2, <1>6, <1>7 DEF Pending
<1>13. LogOK(n)'
  <2>1. LogOK(n)
    BY <1>3 DEF NodeOK
  <2>2. ~x.skewed =>
          /\ \A u, v \in Pending(n) : u = v
          /\ (\A u \in Pending(n) : call[u].step = "config") => Members(x.config) = Replayed(n)
          /\ \A u \in Pending(n) : call[u].step # "config" =>
               Members(x.config) = IF call[u].op = "add" THEN Replayed(n) \cup {call[u].arg}
                                   ELSE Replayed(n) \ {call[u].arg}
    BY <1>3, <1>4, <2>1 DEF LogOK
  <2> QED BY <1>5, <1>10, <1>11, <1>12, <2>2 DEF LogOK
<1>14. Untracked(n) \subseteq Untracked(n)' \cup (IF k.op = "add" THEN {k.arg} ELSE {})
  <2> SUFFICES ASSUME NEW u \in InCall(n), call[u].op = "add", call[u].step \in {"save", "track"}, u # t
               PROVE  call[u].arg \in Untracked(n)'
    BY <1>1 DEF Untracked
  <2>1. call'[u] = call[u] /\ u \in InCall(n)'
    BY <1>6, <1>7
  <2> QED BY <2>1 DEF Untracked
<1>15. TrackOK(n)'
  <2>1. node[n].leader => node[n].peers \subseteq node[n].tracked \cup node[n].removed
    BY <1>3 DEF NodeOK, TrackOK
  <2>2. ~node[n].skewed => Members(node[n].config) \ (node[n].removed \cup {n})
                             \subseteq node[n].tracked \cup node[n].peers \cup Untracked(n)
    BY <1>3 DEF NodeOK, TrackOK
  <2>3. x.leader => x.peers \subseteq x.tracked \cup x.removed
    BY <1>4, <2>1
  <2>4. ~x.skewed => Members(x.config) \ (x.removed \cup {n})
                       \subseteq x.tracked \cup x.peers \cup Untracked(n)'
    BY <1>4, <1>14, <2>2
  <2> QED BY <1>5, <2>3, <2>4, Zenon DEF TrackOK
<1> QED BY <1>2, <1>3, <1>4, <1>6, <1>8, <1>9, <1>13, <1>15, Kept, RunningStep

(* The last step of a call. *)
LEMMA EndInv ==
    ASSUME ClusterInv, NEW t \in Thread, Propose(t) \/ StartCooldown(t)
    PROVE  ClusterInv'
<1> USE DEF ClusterInv
<1>1. PICK n, k : n = call[t].node /\ k = call[t]
  OBVIOUS
<1>2. /\ k.step \in {"propose", "cool"} /\ Return(t) /\ file' = file /\ dirty' = dirty
      /\ seconded' = seconded
  BY <1>1 DEF Propose, StartCooldown
<1>3. /\ n \in Node /\ Running(n) /\ node[n] \in ClusterNode /\ t \in InCall(n) /\ n # NoNode
      /\ k.step = "propose" => k.op \in {"add", "remove"} /\ k.arg \in Node
      /\ k.step = "cool" => k.op \notin Membership
  BY <1>1, <1>2, InACall, NoCalls DEF Membership
<1>4. PICK x \in ClusterNode :
         /\ node' = [node EXCEPT ![n] = x] /\ x.config = node[n].config
         /\ x.base = node[n].base /\ x.peers = node[n].peers /\ x.leader = node[n].leader
         /\ x.removed = node[n].removed /\ x.tracked = node[n].tracked
         /\ node[n].skewed => x.skewed
         /\ k.step = "propose" => x.skewed \/ x.log = Append(node[n].log, <<k.op, k.arg>>)
         /\ k.step = "cool" => x.log = node[n].log
  <2>1. CASE Propose(t) /\ node[n].leader
    <3> DEFINE l == Append(node[n].log, <<k.op, k.arg>>)
               x == [node[n] EXCEPT !.log = l]
    <3>1. node' = [node EXCEPT ![n] = x] /\ k.step = "propose"
      BY <1>1, <2>1 DEF Propose
    <3>2. l \in Seq(Command)
      <4>1. node[n].log \in Seq(Command) /\ <<k.op, k.arg>> \in Command
        BY <1>3, <3>1, Fields DEF Command
      <4> QED BY <4>1
    <3> HIDE DEF l
    <3>3. /\ x \in ClusterNode /\ x.config = node[n].config
          /\ x.base = node[n].base /\ x.peers = node[n].peers /\ x.leader = node[n].leader
          /\ x.removed = node[n].removed /\ x.tracked = node[n].tracked
          /\ x.skewed = node[n].skewed /\ x.log = l
      BY <1>3, <3>2 DEF ClusterNode
    <3> HIDE DEF x
    <3> QED BY <3>1, <3>3 DEF l
  <2>2. CASE Propose(t) /\ ~node[n].leader
    <3> DEFINE x == [node[n] EXCEPT !.skewed = TRUE]
    <3>1. node' = [node EXCEPT ![n] = x] /\ k.step = "propose"
      BY <1>1, <2>2 DEF Propose
    <3>2. /\ x \in ClusterNode /\ x.config = node[n].config
          /\ x.base = node[n].base /\ x.peers = node[n].peers /\ x.leader = node[n].leader
          /\ x.removed = node[n].removed /\ x.tracked = node[n].tracked /\ x.skewed = TRUE
      BY <1>3 DEF ClusterNode
    <3> HIDE DEF x
    <3> QED BY <3>1, <3>2
  <2>3. CASE StartCooldown(t)
    <3> DEFINE x == [node[n] EXCEPT !.cooling = TRUE]
    <3>1. node' = [node EXCEPT ![n] = x] /\ k.step = "cool"
      BY <1>1, <2>3 DEF StartCooldown
    <3>2. /\ x \in ClusterNode /\ x.config = node[n].config
          /\ x.base = node[n].base /\ x.peers = node[n].peers /\ x.leader = node[n].leader
          /\ x.removed = node[n].removed /\ x.tracked = node[n].tracked
          /\ x.skewed = node[n].skewed /\ x.log = node[n].log
      BY <1>3 DEF ClusterNode
    <3> HIDE DEF x
    <3> QED BY <3>1, <3>2
  <2> QED BY <2>1, <2>2, <2>3
<1>5. node'[n] = x
  BY <1>3, <1>4 DEF Types
<1>6. \A u \in InCall(n) : u \in Thread
  BY DEF InCall
<1>7. /\ call' \in [Thread -> Call] /\ InCall(n)' = InCall(n) \ {t}
      /\ \A u \in InCall(n)' : u \in InCall(n) /\ call'[u] = call[u]
      /\ \A u \in Thread : call'[u] = call[u]
           \/ (call[u].node \in {n, NoNode} /\ call'[u].node \in {n, NoNode} /\ CallOK(call[u])')
  BY <1>1, <1>2, <1>3, <1>6, Returns
<1>8. FileOK(n)'
  <2>1. FileOK(n)
    BY <1>3 DEF NodeOK
  <2>2. (\A u \in InCall(n)' : call'[u].step # "save") => \A u \in InCall(n) : call[u].step # "save"
    BY <1>1, <1>2, <1>7
  <2> QED BY <1>2, <1>3, <1>4, <1>5, <2>1, <2>2 DEF FileOK
<1>9. PrimaryOK(n)'
  <2>1. PrimaryOK(n)
    BY <1>3 DEF NodeOK
  <2> QED BY <1>2, <1>3, <1>4, <1>5, <1>7, <2>1 DEF PrimaryOK, HasFile, AtMostOne
<1>10. LogOK(n)'
  <2> SUFFICES ASSUME ~x.skewed
               PROVE  /\ \A u, v \in Pending(n)' : u = v
                      /\ (\A u \in Pending(n)' : call'[u].step = "config") =>
                           Members(x.config) = Replayed(n)'
                      /\ \A u \in Pending(n)' : call'[u].step # "config" =>
                           Members(x.config) = IF call'[u].op = "add" THEN Replayed(n)' \cup {call'[u].arg}
                                               ELSE Replayed(n)' \ {call'[u].arg}
    BY <1>5 DEF LogOK
  <2>1. /\ \A u, v \in Pending(n) : u = v
        /\ (\A u \in Pending(n) : call[u].step = "config") => Members(x.config) = Replayed(n)
        /\ \A u \in Pending(n) : call[u].step # "config" =>
             Members(x.config) = IF call[u].op = "add" THEN Replayed(n) \cup {call[u].arg}
                                 ELSE Replayed(n) \ {call[u].arg}
    BY <1>3, <1>4 DEF NodeOK, LogOK
  <2>2. CASE k.step = "propose"
    <3>1. t \in Pending(n) /\ Pending(n)' = {}
      <4>1. t \in Pending(n)
        BY <1>1, <1>3, <2>2 DEF Pending, Membership
      <4>2. \A u \in Pending(n)' : u \in Pending(n) /\ u # t
        BY <1>7 DEF Pending
      <4> QED BY <2>1, <4>1, <4>2
    <3>2. Members(x.config) = IF k.op = "add" THEN Replayed(n) \cup {k.arg} ELSE Replayed(n) \ {k.arg}
      BY <1>1, <2>1, <2>2, <3>1
    <3>3. Replayed(n)' = IF k.op = "add" THEN Replayed(n) \cup {k.arg} ELSE Replayed(n) \ {k.arg}
      <4>1. /\ node[n].log \in Seq(Command) /\ node'[n].log = Append(node[n].log, <<k.op, k.arg>>)
            /\ node'[n].base = node[n].base
        BY <1>3, <1>4, <1>5, <2>2, Fields
      <4> QED BY <1>3, <2>2, <4>1, ReplayAppended
    <3> QED BY <3>1, <3>2, <3>3
  <2>3. CASE k.step = "cool"
    <3>1. Replayed(n)' = Replayed(n)
      BY <1>3, <1>4, <1>5, <2>3, ReplayKept
    <3>2. Pending(n)' = Pending(n) /\ \A u \in Pending(n) : call'[u] = call[u]
      BY <1>1, <1>3, <1>7, <2>3 DEF Pending
    <3> QED BY <2>1, <3>1, <3>2
  <2> QED BY <1>2, <2>2, <2>3
<1>11. Untracked(n)' = Untracked(n)
  BY <1>1, <1>2, <1>7 DEF Untracked
<1>12. TrackOK(n)'
  <2>1. TrackOK(n)
    BY <1>3 DEF NodeOK
  <2> QED BY <1>3, <1>4, <1>5, <1>11, <2>1 DEF TrackOK
<1>13. /\ file[n] \in Config \cup {NoFile, Torn} /\ file' = [file EXCEPT ![n] = file[n]]
       /\ dirty[n] \in BOOLEAN /\ dirty' = [dirty EXCEPT ![n] = dirty[n]]
       /\ node' = [node EXCEPT ![n] = x] /\ (seconded => seconded')
  BY <1>2, <1>3, <1>4, Kept
<1>14. PICK f \in Config \cup {NoFile, Torn}, d \in BOOLEAN :
         file' = [file EXCEPT ![n] = f] /\ dirty' = [dirty EXCEPT ![n] = d]
  BY <1>13
<1>15. /\ call' \in [Thread -> Call]
       /\ \A u \in Thread : call'[u] = call[u]
            \/ (call[u].node \in {n, NoNode} /\ call'[u].node \in {n, NoNode} /\ CallOK(call[u])')
  BY <1>7
<1>16. n \in Node /\ Running(n)
  BY <1>3
<1> QED BY <1>8, <1>9, <1>10, <1>12, <1>13, <1>14, <1>15, <1>16, RunningStep

-----------------------------------------------------------------------------
\* Every step keeps the invariant.
LEMMA StepInv == ClusterInv /\ [Next]_vars => ClusterInv'
<1> SUFFICES ASSUME ClusterInv, [Next]_vars PROVE ClusterInv'
  OBVIOUS
<1>1. ASSUME NEW n \in Node, Lifecycle(n) PROVE ClusterInv'
  BY <1>1, StartInv, StopInv, CliInv, RaftStepInv DEF Lifecycle
<1>2. ASSUME NEW n \in Node, NEW t \in Thread, Calls(t, n) PROVE ClusterInv'
  BY <1>2, CallsInv
<1>3. ASSUME NEW t \in Thread, CallStep(t) PROVE ClusterInv'
  BY <1>3, ChangeConfigInv, SaveConfigInv, SaveFailsInv, TrackPeerInv, EndInv DEF CallStep
<1>4. CASE UNCHANGED vars
  <2>1. Types'
    BY <1>4 DEF vars, ClusterInv, Types, CallOK, Running
  <2>2. ASSUME NEW p \in Node PROVE NodeOK(p)'
    BY <1>4, Untouched DEF vars, ClusterInv
  <2> QED BY <2>1, <2>2 DEF ClusterInv
<1> QED BY <1>1, <1>2, <1>3, <1>4 DEF Next

(* The invariant of Cluster: what holds of every node, its file and the calls
   under way at it, between any two of their steps. *)
THEOREM Invariance == Spec => []ClusterInv
BY InitInv, StepInv, PTL DEF Spec

(* save_config writes the configuration it finds: between saves the file is the
   configuration in memory, however the calls overlap. *)
THEOREM FileCorrect == Spec => []FileIsCurrent
<1>1. ClusterInv => FileIsCurrent
  BY DEF ClusterInv, NodeOK, FileOK, FileIsCurrent
<1> QED BY <1>1, Invariance, PTL

(* should_failover, perform_failover and save_config: no configuration, in memory
   or in a file, names two primaries unless one was added as such. *)
THEOREM PrimaryCorrect == Spec => []OnePrimary
<1>1. ClusterInv => OnePrimary
  <2> SUFFICES ASSUME ClusterInv, ~seconded, NEW c \in Configs PROVE Cardinality(Primaries(c)) <= 1
    BY DEF OnePrimary
  <2>1. AtMostOne(c)
    BY DEF Configs, ClusterInv, NodeOK, PrimaryOK
  <2>2. CASE Primaries(c) = {}
    BY <2>2, FS_EmptySet
  <2>3. ASSUME NEW x \in Primaries(c) PROVE Cardinality(Primaries(c)) <= 1
    <3>1. Primaries(c) = {x}
      BY <2>1 DEF AtMostOne
    <3> QED BY <3>1, FS_Singleton
  <2> QED BY <2>2, <2>3
<1> QED BY <1>1, Invariance, PTL

(* add_node and remove_node: between membership calls that neither failed half way
   nor overlapped, the members are those the proposed commands lead to. *)
THEOREM MembersFollowLog == Spec => []ConfigFollowsLog
<1>1. ClusterInv => ConfigFollowsLog
  <2> SUFFICES ASSUME ClusterInv, NEW p \in Node, Running(p), ~node[p].skewed,
                      \A t \in InCall(p) : call[t].op \notin Membership
               PROVE  Members(node[p].config) = Replayed(p)
    BY DEF ConfigFollowsLog
  <2>1. Pending(p) = {} /\ LogOK(p)
    BY DEF ClusterInv, NodeOK, Pending
  <2> QED BY <2>1 DEF LogOK
<1> QED BY <1>1, Invariance, PTL

(* add_peer, remove_peer and the election: a leader tracks every other member
   that was not removed. *)
THEOREM TrackingCorrect == Spec => []MembersTracked
<1>1. ClusterInv => MembersTracked
  <2> SUFFICES ASSUME ClusterInv, NEW p \in Node, Running(p), node[p].leader, ~node[p].skewed,
                      \A t \in InCall(p) : call[t].op \notin Membership
               PROVE  Members(node[p].config) \ (node[p].removed \cup {p}) \subseteq node[p].tracked
    BY DEF MembersTracked
  <2>1. Untracked(p) = {}
    BY DEF Untracked, Membership
  <2> QED BY <2>1 DEF ClusterInv, NodeOK, TrackOK
<1> QED BY <1>1, Invariance, PTL

-----------------------------------------------------------------------------
(* Configurations list every node once. *)

ListsOK ==
    \A p \in Node : /\ Running(p) => OneInfo(node[p].config.nodes)
                    /\ HasFile(p) => OneInfo(file[p].nodes)

\* add_node does not list a member again.
LEMMA AddOnce ==
    ASSUME NEW c \in Config, NEW m \in Node, NEW r \in Role, OneInfo(c.nodes)
    PROVE  OneInfo(ConfigAdd(c, m, r).nodes)
<1>1. CASE m \in Members(c)
  BY <1>1 DEF ConfigAdd
<1>2. CASE m \notin Members(c)
  <2>1. PICK s, info : s = c.nodes /\ info = [id |-> m, role |-> r]
    OBVIOUS
  <2>2. s \in Seq(Info) /\ info \in Info /\ info.id = m
    BY <2>1, MembersAre DEF Info
  <2>3. PICK q : q = ConfigAdd(c, m, r).nodes
    OBVIOUS
  <2>4. q = Append(s, info)
    BY <1>2, <2>1, <2>3 DEF ConfigAdd, Config
  <2>5. /\ Len(q) = Len(s) + 1 /\ q[Len(s) + 1] = info /\ Len(s) \in Nat
        /\ \A k \in 1 .. Len(s) : q[k] = s[k]
    BY <2>2, <2>4
  <2>6. \A k \in 1 .. Len(s) : s[k].id # m
    BY <1>2, <2>1, MembersAre
  <2> SUFFICES ASSUME NEW i \in 1 .. Len(q), NEW j \in 1 .. Len(q), q[i].id = q[j].id PROVE i = j
    BY <2>3 DEF OneInfo
  <2>7. CASE i \in 1 .. Len(s) /\ j \in 1 .. Len(s)
    BY <2>1, <2>5, <2>7 DEF OneInfo
  <2>8. CASE i \notin 1 .. Len(s) /\ j \in 1 .. Len(s)
    <3>1. i = Len(s) + 1
      BY <2>5, <2>8
    <3> QED BY <2>2, <2>5, <2>6, <2>8, <3>1
  <2>9. CASE i \in 1 .. Len(s) /\ j \notin 1 .. Len(s)
    <3>1. j = Len(s) + 1
      BY <2>5, <2>9
    <3> QED BY <2>2, <2>5, <2>6, <2>9, <3>1
  <2>10. CASE i \notin 1 .. Len(s) /\ j \notin 1 .. Len(s)
    BY <2>5, <2>10
  <2> QED BY <2>7, <2>8, <2>9, <2>10
<1> QED BY <1>1, <1>2

\* failover changes roles only.
LEMMA FailoverOnce ==
    ASSUME NEW c \in Config, NEW f, NEW l, OneInfo(c.nodes)
    PROVE  OneInfo(ConfigFailover(c, f, l).nodes)
<1> DEFINE N == Len(c.nodes)
           new(i) == CASE i.id = l -> [i EXCEPT !.role = "Primary"]
                       [] i.id = f /\ f # l -> [i EXCEPT !.role = "Secondary"]
                       [] OTHER -> i
           infos == [k \in 1 .. N |-> new(c.nodes[k])]
<1>1. c.nodes \in Seq(Info) /\ N \in Nat /\ \A k \in 1 .. N : c.nodes[k] \in Info
  BY MembersAre
<1>2. ASSUME NEW i \in Info PROVE new(i) \in Info /\ new(i).id = i.id
  BY DEF Info, Role
<1> HIDE DEF new
<1>3. infos \in Seq(Info) /\ Len(infos) = N /\ \A k \in 1 .. N : infos[k] = new(c.nodes[k])
  BY <1>1, <1>2
<1>4. ConfigFailover(c, f, l) = [c EXCEPT !.nodes = infos]
  BY DEF ConfigFailover, new
<1> HIDE DEF infos
<1>5. ConfigFailover(c, f, l).nodes = infos
  BY <1>4 DEF Config
<1>6. \A k \in 1 .. N : infos[k].id = c.nodes[k].id
  BY <1>1, <1>2, <1>3
<1> QED BY <1>3, <1>5, <1>6 DEF OneInfo

\* So none of the calls lists a node twice.
LEMMA ChangedOnce ==
    ASSUME NEW c \in Config, NEW k \in Call, k.op \in {"add", "remove", "failover", "toggle"},
           k.op # "toggle" => k.arg \in Node, OneInfo(c.nodes)
    PROVE  OneInfo(Changed(c, k).nodes)
<1>1. CASE k.op = "add"
  <2>1. Changed(c, k) = ConfigAdd(c, k.arg, k.role) /\ k.role \in Role /\ k.arg \in Node
    BY <1>1 DEF Changed, Call
  <2> QED BY <2>1, AddOnce
<1>2. CASE k.op = "remove"
  <2>1. Changed(c, k).nodes = Others(c.nodes, k.arg)
    BY <1>2 DEF Changed, ConfigRemove, Config
  <2>2. c.nodes \in Seq(Info)
    BY MembersAre
  <2> QED BY <2>1, <2>2, OthersFrom
<1>3. CASE k.op = "failover"
  <2>1. Changed(c, k) = ConfigFailover(c, k.arg, k.node)
    BY <1>3 DEF Changed
  <2> QED BY <2>1, FailoverOnce
<1>4. CASE k.op = "toggle"
  <2>1. Changed(c, k).nodes = c.nodes
    BY <1>4 DEF Changed, Config
  <2> QED BY <2>1
<1> QED BY <1>1, <1>2, <1>3, <1>4

\* A formed cluster lists every node once.
LEMMA ListsInit == Init => ListsOK
<1> SUFFICES ASSUME Init PROVE ListsOK
  OBVIOUS
<1>1. \A p \in Node : ~Running(p)
  BY DEF Init, Running
<1>2. CASE file = [n \in Node |-> NoFile]
  BY <1>1, <1>2 DEF ListsOK, HasFile
<1>3. ASSUME NEW ids \in [1 .. Cardinality(Node) -> Node],
             \A j, k \in DOMAIN ids : j # k => ids[j] # ids[k],
             file = [n \in Node |-> Formed(ids[1], ids)], NEW p \in Node
      PROVE  OneInfo(file[p].nodes)
  <2>1. PICK N \in Nat : N = Cardinality(Node)
    BY ClusterAssumptions, FS_CardinalityType
  <2>2. ids \in Seq(Node) /\ Len(ids) = N /\ DOMAIN ids = 1 .. N
    BY <2>1
  <2>3. PICK q : q = file[p].nodes
    OBVIOUS
  <2>4. q = [k \in 1 .. Len(ids) |->
              [id |-> ids[k], role |-> IF ids[k] = ids[1] THEN "Primary" ELSE "Secondary"]]
    BY <1>3, <2>3 DEF Formed
  <2>5. Len(q) = N /\ \A k \in 1 .. N : q[k].id = ids[k]
    BY <2>2, <2>4
  <2> QED BY <1>3, <2>2, <2>3, <2>5 DEF OneInfo
<1> QED BY <1>1, <1>2, <1>3 DEF Init, ListsOK

\* Files are configurations a node had, and nodes start from files.
LEMMA ListsStep == ClusterInv /\ ListsOK /\ [Next]_vars => ListsOK'
<1> SUFFICES ASSUME ClusterInv, ListsOK, [Next]_vars PROVE ListsOK'
  OBVIOUS
<1>0. Types /\ node \in [Node -> ClusterNode \cup {NoNode}] /\ file \in [Node -> Config \cup {NoFile, Torn}]
  BY DEF ClusterInv, Types
<1>1. ASSUME NEW n \in Node, Start(n), NEW c \in Config, OneInfo(c.nodes),
             node' = [node EXCEPT ![n] = NewNode(n, c)], file' = file \/ file' = [file EXCEPT ![n] = c]
      PROVE  ListsOK'
  <2>1. NewNode(n, c).config = c
    BY DEF NewNode
  <2> QED BY <1>0, <1>1, <2>1 DEF ListsOK, Running, HasFile
<1>3. ASSUME NEW n \in Node, Running(n), NEW x, OneInfo(x.config.nodes),
             node' = [node EXCEPT ![n] = x], file' = file \/ file' = [file EXCEPT ![n] = Torn]
      PROVE  ListsOK'
  <2>1. \A p \in Node : Running(p)' => Running(p) /\ (node'[p] = IF p = n THEN x ELSE node[p])
    BY <1>0, <1>3 DEF Running
  <2>2. \A p \in Node : HasFile(p)' => HasFile(p) /\ file'[p] = file[p]
    BY <1>0, <1>3 DEF HasFile
  <2> QED BY <1>3, <2>1, <2>2 DEF ListsOK
<1>4. \A n \in Node : Running(n) => node[n] \in ClusterNode /\ OneInfo(node[n].config.nodes)
  BY <1>0 DEF ListsOK, Running
<1>2. ASSUME NEW n \in Node, Lifecycle(n) PROVE ListsOK'
  <2>1. CASE InitCluster(n)
    <3>1. ConfigNew(n) \in Config /\ OneInfo(ConfigNew(n).nodes)
      BY ConfigNewIs DEF ConfigNew, OneInfo
    <3> QED BY <1>1, <2>1, <3>1 DEF InitCluster
  <2>2. CASE Load(n)
    <3>1. file[n] \in Config /\ OneInfo(file[n].nodes)
      BY <1>0, <2>2 DEF Load, HasFile, ListsOK
    <3> QED BY <1>1, <2>2, <3>1 DEF Load
  <2>3. ASSUME NEW m \in Node, JoinCluster(n, m) PROVE ListsOK'
    <3>1. file[m] \in Config /\ OneInfo(file[m].nodes)
      BY <1>0, <2>3 DEF JoinCluster, HasFile, ListsOK
    <3> QED BY <1>1, <2>3, <3>1 DEF JoinCluster
  <2>4. CASE Stop(n)
    BY <1>0, <2>4 DEF Stop, ListsOK, Running, HasFile
  <2>5. CASE CliLeave(n)
    BY <1>0, <2>5 DEF CliLeave, ListsOK, Running, HasFile
  <2>6. ASSUME NEW m \in Node, CliFailover(n, m) PROVE ListsOK'
    <3>1. file[n] \in Config /\ OneInfo(file[n].nodes)
      BY <1>0, <2>6 DEF CliFailover, HasFile, ListsOK
    <3>2. OneInfo(ConfigFailover(file[n], m, NoNode).nodes)
      BY <3>1, FailoverOnce
    <3>3. node' = node /\ file' = [file EXCEPT ![n] = ConfigFailover(file[n], m, NoNode)]
      BY <2>6 DEF CliFailover
    <3> QED BY <1>0, <3>2, <3>3 DEF ListsOK, Running, HasFile
  <2>7. CASE BecomeLeader(n)
    <3>1. PICK x : x = [node[n] EXCEPT !.leader = TRUE, !.tracked = @ \cup node[n].peers]
      OBVIOUS
    <3>2. Running(n) /\ file' = file /\ node' = [node EXCEPT ![n] = x]
      BY <2>7, <3>1 DEF BecomeLeader
    <3>3. x.config = node[n].config
      BY <1>4, <3>1, <3>2 DEF ClusterNode
    <3> QED BY <1>3, <1>4, <3>2, <3>3
  <2>8. CASE StepDown(n)
    <3>1. PICK x : x = [node[n] EXCEPT !.leader = FALSE]
      OBVIOUS
    <3>2. Running(n) /\ file' = file /\ node' = [node EXCEPT ![n] = x]
      BY <2>8, <3>1 DEF StepDown
    <3>3. x.config = node[n].config
      BY <1>4, <3>1, <3>2 DEF ClusterNode
    <3> QED BY <1>3, <1>4, <3>2, <3>3
  <2>9. CASE EndCooldown(n)
    <3>1. PICK x : x = [node[n] EXCEPT !.cooling = FALSE]
      OBVIOUS
    <3>2. Running(n) /\ file' = file /\ node' = [node EXCEPT ![n] = x]
      BY <2>9, <3>1 DEF EndCooldown
    <3>3. x.config = node[n].config
      BY <1>4, <3>1, <3>2 DEF ClusterNode
    <3> QED BY <1>3, <1>4, <3>2, <3>3
  <2> QED BY <1>2, <2>1, <2>2, <2>3, <2>4, <2>5, <2>6, <2>7, <2>8, <2>9 DEF Lifecycle
<1>5. ASSUME NEW n \in Node, NEW t \in Thread, Calls(t, n) PROVE ListsOK'
  <2>1. file' = file /\ Running(n)
    BY <1>5 DEF Calls, AddNode, RemoveNode, PerformFailover, SetFailoverEnabled, EnterMembership, Enter
  <2>2. CASE EnterMembership(t, n)
    <3>1. PICK x : x = [node[n] EXCEPT !.skewed = @ \/ \E u \in InCall(n) : call[u].op \in Membership]
      OBVIOUS
    <3>2. node' = [node EXCEPT ![n] = x]
      BY <2>2, <3>1 DEF EnterMembership
    <3>3. x.config = node[n].config
      BY <1>4, <2>1, <3>1 DEF ClusterNode
    <3> QED BY <1>3, <1>4, <2>1, <3>2, <3>3
  <2>3. CASE node' = node
    BY <2>1, <2>3 DEF ListsOK, Running, HasFile
  <2> QED BY <1>5, <2>2, <2>3 DEF Calls, AddNode, RemoveNode, PerformFailover, SetFailoverEnabled
<1>6. ASSUME NEW t \in Thread, CallStep(t) PROVE ListsOK'
  <2>1. call[t].step # "done"
    BY <1>6 DEF CallStep, ChangeConfig, SaveConfig, SaveFails, TrackPeer, Propose, StartCooldown
  <2>2. PICK n, k : n = call[t].node /\ k = call[t]
    OBVIOUS
  <2>3. /\ n \in Node /\ Running(n) /\ k \in Call /\ node[n] \in ClusterNode /\ OneInfo(node[n].config.nodes)
        /\ k.op \in {"add", "remove", "failover", "toggle"} /\ (k.op # "toggle" => k.arg \in Node)
    BY <1>0, <1>4, <2>1, <2>2, InACall
  <2>4. CASE ChangeConfig(t)
    <3>1. PICK x : x = [node[n] EXCEPT !.config = Changed(@, k)]
      OBVIOUS
    <3>2. file' = file /\ node' = [node EXCEPT ![n] = x]
      BY <2>2, <2>4, <3>1 DEF ChangeConfig
    <3>3. x.config = Changed(node[n].config, k) /\ node[n].config \in Config
      BY <2>3, <3>1 DEF ClusterNode
    <3>4. OneInfo(Changed(node[n].config, k).nodes)
      BY <2>3, <3>3, ChangedOnce
    <3> QED BY <1>3, <2>3, <3>2, <3>3, <3>4
  <2>5. CASE SaveConfig(t)
    <3>1. node' = node /\ file' = [file EXCEPT ![n] = node[n].config]
      BY <2>2, <2>5 DEF SaveConfig
    <3> QED BY <1>0, <2>3, <3>1 DEF ListsOK, Running, HasFile
  <2>6. CASE SaveFails(t)
    <3>1. PICK x : x = [node[n] EXCEPT !.skewed = TRUE]
      OBVIOUS
    <3>2. (file' = file \/ file' = [file EXCEPT ![n] = Torn]) /\ node' = [node EXCEPT ![n] = x]
      BY <2>2, <2>6, <3>1 DEF SaveFails
    <3>3. x.config = node[n].config
      BY <2>3, <3>1 DEF ClusterNode
    <3> QED BY <1>3, <2>3, <3>2, <3>3
  <2>7. CASE TrackPeer(t)
    <3>1. PICK x, tr, re : /\ x = [node[n] EXCEPT !.tracked = tr, !.removed = re]
                           /\ node' = [node EXCEPT ![n] = x]
      BY <2>2, <2>7 DEF TrackPeer
    <3>2. file' = file
      BY <2>7 DEF TrackPeer
    <3>3. x.config = node[n].config
      BY <2>3, <3>1 DEF ClusterNode
    <3> QED BY <1>3, <2>3, <3>1, <3>2, <3>3
  <2>8. CASE Propose(t)
    <3>1. PICK x, y : /\ x = [node[n] EXCEPT !.log = Append(@, <<k.op, k.arg>>)]
                      /\ y = [node[n] EXCEPT !.skewed = TRUE]
      OBVIOUS
    <3>2. file' = file /\ (node' = [node EXCEPT ![n] = x] \/ node' = [node EXCEPT ![n] = y])
      BY <2>2, <2>8, <3>1 DEF Propose
    <3>3. x.config = node[n].config /\ y.config = node[n].config
      BY <2>3, <3>1 DEF ClusterNode
    <3> QED BY <1>3, <2>3, <3>2, <3>3
  <2>9. CASE StartCooldown(t)
    <3>1. PICK x : x = [node[n] EXCEPT !.cooling = TRUE]
      OBVIOUS
    <3>2. file' = file /\ node' = [node EXCEPT ![n] = x]
      BY <2>2, <2>9, <3>1 DEF StartCooldown
    <3>3. x.config = node[n].config
      BY <2>3, <3>1 DEF ClusterNode
    <3> QED BY <1>3, <2>3, <3>2, <3>3
  <2> QED BY <1>6, <2>4, <2>5, <2>6, <2>7, <2>8, <2>9 DEF CallStep
<1>7. CASE UNCHANGED vars
  BY <1>7 DEF vars, ListsOK, Running, HasFile
<1> QED BY <1>2, <1>5, <1>6, <1>7 DEF Next

-----------------------------------------------------------------------------
(* Shards dealt in turn. *)

\* One more factor adds at least as much.
LEMMA Times ==
    ASSUME NEW b \in Nat, NEW q \in Nat, NEW p \in Nat, q < p
    PROVE  b * q + b <= b * p
<1>1. PICK d \in Nat : p = q + 1 + d
  BY p - q - 1 \in Nat
<1>2. b * (q + 1 + d) = b * q + b + b * d
  OBVIOUS
<1>3. b * d \in Nat /\ b * q \in Nat
  OBVIOUS
<1> QED BY <1>1, <1>2, <1>3

\* Quotient and remainder.
LEMMA Division ==
    ASSUME NEW a \in Nat, NEW b \in Nat \ {0}
    PROVE  a % b \in 0 .. b - 1 /\ a \div b \in Nat /\ a = b * (a \div b) + (a % b)
OBVIOUS

\* They are the only ones.
LEMMA Quotient ==
    ASSUME NEW a \in Nat, NEW b \in Nat \ {0}, NEW q \in Nat, NEW r \in 0 .. b - 1, a = b * q + r
    PROVE  a \div b = q /\ a % b = r
<1>1. PICK p, s : p = a \div b /\ s = a % b
  OBVIOUS
<1>2. p \in Nat /\ s \in 0 .. b - 1 /\ a = b * p + s
  BY <1>1, Division
<1>3. b * p \in Nat /\ b * q \in Nat
  BY <1>2
<1>4. ~ (p < q)
  BY <1>2, <1>3, Times
<1>5. ~ (q < p)
  BY <1>2, <1>3, Times
<1> QED BY <1>1, <1>2, <1>3, <1>4, <1>5

\* The shards below N whose node, of L in turn, is the r-th, counted from 0.
Place(i, L) == i % L
InTurn(N, L, r) == {i \in 0 .. N - 1 : Place(i, L) = r}
\* Those of them that are dealt to the s-th of M in a second turn.
Round(i, L, M) == (i \div L) % M
Dealt(N, L, r, M, s) == {i \in InTurn(N, L, r) : Round(i, L, M) = s}

\* Places and rounds are counted from 0.
LEMMA Places ==
    ASSUME NEW i \in Nat, NEW L \in Nat \ {0}
    PROVE  Place(i, L) \in 0 .. L - 1
BY Division DEF Place

\* The round, likewise.
LEMMA Rounds ==
    ASSUME NEW i \in Nat, NEW L \in Nat \ {0}, NEW M \in Nat \ {0}
    PROVE  Round(i, L, M) \in 0 .. M - 1
<1>1. PICK t \in Nat : t = i \div L
  BY Division
<1>2. t % M \in 0 .. M - 1
  BY Division
<1> QED BY <1>1, <1>2, Zenon DEF Round

(* The number of a node's shards before one of its own. *)
LEMMA TurnsBefore ==
    ASSUME NEW N \in Nat, NEW L \in Nat \ {0}, NEW r \in 0 .. L - 1, NEW i \in InTurn(N, L, r)
    PROVE  Cardinality({j \in InTurn(N, L, r) : j < i}) = i \div L
<1> DEFINE S == {j \in InTurn(N, L, r) : j < i}
<1>1. PICK n \in Nat : n = i \div L /\ i = L * n + r
  BY Division DEF InTurn, Place
<1>2. ASSUME NEW k \in 1 .. n PROVE L * (k - 1) + r \in S
  <2>1. k - 1 \in Nat /\ k - 1 < n
    BY <1>1
  <2>2. PICK m \in Nat : m = k - 1 /\ m < n
    BY <2>1
  <2>3. PICK a \in Nat : a = L * m + r
    BY <2>2
  <2>4. a % L = r
    BY <2>3, Quotient
  <2>5. L * m + L <= L * n
    BY <2>2, Times
  <2>6. a < i
    BY <1>1, <2>3, <2>5
  <2> QED BY <2>2, <2>3, <2>4, <2>6 DEF InTurn, Place
<1> DEFINE g == [k \in 1 .. n |-> L * (k - 1) + r]
<1>3. g \in Injection(1 .. n, S)
  <2>1. g \in [1 .. n -> S]
    BY <1>2
  <2>2. ASSUME NEW k \in 1 .. n, NEW m \in 1 .. n, g[k] = g[m] PROVE k = m
    <3>1. PICK x \in Nat, y \in Nat : x = k - 1 /\ y = m - 1
      BY k - 1 \in Nat, m - 1 \in Nat
    <3>2. L * x + r = L * y + r /\ L * x + r \in Nat
      BY <2>2, <3>1
    <3>3. x = y
      BY <3>2, Quotient
    <3> QED BY <3>1, <3>3
  <2> QED BY <2>1, <2>2, Zenon DEF Injection, IsInjective
<1>4. ASSUME NEW j \in S PROVE \E k \in 1 .. n : g[k] = j
  <2>0. j \in Nat /\ j % L = r /\ j < i
    BY DEF InTurn, Place
  <2>1. PICK m \in Nat : m = j \div L /\ j = L * m + r
    BY <2>0, Division
  <2>2. j < i /\ L * m \in Nat /\ L * n \in Nat
    BY <1>1, <2>0, <2>1
  <2>3. m < n
    <3>1. CASE m = n
      BY <1>1, <2>1, <2>2, <3>1
    <3>2. CASE n < m
      BY <1>1, <2>1, <2>2, <3>2, Times
    <3> QED BY <1>1, <2>1, <3>1, <3>2
  <2>4. m + 1 \in 1 .. n /\ (m + 1) - 1 = m
    BY <1>1, <2>1, <2>3
  <2>5. g[m + 1] = L * m + r
    BY <2>4
  <2> QED BY <2>1, <2>4, <2>5
<1>5. g \in Surjection(1 .. n, S)
  BY <1>3, <1>4 DEF Injection, Surjection
<1>6. ExistsBijection(1 .. n, S)
  BY <1>3, <1>5 DEF ExistsBijection, Bijection
<1> QED BY <1>1, <1>6, FS_CountingElements

(* Dealt in turn, no node is two shards ahead of another. *)
LEMMA EvenlyDealt ==
    ASSUME NEW N \in Nat, NEW L \in Nat \ {0}, NEW r \in 0 .. L - 1, NEW M \in Nat \ {0},
           NEW s \in 0 .. M - 1, NEW z \in 0 .. M - 1
    PROVE  /\ IsFiniteSet(Dealt(N, L, r, M, s))
           /\ Cardinality(Dealt(N, L, r, M, s)) <= Cardinality(Dealt(N, L, r, M, z)) + 1
<1> DEFINE S == Dealt(N, L, r, M, s)
           T == Dealt(N, L, r, M, z)
           first == L * s + r
           g == [i \in S \ {first} |-> (i - L * s) + (L * z - L * M)]
<1>1. IsFiniteSet(S) /\ IsFiniteSet(T)
  <2>1. IsFiniteSet(0 .. N - 1)
    BY FS_Interval
  <2> QED BY <2>1, FS_Subset, Zenon DEF Dealt, InTurn, Place, Round
<1>2. ASSUME NEW i \in S \ {first} PROVE i \in Int /\ g[i] \in T
  <2>1. i \in 0 .. N - 1 /\ i \in Nat /\ i % L = r /\ (i \div L) % M = s
    BY DEF Dealt, InTurn, Place, Round
  <2>2. PICK t \in Nat : t = i \div L /\ i = L * t + r
    BY <2>1, Division
  <2>3. PICK u \in Nat : t = M * u + s
    BY <2>1, <2>2, Division
  <2>4. u # 0
    BY <2>2, <2>3
  <2>5. PICK v \in Nat : u = v + 1
    BY <2>4, u - 1 \in Nat
  <2>6. PICK w \in Nat : w = M * v + z
    BY M * v + z \in Nat
  <2>7. M * u = M * v + M
    BY <2>5
  <2>8. t = (w - z) + M + s /\ w < t
    BY <2>3, <2>6, <2>7, M * v \in Nat
  <2>9. PICK j \in Nat : j = L * w + r
    BY L * w + r \in Nat
  <2>10. L * t = ((L * w - L * z) + L * M) + L * s
    BY <2>8
  <2>11. g[i] = (i - L * s) + (L * z - L * M)
    OBVIOUS
  <2>12. L * w \in Nat /\ L * z \in Nat /\ L * M \in Nat /\ L * s \in Nat /\ L * t \in Nat
    OBVIOUS
  <2>13. g[i] = j
    BY <2>2, <2>9, <2>10, <2>11, <2>12
  <2>14. L * w + L <= L * t
    BY <2>8, Times
  <2>15. j < i /\ j \in 0 .. N - 1
    BY <2>1, <2>2, <2>9, <2>12, <2>14
  <2>16. j % L = r /\ j \div L = w
    BY <2>9, Quotient
  <2>17. w % M = z
    BY <2>6, Quotient
  <2> QED BY <2>1, <2>13, <2>15, <2>16, <2>17 DEF Dealt, InTurn, Place, Round
<1>3. g \in Injection(S \ {first}, T)
  <2>1. g \in [S \ {first} -> T]
    BY <1>2
  <2>2. L * s \in Int /\ L * z \in Int /\ L * M \in Int
    OBVIOUS
  <2>3. ASSUME NEW i \in S \ {first}, NEW j \in S \ {first}, g[i] = g[j] PROVE i = j
    <3>1. (i - L * s) + (L * z - L * M) = (j - L * s) + (L * z - L * M) /\ i \in Int /\ j \in Int
      BY <1>2, <2>3
    <3> QED BY <2>2, <3>1
  <2> QED BY <2>1, <2>3, Zenon DEF Injection, IsInjective
<1>4. Cardinality(S \ {first}) <= Cardinality(T) /\ IsFiniteSet(S \ {first})
  BY <1>1, <1>3, FS_Injection
<1> HIDE DEF S, T, first
<1>5. Cardinality(S \ {first}) = IF first \in S THEN Cardinality(S) - 1 ELSE Cardinality(S)
  BY <1>1, FS_RemoveElement
<1>6. Cardinality(S) \in Nat /\ Cardinality(T) \in Nat
  BY <1>1, FS_CardinalityType
<1>7. Cardinality(S) <= Cardinality(T) + 1
  BY <1>4, <1>5, <1>6
<1> QED BY <1>1, <1>7 DEF S, T

(* The same of one turn alone. *)
LEMMA EvenTurns ==
    ASSUME NEW N \in Nat, NEW M \in Nat \ {0}, NEW s \in 0 .. M - 1, NEW z \in 0 .. M - 1
    PROVE  /\ IsFiniteSet(InTurn(N, M, s))
           /\ Cardinality(InTurn(N, M, s)) <= Cardinality(InTurn(N, M, z)) + 1
<1>1. \A i \in Nat : i % 1 = 0 /\ i \div 1 = i
  OBVIOUS
<1>2. InTurn(N, M, s) = Dealt(N, 1, 0, M, s) /\ InTurn(N, M, z) = Dealt(N, 1, 0, M, z)
  BY <1>1 DEF InTurn, Dealt, Place, Round
<1>3. 1 \in Nat \ {0} /\ 0 \in 0 .. 1 - 1
  OBVIOUS
<1> QED BY <1>2, <1>3, EvenlyDealt

\* Where a failed node's shards go, and how many a node then has.
Reassigned(N, ids, f, h) == ReassignFailedNode(Allocate(N, ids), f, h)
ShardsOf(N, ids, f, h, n) ==
    Cardinality({i \in DOMAIN Reassigned(N, ids, f, h) : Reassigned(N, ids, f, h)[i] = n})

\* Shard i is allocated to the node of its place, and goes from a failed node to the
\* healthy node whose turn it is.
AllocatedAs(N, L, ids, p) ==
    /\ DOMAIN Allocate(N, ids) = 0 .. N - 1
    /\ \A i \in 0 .. N - 1 : /\ Allocate(N, ids)[i] = ids[Place(i, L) + 1]
                             /\ Allocate(N, ids)[i] = ids[p] <=> Place(i, L) = p - 1
ReassignedAs(N, L, ids, p, M, h) ==
    /\ DOMAIN Reassigned(N, ids, ids[p], h) = 0 .. N - 1
    /\ \A i \in 0 .. N - 1 :
         Reassigned(N, ids, ids[p], h)[i] =
           IF Place(i, L) = p - 1 THEN h[Round(i, L, M) + 1] ELSE Allocate(N, ids)[i]
LoadedAs(N, L, ids, p, M, h, q, z) ==
    ShardsOf(N, ids, ids[p], h, ids[q]) =
      Cardinality(InTurn(N, L, q - 1)) + Cardinality(Dealt(N, L, p - 1, M, z - 1))

\* allocate goes by the place.
LEMMA OldIs ==
    ASSUME NEW N \in Nat, NEW L \in Nat \ {0}, NEW ids \in [1 .. L -> Node],
           \A j, k \in 1 .. L : ids[j] = ids[k] => j = k, NEW p \in 1 .. L
    PROVE  AllocatedAs(N, L, ids, p)
<1>1. Len(ids) = L
  OBVIOUS
<1>2. DOMAIN Allocate(N, ids) = 0 .. N - 1
  BY DEF Allocate
<1>3. \A i \in 0 .. N - 1 : Allocate(N, ids)[i] = ids[Place(i, L) + 1]
  BY <1>1, Zenon DEF Allocate, Place
<1>4. ASSUME NEW i \in 0 .. N - 1 PROVE ids[Place(i, L) + 1] = ids[p] <=> Place(i, L) = p - 1
  <2>1. i \in Nat /\ Place(i, L) \in 0 .. L - 1
    BY Places
  <2>2. Place(i, L) + 1 \in 1 .. L /\ (Place(i, L) + 1 = p <=> Place(i, L) = p - 1)
    BY <2>1
  <2> QED BY <2>2, Zenon
<1> QED BY <1>2, <1>3, <1>4, Zenon DEF AllocatedAs

(* allocate followed by reassign_failed_node, as two turns: a shard of the failed
   node goes to the node whose turn it is among the healthy ones. *)
LEMMA NewIs ==
    ASSUME NEW N \in Nat, NEW L \in Nat \ {0}, NEW ids \in [1 .. L -> Node],
           \A j, k \in 1 .. L : ids[j] = ids[k] => j = k,
           NEW p \in 1 .. L, NEW M \in Nat \ {0}, NEW h \in [1 .. M -> Node]
    PROVE  ReassignedAs(N, L, ids, p, M, h)
<1> DEFINE turn(old, f, i) == Cardinality({j \in DOMAIN old : j < i /\ old[j] = f})
<1>1. PICK old, f : old = Allocate(N, ids) /\ f = ids[p]
  OBVIOUS
<1>2. /\ DOMAIN old = 0 .. N - 1
      /\ \A i \in 0 .. N - 1 : old[i] = f <=> Place(i, L) = p - 1
  <2>1. AllocatedAs(N, L, ids, p)
    BY OldIs
  <2> QED BY <1>1, <2>1, Zenon DEF AllocatedAs
<1>3. h \in Seq(Node) /\ Len(h) = M /\ h # <<>> /\ p - 1 \in 0 .. L - 1
  OBVIOUS
<1>4. Reassigned(N, ids, ids[p], h) =
        [i \in DOMAIN old |-> IF old[i] = f THEN h[(turn(old, f, i) % Len(h)) + 1] ELSE old[i]]
  BY <1>1, <1>3, Zenon DEF ReassignFailedNode, Reassigned
<1>5. ASSUME NEW i \in 0 .. N - 1, Place(i, L) = p - 1 PROVE turn(old, f, i) = i \div L
  <2>1. i \in InTurn(N, L, p - 1)
    BY <1>5 DEF InTurn
  <2>2. {j \in DOMAIN old : j < i /\ old[j] = f} = {j \in InTurn(N, L, p - 1) : j < i}
    BY <1>2 DEF InTurn
  <2>3. Cardinality({j \in InTurn(N, L, p - 1) : j < i}) = i \div L
    BY <1>3, <2>1, TurnsBefore
  <2> QED BY <2>2, <2>3, Zenon
<1> HIDE DEF turn
<1>6. \A i \in 0 .. N - 1 : Reassigned(N, ids, ids[p], h)[i] =
        IF old[i] = f THEN h[(turn(old, f, i) % Len(h)) + 1] ELSE old[i]
  BY <1>2, <1>4, Zenon
<1>7. ASSUME NEW i \in 0 .. N - 1
      PROVE  Reassigned(N, ids, ids[p], h)[i] = IF Place(i, L) = p - 1 THEN h[Round(i, L, M) + 1] ELSE old[i]
  <2>1. CASE Place(i, L) = p - 1
    BY <1>2, <1>3, <1>5, <1>6, <2>1, Zenon DEF Round
  <2>2. CASE Place(i, L) # p - 1
    BY <1>2, <1>6, <2>2, Zenon
  <2> QED BY <2>1, <2>2
<1>8. DOMAIN Reassigned(N, ids, ids[p], h) = 0 .. N - 1
  BY <1>2, <1>4, Zenon
<1> QED BY <1>1, <1>7, <1>8, Zenon DEF ReassignedAs

(* The shards a healthy node has: its own and those dealt to it. *)
LEMMA LoadIs ==
    ASSUME NEW N \in Nat, NEW L \in Nat \ {0}, NEW ids \in [1 .. L -> Node],
           \A j, k \in 1 .. L : ids[j] = ids[k] => j = k,
           NEW p \in 1 .. L, NEW M \in Nat \ {0}, NEW h \in [1 .. M -> Node],
           \A j, k \in 1 .. M : h[j] = h[k] => j = k,
           NEW q \in 1 .. L, q # p, NEW z \in 1 .. M, h[z] = ids[q]
    PROVE  LoadedAs(N, L, ids, p, M, h, q, z)
<1> DEFINE Own == InTurn(N, L, q - 1)
           More == Dealt(N, L, p - 1, M, z - 1)
<1>0. AllocatedAs(N, L, ids, p) /\ ReassignedAs(N, L, ids, p, M, h)
  BY OldIs, NewIs
<1>1. PICK new : new = Reassigned(N, ids, ids[p], h)
  OBVIOUS
<1>2. ASSUME NEW i \in 0 .. N - 1
      PROVE  new[i] = ids[q] <=> Place(i, L) = q - 1 \/ (Place(i, L) = p - 1 /\ Round(i, L, M) = z - 1)
  <2>0. i \in Nat
    OBVIOUS
  <2>1. Place(i, L) \in 0 .. L - 1 /\ Round(i, L, M) \in 0 .. M - 1
    BY <2>0, Places, Rounds
  <2>2. PICK a \in 1 .. L, b \in 1 .. M : a = Place(i, L) + 1 /\ b = Round(i, L, M) + 1
    BY <2>1
  <2>3. (a = p <=> Place(i, L) = p - 1) /\ (a = q <=> Place(i, L) = q - 1) /\ (b = z <=> Round(i, L, M) = z - 1)
    <3>1. \A x \in 0 .. L - 1 : (x + 1 = p <=> x = p - 1) /\ (x + 1 = q <=> x = q - 1)
      OBVIOUS
    <3>2. \A x \in 0 .. M - 1 : x + 1 = z <=> x = z - 1
      OBVIOUS
    <3> QED BY <2>1, <2>2, <3>1, <3>2, Zenon
  <2>4. new[i] = IF a = p THEN h[b] ELSE ids[a]
    BY <1>0, <1>1, <2>2, <2>3, Zenon DEF AllocatedAs, ReassignedAs
  <2>5. (h[b] = ids[q] <=> b = z) /\ (ids[a] = ids[q] <=> a = q)
    OBVIOUS
  <2> QED BY <2>3, <2>4, <2>5
<1>3. {i \in DOMAIN new : new[i] = ids[q]} = Own \cup More
  <2>1. DOMAIN new = 0 .. N - 1
    BY <1>0, <1>1 DEF ReassignedAs
  <2> QED BY <1>2, <2>1 DEF InTurn, Dealt
<1>4. Own \cap More = {}
  BY DEF InTurn, Dealt
<1>5. q - 1 \in 0 .. L - 1 /\ p - 1 \in 0 .. L - 1 /\ z - 1 \in 0 .. M - 1
  OBVIOUS
<1>6. IsFiniteSet(Own) /\ IsFiniteSet(More)
  BY <1>5, EvenTurns, EvenlyDealt
<1> HIDE DEF Own, More
<1>7. /\ Cardinality(Own \cup More) = Cardinality(Own) + Cardinality(More) - Cardinality(Own \cap More)
      /\ Cardinality(Own) \in Nat /\ Cardinality(More) \in Nat
  BY <1>6, FS_Union, FS_CardinalityType
<1>8. Cardinality(Own \cap More) = 0
  BY <1>4, FS_EmptySet
<1>9. Cardinality(Own \cup More) = Cardinality(Own) + Cardinality(More)
  BY <1>7, <1>8
<1> QED BY <1>1, <1>3, <1>9 DEF Own, More, ShardsOf, LoadedAs

(* allocate and reassign_failed_node, for any configuration a node comes to have,
   up to 10000 shards, any failed node and any order of the others: every shard is
   with a healthy node, only the failed node's moved, and loads differ by two at most. *)
THEOREM SpreadCorrect == Spec => []ShardsSpread
<1>1. ASSUME ClusterInv, ListsOK PROVE ShardsSpread
  <2> SUFFICES ASSUME NEW c \in Configs, NEW num \in ShardCounts, NEW f \in Members(c),
                      NEW h \in Orders(Members(c) \ {f}), Members(c) \ {f} # {}
               PROVE  LET ids == [k \in 1 .. Len(c.nodes) |-> c.nodes[k].id]
                          new == Reassigned(num, ids, f, h)
                          alive == Members(c) \ {f}
                      IN  /\ \A i \in DOMAIN new :
                               new[i] \in alive /\ (Allocate(num, ids)[i] # f => new[i] = Allocate(num, ids)[i])
                          /\ \A n, m \in alive :
                               ShardsOf(num, ids, f, h, n) <= ShardsOf(num, ids, f, h, m) + 2
    BY Zenon DEF ShardsSpread, Reassigned, ShardsOf
  <2>1. num \in Nat
    BY ShardAssumption
  <2>2. c \in Config /\ OneInfo(c.nodes)
    <3>1. PICK n \in Node : (Running(n) /\ c = node[n].config) \/ (HasFile(n) /\ c = file[n])
      BY DEF Configs
    <3> QED BY <1>1, <3>1, NoCalls, Fields DEF ClusterInv, ListsOK
  <2>3. /\ c.nodes \in Seq(Info) /\ Members(c) \subseteq Node
        /\ \A x : x \in Members(c) <=> \E k \in 1 .. Len(c.nodes) : x = c.nodes[k].id
    BY <2>2, MembersAre
  <2>4. PICK L \in Nat : L = Len(c.nodes)
    BY <2>3
  <2>5. PICK ids \in [1 .. L -> Node] : ids = [k \in 1 .. Len(c.nodes) |-> c.nodes[k].id]
    BY <2>3, <2>4
  <2>6. /\ \A k \in 1 .. L : ids[k] = c.nodes[k].id
        /\ \A j, k \in 1 .. L : ids[j] = ids[k] => j = k
        /\ \A x : x \in Members(c) <=> \E k \in 1 .. L : x = ids[k]
    BY <2>2, <2>3, <2>4, <2>5 DEF OneInfo
  <2>7. PICK p \in 1 .. L : f = ids[p]
    BY <2>6
  <2>8. L \in Nat \ {0}
    BY <2>7
  <2>9. PICK alive : alive = Members(c) \ {f}
    OBVIOUS
  <2>10. alive \subseteq Node /\ IsFiniteSet(alive) /\ alive # {}
    BY <2>3, <2>9, ClusterAssumptions, FS_Subset
  <2>11. PICK M \in Nat : M = Cardinality(alive)
    BY <2>10, FS_CardinalityType
  <2>12. M # 0
    BY <2>10, <2>11, FS_EmptySet
  <2>13. h \in [1 .. M -> alive] /\ \A j, k \in 1 .. M : h[j] = h[k] => j = k
    BY <2>9, <2>11 DEF Orders
  <2>14. \A n \in alive : \E z \in 1 .. M : h[z] = n
    <3>1. h \in Injection(1 .. M, alive)
      BY <2>13, Zenon DEF Injection, IsInjective
    <3>2. Cardinality(1 .. M) = M
      BY FS_Interval
    <3>3. h \in Surjection(1 .. M, alive)
      BY <2>10, <2>11, <3>1, <3>2, FS_Injection
    <3> QED BY <3>3, Zenon DEF Surjection
  <2>15. h \in [1 .. M -> Node] /\ M \in Nat \ {0}
    BY <2>10, <2>12, <2>13
  <2>17. ASSUME NEW n \in alive
         PROVE  \E q \in 1 .. L, z \in 1 .. M :
                  ShardsOf(num, ids, f, h, n) = Cardinality(InTurn(num, L, q - 1)) + Cardinality(Dealt(num, L, p - 1, M, z - 1))
    <3>1. PICK q \in 1 .. L, z \in 1 .. M : n = ids[q] /\ q # p /\ h[z] = n
      BY <2>6, <2>7, <2>9, <2>14
    <3>2. LoadedAs(num, L, ids, p, M, h, q, z)
      BY <2>1, <2>6, <2>8, <2>13, <2>15, <3>1, LoadIs
    <3> QED BY <2>7, <3>1, <3>2, Zenon DEF LoadedAs
  <2>18. PICK old, new : old = Allocate(num, ids) /\ new = Reassigned(num, ids, f, h)
    OBVIOUS
  <2>19. AllocatedAs(num, L, ids, p) /\ ReassignedAs(num, L, ids, p, M, h)
    BY <2>1, <2>6, <2>8, <2>15, OldIs, NewIs
  <2>20. ASSUME NEW i \in DOMAIN new PROVE new[i] \in alive /\ (old[i] # f => new[i] = old[i])
    <3>1. i \in 0 .. num - 1 /\ i \in Nat
      BY <2>1, <2>7, <2>18, <2>19 DEF ReassignedAs
    <3>2. Place(i, L) \in 0 .. L - 1 /\ Round(i, L, M) \in 0 .. M - 1
      BY <2>8, <2>15, <3>1, Places, Rounds
    <3>3. PICK a \in 1 .. L, b \in 1 .. M : a = Place(i, L) + 1 /\ b = Round(i, L, M) + 1
      BY <3>2
    <3>4. old[i] = ids[a] /\ new[i] = IF old[i] = f THEN h[b] ELSE old[i]
      BY <2>7, <2>18, <2>19, <3>1, <3>3, Zenon DEF AllocatedAs, ReassignedAs
    <3>5. h[b] \in alive /\ (ids[a] # f => ids[a] \in alive)
      BY <2>6, <2>9, <2>13, <3>3
    <3> QED BY <3>4, <3>5
  <2>21. ASSUME NEW n \in alive, NEW m \in alive
         PROVE  ShardsOf(num, ids, f, h, n) <= ShardsOf(num, ids, f, h, m) + 2
    <3>1. PICK q \in 1 .. L, z \in 1 .. M :
            ShardsOf(num, ids, f, h, n) = Cardinality(InTurn(num, L, q - 1)) + Cardinality(Dealt(num, L, p - 1, M, z - 1))
      BY <2>17
    <3>2. PICK s \in 1 .. L, w \in 1 .. M :
            ShardsOf(num, ids, f, h, m) = Cardinality(InTurn(num, L, s - 1)) + Cardinality(Dealt(num, L, p - 1, M, w - 1))
      BY <2>17
    <3>3. /\ q - 1 \in 0 .. L - 1 /\ s - 1 \in 0 .. L - 1 /\ p - 1 \in 0 .. L - 1
          /\ z - 1 \in 0 .. M - 1 /\ w - 1 \in 0 .. M - 1
      OBVIOUS
    <3>4. PICK a, b, d, e : /\ a = Cardinality(InTurn(num, L, q - 1)) /\ b = Cardinality(Dealt(num, L, p - 1, M, z - 1))
                            /\ d = Cardinality(InTurn(num, L, s - 1)) /\ e = Cardinality(Dealt(num, L, p - 1, M, w - 1))
      OBVIOUS
    <3>5. a <= d + 1 /\ b <= e + 1
      BY <2>1, <2>8, <2>15, <3>3, <3>4, EvenTurns, EvenlyDealt
    <3>6. a \in Nat /\ b \in Nat /\ d \in Nat /\ e \in Nat
      BY <2>1, <2>8, <2>15, <3>3, <3>4, EvenTurns, EvenlyDealt, FS_CardinalityType
    <3>7. ShardsOf(num, ids, f, h, n) = a + b /\ ShardsOf(num, ids, f, h, m) = d + e
      BY <3>1, <3>2, <3>4, Zenon
    <3>8. a + b <= (d + e) + 2
      BY <3>5, <3>6
    <3> QED BY <3>7, <3>8, Zenon
  <2> QED BY <2>5, <2>9, <2>18, <2>20, <2>21
<1>2. Spec => []ListsOK
  <2>1. ClusterInv /\ ListsOK /\ [Next]_vars => ListsOK'
    BY ListsStep
  <2> QED BY <2>1, ListsInit, Invariance, PTL DEF Spec
<1> QED BY <1>1, <1>2, Invariance, PTL
=============================================================================
