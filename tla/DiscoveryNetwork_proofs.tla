----------------------- MODULE DiscoveryNetwork_proofs -----------------------
(***************************************************************************)
(* Proofs about DiscoveryNetwork, for every set of nodes and networks, any *)
(* topologies and every timeout of at least two intervals.                 *)
(***************************************************************************)
EXTENDS DiscoveryNetwork, TLAPS

(* Facts about the histories' bound and about links.                       *)
LEMMA UpToBound ==
    ASSUME NEW limit \in Nat, NEW n \in Nat
    PROVE  UpTo(limit, n) \in 0 .. limit /\ UpTo(limit, n) <= n
  BY DEF UpTo

LEMMA LinkParts ==
    ASSUME NEW l \in Links
    PROVE  l[1] \in Nodes /\ l[2] \in Networks /\ l[3] \in Nodes /\ l = <<l[1], l[2], l[3]>>
  BY DEF Links

LEMMA LinkOf ==
    ASSUME NEW i \in Nodes, NEW n \in Networks, NEW j \in Nodes
    PROVE  /\ <<i, n, j>> \in Links
           /\ <<i, n, j>>[1] = i /\ <<i, n, j>>[2] = n /\ <<i, n, j>>[3] = j
  BY DEF Links

LEMMA TopologyFacts ==
    ASSUME NEW t \in Topologies
    PROVE  /\ \A n \in Networks : t.members[n] \subseteq Nodes
           /\ \A i \in Nodes : t.hops[i] \in Nat
           /\ t.hops[Target] = 0
  BY TopologyAssumption DEF IsTopology

(* Every step keeps the types: ages stay within the timeout, histories     *)
(* within their bound, and only running nodes have announced.              *)
LEMMA TypeCorrect == Spec => []TypeOK
<1>1. Init => TypeOK
  <2> SUFFICES ASSUME Init PROVE TypeOK
    OBVIOUS
  <2>1. age \in [Links -> 0 .. Timeout]
    BY TimeAssumption DEF Init
  <2> QED
    BY <2>1, TimeAssumption DEF Init, TypeOK
<1>2. TypeOK /\ [Next]_vars => TypeOK'
  <2> SUFFICES ASSUME TypeOK, [Next]_vars PROVE TypeOK'
    OBVIOUS
  <2> USE TimeAssumption
  <2>1. ASSUME NEW i \in Nodes, NEW lost \in SUBSET Refreshes(i), Announce(i, lost)
        PROVE  TypeOK'
    <3>1. age' \in [Links -> 0 .. Timeout]
      BY <2>1 DEF TypeOK, Announce
    <3> QED
      BY <2>1, <3>1 DEF TypeOK, Announce
  <2>2. ASSUME NEW i \in Nodes, Crash(i)
        PROVE  TypeOK'
    <3>1. age' \in [Links -> 0 .. Timeout]
      BY <2>2 DEF TypeOK, Crash
    <3> QED
      BY <2>2, <3>1 DEF TypeOK, Crash
  <2>3. ASSUME NEW i \in Nodes, Restart(i)
        PROVE  TypeOK'
    BY <2>3 DEF TypeOK, Restart
  <2>4. ASSUME Tick
        PROVE  TypeOK'
    <3>1. \A l \in Links : Older(l) \in 0 .. Timeout
      BY DEF TypeOK, Older, UpTo
    <3>2. age' \in [Links -> 0 .. Timeout]
      BY <2>4, <3>1 DEF Tick
    <3>3. UpTo(Horizon, downFor + 1) \in 0 .. Horizon /\ UpTo(Horizon, steady + 1) \in 0 .. Horizon
      BY DEF TypeOK, UpTo
    <3> QED
      BY <2>4, <3>2, <3>3 DEF TypeOK, Tick
  <2>5. CASE UNCHANGED vars
    BY <2>5 DEF TypeOK, vars
  <2> QED
    BY <2>1, <2>2, <2>3, <2>4, <2>5 DEF Next
<1> QED
  BY <1>1, <1>2, PTL DEF Spec

-----------------------------------------------------------------------------
(* What an announcement does to one link.                                  *)
LEMMA AnnounceOnLink ==
    ASSUME TypeOK, NEW a \in Nodes, NEW lost \in SUBSET Refreshes(a), Announce(a, lost),
           NEW i \in Nodes, NEW n \in Networks, NEW j \in Nodes
    PROVE  \/ age'[<<i, n, j>>] = age[<<i, n, j>>]
           \/ /\ age'[<<i, n, j>>] = 0
              /\ j = a /\ j \in up
              /\ i \in topology.members[n] \ {j, Target} /\ j \in topology.members[n]
              /\ Advertises(j, n)
  BY LinkOf DEF Announce, Refreshes

(* In a tree a node that knows the target tells it on only to nodes that   *)
(* are one hop further away.                                               *)
LEMMA FarFromTarget ==
    ASSUME NEW t \in Topologies, IsTree(t), NEW n \in Networks,
           NEW i \in t.members[n], NEW j \in t.members[n], i # j,
           j = Target \/ \E m \in Networks \ {n} : IsFurther(t, j, m)
    PROVE  t.hops[i] = t.hops[j] + 1
<1>1. PICK o \in t.members[n] : \A k \in t.members[n] \ {o} : t.hops[k] = t.hops[o] + 1
  BY DEF IsTree
<1>2. o = j
  <2>1. ASSUME o # j PROVE FALSE
    <3>1. t.hops[j] = t.hops[o] + 1
      BY <1>1, <2>1
    <3>2. j # Target
      BY <3>1, TopologyFacts
    <3>3. IsFurther(t, j, n)
      BY <3>1 DEF IsFurther
    <3> QED
      BY <3>2, <3>3, TopologyFacts DEF IsTree
  <2> QED
    BY <2>1
<1> QED
  BY <1>1, <1>2

(* The inductive invariant of DeadIsForgotten: in a tree a route that is   *)
(* online was learned from a node one hop nearer, and that node, at that   *)
(* distance, could still say so that long after the target stopped.        *)
Reach(i) == topology.hops[i] * (Timeout - 1)

LearnedNearer ==
    IsTree(topology) =>
        \A i \in Nodes, n \in Networks, j \in Nodes : IsOnline(i, n, j) =>
            /\ i \in topology.members[n] /\ j \in topology.members[n]
            /\ topology.hops[i] = topology.hops[j] + 1
            /\ downFor <= age[<<i, n, j>>] + Reach(j)

LEMMA ReachOneHop ==
    ASSUME NEW h \in Nat, NEW k \in Nat, h = k + 1, NEW t \in Nat
    PROVE  h * t = k * t + t
  OBVIOUS

LEMMA KnowsInReach ==
    ASSUME TypeOK, LearnedNearer, IsTree(topology),
           NEW i \in Nodes, NEW n \in Networks, NEW j \in Nodes, IsOnline(i, n, j)
    PROVE  downFor <= Reach(i)
<1>1. /\ topology.hops[i] = topology.hops[j] + 1
      /\ downFor <= age[<<i, n, j>>] + Reach(j)
  BY DEF LearnedNearer
<1>2. topology.hops[i] \in Nat /\ topology.hops[j] \in Nat
  BY TopologyFacts DEF TypeOK
<1>3. Reach(i) = Reach(j) + (Timeout - 1)
  BY <1>1, <1>2, ReachOneHop, TimeAssumption DEF Reach
<1>4. age[<<i, n, j>>] \in Nat /\ age[<<i, n, j>>] <= Timeout - 1
  BY LinkOf, TimeAssumption DEF IsOnline, TypeOK
<1>5. Reach(j) \in Int /\ downFor \in Int
  BY <1>2, TimeAssumption DEF Reach, TypeOK
<1> QED
  BY <1>1, <1>3, <1>4, <1>5, TimeAssumption

LEMMA LearnedNearerStep == TypeOK /\ LearnedNearer /\ [Next]_vars => LearnedNearer'
<1> SUFFICES ASSUME TypeOK, LearnedNearer, [Next]_vars,
                    IsTree(topology'),
                    NEW i \in Nodes, NEW n \in Networks, NEW j \in Nodes, IsOnline(i, n, j)'
             PROVE  /\ i \in topology'.members[n] /\ j \in topology'.members[n]
                    /\ topology'.hops[i] = topology'.hops[j] + 1
                    /\ downFor' <= age'[<<i, n, j>>] + Reach(j)'
  BY DEF LearnedNearer
<1> DEFINE l == <<i, n, j>>
<1>t. topology' = topology /\ Reach(j)' = Reach(j)
  BY DEF Next, Announce, Crash, Restart, Tick, vars, Reach
<1>l. l \in Links /\ l[1] = i
  BY LinkOf
<1>a. age[l] \in 0 .. Timeout /\ age \in [Links -> 0 .. Timeout]
  BY <1>l DEF TypeOK
<1>h. topology.hops[i] \in Nat /\ topology.hops[j] \in Nat /\ Reach(j) \in Nat
  BY TopologyFacts, TimeAssumption DEF TypeOK, Reach
<1>k. ASSUME age'[l] = age[l], downFor' <= downFor, downFor' \in Int
      PROVE  /\ i \in topology.members[n] /\ j \in topology.members[n]
             /\ topology.hops[i] = topology.hops[j] + 1
             /\ downFor' <= age'[l] + Reach(j)
  <2>1. IsOnline(i, n, j)
    BY <1>k DEF IsOnline
  <2> QED
    BY <2>1, <1>k, <1>t, <1>a, <1>h DEF LearnedNearer, TypeOK
<1>1. ASSUME NEW a \in Nodes, NEW lost \in SUBSET Refreshes(a), Announce(a, lost)
      PROVE  /\ i \in topology.members[n] /\ j \in topology.members[n]
             /\ topology.hops[i] = topology.hops[j] + 1
             /\ downFor' <= age'[l] + Reach(j)
  <2>d. downFor' = downFor /\ downFor \in Int
    BY <1>1 DEF Announce, TypeOK
  <2>1. CASE age'[l] = age[l]
    BY <2>1, <2>d, <1>k
  <2>2. CASE age'[l] # age[l]
    <3>1. /\ age'[l] = 0 /\ j \in up
          /\ i \in topology.members[n] \ {j, Target} /\ j \in topology.members[n]
          /\ Advertises(j, n)
      BY <2>2, <1>1, AnnounceOnLink
    <3>2. CASE j = Target
      <4>1. topology.hops[i] = topology.hops[j] + 1
        BY <3>1, <3>2, <1>t, FarFromTarget DEF TypeOK
      <4>2. downFor = 0
        BY <3>1, <3>2 DEF TypeOK
      <4> QED
        BY <3>1, <4>1, <4>2, <2>d, <1>h
    <3>3. CASE j # Target
      <4>1. PICK m \in Networks \ {n}, k \in Nodes : IsOnline(j, m, k)
        BY <3>1, <3>3 DEF Advertises
      <4>2. IsFurther(topology, j, m)
        BY <4>1, <1>t DEF LearnedNearer, IsFurther
      <4>3. topology.hops[i] = topology.hops[j] + 1
        BY <3>1, <4>2, <1>t, FarFromTarget DEF TypeOK
      <4>4. downFor <= Reach(j)
        BY <4>1, <1>t, KnowsInReach
      <4> QED
        BY <3>1, <4>3, <4>4, <2>d, <1>h
    <3> QED
      BY <3>2, <3>3
  <2> QED
    BY <2>1, <2>2
<1>2. ASSUME NEW a \in Nodes, Crash(a)
      PROVE  /\ i \in topology.members[n] /\ j \in topology.members[n]
             /\ topology.hops[i] = topology.hops[j] + 1
             /\ downFor' <= age'[l] + Reach(j)
  <2>1. age'[l] = age[l]
    BY <1>2, <1>l, TimeAssumption DEF Crash, IsOnline
  <2> QED
    BY <2>1, <1>2, <1>k DEF Crash, TypeOK
<1>3. ASSUME NEW a \in Nodes, Restart(a)
      PROVE  /\ i \in topology.members[n] /\ j \in topology.members[n]
             /\ topology.hops[i] = topology.hops[j] + 1
             /\ downFor' <= age'[l] + Reach(j)
  BY <1>3, <1>k DEF Restart, TypeOK
<1>4. ASSUME Tick
      PROVE  /\ i \in topology.members[n] /\ j \in topology.members[n]
             /\ topology.hops[i] = topology.hops[j] + 1
             /\ downFor' <= age'[l] + Reach(j)
  <2>1. age'[l] = Older(l)
    BY <1>4, <1>l DEF Tick
  <2>2. age'[l] = age[l] + 1 /\ IsOnline(i, n, j)
    BY <2>1, <1>a, TimeAssumption DEF Older, UpTo, IsOnline
  <2>3. downFor' \in Int /\ downFor' <= downFor + 1 /\ downFor \in Int
    BY <1>4, TimeAssumption DEF Tick, TypeOK, UpTo
  <2>4. /\ i \in topology.members[n] /\ j \in topology.members[n]
        /\ topology.hops[i] = topology.hops[j] + 1
        /\ downFor <= age[l] + Reach(j)
    BY <2>2, <1>t DEF LearnedNearer
  <2> QED
    BY <2>2, <2>3, <2>4, <1>a, <1>h
<1>5. ASSUME UNCHANGED vars
      PROVE  /\ i \in topology.members[n] /\ j \in topology.members[n]
             /\ topology.hops[i] = topology.hops[j] + 1
             /\ downFor' <= age'[l] + Reach(j)
  BY <1>5, <1>k DEF vars, TypeOK
<1> QED
  BY <1>1, <1>2, <1>3, <1>4, <1>5, <1>t DEF Next

(* Where nodes and networks form a tree, of whatever depth, a node that    *)
(* stopped is forgotten everywhere: at each node a Timeout later than one  *)
(* hop nearer.                                                             *)
THEOREM TreesForget == Spec => []DeadIsForgotten
<1>1. Init => LearnedNearer
  BY LinkOf, TimeAssumption DEF Init, LearnedNearer, IsOnline
<1>2. TypeOK /\ LearnedNearer => DeadIsForgotten
  <2> SUFFICES ASSUME TypeOK, LearnedNearer, IsTree(topology), NEW i \in Nodes,
                      downFor > topology.hops[i] * (Timeout - 1), Knows(i)
               PROVE  FALSE
    BY DEF DeadIsForgotten
  <2>1. PICK n \in Networks, j \in Nodes : IsOnline(i, n, j)
    BY DEF Knows
  <2>2. downFor <= topology.hops[i] * (Timeout - 1)
    BY <2>1, KnowsInReach DEF Reach
  <2>3. topology.hops[i] * (Timeout - 1) \in Int /\ downFor \in Int
    BY TopologyFacts, TimeAssumption DEF TypeOK
  <2> QED
    BY <2>2, <2>3
<1> QED
  BY <1>1, <1>2, LearnedNearerStep, TypeCorrect, PTL DEF Spec

-----------------------------------------------------------------------------
(* The inductive invariant of NewsTravels: after as many undisturbed       *)
(* intervals as a node is away, each of its nearer neighbours has been     *)
(* heard within the last interval, and in this one if it has announced.    *)
HeardInTime ==
    up = Nodes =>
        \A i \in Nodes \ {Target}, n \in Networks : \A j \in topology.members[n] :
            i \in topology.members[n] /\ topology.hops[i] = topology.hops[j] + 1 =>
                /\ steady > topology.hops[i] => age[<<i, n, j>>] <= 1
                /\ steady > topology.hops[j] /\ j \in announced => age[<<i, n, j>>] = 0

(* Each node but the target has a nearer neighbour.                        *)
LEMMA NearerNeighbour ==
    ASSUME NEW t \in Topologies, NEW i \in Nodes \ {Target}
    PROVE  \E n \in Networks : \E j \in t.members[n] :
              i \in t.members[n] /\ t.hops[i] = t.hops[j] + 1
  BY TopologyAssumption DEF IsTopology

LEMMA KnowsInTime ==
    ASSUME TypeOK, HeardInTime, up = Nodes, NEW i \in Nodes \ {Target},
           steady > topology.hops[i]
    PROVE  \E n \in Networks : \E j \in topology.members[n] :
              /\ i \in topology.members[n] /\ topology.hops[i] = topology.hops[j] + 1
              /\ j \in Nodes /\ IsOnline(i, n, j)
<1>1. PICK n \in Networks : \E j \in topology.members[n] :
              i \in topology.members[n] /\ topology.hops[i] = topology.hops[j] + 1
  BY NearerNeighbour DEF TypeOK
<1>2. PICK j \in topology.members[n] :
              i \in topology.members[n] /\ topology.hops[i] = topology.hops[j] + 1
  BY <1>1
<1>3. age[<<i, n, j>>] <= 1
  BY <1>2 DEF HeardInTime
<1>4. j \in Nodes
  BY TopologyFacts DEF TypeOK
<1>5. age[<<i, n, j>>] \in Nat
  BY <1>4, LinkOf, TimeAssumption DEF TypeOK
<1> QED
  BY <1>2, <1>3, <1>4, <1>5, TimeAssumption DEF IsOnline

(* A nearer neighbour that knows the target says so on the networks that   *)
(* it shares with nodes further away.                                      *)
LEMMA TellsOnward ==
    ASSUME TypeOK, HeardInTime, up = Nodes,
           NEW n \in Networks, NEW i \in topology.members[n], NEW j \in topology.members[n],
           topology.hops[i] = topology.hops[j] + 1, steady > topology.hops[j]
    PROVE  Advertises(j, n)
<1>j. j \in Nodes /\ i \in Nodes
  BY TopologyFacts DEF TypeOK
<1>1. CASE j = Target
  BY <1>1 DEF Advertises
<1>2. CASE j # Target
  <2>1. PICK m \in Networks : \E k \in topology.members[m] :
              /\ j \in topology.members[m] /\ topology.hops[j] = topology.hops[k] + 1
              /\ k \in Nodes /\ IsOnline(j, m, k)
    BY <1>2, <1>j, KnowsInTime
  <2>2. PICK k \in topology.members[m] :
              /\ topology.hops[j] = topology.hops[k] + 1
              /\ k \in Nodes /\ IsOnline(j, m, k)
    BY <2>1
  <2>3. m # n
    <3>1. ASSUME m = n PROVE topology.hops[i] <= topology.hops[k] + 1
      BY <3>1, TopologyAssumption DEF TypeOK, IsTopology
    <3>2. topology.hops[i] \in Nat /\ topology.hops[j] \in Nat /\ topology.hops[k] \in Nat
      BY <1>j, <2>2, TopologyFacts DEF TypeOK
    <3> QED
      BY <3>1, <3>2, <2>2
  <2> QED
    BY <2>2, <2>3 DEF Advertises
<1> QED
  BY <1>1, <1>2

LEMMA HeardInTimeStep == TypeOK /\ HeardInTime /\ [Next]_vars => HeardInTime'
<1> SUFFICES ASSUME TypeOK, HeardInTime, [Next]_vars, up' = Nodes,
                    NEW i \in Nodes \ {Target}, NEW n \in Networks,
                    NEW j \in topology'.members[n],
                    i \in topology'.members[n],
                    topology'.hops[i] = topology'.hops[j] + 1
             PROVE  /\ steady' > topology'.hops[i] => age'[<<i, n, j>>] <= 1
                    /\ steady' > topology'.hops[j] /\ j \in announced' => age'[<<i, n, j>>] = 0
  BY DEF HeardInTime
<1> DEFINE l == <<i, n, j>>
           Heard == /\ steady' > topology.hops[i] => age'[l] <= 1
                    /\ steady' > topology.hops[j] /\ j \in announced' => age'[l] = 0
<1>t. topology' = topology
  BY DEF Next, Announce, Crash, Restart, Tick, vars
<1>j. j \in Nodes /\ i \in topology.members[n] /\ j \in topology.members[n] /\ i # j
  <2>1. j \in Nodes /\ topology.hops[j] \in Nat
    BY <1>t, TopologyFacts DEF TypeOK
  <2> QED
    BY <2>1, <1>t
<1>l. l \in Links /\ l[1] = i /\ l[2] = n /\ l[3] = j
  BY <1>j, LinkOf
<1>h. topology.hops[i] \in Nat /\ topology.hops[j] \in Nat
      /\ topology.hops[i] = topology.hops[j] + 1
  BY <1>j, <1>t, TopologyFacts DEF TypeOK
<1>a. age[l] \in Nat /\ age[l] <= Timeout
  BY <1>l, TimeAssumption DEF TypeOK
<1>s. steady \in Nat
  BY TimeAssumption DEF TypeOK
<1>b. ASSUME up = Nodes
      PROVE  /\ steady > topology.hops[i] => age[l] <= 1
             /\ steady > topology.hops[j] /\ j \in announced => age[l] = 0
  BY <1>b, <1>j, <1>h DEF HeardInTime
<1>z. ASSUME steady' = 0 PROVE Heard
  BY <1>z, <1>h
<1>1. ASSUME NEW a \in Nodes, NEW lost \in SUBSET Refreshes(a), Announce(a, lost)
      PROVE  Heard
  <2>1. CASE lost # {}
    BY <2>1, <1>1, <1>z DEF Announce
  <2>2. CASE lost = {}
    <3>u. up = Nodes /\ steady' = steady /\ announced' = announced \cup {a}
      BY <1>1, <2>2 DEF Announce
    <3>a. age'[l] = IF l \in Refreshes(a) THEN 0 ELSE age[l]
      BY <1>1, <2>2, <1>l DEF Announce
    <3>1. steady' > topology.hops[i] => age'[l] <= 1
      BY <3>u, <3>a, <1>b, <1>a
    <3>2. ASSUME steady > topology.hops[j], j = a PROVE age'[l] = 0
      <4>1. Advertises(j, n)
        BY <3>2, <3>u, <1>j, <1>h, TellsOnward
      <4>2. l \in Refreshes(a)
        BY <4>1, <3>2, <3>u, <1>j, <1>l DEF Refreshes
      <4> QED
        BY <4>2, <3>a
    <3>3. ASSUME steady > topology.hops[j], j \in announced PROVE age'[l] = 0
      BY <3>3, <3>u, <3>a, <1>b
    <3> QED
      BY <3>1, <3>2, <3>3, <3>u
  <2> QED
    BY <2>1, <2>2
<1>2. ASSUME NEW a \in Nodes, Crash(a) PROVE Heard
  BY <1>2, <1>z DEF Crash
<1>3. ASSUME NEW a \in Nodes, Restart(a) PROVE Heard
  BY <1>3, <1>z DEF Restart
<1>4. ASSUME Tick PROVE Heard
  <2>1. up = Nodes /\ announced' = {} /\ j \in announced
    BY <1>4, <1>j DEF Tick
  <2>2. steady' <= steady + 1 /\ steady' \in Nat
    BY <1>4, <1>s, UpToBound, TimeAssumption DEF Tick
  <2>3. ASSUME steady' > topology.hops[i] PROVE age'[l] <= 1
    <3>1. age[l] = 0
      BY <2>1, <2>2, <2>3, <1>b, <1>h, <1>s
    <3>2. age'[l] = UpTo(Timeout, 0 + 1)
      BY <3>1, <1>4, <1>l DEF Tick, Older
    <3> QED
      BY <3>2, UpToBound, TimeAssumption
  <2> QED
    BY <2>1, <2>3
<1>5. ASSUME UNCHANGED vars PROVE Heard
  BY <1>5, <1>b DEF vars
<1>6. Heard
  BY <1>1, <1>2, <1>3, <1>4, <1>5 DEF Next
<1> QED
  BY <1>6, <1>t

(* Whatever the topology, a hop of distance costs an interval: undisturbed,*)
(* each node knows the target once as many intervals have begun.           *)
THEOREM NewsReachesAll == Spec => []NewsTravels
<1>1. Init => HeardInTime
  BY TopologyFacts DEF Init, HeardInTime
<1>2. TypeOK /\ HeardInTime => NewsTravels
  BY KnowsInTime DEF NewsTravels, Knows
<1> QED
  BY <1>1, <1>2, HeardInTimeStep, TypeCorrect, PTL DEF Spec
=============================================================================
