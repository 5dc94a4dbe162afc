-------------------------- MODULE DiscoveryNetwork --------------------------
(***************************************************************************)
(* What the nodes of several networks know of one of them, the target,     *)
(* when each announces on each of its networks itself and the nodes it     *)
(* learned of on its other ones: transmission_handler and route_manager of *)
(* all nodes together.                                                     *)
(*                                                                         *)
(* Time is counted in announcement intervals.  Between two ticks every     *)
(* running node announces once, in any order.  Of a node's table the model *)
(* keeps the routes to the target, each by the network it was learned on   *)
(* (its adapter) and the node that reported it; a route that is offline is *)
(* like one that was never there, as it is not told on.  Which network a   *)
(* node is on never changes: that is the concern of RouteManager.          *)
(***************************************************************************)
EXTENDS Integers, FiniteSets

CONSTANTS
    Nodes,
    Target,       \* the node the others learn of
    Networks,
    Topologies,   \* who is on which network, and how many hops from the target
    Timeout,      \* the 90 seconds of is_route_online, in intervals
    Horizon       \* bound on what the histories count

IsTopology(t) ==
    /\ t \in [members: [Networks -> SUBSET Nodes], hops: [Nodes -> Nat]]
    /\ t.hops[Target] = 0
    /\ \A i \in Nodes \ {Target} : \E n \in Networks : \E j \in t.members[n] :
          i \in t.members[n] /\ t.hops[i] = t.hops[j] + 1
    /\ \A n \in Networks : \A i, j \in t.members[n] : t.hops[i] <= t.hops[j] + 1

ASSUME TargetAssumption   == Target \in Nodes
ASSUME TopologyAssumption == \A t \in Topologies : IsTopology(t)
ASSUME TimeAssumption     == Timeout \in Nat /\ Timeout >= 2 /\ Horizon \in Nat

VARIABLES
    topology,
    up,          \* the nodes that run
    age,         \* of the route to the target a node learned on a network from a reporter
    announced,   \* the nodes that announced in this interval
    downFor,     \* history: intervals since the target stopped
    steady       \* history: intervals begun since the last crash, restart or loss

vars == <<topology, up, age, announced, downFor, steady>>

(* <<i, n, j>>: node i hears, on network n, what node j reports.           *)
Links == Nodes \X Networks \X Nodes

TypeOK ==
    /\ topology \in Topologies
    /\ up \subseteq Nodes /\ announced \subseteq up
    /\ age \in [Links -> 0 .. Timeout]
    /\ downFor \in 0 .. Horizon /\ steady \in 0 .. Horizon
    /\ Target \in up => downFor = 0

UpTo(limit, n) == IF n < limit THEN n ELSE limit

-----------------------------------------------------------------------------
(* is_route_online, for the routes of a node.                              *)
IsOnline(i, n, j) == age[<<i, n, j>>] < Timeout

Knows(i) == \E n \in Networks, j \in Nodes : IsOnline(i, n, j)

(* What a node says on a network: itself, and the online routes it learned *)
(* on its other adapters (find_routes_for_adapter).                        *)
Advertises_Everything(i, n) == i = Target \/ Knows(i)
Advertises_DirectOnly(i, n) ==
    i = Target \/ \E m \in Networks \ {n} : IsOnline(i, m, Target)
Advertises(i, n) ==
    i = Target \/ \E m \in Networks \ {n}, j \in Nodes : IsOnline(i, m, j)

(* The links on which an announcement of node i brings or refreshes a      *)
(* route: a router delivers to all others on the network, and              *)
(* process_discovery_message takes every report.                           *)
Refreshes(i) ==
    {l \in Links : /\ l[3] = i
                   /\ i \in topology.members[l[2]]
                   /\ l[1] \in (topology.members[l[2]] \cap up) \ {i, Target}
                   /\ Advertises(i, l[2])}

-----------------------------------------------------------------------------
(* transmit_discovery_message: a message on each network, some of which do *)
(* not arrive everywhere.                                                  *)
Announce(i, lost) ==
    /\ i \in up \ announced
    /\ announced' = announced \cup {i}
    /\ age' = [l \in Links |-> IF l \in Refreshes(i) \ lost THEN 0 ELSE age[l]]
    /\ steady' = IF lost = {} THEN steady ELSE 0
    /\ UNCHANGED <<topology, up, downFor>>

(* A node stops, and with it goes its table.                               *)
Crash(i) ==
    /\ i \in up
    /\ up' = up \ {i}
    /\ announced' = announced \ {i}
    /\ age' = [l \in Links |-> IF l[1] = i THEN Timeout ELSE age[l]]
    /\ steady' = 0
    /\ UNCHANGED <<topology, downFor>>

(* A new process: its first announcement finds no client and goes nowhere. *)
Restart(i) ==
    /\ i \in Nodes \ up
    /\ up' = up \cup {i}
    /\ announced' = announced \cup {i}
    /\ steady' = 0
    /\ downFor' = IF i = Target THEN 0 ELSE downFor
    /\ UNCHANGED <<topology, age>>

Older(l) == UpTo(Timeout, age[l] + 1)

(* The interval ends when every running node has announced.                *)
Tick ==
    /\ up \subseteq announced
    /\ announced' = {}
    /\ age' = [l \in Links |-> Older(l)]
    /\ downFor' = IF Target \in up THEN 0 ELSE UpTo(Horizon, downFor + 1)
    /\ steady' = UpTo(Horizon, steady + 1)
    /\ UNCHANGED <<topology, up>>

Init ==
    /\ topology \in Topologies
    /\ up = Nodes
    /\ age = [l \in Links |-> Timeout]
    /\ announced = {}
    /\ downFor = 0
    /\ steady = 0

Next ==
    \/ \E i \in Nodes : \E lost \in SUBSET Refreshes(i) : Announce(i, lost)
    \/ \E i \in Nodes : Crash(i)
    \/ \E i \in Nodes : Restart(i)
    \/ Tick

Spec == Init /\ [][Next]_vars

-----------------------------------------------------------------------------
(* A tree: each network has a member that is a hop nearer to the target    *)
(* than all others, and no node is one of the others on two networks.      *)
IsFurther(t, i, n) ==
    i \in t.members[n] /\ \E j \in t.members[n] : t.hops[i] = t.hops[j] + 1

IsTree(t) ==
    /\ \A n \in Networks : t.members[n] # {} =>
          \E j \in t.members[n] : \A i \in t.members[n] \ {j} : t.hops[i] = t.hops[j] + 1
    /\ \A i \in Nodes : \A n, m \in Networks :
          IsFurther(t, i, n) /\ IsFurther(t, i, m) => n = m

(* Where networks and nodes form a tree, a node that stopped is forgotten, *)
(* later by each hop: nobody hears its own report back, so a route ends    *)
(* within Timeout of the one it was learned from.  Around a cycle, of two  *)
(* nodes that share two networks already, nodes refresh each other's       *)
(* routes for ever; the code keeps no count that would end it.             *)
DeadIsForgotten ==
    IsTree(topology) =>
        \A i \in Nodes : downFor > topology.hops[i] * (Timeout - 1) => ~Knows(i)

(* Whatever the topology, if all nodes run, then after as many intervals   *)
(* as it is away each knows the target, and goes on knowing it, until the  *)
(* next loss or crash: reports travel a hop per interval, however the nodes*)
(* are ordered within one.                                                 *)
NewsTravels ==
    up = Nodes => \A i \in Nodes \ {Target} : steady > topology.hops[i] => Knows(i)
=============================================================================
