------------------------- MODULE MCTrafficSimulator -------------------------
(***************************************************************************)
(* A small instance of TrafficSimulator: two nodes, of which the first may *)
(* have adapters with one address or two, disabled or not, two routers,    *)
(* and saved scenes in which adapters of one node share a router, an       *)
(* address, or an address with one that is disabled.                       *)
(***************************************************************************)
EXTENDS TrafficSimulator, TLC

CONSTANTS R1, R2

MCNodes == {"n1", "n2"}
MCRouters == {R1, R2}
RoutersAlike == Permutations(MCRouters)

Kind(node, address, usable) == [node |-> node, address |-> address, usable |-> usable]
First == Kind("n1", "x", TRUE)
Disabled == Kind("n1", "x", FALSE)
Second == Kind("n1", "y", TRUE)
Other == Kind("n2", "x", TRUE)
MCKinds == {First, Disabled, Second, Other}

File(adapter1, adapter2, connected, r) ==
    [nodes |-> MCNodes, routers |-> MCRouters, adapters |-> <<adapter1, adapter2, Other>>,
     drawn |-> [a \in connected |-> r]]
MCFiles == UNION {{File(First, Second, {1, 2}, r), File(Disabled, First, {1, 3}, r)} : r \in MCRouters}
=============================================================================
