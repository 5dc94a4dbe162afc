------------------------- MODULE MCDiscoveryNetwork -------------------------
(***************************************************************************)
(* Four nodes, of which D is the target, in a line, around a hub, in a     *)
(* triangle behind A, and with A and B on two common networks.             *)
(***************************************************************************)
EXTENDS DiscoveryNetwork

CONSTANTS A, B, C, D

MCNodes == {A, B, C, D}
MCNetworks == 1 .. 4

Topology(members, b, c) ==
    [members |-> [n \in MCNetworks |-> IF n \in DOMAIN members THEN members[n] ELSE {}],
     hops    |-> [i \in MCNodes |-> CASE i = A -> 1 [] i = B -> b [] i = C -> c [] i = D -> 0]]

MCTopologies ==
    {Topology(<<{D, A}, {A, B}, {B, C}>>, 2, 3),
     Topology(<<{D, A}, {A, B, C}>>, 2, 2),
     Topology(<<{D, A}, {A, B}, {B, C}, {C, A}>>, 2, 2),
     Topology(<<{D, A, C}, {A, B}, {A, B}>>, 2, 1)}
=============================================================================
