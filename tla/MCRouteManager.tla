--------------------------- MODULE MCRouteManager ---------------------------
(***************************************************************************)
(* A small instance of RouteManager: a host with three adapters and two    *)
(* remote nodes.  One is a neighbour on the first network and reports the  *)
(* other, which is a neighbour on the second.  The first address may turn  *)
(* up on the second adapter; the third adapter is always there, and the    *)
(* routes of both others are advertised on it.                             *)
(***************************************************************************)
EXTENDS RouteManager, TLC

MCMacs == {1, 2, 5}
MCGuids == {3, 4, 7}
\* 1, 2 and 5 are this host's addresses, 11 and 12 those of the neighbours.
MCAddresses == {1, 2, 5, 11, 12}
MCNodeIds == {"n1", "n2"}
\* The adapter with mac m has guid m + 2; has: mac -> addresses.
Host(has) == [m \in DOMAIN has |-> [guid |-> m + 2, addresses |-> has[m]]]

MCAdapterConfigs ==
    {Host(has @@ 5 :> {5}) :
        has \in {<< >>, 1 :> {1} @@ 2 :> {2}, 2 :> {1, 2}, 1 :> {1} @@ 2 :> {1}}}

Message(id, from, on, nodes) ==
    [id |-> id, sender |-> from, adapter |-> on, nodes |-> nodes]
Node(id, addr, cost) == [id |-> id, address |-> addr, cost |-> cost]

\* n1 is a neighbour on network 1 and lists n2 twice, at unlike costs; n2 is also
\* a neighbour on network 2.
MCMessages ==
    {Message("n1", 11, 1, <<Node("n2", 12, 512), Node("n2", 12, 256)>>),
     Message("n2", 12, 2, << >>)}

\* The same route, persistent, at yet another cost.
N2OnNetwork1 == [node |-> "n2", address |-> 12, adapter |-> 1, reporter |-> 11]
MCPersistentRoutes == {[id |-> N2OnNetwork1, metric |-> 256, enabled |-> e] : e \in BOOLEAN}

MCClockSteps == {0, 1, 2}
=============================================================================
