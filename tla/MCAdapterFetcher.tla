-------------------------- MODULE MCAdapterFetcher --------------------------
(***************************************************************************)
(* A small instance of AdapterFetcher: a network card with an address,     *)
(* renamed, without its address and without its cable, a tunnel adapter    *)
(* that is not used, a PPP connection, whose MAC address is the empty one, *)
(* and a virtual adapter that has the MAC address of the card it is        *)
(* bridged to.                                                             *)
(***************************************************************************)
EXTENDS AdapterFetcher

Interface(type, hidden, registered, mac, up, addresses) ==
    [type |-> type, hidden |-> hidden, registered |-> registered, mac |-> mac, up |-> up,
     addresses |-> addresses, rest |-> type]
V4(a) == [v4 |-> TRUE, address |-> a]
V6(a) == [v4 |-> FALSE, address |-> a]

NoMac == 0
Card      == Interface("ethernet", FALSE, TRUE, 1, TRUE, <<V6("x"), V4("x")>>)
Renamed   == [Card EXCEPT !.rest = "renamed"]
CardBare  == Interface("ethernet", FALSE, TRUE, 1, TRUE, <<V6("x")>>)
CardDown  == Interface("ethernet", FALSE, TRUE, 1, FALSE, << >>)
Wireless  == Interface("wireless", FALSE, TRUE, 2, TRUE, <<V4("y")>>)
Direct    == Interface("wireless", TRUE, TRUE, 2, TRUE, << >>)
Nameless  == Interface("ethernet", FALSE, FALSE, 3, TRUE, <<V4("z")>>)
Tunnel    == Interface("other", FALSE, TRUE, NoMac, TRUE, <<V4("z")>>)
Dialled   == Interface("ppp", FALSE, TRUE, NoMac, TRUE, <<V4("y")>>)
Bridged   == Interface("ethernet", FALSE, TRUE, 1, TRUE, <<V4("z")>>)

MCMacs == 0 .. 3
MCAddresses == {"x", "y", "z"}
MCRest == InterfaceTypes \cup {"renamed"}
MCInterfaceLists ==
    {<< >>, <<Card>>, <<CardBare, Tunnel>>, <<CardDown, Dialled>>, <<Wireless, Card, Tunnel>>,
     <<Dialled, Direct, Nameless>>, <<Wireless, CardDown>>, <<Renamed>>, <<Card, Bridged>>}
MCFetches == {GetAdapters(list) : list \in MCInterfaceLists}
=============================================================================
