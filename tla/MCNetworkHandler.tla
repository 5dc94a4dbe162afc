-------------------------- MODULE MCNetworkHandler --------------------------
(***************************************************************************)
(* Small instances of NetworkHandler: a host with two network cards.  The  *)
(* first is unplugged, disabled, loses its address and gets another one;   *)
(* the second comes and goes.                                              *)
(***************************************************************************)
EXTENDS TransmissionHandler

MCMacs == {1, 2}
MCAddresses == {"a", "b", "c"}
MCRest == {"r"}

Adapter(enabled, addresses) ==
    [enabled |-> enabled, loopback |-> FALSE, addresses |-> addresses, rest |-> "r"]
Card1(enabled, addresses) == [mac |-> 1, adapter |-> Adapter(enabled, addresses)]
Card2 == [mac |-> 2, adapter |-> Adapter(TRUE, <<"c">>)]

MCFetches ==
    {<< >>,
     <<Card1(TRUE, <<"a">>)>>,
     <<Card1(TRUE, <<"b">>), Card2>>,
     <<Card1(FALSE, <<"a">>)>>,
     <<Card1(TRUE, << >>), Card2>>}

(* Command lines: one that is right, one whose address is no multicast     *)
(* group and whose node id is negative, and some that are refused.         *)
Right == [count |-> 7, known |-> TRUE, help |-> FALSE,
          node_id |-> <<1024>>, address |-> <<"group">>, port |-> <<1337>>]
MCCommandLines ==
    {Right,
     [Right EXCEPT !.node_id = <<-1>>, !.address = <<"other">>],
     [Right EXCEPT !.node_id = <<0>>], [Right EXCEPT !.port = <<65536>>],
     [Right EXCEPT !.node_id = <<1, 2>>], [Right EXCEPT !.address = <<"malformed">>],
     [Right EXCEPT !.address = << >>], [Right EXCEPT !.help = TRUE],
     [Right EXCEPT !.known = FALSE], [Right EXCEPT !.count = 1]}
MCRightOnly == {Right}
=============================================================================
