---------------------------- MODULE MCDataStream ----------------------------
(***************************************************************************)
(* A small instance of DataStream: one list of each kind, in a buffer of   *)
(* 64 bytes into which one of them does not fit, and a digest that differs *)
(* when a byte does.                                                       *)
(***************************************************************************)
EXTENDS DataStream

MCDigest(bytes) ==
    LET upTo[i \in 0 .. Len(bytes)] ==
          IF i = 0 THEN 7 ELSE (31 * upTo[i - 1] + bytes[i] + 1) % 65521
    IN 65536 * (upTo[Len(bytes)] % 251) + upTo[Len(bytes)]

Node(id, address, jumps) == [id |-> id, address |-> address, jumps |-> jumps]
Discovery(id, nodes) == [type |-> 1, id |-> id, nodes |-> nodes]
Data(id, data) == [type |-> 2, id |-> id, data |-> data]
Command(id) == [type |-> 3, id |-> id, data |-> << >>]

Hello   == <<Discovery(300, << >>)>>
Routes  == <<Discovery(65535, <<Node(7, 167772161, <<2, 513>>), Node(8, 3, << >>)>>),
             Data(5, <<0, 255, 9>>)>>
Crowd   == <<Discovery(1, [i \in 1 .. 6 |-> Node(i, i, << >>)])>>
Unknown == <<Command(4), Data(5, <<1>>)>>

MCLists == {<< >>, Hello, Routes, Crowd, Unknown}
=============================================================================
