---------------------------- MODULE MCDataHandler ----------------------------
(***************************************************************************)
(* Small instances of DataHandler with the code's own sizes: the buffer of *)
(* a stream holds 4095 bytes, a header has 10, and a packet may be as long *)
(* as the 4096 bytes network_handler encodes it into.                      *)
(***************************************************************************)
EXTENDS DataHandler

Datagram(name, kind, len, declared) ==
    [name |-> name, kind |-> kind, len |-> len, declared |-> declared]

Small   == Datagram("small", "packet", 40, 40)
Large   == Datagram("large", "packet", 2500, 2500)
Full    == Datagram("full", "packet", 4096, 4096)
Foreign == Datagram("foreign", "foreign", 16, 16)
FirstHalf  == Datagram("split", "head", 20, 40)
SecondHalf == Datagram("split", "tail", 20, 50)
Other   == Datagram("other", "other", 30, 20)

Whole == {Small, Large, Full}
Mixed == {Small, Large, Foreign, FirstHalf, SecondHalf, Other}
=============================================================================
