---------------------------- MODULE Configuration ----------------------------
(***************************************************************************)
(* get_configuration (discnet/src/application/configuration.cpp): what the *)
(* daemon makes of its command line.  Each option comes with the values it *)
(* was given; an address is one of a multicast group, another one, or no   *)
(* IPv4 address.                                                           *)
(***************************************************************************)
EXTENDS Integers, Sequences

AddressKinds == {"group", "other", "malformed"}

Arguments == [count: Nat, known: BOOLEAN, help: BOOLEAN,
              node_id: Seq(Int), address: Seq(AddressKinds), port: Seq(Int)]

Given(values) == values # << >>
Value(values) == Head(values)

(* A number for a 16-bit option is read by lexical_cast, which takes a     *)
(* negative one modulo 2^16.                                               *)
MaxUInt16 == 65535
Readable(v) == v \in -MaxUInt16 .. MaxUInt16
AsUInt16(v) == v % (MaxUInt16 + 1)

Repeated(values) == Len(values) > 1

(* parse_command_line: options it knows, none given twice, all readable.   *)
Parses(arguments) ==
    /\ arguments.known
    /\ ~Repeated(arguments.node_id)
    /\ ~Repeated(arguments.address)
    /\ ~Repeated(arguments.port)
    /\ \A i \in DOMAIN arguments.node_id : Readable(arguments.node_id[i])
    /\ \A i \in DOMAIN arguments.port : Readable(arguments.port[i])

Accepts(arguments) ==
    /\ arguments.count > 1
    /\ Parses(arguments)
    /\ ~arguments.help
    /\ Given(arguments.node_id) /\ AsUInt16(Value(arguments.node_id)) > 0
    /\ Given(arguments.address) /\ Value(arguments.address) # "malformed"
    /\ Given(arguments.port) /\ AsUInt16(Value(arguments.port)) > 0

GetConfiguration(arguments) ==
    [m_node_id           |-> AsUInt16(Value(arguments.node_id)),
     m_multicast_address |-> Value(arguments.address),
     m_multicast_port    |-> AsUInt16(Value(arguments.port))]

Configurations == [m_node_id: 1 .. MaxUInt16, m_multicast_address: {"group", "other"},
                   m_multicast_port: 1 .. MaxUInt16]
=============================================================================
