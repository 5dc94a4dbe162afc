---------------------------- MODULE PacketCodec ----------------------------
(***************************************************************************)
(* How message lists become bytes and bytes message lists: packet_codec_t, *)
(* the codecs of the messages and of their header, and the buffer_t they   *)
(* write to and read from.  Bytes are numbers below 256, the most          *)
(* significant first, as native_to_network leaves them in the buffer.      *)
(*                                                                         *)
(* Of MD5 only the number that ends up in a packet matters: Digest.        *)
(***************************************************************************)
EXTENDS Integers, Sequences, SequencesExt

CONSTANTS
    Digest(_),    \* bytes -> the number of four bytes at the end of their MD5
    BufferSize    \* what a packet is encoded into: 4096 bytes

UINT16_MAX == 65535

\* A packet is sent as one datagram.
ASSUME BufferSizeAssumption == BufferSize \in 0 .. UINT16_MAX

DiscoveryType == 1
DataType == 2

SizeFieldSize == 4
ChecksumSize == 4
PacketHeaderSize == 10      \* size, message count and checksum
MessageHeaderSize == 6      \* size and type

-----------------------------------------------------------------------------
(* A number in so many bytes, and the number some bytes stand for.         *)
PlaceValues == <<1, 256, 65536, 16777216>>
Bytes(n, width) == [i \in 1 .. width |-> (n \div PlaceValues[width + 1 - i]) % 256]

Value(bytes) ==
    LET upTo[i \in 0 .. Len(bytes)] == IF i = 0 THEN 0 ELSE 256 * upTo[i - 1] + bytes[i]
    IN upTo[Len(bytes)]

(* buffer_t::append writes all of a field or none of it; what has been     *)
(* written is the buffer.                                                  *)
Put(buffer, field) == IF Len(field) > BufferSize - Len(buffer) THEN buffer ELSE buffer \o field

PutAll(buffer, fields) ==
    LET after[i \in 0 .. Len(fields)] ==
          IF i = 0 THEN buffer ELSE Put(after[i - 1], fields[i])
    IN after[Len(fields)]

-----------------------------------------------------------------------------
(* A discovery message has an identifier and nodes, each with its          *)
(* identifier, address and jumps; a data message has an identifier and     *)
(* data.  A message of a type that is not known is one of another program. *)
Byte   == 0 .. 255
Uint16 == 0 .. UINT16_MAX
Uint32 == {n \in Nat : n \div 65536 \in Uint16}

Nodes == [id: Uint16, address: Uint32, jumps: Seq(Uint16)]
DiscoveryMessages == [type: {DiscoveryType}, id: Uint16, nodes: Seq(Nodes)]
DataMessages == [type: Uint16 \ {DiscoveryType}, id: Uint16, data: Seq(Byte)]
MessageLists == Seq(DiscoveryMessages \cup DataMessages)

IsUnderstood(list) == \A i \in DOMAIN list : list[i].type \in {DiscoveryType, DataType}

-----------------------------------------------------------------------------
(* The codecs of a message.                                                *)
Sum(f) == LET upTo[i \in 0 .. Len(f)] == IF i = 0 THEN 0 ELSE upTo[i - 1] + f[i] IN upTo[Len(f)]

DiscoverySize_NoJumps(m) == MessageHeaderSize + 4 + 8 * Len(m.nodes)
DiscoverySize(m) ==
    MessageHeaderSize + 4 + Sum([i \in DOMAIN m.nodes |-> 8 + 2 * Len(m.nodes[i].jumps)])

DataSize(m) == MessageHeaderSize + 4 + Len(m.data)

EncodedSize(m) == IF m.type = DiscoveryType THEN DiscoverySize(m) ELSE DataSize(m)

HeaderFields(m) == <<Bytes(EncodedSize(m), 4), Bytes(m.type, 2)>>

NodeFields(node) ==
    <<Bytes(node.id, 2), Bytes(node.address, 4), Bytes(Len(node.jumps), 2)>>
        \o [j \in DOMAIN node.jumps |-> Bytes(node.jumps[j], 2)]

DiscoveryFields(m) ==
    HeaderFields(m) \o <<Bytes(m.id, 2), Bytes(Len(m.nodes), 2)>>
        \o FlattenSeq([i \in DOMAIN m.nodes |-> NodeFields(m.nodes[i])])

DataFields(m) == HeaderFields(m) \o <<Bytes(m.id, 2), Bytes(Len(m.data), 2), m.data>>

Fields(m) == IF m.type = DiscoveryType THEN DiscoveryFields(m) ELSE DataFields(m)

(* packet_codec_t::encode into an empty buffer, of which it writes nothing *)
(* when the packet does not fit.                                           *)
TotalSize(list) == PacketHeaderSize + Sum([i \in DOMAIN list |-> EncodedSize(list[i])])

Fits(list) == TotalSize(list) <= BufferSize

Encode(list) ==
    IF ~Fits(list) THEN << >>
    ELSE LET content == PutAll(<< >>,
                            <<Bytes(TotalSize(list), 4), Bytes(Len(list), 2)>>
                              \o FlattenSeq([i \in DOMAIN list |-> Fields(list[i])]))
         IN  Put(content, Bytes(Digest(content), ChecksumSize))

-----------------------------------------------------------------------------
(* buffer_t is read at an offset.  A number that is not there in full is   *)
(* zero and the offset stays; so does a read_buffer that does not leave a  *)
(* byte behind it, which in a packet is always the checksum.               *)
Reader(bytes) == [bytes |-> bytes, at |-> 0, value |-> 0, ok |-> TRUE]
Left(r) == Len(r.bytes) - r.at
NextBytes(r, n) == SubSeq(r.bytes, r.at + 1, r.at + n)
Read(r, value, n) == [r EXCEPT !.value = value, !.at = @ + n]

ReadInt(r, width) ==
    IF Left(r) >= width THEN Read(r, Value(NextBytes(r, width)), width) ELSE Read(r, 0, 0)

ReadBuffer(r, n) ==
    IF n >= 0 /\ Left(r) > n THEN Read(r, NextBytes(r, n), n) ELSE Read(r, << >>, 0)

(* validate_packet.  size - s_checksum_size wraps around below zero, which *)
(* makes read_buffer fail.                                                 *)
IsValid_SizeOnly(bytes) ==
    /\ Len(bytes) >= SizeFieldSize
    /\ Len(bytes) >= Value(SubSeq(bytes, 1, SizeFieldSize))
IsValid(bytes) ==
    /\ Len(bytes) >= SizeFieldSize
    /\ LET size == ReadInt(Reader(bytes), SizeFieldSize).value
           message == ReadBuffer(Reader(bytes), size - ChecksumSize)
       IN  /\ Len(bytes) >= size
           /\ NextBytes(message, ChecksumSize) = Bytes(Digest(message.value), ChecksumSize)

(* Items that are read one after another: their values.                    *)
ReadSeq(r, n, Item(_, _)) ==
    LET read[i \in 0 .. n] ==
          IF i = 0 THEN Read(r, << >>, 0)
          ELSE LET item == Item(read[i - 1], i)
               IN  Read(item, Append(read[i - 1].value, item.value), 0)
    IN read[n]
ReadInts(r, widths) == ReadSeq(r, Len(widths), LAMBDA s, i : ReadInt(s, widths[i]))

(* The decode of a message leaves it as the value of the reader; a node    *)
(* that is not there in full is read as zeros.                             *)
Fail(r) == [r EXCEPT !.ok = FALSE]

ReadNode(r) ==
    LET head == ReadInts(r, <<2, 4, 2>>)
        jumps == ReadInts(head, [j \in 1 .. head.value[3] |-> 2])
    IN  Read(jumps, [id |-> head.value[1], address |-> head.value[2], jumps |-> jumps.value], 0)

ReadNodes(r, n) == ReadSeq(r, n, LAMBDA s, i : ReadNode(s))

ReadDiscovery(r) ==
    LET head == ReadInts(r, <<2, 2>>)
        nodes == ReadNodes(head, head.value[2])
    IN  IF Left(r) < 4 THEN Fail(r)
        ELSE Read(nodes, [type |-> DiscoveryType, id |-> head.value[1], nodes |-> nodes.value], 0)

ReadData(r) ==
    LET head == ReadInts(r, <<2, 2>>)
        data == ReadBuffer(head, head.value[2])
    IN  IF Left(r) < 4 THEN Fail(r)
        ELSE Read(data, [type |-> DataType, id |-> head.value[1], data |-> data.value], 0)

ReadMessage(r) ==
    LET header == ReadInts(r, <<4, 2>>)
        type == header.value[2]
    IN  CASE Left(r) < MessageHeaderSize -> Fail(r)
          [] Left(r) >= MessageHeaderSize /\ type = DiscoveryType -> ReadDiscovery(header)
          [] Left(r) >= MessageHeaderSize /\ type = DataType -> ReadData(header)
          [] OTHER -> Fail(header)

ReadMessages(r, n) == ReadSeq(r, n, LAMBDA s, i : IF s.ok THEN ReadMessage(s) ELSE s)

(* packet_codec_t::decode: whether it succeeds, the messages, and how many *)
(* bytes it has read when it returns.                                      *)
Decode(bytes) ==
    LET head == ReadInts(Reader(bytes), <<4, 2>>)
        messages == ReadMessages(head, head.value[2])
    IN  IF ~IsValid(bytes) THEN [ok |-> FALSE, list |-> << >>, read |-> 0]
        ELSE IF ~messages.ok THEN [ok |-> FALSE, list |-> << >>, read |-> messages.at]
        ELSE [ok |-> TRUE, list |-> messages.value,
              read |-> ReadInt(messages, ChecksumSize).at]
=============================================================================
