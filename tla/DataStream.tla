----------------------------- MODULE DataStream -----------------------------
(***************************************************************************)
(* One sender, one data_stream of a receiver, byte by byte: network_handler*)
(* encodes message lists into datagrams, which arrive whole, cut in two,   *)
(* or with a byte changed; data_stream keeps the bytes and decodes them.   *)
(*                                                                         *)
(* DataHandler keeps the same buffer as segments.  `segments' follows its  *)
(* rules, so that the two can be compared.                                 *)
(***************************************************************************)
EXTENDS PacketCodec

CONSTANTS
    Lists,        \* the message lists that are transmitted
    Cut,          \* where a datagram may be cut
    Flaws,        \* positions of bytes that may be changed on the way
    Capacity,     \* what a new buffer holds
    MaxPending    \* bound: segments that may wait

ASSUME ListsTyped == Lists \subseteq MessageLists

\* A packet that is not understood begins with a message of an unknown type, as in DataHandler.
ASSUME UnknownComesFirst ==
    \A list \in Lists : IsUnderstood(list) \/ list[1].type \notin {DiscoveryType, DataType}

\* True of MD5, which makes d41d8cd98f00b204e9800998ecf8427e of no bytes.
ASSUME EmptyDigest == Bytes(Digest(<< >>), ChecksumSize) # [i \in 1 .. ChecksumSize |-> 0]

VARIABLES
    sent,       \* the list that was transmitted last
    wire,       \* the datagram made of it
    m_buffer,   \* the bytes in the stream
    capacity,   \* what it holds without growing
    returned,   \* the lists the last process() returned
    segments    \* history: the buffer as DataHandler sees it, with the lists the bytes are of

vars == <<sent, wire, m_buffer, capacity, returned, segments>>

TypeOK ==
    /\ sent \in Lists
    /\ wire \in Seq(Byte) /\ Len(wire) <= BufferSize
    /\ m_buffer \in Seq(Byte) /\ Len(m_buffer) <= capacity
    /\ returned \in Seq(Lists)

D == INSTANCE DataHandler
     WITH Senders <- {"sender"}, HeaderSize <- PacketHeaderSize,
          ReadSize <- SizeFieldSize + 2 + MessageHeaderSize,
          Datagrams <- {}, m_streams <- [s \in {"sender"} |-> segments],
          capacity <- [s \in {"sender"} |-> capacity],
          returned <- << >>, owed <- << >>, spoiled <- {}

-----------------------------------------------------------------------------
(* network_handler::transmit_multicast writes the buffer also when encode  *)
(* has failed and left it empty.                                           *)
Transmit(list) ==
    /\ sent' = list
    /\ wire' = Encode(list)
    /\ UNCHANGED <<m_buffer, capacity, returned, segments>>

(* data_stream::handle_receive, of some bytes that are such a segment.     *)
Grown_DropsOld(bytes) ==
    IF Len(m_buffer) + Len(bytes) > capacity
    THEN [i \in 1 .. 2 * (Len(m_buffer) + Len(bytes)) |-> 0] ELSE m_buffer
Grown(bytes) ==
    IF Len(m_buffer) + Len(bytes) > capacity
    THEN [i \in 1 .. 2 * (Len(m_buffer) + Len(bytes)) |-> 0] \o m_buffer ELSE m_buffer

Declared(bytes) == IF Len(bytes) < SizeFieldSize THEN 0 ELSE Value(SubSeq(bytes, 1, SizeFieldSize))

HandleReceive(kind, bytes) ==
    /\ Len(segments) < MaxPending /\ bytes # << >>
    /\ m_buffer' = Grown(bytes) \o bytes
    /\ LET segment == [name |-> sent, kind |-> kind, len |-> Len(bytes),
                       declared |-> Declared(bytes)]
       IN  segments' = D!Buffered("sender", segment)
    /\ capacity' = IF Len(m_buffer') > capacity THEN Len(m_buffer') ELSE capacity
    /\ UNCHANGED <<sent, wire, returned>>

Kind(list) ==
    IF list # << >> /\ list[1].type \notin {DiscoveryType, DataType} THEN "foreign" ELSE "packet"

Arrive == HandleReceive(Kind(sent), wire)
ArriveHead == Kind(sent) = "packet" /\ Len(wire) > Cut /\ HandleReceive("head", SubSeq(wire, 1, Cut))
ArriveTail == Kind(sent) = "packet" /\ Len(wire) > Cut
              /\ HandleReceive("tail", SubSeq(wire, Cut + 1, Len(wire)))
ArriveDamaged(i) ==
    /\ i \in DOMAIN wire
    /\ HandleReceive("other", [wire EXCEPT ![i] = (@ + 1) % 256])

-----------------------------------------------------------------------------
(* data_stream::process.  A turn of its loop takes a packet off the       *)
(* buffer, or is the last: each packet has at least a header.              *)
Taken(loop, packet) ==
    IF packet.ok
    THEN [loop EXCEPT !.bytes = SubSeq(@, packet.read + 1, Len(@)),
                      !.lists = Append(@, packet.list)]
    ELSE LET left == Len(loop.bytes) - packet.read
         IN  [loop EXCEPT !.bytes = IF packet.read = 0 THEN << >> ELSE [i \in 1 .. left |-> 0],
                          !.more = FALSE]

Turn(loop) ==
    IF ~loop.more THEN loop
    ELSE IF Len(loop.bytes) < PacketHeaderSize \/ Len(loop.bytes) < Declared(loop.bytes)
    THEN [loop EXCEPT !.more = FALSE]
    ELSE Taken(loop, Decode(loop.bytes))

Turns(bytes) ==
    LET last == 1 + Len(bytes) \div PacketHeaderSize
        after[k \in 0 .. last] ==
          IF k = 0 THEN [bytes |-> bytes, lists |-> << >>, more |-> TRUE]
          ELSE Turn(after[k - 1])
    IN after[last]

Process ==
    /\ LET loop == Turns(m_buffer)
       IN  returned' = loop.lists /\ m_buffer' = loop.bytes
    /\ segments' = D!Outcome(segments).rest
    /\ UNCHANGED <<sent, wire, capacity>>

Init ==
    /\ sent \in Lists
    /\ wire = Encode(sent)
    /\ m_buffer = << >>
    /\ capacity = Capacity
    /\ returned = << >>
    /\ segments = << >>

Next ==
    \/ \E list \in Lists : Transmit(list)
    \/ Arrive \/ ArriveHead \/ ArriveTail
    \/ \E i \in Flaws : ArriveDamaged(i)
    \/ Process

Spec == Init /\ [][Next]_vars

-----------------------------------------------------------------------------
(* What is written to the socket is nothing, when the list needs more than *)
(* the buffer has, or a packet that is decoded to the very list that was   *)
(* handed over and takes up all of the datagram, if its types are known.   *)
NeededSize(list) ==
    Len(FlattenSeq(FlattenSeq([i \in DOMAIN list |-> Fields(list[i])]))) + PacketHeaderSize

WrittenWholeOrNot ==
    IF NeededSize(sent) > BufferSize THEN wire = << >>
    ELSE IsUnderstood(sent) => Decode(wire) = [ok |-> TRUE, list |-> sent, read |-> Len(wire)]

(* The lists a call returns are those whose packets DataHandler finds in   *)
(* the buffer, with every field of every message as it was sent: nothing   *)
(* that was damaged or cut gets through, and nothing whole gets lost that  *)
(* DataHandler returns.                                                    *)
ReturnsWhatWasSent == [][Process => returned' = D!Outcome(segments).packets]_vars

(* The bytes are those of DataHandler's segments: zeros where it has       *)
(* zeros, and as many bytes as it counts.                                  *)
Offset(i) == Len(m_buffer) - D!BytesFrom(segments, i)
SegmentsAreExact ==
    /\ Len(m_buffer) = D!Bytes(segments)
    /\ \A i \in DOMAIN segments :
          LET bytes == SubSeq(m_buffer, Offset(i) + 1, Offset(i) + segments[i].len)
          IN  CASE segments[i].kind = "packet" -> bytes = Encode(segments[i].name)
                [] segments[i].kind = "zeros" -> \A j \in DOMAIN bytes : bytes[j] = 0
                [] OTHER -> Declared(bytes) = segments[i].declared
=============================================================================
