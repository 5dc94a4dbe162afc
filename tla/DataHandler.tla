----------------------------- MODULE DataHandler -----------------------------
(***************************************************************************)
(* data_handler and data_stream (discnet/src/network): the datagrams that  *)
(* arrive on the asio thread are appended to one byte buffer per sender,   *)
(* from which the main thread decodes packets.  Both sides hold the mutex  *)
(* of the handler for the whole of their operation.                        *)
(*                                                                         *)
(* A buffer is kept as the sequence of segments it is made of, with their  *)
(* lengths: datagrams, and bytes that are zero.  What decides is the size  *)
(* the first four bytes declare and whether the checksum behind so many    *)
(* bytes is right, which it is for whole packets only:                     *)
(*   packet    one whole packet, as packet_codec_t::encode makes it        *)
(*   foreign   a whole packet with a message decode does not understand    *)
(*   head      the first part of a packet; tail, the second part           *)
(*   other     bytes that are no packet                                    *)
(*   zeros     what the buffer itself has put in                           *)
(* Whatever begins with zero bytes declares a size that fails to decode.   *)
(***************************************************************************)
EXTENDS Integers, Sequences, SequencesExt, Functions

CONSTANTS
    Senders,      \* the addresses datagrams come from
    Datagrams,    \* those that may arrive, as segments
    Capacity,     \* what a new buffer holds: 4095 bytes
    HeaderSize,   \* s_header_size: no packet is shorter
    ReadSize,     \* the packet and message header decode has read when it meets an unknown type
    MaxPending    \* bound: segments that may wait in a buffer

Kinds == {"packet", "foreign", "head", "tail", "other"}
Segments == [name: STRING, kind: Kinds, len: Nat, declared: Nat]
ZeroBytes == [kind: {"zeros"}, len: Nat, declared: {0}]

ASSUME DatagramsTyped ==
    /\ Datagrams \subseteq Segments
    /\ \A d \in Datagrams : d.kind \in {"packet", "foreign"} =>
                               d.len = d.declared /\ d.len >= HeaderSize
    /\ \A d \in Datagrams : d.kind = "foreign" => d.len > ReadSize
    /\ \A h, t \in Datagrams : h.kind = "head" /\ t.kind = "tail" /\ h.name = t.name =>
                                  h.len + t.len = h.declared /\ h.declared >= HeaderSize
ASSUME SizesAssumption ==
    Capacity \in Nat /\ HeaderSize \in Nat /\ ReadSize \in Nat
    /\ MaxPending \in Nat

VARIABLES
    m_streams,   \* sender -> the segments in its buffer; a sender is added when first heard
    capacity,    \* sender -> what its buffer holds without growing
    returned,    \* sender -> the packets the last process() returned for it
    owed,        \* history: the packets whose last byte arrived since the last process()
    spoiled      \* history: senders whose stream has held more than whole packets

vars == <<m_streams, capacity, returned, owed, spoiled>>

Known == DOMAIN m_streams

TypeOK ==
    /\ Known \subseteq Senders
    /\ m_streams \in [Known -> Seq(Segments \cup ZeroBytes)]
    /\ capacity \in [Known -> Nat]
    /\ returned \in [Senders -> Seq(STRING)]
    /\ owed \in [Senders -> Seq(STRING)]
    /\ spoiled \subseteq Senders

-----------------------------------------------------------------------------
(* The bytes of the segments from the i-th on.                             *)
BytesFrom(segments, i) ==
    LET bytes[j \in 1 .. Len(segments) + 1] ==
          IF j > Len(segments) THEN 0 ELSE segments[j].len + bytes[j + 1]
    IN bytes[i]
Bytes(segments) == BytesFrom(segments, 1)

Zeros(n) == IF n = 0 THEN << >>
            ELSE <<[kind |-> "zeros", len |-> n, declared |-> 0]>>

(* data_stream::handle_receive.  A buffer that is too small is replaced by *)
(* one that begins with twice as many zero bytes as it should hold, before *)
(* what was in it.                                                         *)
Room(sender) == IF sender \in Known THEN capacity[sender] ELSE Capacity
Waiting(sender) == IF sender \in Known THEN m_streams[sender] ELSE << >>
Overflows(sender, d) == Bytes(Waiting(sender)) + d.len > Room(sender)

Buffered(sender, d) ==
    IF Overflows(sender, d)
    THEN Zeros(2 * (Bytes(Waiting(sender)) + d.len)) \o Append(Waiting(sender), d)
    ELSE Append(Waiting(sender), d)

Grows_Never(sender, n) == Room(sender)
Grows(sender, n) == IF n > Room(sender) THEN n ELSE Room(sender)

HandleReceive(sender, d) ==
    /\ Len(Waiting(sender)) < MaxPending
    /\ m_streams' = [s \in Known \cup {sender} |->
                        IF s = sender THEN Buffered(sender, d) ELSE m_streams[s]]
    /\ capacity' = [s \in Known \cup {sender} |->
                        IF s = sender THEN Grows(sender, Bytes(Buffered(sender, d)))
                        ELSE capacity[s]]
    /\ owed' = [owed EXCEPT ![sender] = IF d.kind \in {"packet", "tail"} THEN Append(@, d.name) ELSE @]
    /\ spoiled' = IF d.kind # "packet" \/ Overflows(sender, d)
                  THEN spoiled \cup {sender} ELSE spoiled
    /\ UNCHANGED returned

-----------------------------------------------------------------------------
(* data_stream::process, from the i-th segment on: the packets it returns  *)
(* and what it leaves in the buffer.  When decode fails in the checksum,   *)
(* the buffer is cleared; when it fails later, having read some bytes, the *)
(* buffer is cleared and then resized to the number of bytes not read.     *)
IsIncomplete(segments, i) ==
    \/ BytesFrom(segments, i) < HeaderSize
    \/ BytesFrom(segments, i) < segments[i].declared

IsWhole(segments, i) == segments[i].kind = "packet"
IsSplit(segments, i) ==
    /\ segments[i].kind = "head" /\ i < Len(segments)
    /\ segments[i + 1].kind = "tail" /\ segments[i + 1].name = segments[i].name

AfterFailure_SkipsHeader(segments, i) ==
    IF segments[i].kind = "foreign"
    THEN Zeros(BytesFrom(segments, i) - ReadSize - HeaderSize) ELSE << >>
AfterFailure(segments, i) ==
    IF segments[i].kind = "foreign" THEN Zeros(BytesFrom(segments, i) - ReadSize) ELSE << >>

Outcome_OnePacket(segments) ==
    CASE segments = << >> \/ IsIncomplete(segments, 1) -> [packets |-> << >>, rest |-> segments]
      [] segments # << >> /\ IsWhole(segments, 1) ->
           [packets |-> <<segments[1].name>>, rest |-> << >>]
      [] OTHER -> [packets |-> << >>, rest |-> << >>]

Outcome_OneAtATime(segments) ==
    CASE segments = << >> \/ IsIncomplete(segments, 1) -> [packets |-> << >>, rest |-> segments]
      [] segments # << >> /\ IsWhole(segments, 1) ->
           [packets |-> <<segments[1].name>>, rest |-> Tail(segments)]
      [] OTHER -> [packets |-> << >>, rest |-> << >>]

Outcome_LeavesRead(segments) ==
    IF segments # << >> /\ IsWhole(segments, 1)
    THEN [packets |-> <<segments[1].name>>, rest |-> segments]
    ELSE [packets |-> << >>, rest |-> << >>]

\* At the i-th segment, when `from' says what follows from each later one.
Proceeds(from, segments, i) ==
    CASE i > Len(segments) -> [packets |-> << >>, rest |-> << >>]
      [] i <= Len(segments) /\ IsIncomplete(segments, i) ->
           [packets |-> << >>, rest |-> SubSeq(segments, i, Len(segments))]
      [] i <= Len(segments) /\ ~IsIncomplete(segments, i) ->
           IF IsWhole(segments, i) \/ IsSplit(segments, i)
           THEN LET next == from[IF IsSplit(segments, i) THEN i + 2 ELSE i + 1]
                IN  [next EXCEPT !.packets = <<segments[i].name>> \o @]
           ELSE [packets |-> << >>, rest |-> AfterFailure(segments, i)]

Outcome(segments) ==
    LET from[i \in 1 .. Len(segments) + 1] == Proceeds(from, segments, i) IN from[1]

(* data_handler::process, for every stream.                                *)
Process ==
    /\ returned' = [s \in Senders |->
                       IF s \in Known THEN Outcome(m_streams[s]).packets ELSE << >>]
    /\ m_streams' = [s \in Known |-> Outcome(m_streams[s]).rest]
    /\ owed' = [s \in Senders |-> << >>]
    /\ spoiled' = {s \in spoiled : m_streams'[s] # << >>}
    /\ UNCHANGED capacity

-----------------------------------------------------------------------------
Init ==
    /\ m_streams = [s \in {} |-> << >>]
    /\ capacity = [s \in {} |-> 0]
    /\ returned = [s \in Senders |-> << >>]
    /\ owed = [s \in Senders |-> << >>]
    /\ spoiled = {}

Next ==
    \/ \E sender \in Senders, d \in Datagrams : HandleReceive(sender, d)
    \/ Process

Spec == Init /\ [][Next]_vars

ReceivesPacket(sender) ==
    \E d \in Datagrams : d.kind = "packet" /\ HandleReceive(sender, d)

(* The main loop never stops; each sender sends packets again and again.   *)
FairSpec == Spec /\ WF_vars(Process) /\ \A s \in Senders : WF_vars(ReceivesPacket(s))

-----------------------------------------------------------------------------
(* A stream that has held nothing but whole packets since it was last      *)
(* empty, and has not overflowed, returns exactly the packets that arrived *)
(* since the last call, each once and in the order they arrived.           *)
CleanStreamsDeliver ==
    [][Process => \A s \in Senders \ spoiled : returned'[s] = owed[s]]_vars

(* No packet is invented, returned twice or out of order: what a call      *)
(* returns for a sender is, in order, part of what that sender's datagrams *)
(* completed since the last call.                                          *)
IsPartOf(s, t) ==
    \E f \in [DOMAIN s -> DOMAIN t] :
        /\ \A i \in DOMAIN s : s[i] = t[f[i]]
        /\ \A i, j \in DOMAIN s : i < j => f[i] < f[j]
NothingInvented ==
    [][Process => \A s \in Known : IsPartOf(returned'[s], owed[s])]_vars

(* What a call leaves in a buffer waits for bytes that are to come: it is  *)
(* the beginning of a longer packet, or too short for any.  Otherwise the  *)
(* next call would find what this one could have found.                    *)
LeftoversAreIncomplete ==
    [][Process => \A s \in Known :
          m_streams'[s] # << >> =>
             \/ IsIncomplete(m_streams'[s], 1)
             \/ \E i \in DOMAIN m_streams[s] : m_streams[s][i].kind = "foreign"]_vars

(* A stream recovers: when only whole packets arrive from some time on,    *)
(* packets are returned again and again, whatever was in the buffer and    *)
(* however often it was too small.                                         *)
Recovers ==
    <>[][\A s \in Senders, d \in Datagrams : d.kind # "packet" => ~HandleReceive(s, d)]_vars
        => \A s \in Senders : []<>(returned[s] # << >>)

-----------------------------------------------------------------------------
(* What a test says: data_stream_test.cpp, multiple_packets, receives two  *)
(* packets, calls process() and finds two ("ASSERT_EQ(packets.size(), 2)").*)
(* As long as only whole packets arrive, a call returns all of them.       *)
PacketsAreReturned ==
    [][Process /\ (\A s \in Known : \A i \in DOMAIN m_streams[s] :
                      m_streams[s][i].kind \in {"packet", "zeros"})
         => \A s \in Known : Len(returned'[s]) = Len(owed[s])]_vars
=============================================================================
