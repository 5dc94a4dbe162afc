----------------------------- MODULE UdpClient -----------------------------
(***************************************************************************)
(* One udp_client from the thread that opens it to its end: the receive    *)
(* operations on its socket, their handlers, which the worker threads of   *)
(* asio_context run, and the main thread that lists, uses and removes it.  *)
(* A client has one receive buffer, which asio fills and handle_read       *)
(* reads.                                                                  *)
(*                                                                         *)
(* The first receive keeps the client alive (shared_from_this); the later  *)
(* ones hold a bare pointer.  A handler that runs on a destroyed client is *)
(* undefined behaviour: `dangling' says so, and nothing is said of what    *)
(* follows.  close() may run beside the call that receives again: the one  *)
(* or the other comes first.                                               *)
(***************************************************************************)
EXTENDS Integers, Sequences

CONSTANTS
    Workers,       \* the threads of asio_context: mercury and venus
    MaxDatagrams,  \* bound: datagrams that arrive
    MaxWrites      \* bound: writes that are under way

ASSUME BoundsAssumption == MaxDatagrams \in Nat /\ MaxWrites \in Nat

VARIABLES
    owner,       \* who holds the client
    socket,      \* of m_socket
    arrived,     \* the number of datagrams the socket was given: the n-th is n
    queue,       \* those it keeps
    receives,    \* the receive operations under way, by what holds the client for them
    m_rcv_buffer,
    ready,       \* completions for which a worker is to run handle_read
    workers,     \* what each thread does
    writes,      \* write operations under way; each holds the client
    delivered,   \* what the data handler was given
    failed,      \* history: a receive failed while the client was in use
    dangling     \* history: a handler ran on a destroyed client

vars == <<owner, socket, arrived, queue, receives, m_rcv_buffer, ready, workers,
          writes, delivered, failed, dangling>>

Holds == {"shared", "bare"}
Results == {"data", "operation_aborted", "connection_aborted", "error"}
Completions == [result : Results, by : Holds]
Idle == [at |-> "idle"]
Tasks == {Idle} \cup [at : {"handle", "again"}, result : Results, by : Holds]

TypeOK ==
    /\ owner \in {"opening", "opened", "listed", "none"}
    /\ socket \in {"open", "closed"}
    /\ arrived \in 0 .. MaxDatagrams
    /\ queue \in Seq(1 .. arrived)
    /\ receives \in Seq(Holds)
    /\ m_rcv_buffer \in 0 .. arrived
    /\ ready \in Seq(Completions)
    /\ workers \in [Workers -> Tasks]
    /\ writes \in 0 .. MaxWrites
    /\ delivered \in Seq(0 .. arrived)
    /\ failed \in BOOLEAN /\ dangling \in BOOLEAN
    /\ socket = "closed" => queue = << >> /\ receives = << >>

IsAlive ==
    \/ owner # "none" \/ writes > 0
    \/ \E i \in DOMAIN receives : receives[i] = "shared"
    \/ \E i \in DOMAIN ready : ready[i].by = "shared"
    \/ \E w \in Workers : workers[w] # Idle /\ workers[w].by = "shared"

-----------------------------------------------------------------------------
(* process_adapter tries to open the client, which receives at once, and   *)
(* gives it up after 15 seconds.                                           *)
FirstHold_Bare == "bare"
FirstHold == "shared"

Open ==
    /\ owner = "opening"
    /\ owner' = "opened"
    /\ socket' = "open"
    /\ receives' = Append(receives, FirstHold)
    /\ UNCHANGED <<arrived, queue, m_rcv_buffer, ready, workers, writes, delivered, failed, dangling>>

GiveUp ==
    /\ owner = "opening"
    /\ owner' = "none"
    /\ UNCHANGED <<socket, arrived, queue, receives, m_rcv_buffer, ready, workers, writes,
                   delivered, failed, dangling>>

-----------------------------------------------------------------------------
(* The main thread.  What close() cancels is completed with an error.      *)
List ==
    /\ owner = "opened"
    /\ owner' = "listed"
    /\ UNCHANGED <<socket, arrived, queue, receives, m_rcv_buffer, ready, workers, writes,
                   delivered, failed, dangling>>

Cancelled == ready \o [i \in DOMAIN receives |-> [result |-> "operation_aborted", by |-> receives[i]]]

Close_Forgotten == UNCHANGED <<socket, queue, receives, ready>>
Close_KeepsReceives ==
    /\ socket' = "closed" /\ queue' = << >>
    /\ UNCHANGED <<receives, ready>>
Close ==
    /\ socket' = "closed" /\ queue' = << >>
    /\ receives' = << >> /\ ready' = Cancelled

RemoveClient ==
    /\ owner = "listed"
    /\ owner' = "none"
    /\ Close
    /\ UNCHANGED <<arrived, m_rcv_buffer, workers, writes, delivered, failed, dangling>>

Write ==
    /\ owner = "listed" /\ writes < MaxWrites
    /\ writes' = writes + 1
    /\ UNCHANGED <<owner, socket, arrived, queue, receives, m_rcv_buffer, ready, workers,
                   delivered, failed, dangling>>

-----------------------------------------------------------------------------
(* The network and asio.                                                   *)
Arrive ==
    /\ socket = "open" /\ arrived < MaxDatagrams
    /\ arrived' = arrived + 1
    /\ queue' = Append(queue, arrived + 1)
    /\ UNCHANGED <<owner, socket, receives, m_rcv_buffer, ready, workers, writes, delivered,
                   failed, dangling>>

Completed(result) == Append(ready, [result |-> result, by |-> Head(receives)])

CompleteReceive ==
    /\ receives # << >> /\ queue # << >>
    /\ m_rcv_buffer' = Head(queue)
    /\ queue' = Tail(queue)
    /\ ready' = Completed("data")
    /\ receives' = Tail(receives)
    /\ UNCHANGED <<owner, socket, arrived, workers, writes, delivered, failed, dangling>>

FailReceive(result) ==
    /\ result \in {"connection_aborted", "error"} /\ receives # << >>
    /\ ready' = Completed(result)
    /\ receives' = Tail(receives)
    /\ failed' = TRUE
    /\ UNCHANGED <<owner, socket, arrived, queue, m_rcv_buffer, workers, writes, delivered, dangling>>

(* handle_write does nothing.                                              *)
CompleteWrite ==
    /\ writes > 0
    /\ writes' = writes - 1
    /\ UNCHANGED <<owner, socket, arrived, queue, receives, m_rcv_buffer, ready, workers,
                   delivered, failed, dangling>>

-----------------------------------------------------------------------------
(* A worker runs handle_read: it hands the data over and receives again,   *)
(* or ends after an error, having closed the socket for one kind of them.  *)
Run(w) ==
    /\ workers[w] = Idle /\ ready # << >>
    /\ workers' = [workers EXCEPT ![w] =
                      [at |-> "handle", result |-> Head(ready).result, by |-> Head(ready).by]]
    /\ ready' = Tail(ready)
    /\ UNCHANGED <<owner, socket, arrived, queue, receives, m_rcv_buffer, writes, delivered,
                   failed, dangling>>

Again_First(w) ==
    IF workers[w].at = "handle" /\ socket = "open"
    THEN <<Append(receives, "bare"), ready>> ELSE <<receives, ready>>
Again_Twice(w) ==
    IF socket = "open" THEN <<Append(receives, "bare"), ready>> ELSE <<receives, ready>>
Again_Never(w) == <<receives, ready>>
Again(w) ==
    CASE workers[w].at = "handle" -> <<receives, ready>>
      [] workers[w].at # "handle" /\ socket = "open" -> <<Append(receives, "bare"), ready>>
      [] OTHER -> <<receives, Append(ready, [result |-> "error", by |-> "bare"])>>

HandleData(w) ==
    /\ IsAlive /\ workers[w] # Idle /\ workers[w].at = "handle" /\ workers[w].result = "data"
    /\ delivered' = Append(delivered, m_rcv_buffer)
    /\ workers' = [workers EXCEPT ![w].at = "again"]
    /\ receives' = Again(w)[1] /\ ready' = Again(w)[2]
    /\ UNCHANGED <<owner, socket, arrived, queue, m_rcv_buffer, writes, failed, dangling>>

ReceiveAgain(w) ==
    /\ IsAlive /\ workers[w] # Idle /\ workers[w].at = "again"
    /\ workers' = [workers EXCEPT ![w] = Idle]
    /\ receives' = Again(w)[1] /\ ready' = Again(w)[2]
    /\ UNCHANGED <<owner, socket, arrived, queue, m_rcv_buffer, writes, delivered, failed, dangling>>

HandleError(w) ==
    /\ IsAlive /\ workers[w] # Idle /\ workers[w].at = "handle" /\ workers[w].result # "data"
    /\ workers' = [workers EXCEPT ![w] = Idle]
    /\ IF workers[w].result = "connection_aborted"
       THEN Close
       ELSE UNCHANGED <<socket, queue, receives, ready>>
    /\ UNCHANGED <<owner, arrived, m_rcv_buffer, writes, delivered, failed, dangling>>

(* The bare pointer is all that is left of the client.                     *)
HandleDestroyed(w) ==
    /\ ~IsAlive /\ workers[w] # Idle
    /\ workers' = [workers EXCEPT ![w] = Idle]
    /\ dangling' = TRUE
    /\ UNCHANGED <<owner, socket, arrived, queue, receives, m_rcv_buffer, ready, writes,
                   delivered, failed>>

-----------------------------------------------------------------------------
Init ==
    /\ owner = "opening"
    /\ socket = "closed"
    /\ arrived = 0
    /\ queue = << >>
    /\ receives = << >>
    /\ m_rcv_buffer = 0
    /\ ready = << >>
    /\ workers = [w \in Workers |-> Idle]
    /\ writes = 0
    /\ delivered = << >>
    /\ failed = FALSE
    /\ dangling = FALSE

Work(w) == Run(w) \/ HandleData(w) \/ ReceiveAgain(w) \/ HandleError(w) \/ HandleDestroyed(w)

Next ==
    \/ Open \/ GiveUp \/ List \/ RemoveClient \/ Write \/ Arrive
    \/ CompleteReceive \/ (\E result \in Results : FailReceive(result)) \/ CompleteWrite
    \/ \E w \in Workers : Work(w)

Spec == Init /\ [][Next]_vars

(* The worker threads run what is ready; a receive completes when there is *)
(* something to receive, a write in any case.                              *)
FairSpec ==
    Spec /\ WF_vars(CompleteReceive) /\ WF_vars(CompleteWrite)
         /\ \A w \in Workers : WF_vars(Work(w))

-----------------------------------------------------------------------------
(* Whatever the two threads do, the data handler is given the datagrams    *)
(* one by one in the order in which they arrived: a datagram is never      *)
(* overwritten in the receive buffer before it was handed over.            *)
DeliveredInOrder == \A i \in DOMAIN delivered : delivered[i] = i

(* A client that is listed goes on receiving: until a receive fails, there *)
(* is always exactly one under way, completed or being handled, never two. *)
Busy == {w \in Workers : workers[w] # Idle}
KeepsReceiving ==
    owner = "listed" /\ ~failed =>
        \/ Len(receives) + Len(ready) = 1 /\ Busy = {}
        \/ Len(receives) + Len(ready) = 0 /\ \E w \in Workers : Busy = {w}

(* A client that was removed before it was given any datagram is not used  *)
(* after its end, as its first receive keeps it alive.                     *)
SafeUntilFirstDatagram == dangling => delivered # << >>

(* Every datagram that arrives is handed over, unless the client is        *)
(* removed or a receive fails.                                             *)
EventuallyDelivered ==
    \A n \in 1 .. MaxDatagrams :
        arrived >= n ~> (Len(delivered) >= n \/ owner = "none" \/ failed)

(* After its removal nothing of a client stays behind: each operation ends *)
(* and its handler has run, unless one ran too late.                       *)
EndsAfterRemoval ==
    owner = "none" ~>
        [](\/ dangling
           \/ receives = << >> /\ ready = << >> /\ ~IsAlive /\ Busy = {})
=============================================================================
