-------------------------- MODULE UdpClient_proofs --------------------------
(***************************************************************************)
(* Proofs about UdpClient, for any number of threads, datagrams and        *)
(* writes.  They rest on one fact: a client never has more than one        *)
(* operation, which is under way at the socket, completed, or being        *)
(* handled by one thread.  Invariants say what holds of it in each place.  *)
(***************************************************************************)
EXTENDS UdpClient, TLAPS

AllIdle == \A w \in Workers : workers[w] = Idle

(* Where the one operation is.                                             *)
NoOperation  == receives = << >> /\ ready = << >> /\ AllIdle
Receives(h)  == receives = <<h>> /\ ready = << >> /\ AllIdle
Completes(c) == receives = << >> /\ ready = <<c>> /\ AllIdle
Handles(w, t) ==
    /\ receives = << >> /\ ready = << >>
    /\ workers[w] = t /\ \A v \in Workers \ {w} : workers[v] = Idle

(* All that was taken from the queue was handed over, or is yet in the     *)
(* receive buffer.                                                         *)
InOrder(taken) ==
    /\ \A i \in DOMAIN queue : queue[i] = taken + i
    /\ socket = "open" => arrived = taken + Len(queue)
Waiting  == InOrder(Len(delivered))
Buffered == m_rcv_buffer = Len(delivered) + 1 /\ InOrder(Len(delivered) + 1)

InUse == owner \in {"opened", "listed"}
Ended == owner = "none" \/ failed
Errors == Results \ {"data"}

(* The first operation holds the client until something was handed over.   *)
FirstIsShared(hold) == delivered = << >> => hold = "shared"

Gone == NoOperation /\ Waiting /\ (InUse => failed)
Somewhere(hold) ==
    \/ Receives(hold) /\ Waiting
    \/ Completes([result |-> "data", by |-> hold]) /\ Buffered
    \/ \E w \in Workers :
          Handles(w, [at |-> "handle", result |-> "data", by |-> hold]) /\ Buffered
    \/ \E w \in Workers :
          /\ Handles(w, [at |-> "again", result |-> "data", by |-> hold])
          /\ Waiting /\ delivered # << >>
    \/ \E error \in Errors :
          /\ Waiting /\ Ended
          /\ \/ Completes([result |-> error, by |-> hold])
             \/ \E w \in Workers :
                   Handles(w, [at |-> "handle", result |-> error, by |-> hold])

OneOperation == Gone \/ \E hold \in Holds : FirstIsShared(hold) /\ Somewhere(hold)

Phases ==
    /\ owner = "opening" => /\ NoOperation /\ socket = "closed"
                            /\ arrived = 0 /\ delivered = << >>
    /\ owner = "none" => socket = "closed"
    /\ InUse /\ ~failed => socket = "open"

Inv == TypeOK /\ Phases /\ OneOperation /\ DeliveredInOrder /\ SafeUntilFirstDatagram

-----------------------------------------------------------------------------
(* Sequences of at most one element.                                       *)
LEMMA Singles ==
    ASSUME NEW x
    PROVE  /\ Len(<<x>>) = 1 /\ <<x>> # << >> /\ Head(<<x>>) = x
           /\ Tail(<<x>>) = << >> /\ Append(<< >>, x) = <<x>>
           /\ DOMAIN <<x>> = {1} /\ <<x>>[1] = x
           /\ DOMAIN << >> = {} /\ Len(<< >>) = 0
  OBVIOUS

LEMMA SeqGrows ==
    ASSUME NEW S, NEW T, S \subseteq T, NEW s \in Seq(S)
    PROVE  s \in Seq(T)
  OBVIOUS

LEMMA Concatenations ==
    ASSUME NEW x, NEW f, DOMAIN f = {1}, f[1] = x, f = [i \in DOMAIN f |-> f[i]]
    PROVE  << >> \o f = <<x>>
  OBVIOUS

LEMMA TaskFacts ==
    ASSUME NEW t \in Tasks
    PROVE  \/ t = Idle /\ t.at = "idle"
           \/ /\ t # Idle /\ t.at \in {"handle", "again"}
              /\ t.result \in Results /\ t.by \in Holds
              /\ t = [at |-> t.at, result |-> t.result, by |-> t.by]
              /\ [t EXCEPT !.at = "again"]
                    = [at |-> "again", result |-> t.result, by |-> t.by]
  BY DEF Tasks, Idle

LEMMA TasksMade ==
    ASSUME NEW at \in {"handle", "again"}, NEW result \in Results, NEW hold \in Holds
    PROVE  /\ [at |-> at, result |-> result, by |-> hold] \in Tasks
           /\ [at |-> at, result |-> result, by |-> hold] # Idle
  BY DEF Tasks, Idle

LEMMA CompletionsMade ==
    ASSUME NEW result \in Results, NEW hold \in Holds
    PROVE  [result |-> result, by |-> hold] \in Completions
  BY DEF Completions

-----------------------------------------------------------------------------
(* Types.                                                                  *)
LEMMA AgainTyped ==
    ASSUME TypeOK, NEW w \in Workers
    PROVE  /\ Again(w)[1] \in Seq(Holds) /\ Again(w)[2] \in Seq(Completions)
           /\ socket = "closed" => Again(w)[1] = << >>
  <1>1. [result |-> "error", by |-> "bare"] \in Completions
    BY CompletionsMade DEF Results, Holds
  <1>2. "bare" \in Holds
    BY DEF Holds
  <1>3. receives \in Seq(Holds) /\ ready \in Seq(Completions)
        /\ (socket = "closed" => receives = << >>)
    BY DEF TypeOK
  <1>4. \/ Again(w) = <<receives, ready>>
        \/ Again(w) = <<receives, Append(ready, [result |-> "error", by |-> "bare"])>>
        \/ socket = "open" /\ Again(w) = <<Append(receives, "bare"), ready>>
    BY DEF Again
  <1>5. Append(ready, [result |-> "error", by |-> "bare"]) \in Seq(Completions)
    BY <1>1, <1>3
  <1>6. Append(receives, "bare") \in Seq(Holds)
    BY <1>2, <1>3
  <1>7. ASSUME NEW r, NEW c, Again(w) = <<r, c>>
        PROVE  Again(w)[1] = r /\ Again(w)[2] = c
    BY <1>7
  <1>8. CASE Again(w) = <<receives, ready>>
    BY <1>3, <1>7, <1>8
  <1>9. CASE Again(w) = <<receives, Append(ready, [result |-> "error", by |-> "bare"])>>
    BY <1>3, <1>5, <1>7, <1>9
  <1>10. CASE socket = "open" /\ Again(w) = <<Append(receives, "bare"), ready>>
    BY <1>3, <1>6, <1>7, <1>10
  <1> QED BY <1>4, <1>8, <1>9, <1>10

LEMMA CloseTyped ==
    ASSUME TypeOK, Close
    PROVE  /\ socket' = "closed" /\ queue' = << >> /\ receives' = << >>
           /\ ready' \in Seq(Completions)
  <1> DEFINE aborted == [i \in DOMAIN receives |-> [result |-> "operation_aborted", by |-> receives[i]]]
  <1>1. receives \in Seq(Holds) /\ ready \in Seq(Completions)
    BY DEF TypeOK
  <1>2. \A i \in DOMAIN receives : [result |-> "operation_aborted", by |-> receives[i]] \in Completions
    BY <1>1, CompletionsMade DEF Results
  <1>3. aborted \in Seq(Completions)
    BY <1>1, <1>2
  <1> HIDE DEF aborted
  <1>4. ready \o aborted \in Seq(Completions)
    BY <1>1, <1>3
  <1> QED BY <1>4 DEF Close, Cancelled, aborted

LEMMA TypeStep == TypeOK /\ [Next]_vars => TypeOK'
  <1> SUFFICES ASSUME TypeOK, [Next]_vars PROVE TypeOK'
    OBVIOUS
  <1> USE BoundsAssumption
  <1>1. CASE Open
    BY <1>1 DEF Open, TypeOK, FirstHold, Holds
  <1>2. CASE GiveUp \/ List
    BY <1>2 DEF GiveUp, List, TypeOK
  <1>3. CASE RemoveClient
    <2>1. /\ socket' = "closed" /\ queue' = << >> /\ receives' = << >>
          /\ ready' \in Seq(Completions)
      BY <1>3, CloseTyped DEF RemoveClient
    <2>2. /\ owner' = "none"
          /\ UNCHANGED <<arrived, m_rcv_buffer, workers, writes, delivered, failed, dangling>>
      BY <1>3 DEF RemoveClient
    <2> QED BY <2>1, <2>2 DEF TypeOK
  <1>4. CASE Write \/ CompleteWrite
    <2>1. writes' \in 0 .. MaxWrites
      BY <1>4 DEF Write, CompleteWrite, TypeOK
    <2>2. UNCHANGED <<owner, socket, arrived, queue, receives, m_rcv_buffer, ready, workers,
                      delivered, failed, dangling>>
      BY <1>4 DEF Write, CompleteWrite
    <2> QED BY <2>1, <2>2 DEF TypeOK
  <1>5. CASE Arrive
    <2>1. /\ arrived' = arrived + 1 /\ arrived' \in 0 .. MaxDatagrams
          /\ queue' = Append(queue, arrived')
          /\ m_rcv_buffer' = m_rcv_buffer /\ delivered' = delivered
      BY <1>5 DEF Arrive, TypeOK
    <2>2. queue \in Seq(1 .. arrived') /\ delivered \in Seq(0 .. arrived') /\ m_rcv_buffer \in 0 .. arrived'
      <3>1. 1 .. arrived \subseteq 1 .. arrived' /\ 0 .. arrived \subseteq 0 .. arrived'
        BY <2>1 DEF TypeOK
      <3>2. queue \in Seq(1 .. arrived) /\ delivered \in Seq(0 .. arrived)
            /\ m_rcv_buffer \in 0 .. arrived
        BY DEF TypeOK
      <3> HIDE DEF TypeOK
      <3> QED BY <3>1, <3>2, SeqGrows
    <2> QED BY <1>5, <2>1, <2>2 DEF Arrive, TypeOK
  <1>6. CASE CompleteReceive
    <2>1. Head(queue) \in 1 .. arrived /\ Tail(queue) \in Seq(1 .. arrived)
          /\ Tail(receives) \in Seq(Holds) /\ Head(receives) \in Holds
      BY <1>6 DEF CompleteReceive, TypeOK
    <2>2. Completed("data") \in Seq(Completions)
      BY <2>1, CompletionsMade DEF Completed, TypeOK, Results
    <2> QED BY <1>6, <2>1, <2>2 DEF CompleteReceive, TypeOK
  <1>7. ASSUME NEW result \in Results, FailReceive(result) PROVE TypeOK'
    <2>1. Tail(receives) \in Seq(Holds) /\ Head(receives) \in Holds
      BY <1>7 DEF FailReceive, TypeOK
    <2>2. Completed(result) \in Seq(Completions)
      BY <2>1, CompletionsMade DEF Completed, TypeOK
    <2> QED BY <1>7, <2>1, <2>2 DEF FailReceive, TypeOK
  <1>8. ASSUME NEW w \in Workers, Work(w) PROVE TypeOK'
    <2>1. CASE Run(w)
      <3>1. Head(ready) \in Completions /\ Tail(ready) \in Seq(Completions)
        BY <2>1 DEF Run, TypeOK
      <3>2. [at |-> "handle", result |-> Head(ready).result, by |-> Head(ready).by] \in Tasks
        BY <3>1, TasksMade DEF Completions
      <3> QED BY <2>1, <3>1, <3>2 DEF Run, TypeOK
    <2>2. CASE HandleData(w)
      <3>1. [workers[w] EXCEPT !.at = "again"] \in Tasks
        <4>1. PICK t \in Tasks : t = workers[w] /\ t # Idle
          BY <2>2 DEF HandleData, TypeOK
        <4>2. /\ [t EXCEPT !.at = "again"] = [at |-> "again", result |-> t.result, by |-> t.by]
              /\ t.result \in Results /\ t.by \in Holds
          BY <4>1, TaskFacts
        <4>3. [at |-> "again", result |-> t.result, by |-> t.by] \in Tasks
          BY <4>2, TasksMade
        <4> QED BY <4>1, <4>2, <4>3
      <3>2. workers' = [workers EXCEPT ![w] = [workers[w] EXCEPT !.at = "again"]]
        BY <2>2 DEF HandleData
      <3>3. workers' \in [Workers -> Tasks]
        BY <3>1, <3>2 DEF TypeOK
      <3>4. delivered' \in Seq(0 .. arrived)
        BY <2>2 DEF HandleData, TypeOK
      <3> QED BY <2>2, <3>3, <3>4, AgainTyped DEF HandleData, TypeOK
    <2>3. CASE ReceiveAgain(w) \/ HandleError(w) \/ HandleDestroyed(w)
      <3>1. workers' \in [Workers -> Tasks]
        BY <2>3 DEF ReceiveAgain, HandleError, HandleDestroyed, TypeOK, Tasks
      <3>2. CASE ReceiveAgain(w)
        BY <3>1, <3>2, AgainTyped DEF ReceiveAgain, TypeOK
      <3>3. CASE HandleError(w)
        <4>1. \/ UNCHANGED <<socket, queue, receives, ready>>
              \/ /\ socket' = "closed" /\ queue' = << >> /\ receives' = << >>
                 /\ ready' \in Seq(Completions)
          BY <3>3, CloseTyped DEF HandleError
        <4>2. UNCHANGED <<owner, arrived, m_rcv_buffer, writes, delivered, failed, dangling>>
          BY <3>3 DEF HandleError
        <4>3. CASE UNCHANGED <<socket, queue, receives, ready>>
          BY <3>1, <4>2, <4>3 DEF TypeOK
        <4>4. CASE /\ socket' = "closed" /\ queue' = << >> /\ receives' = << >>
                   /\ ready' \in Seq(Completions)
          BY <3>1, <4>2, <4>4 DEF TypeOK
        <4> QED BY <4>1, <4>3, <4>4
      <3>4. CASE HandleDestroyed(w)
        BY <3>1, <3>4 DEF HandleDestroyed, TypeOK
      <3> QED BY <2>3, <3>2, <3>3, <3>4
    <2> QED BY <1>8, <2>1, <2>2, <2>3 DEF Work
  <1>9. CASE UNCHANGED vars
    BY <1>9 DEF vars, TypeOK
  <1> QED BY <1>1, <1>2, <1>3, <1>4, <1>5, <1>6, <1>7, <1>8, <1>9 DEF Next

LEMMA TypeInit == Init => TypeOK
  <1> SUFFICES ASSUME Init PROVE TypeOK
    OBVIOUS
  <1>1. workers \in [Workers -> Tasks]
    BY DEF Init, Tasks
  <1>2. 0 \in 0 .. MaxDatagrams /\ 0 \in 0 .. MaxWrites
    BY BoundsAssumption
  <1>3. /\ queue \in Seq(1 .. arrived) /\ delivered \in Seq(0 .. arrived)
        /\ receives \in Seq(Holds) /\ ready \in Seq(Completions)
    BY DEF Init
  <1>4. m_rcv_buffer \in 0 .. arrived
    BY DEF Init
  <1>5. owner = "opening" /\ socket = "closed" /\ failed = FALSE /\ dangling = FALSE
        /\ queue = << >> /\ receives = << >> /\ arrived = 0 /\ writes = 0
    BY DEF Init
  <1> QED BY <1>1, <1>2, <1>3, <1>4, <1>5, Zenon DEF TypeOK

(* The buffer, the operations and the threads keep their types.            *)
THEOREM ClientTypeCorrect == Spec => []TypeOK
  BY TypeInit, TypeStep, PTL DEF Spec

-----------------------------------------------------------------------------
(* The one operation.                                                      *)
LEMMA Unmoved ==
    ASSUME OneOperation, Ended => Ended', (InUse => failed) => (InUse' => failed'),
           UNCHANGED <<socket, arrived, queue, receives, m_rcv_buffer, ready, workers, delivered>>
    PROVE  OneOperation'
  <1>1. (NoOperation <=> NoOperation') /\ (Waiting <=> Waiting') /\ (Buffered <=> Buffered')
    BY DEF NoOperation, AllIdle, Waiting, Buffered, InOrder
  <1>2. \A x : (Receives(x) <=> Receives(x)') /\ (Completes(x) <=> Completes(x)')
               /\ (FirstIsShared(x) <=> FirstIsShared(x)')
    BY DEF Receives, Completes, AllIdle, FirstIsShared
  <1>3. \A w, t : Handles(w, t) <=> Handles(w, t)'
    BY DEF Handles
  <1>4. ASSUME NEW hold \in Holds, Somewhere(hold) PROVE Somewhere(hold)'
    BY <1>1, <1>2, <1>3, <1>4, Zenon DEF Somewhere
  <1> QED BY <1>1, <1>2, <1>4, Zenon DEF OneOperation, Gone

LEMMA AtSocket ==
    ASSUME OneOperation, receives # << >>
    PROVE  \E hold \in Holds : Receives(hold) /\ Waiting /\ FirstIsShared(hold)
  BY DEF OneOperation, Gone, Somewhere, NoOperation, Completes, Handles

LEMMA AtQueue ==
    ASSUME OneOperation, ready # << >>
    PROVE  \E hold \in Holds :
              /\ FirstIsShared(hold)
              /\ \/ Completes([result |-> "data", by |-> hold]) /\ Buffered
                 \/ \E error \in Errors :
                       Completes([result |-> error, by |-> hold]) /\ Waiting /\ Ended
  BY DEF OneOperation, Gone, Somewhere, NoOperation, Receives, Handles

LEMMA AtWorker ==
    ASSUME OneOperation, NEW w \in Workers, workers[w] # Idle
    PROVE  \E hold \in Holds :
              /\ FirstIsShared(hold)
              /\ \/ Handles(w, [at |-> "handle", result |-> "data", by |-> hold]) /\ Buffered
                 \/ /\ Handles(w, [at |-> "again", result |-> "data", by |-> hold])
                    /\ Waiting /\ delivered # << >>
                 \/ \E error \in Errors :
                       /\ Handles(w, [at |-> "handle", result |-> error, by |-> hold])
                       /\ Waiting /\ Ended
  <1>1. PICK hold \in Holds : FirstIsShared(hold) /\ Somewhere(hold)
    BY DEF OneOperation, Gone, NoOperation, AllIdle
  <1>2. \A v \in Workers : \A t : Handles(v, t) => v = w
    BY DEF Handles
  <1>3. ~ Receives(hold) /\ \A c : ~ Completes(c)
    BY DEF Receives, Completes, AllIdle
  <1> QED BY <1>1, <1>2, <1>3, Zenon DEF Somewhere

LEMMA ArriveKeeps == TypeOK /\ OneOperation /\ Arrive => OneOperation'
  <1> SUFFICES ASSUME TypeOK, OneOperation, Arrive PROVE OneOperation'
    OBVIOUS
  <1>1. /\ socket = "open" /\ arrived' = arrived + 1 /\ queue' = Append(queue, arrived + 1)
        /\ UNCHANGED <<owner, socket, receives, m_rcv_buffer, ready, workers, delivered, failed>>
        /\ queue \in Seq(1 .. arrived) /\ arrived \in Nat /\ Len(delivered) \in Nat
    BY DEF Arrive, TypeOK
  <1>2. ASSUME NEW n \in Nat, InOrder(n)
        PROVE  (\A i \in DOMAIN queue' : queue'[i] = n + i) /\ arrived' = n + Len(queue')
    <2>1. /\ Len(queue') = Len(queue) + 1 /\ DOMAIN queue' = 1 .. Len(queue) + 1
          /\ DOMAIN queue = 1 .. Len(queue) /\ Len(queue) \in Nat
          /\ \A i \in 1 .. Len(queue) : queue'[i] = queue[i]
          /\ queue'[Len(queue) + 1] = arrived + 1
      BY <1>1
    <2>2. arrived = n + Len(queue)
      BY <1>1, <1>2 DEF InOrder
    <2>3. ASSUME NEW i \in 1 .. Len(queue) + 1 PROVE queue'[i] = n + i
      <3>1. CASE i \in 1 .. Len(queue)
        BY <1>2, <2>1, <3>1 DEF InOrder
      <3>2. CASE i = Len(queue) + 1
        BY <2>1, <2>2, <3>2
      <3> QED BY <2>1, <3>1, <3>2
    <2> QED BY <1>1, <2>1, <2>2, <2>3
  <1>3. Waiting => Waiting'
    <2> SUFFICES ASSUME Waiting PROVE Waiting'
      OBVIOUS
    <2>1. (\A i \in DOMAIN queue' : queue'[i] = Len(delivered) + i)
          /\ arrived' = Len(delivered) + Len(queue')
      BY <1>1, <1>2 DEF Waiting
    <2> QED BY <1>1, <2>1 DEF Waiting, InOrder
  <1>9. Buffered => Buffered'
    <2> SUFFICES ASSUME Buffered PROVE Buffered'
      OBVIOUS
    <2>1. PICK n \in Nat : n = Len(delivered) + 1
      BY <1>1
    <2>2. (\A i \in DOMAIN queue' : queue'[i] = n + i) /\ arrived' = n + Len(queue')
      BY <1>2, <2>1 DEF Buffered
    <2> QED BY <1>1, <2>1, <2>2 DEF Buffered, InOrder
  <1>4. \A x : (Receives(x) => Receives(x)') /\ (Completes(x) => Completes(x)')
               /\ (FirstIsShared(x) => FirstIsShared(x)')
    BY <1>1 DEF Receives, Completes, AllIdle, FirstIsShared
  <1>5. \A w, t : Handles(w, t) => Handles(w, t)'
    BY <1>1 DEF Handles
  <1>6. NoOperation => NoOperation'
    BY <1>1 DEF NoOperation, AllIdle
  <1>7. (Ended => Ended') /\ (InUse' => InUse) /\ (failed => failed')
    BY <1>1 DEF Ended, InUse
  <1>8. ASSUME NEW hold \in Holds, Somewhere(hold) PROVE Somewhere(hold)'
    <2>1. delivered' = delivered
      BY <1>1
    <2> QED BY <1>3, <1>4, <1>5, <1>7, <1>8, <1>9, <2>1, Zenon DEF Somewhere
  <1> QED BY <1>3, <1>4, <1>6, <1>7, <1>8, Zenon DEF OneOperation, Gone

LEMMA OpenKeeps == TypeOK /\ Phases /\ Open => OneOperation'
  <1> SUFFICES ASSUME TypeOK, Phases, Open PROVE OneOperation'
    OBVIOUS
  <1>1. NoOperation /\ arrived = 0 /\ delivered = << >> /\ queue = << >>
    BY DEF Open, Phases, TypeOK
  <1>2. Receives("shared")'
    BY <1>1 DEF Open, FirstHold, NoOperation, Receives, AllIdle
  <1>3. Waiting'
    BY <1>1 DEF Open, Waiting, InOrder
  <1> QED BY <1>2, <1>3 DEF OneOperation, Somewhere, FirstIsShared, Holds

LEMMA CloseKeeps == TypeOK /\ OneOperation /\ RemoveClient => OneOperation'
  <1> SUFFICES ASSUME TypeOK, OneOperation, RemoveClient PROVE OneOperation'
    OBVIOUS
  <1> DEFINE aborted(hold) == [result |-> "operation_aborted", by |-> hold]
  <1>1. /\ owner' = "none" /\ socket' = "closed" /\ queue' = << >> /\ receives' = << >>
        /\ ready' = Cancelled
        /\ UNCHANGED <<m_rcv_buffer, workers, delivered, failed>>
    BY DEF RemoveClient, Close
  <1>2. Ended' /\ ~InUse' /\ Waiting' /\ (Buffered => Buffered')
    BY <1>1 DEF Ended, InUse, Waiting, Buffered, InOrder
  <1>3. \A x : FirstIsShared(x) => FirstIsShared(x)'
    BY <1>1 DEF FirstIsShared
  <1>4. CASE receives = << >>
    <2>1. ready \o [i \in DOMAIN receives |-> aborted(receives[i])] = ready
      BY <1>4 DEF TypeOK
    <2>2. ready' = ready
      BY <1>1, <2>1 DEF Cancelled
    <2>3. \A x : Completes(x) => Completes(x)'
      BY <1>1, <2>2 DEF Completes, AllIdle
    <2>4. \A w, t : Handles(w, t) => Handles(w, t)'
      BY <1>1, <2>2 DEF Handles
    <2>5. NoOperation => NoOperation'
      BY <1>1, <2>2 DEF NoOperation, AllIdle
    <2>6. \A x : ~ Receives(x)
      BY <1>4 DEF Receives
    <2>7. ASSUME NEW hold \in Holds, Somewhere(hold) PROVE Somewhere(hold)'
      <3>1. delivered' = delivered
        BY <1>1
      <3> QED BY <1>2, <2>3, <2>4, <2>6, <2>7, <3>1, Zenon DEF Somewhere
    <2> QED BY <1>2, <1>3, <2>5, <2>7, Zenon DEF OneOperation, Gone
  <1>5. CASE receives # << >>
    <2>1. PICK hold \in Holds : Receives(hold) /\ FirstIsShared(hold)
      BY <1>5, AtSocket
    <2> DEFINE tail == [i \in DOMAIN receives |-> aborted(receives[i])]
    <2>2. receives = <<hold>> /\ ready = << >>
      BY <2>1 DEF Receives
    <2>3. DOMAIN tail = {1} /\ tail[1] = aborted(hold)
      BY <2>2, Singles
    <2>4. tail = [i \in DOMAIN tail |-> tail[i]]
      OBVIOUS
    <2> HIDE DEF tail
    <2>5. ready' = <<aborted(hold)>>
      BY <1>1, <2>2, <2>3, <2>4, Concatenations DEF Cancelled, tail
    <2>6. Completes(aborted(hold))'
      BY <1>1, <2>1, <2>5 DEF Completes, Receives, AllIdle
    <2>7. "operation_aborted" \in Errors
      BY DEF Errors, Results
    <2>8. Somewhere(hold)'
      BY <1>2, <2>6, <2>7, Zenon DEF Somewhere
    <2> QED BY <1>3, <2>1, <2>8, Zenon DEF OneOperation
  <1> QED BY <1>4, <1>5

LEMMA CompleteKeeps == TypeOK /\ OneOperation /\ CompleteReceive => OneOperation'
  <1> SUFFICES ASSUME TypeOK, OneOperation, CompleteReceive PROVE OneOperation'
    OBVIOUS
  <1>1. PICK hold \in Holds : Receives(hold) /\ Waiting /\ FirstIsShared(hold)
    BY AtSocket DEF CompleteReceive
  <1>2. Completes([result |-> "data", by |-> hold])'
    BY <1>1, Singles DEF CompleteReceive, Completed, Receives, Completes, AllIdle
  <1>3. /\ queue \in Seq(1 .. arrived) /\ arrived \in Nat /\ queue # << >>
        /\ Len(delivered) \in Nat /\ queue' = Tail(queue) /\ m_rcv_buffer' = Head(queue)
        /\ UNCHANGED <<socket, arrived, delivered>>
    BY DEF CompleteReceive, TypeOK
  <1>4. /\ \A i \in DOMAIN queue : queue[i] = Len(delivered) + i
        /\ socket = "open" => arrived = Len(delivered) + Len(queue)
    BY <1>1 DEF Waiting, InOrder
  <1>5. /\ Len(queue) \in Nat \ {0} /\ DOMAIN queue = 1 .. Len(queue)
        /\ Len(queue') = Len(queue) - 1 /\ DOMAIN queue' = 1 .. Len(queue) - 1
        /\ \A i \in 1 .. Len(queue) - 1 : queue'[i] = queue[i + 1]
        /\ Head(queue) = queue[1]
    BY <1>3
  <1>6. m_rcv_buffer' = Len(delivered') + 1
    BY <1>3, <1>4, <1>5
  <1>7. ASSUME NEW i \in DOMAIN queue' PROVE queue'[i] = Len(delivered') + 1 + i
    <2>1. i \in Int /\ i + 1 \in DOMAIN queue /\ queue'[i] = queue[i + 1]
      BY <1>5
    <2> QED BY <1>3, <1>4, <2>1
  <1>8. socket' = "open" => arrived' = Len(delivered') + 1 + Len(queue')
    BY <1>3, <1>4, <1>5
  <1>9. Buffered'
    BY <1>6, <1>7, <1>8 DEF Buffered, InOrder
  <1>10. FirstIsShared(hold)'
    BY <1>1, <1>3 DEF FirstIsShared
  <1> QED BY <1>2, <1>9, <1>10, Zenon DEF OneOperation, Somewhere

LEMMA FailKeeps ==
    ASSUME TypeOK, OneOperation, NEW result \in Results, FailReceive(result)
    PROVE  OneOperation'
  <1>1. PICK hold \in Holds : Receives(hold) /\ Waiting /\ FirstIsShared(hold)
    BY AtSocket DEF FailReceive
  <1>2. Completes([result |-> result, by |-> hold])' /\ result \in Errors
    BY <1>1, Singles DEF FailReceive, Completed, Receives, Completes, AllIdle, Errors
  <1>3. Waiting' /\ FirstIsShared(hold)' /\ Ended'
    BY <1>1 DEF FailReceive, Waiting, InOrder, FirstIsShared, Ended
  <1> QED BY <1>2, <1>3, Zenon DEF OneOperation, Somewhere

LEMMA RunKeeps ==
    ASSUME TypeOK, OneOperation, NEW w \in Workers, Run(w)
    PROVE  OneOperation'
  <1>1. /\ workers[w] = Idle /\ ready # << >> /\ ready' = Tail(ready)
        /\ workers' = [workers EXCEPT ![w] =
                           [at |-> "handle", result |-> Head(ready).result, by |-> Head(ready).by]]
        /\ UNCHANGED <<owner, socket, arrived, queue, receives, m_rcv_buffer, delivered, failed>>
        /\ workers \in [Workers -> Tasks]
    BY DEF Run, TypeOK
  <1>2. ASSUME NEW result, NEW hold, Completes([result |-> result, by |-> hold])
        PROVE  Handles(w, [at |-> "handle", result |-> result, by |-> hold])'
    <2>1. /\ receives = << >> /\ ready = <<[result |-> result, by |-> hold]>>
          /\ \A v \in Workers : workers[v] = Idle
      BY <1>2 DEF Completes, AllIdle
    <2>2. Head(ready) = [result |-> result, by |-> hold] /\ ready' = << >>
      BY <1>1, <2>1, Singles
    <2> QED BY <1>1, <2>1, <2>2 DEF Handles
  <1>3. /\ Waiting => Waiting'
        /\ Buffered => Buffered'
        /\ Ended => Ended'
        /\ \A x : FirstIsShared(x) => FirstIsShared(x)'
    BY <1>1 DEF Waiting, Buffered, InOrder, Ended, FirstIsShared
  <1>4. PICK hold \in Holds :
           /\ FirstIsShared(hold)
           /\ \/ Completes([result |-> "data", by |-> hold]) /\ Buffered
              \/ \E error \in Errors :
                    Completes([result |-> error, by |-> hold]) /\ Waiting /\ Ended
    BY <1>1, AtQueue
  <1>5. Somewhere(hold)'
    BY <1>2, <1>3, <1>4, Zenon DEF Somewhere
  <1> QED BY <1>3, <1>4, <1>5, Zenon DEF OneOperation

LEMMA HandleDataKeeps ==
    ASSUME TypeOK, OneOperation, NEW w \in Workers, HandleData(w)
    PROVE  OneOperation' /\ delivered' = Append(delivered, Len(delivered) + 1)
  <1>1. /\ workers[w] # Idle /\ workers[w].at = "handle" /\ workers[w].result = "data"
        /\ workers' = [workers EXCEPT ![w] = [workers[w] EXCEPT !.at = "again"]]
        /\ receives' = receives /\ ready' = ready
        /\ delivered' = Append(delivered, m_rcv_buffer)
        /\ UNCHANGED <<owner, socket, arrived, queue, m_rcv_buffer, failed>>
        /\ workers \in [Workers -> Tasks] /\ delivered \in Seq(0 .. arrived)
    BY DEF HandleData, TypeOK, Again
  <1>2. PICK hold \in Holds :
           Handles(w, [at |-> "handle", result |-> "data", by |-> hold]) /\ Buffered
    BY <1>1, AtWorker DEF Handles, Errors
  <1>3. Handles(w, [at |-> "again", result |-> "data", by |-> hold])'
    BY <1>1, <1>2 DEF Handles
  <1>4. Len(delivered') = Len(delivered) + 1 /\ delivered' # << >>
    BY <1>1
  <1>5. Waiting' /\ FirstIsShared(hold)'
    BY <1>1, <1>2, <1>4 DEF Waiting, Buffered, InOrder, FirstIsShared
  <1>6. OneOperation'
    BY <1>3, <1>4, <1>5, Zenon DEF OneOperation, Somewhere
  <1> QED BY <1>1, <1>2, <1>6 DEF Buffered

LEMMA ReceiveAgainKeeps ==
    ASSUME TypeOK, Phases, OneOperation, NEW w \in Workers, ReceiveAgain(w)
    PROVE  OneOperation'
  <1>1. /\ workers[w] # Idle /\ workers[w].at = "again"
        /\ workers' = [workers EXCEPT ![w] = Idle]
        /\ receives' = Again(w)[1] /\ ready' = Again(w)[2]
        /\ UNCHANGED <<owner, socket, arrived, queue, m_rcv_buffer, delivered, failed>>
        /\ workers \in [Workers -> Tasks] /\ socket \in {"open", "closed"}
        /\ owner \in {"opening", "opened", "listed", "none"}
    BY DEF ReceiveAgain, TypeOK
  <1>2. PICK hold \in Holds :
           /\ Handles(w, [at |-> "again", result |-> "data", by |-> hold])
           /\ Waiting /\ delivered # << >>
    BY <1>1, AtWorker DEF Handles
  <1>3. receives = << >> /\ ready = << >> /\ AllIdle'
    BY <1>1, <1>2 DEF Handles, AllIdle
  <1>4. Waiting' /\ \A x : FirstIsShared(x)'
    BY <1>1, <1>2 DEF Waiting, InOrder, FirstIsShared
  <1>5. "bare" \in Holds /\ "error" \in Errors
    BY DEF Holds, Errors, Results
  <1>6. CASE socket = "open"
    <2>1. Again(w) = <<Append(receives, "bare"), ready>>
      BY <1>1, <1>6 DEF Again
    <2>2. receives' = <<"bare">> /\ ready' = << >>
      BY <1>1, <1>3, <2>1, Singles
    <2>3. Receives("bare")'
      BY <1>3, <2>2 DEF Receives
    <2> QED BY <1>4, <1>5, <2>3, Zenon DEF OneOperation, Somewhere
  <1>7. CASE socket = "closed"
    <2>1. Again(w) = <<receives, Append(ready, [result |-> "error", by |-> "bare"])>>
      BY <1>1, <1>7 DEF Again
    <2>2. receives' = << >> /\ ready' = <<[result |-> "error", by |-> "bare"]>>
      BY <1>1, <1>3, <2>1, Singles
    <2>3. Completes([result |-> "error", by |-> "bare"])'
      BY <1>3, <2>2 DEF Completes
    <2>4. owner # "opening"
      BY <1>1 DEF Phases, NoOperation, AllIdle
    <2>5. Ended'
      BY <1>1, <1>7, <2>4 DEF Phases, Ended, InUse
    <2> QED BY <1>4, <1>5, <2>3, <2>5, Zenon DEF OneOperation, Somewhere
  <1> QED BY <1>1, <1>6, <1>7

LEMMA HandleErrorKeeps ==
    ASSUME TypeOK, OneOperation, NEW w \in Workers, HandleError(w)
    PROVE  OneOperation' /\ Ended
  <1>1. /\ workers[w] # Idle /\ workers[w].at = "handle" /\ workers[w].result # "data"
        /\ workers' = [workers EXCEPT ![w] = Idle]
        /\ UNCHANGED <<owner, arrived, m_rcv_buffer, delivered, failed>>
        /\ workers \in [Workers -> Tasks]
    BY DEF HandleError, TypeOK
  <1>2. PICK hold \in Holds, error \in Errors :
           /\ Handles(w, [at |-> "handle", result |-> error, by |-> hold])
           /\ Waiting /\ Ended
    BY <1>1, AtWorker DEF Handles
  <1>3. receives = << >> /\ ready = << >> /\ AllIdle'
    BY <1>1, <1>2 DEF Handles, AllIdle
  <1>4. Cancelled = << >>
    BY <1>3 DEF Cancelled
  <1>5. /\ receives' = << >> /\ ready' = << >>
        /\ \/ UNCHANGED <<socket, queue>>
           \/ socket' = "closed" /\ queue' = << >>
    BY <1>3, <1>4 DEF HandleError, Close
  <1>6. NoOperation' /\ Waiting' /\ (InUse' => failed')
    BY <1>1, <1>2, <1>3, <1>5 DEF NoOperation, Waiting, InOrder, InUse, Ended
  <1> QED BY <1>2, <1>6, Zenon DEF OneOperation, Gone

(* A destroyed client is nobody's, its socket is closed, and something was *)
(* handed over.                                                            *)
LEMMA HandleDestroyedKeeps ==
    ASSUME TypeOK, Phases, OneOperation, NEW w \in Workers, HandleDestroyed(w)
    PROVE  OneOperation' /\ delivered # << >>
  <1>1. /\ workers[w] # Idle /\ ~IsAlive /\ workers' = [workers EXCEPT ![w] = Idle]
        /\ UNCHANGED <<owner, socket, arrived, queue, receives, m_rcv_buffer, ready, delivered>>
        /\ workers \in [Workers -> Tasks]
    BY DEF HandleDestroyed, TypeOK
  <1>2. owner = "none" /\ workers[w].by # "shared"
    BY <1>1 DEF IsAlive
  <1>3. PICK hold \in Holds : FirstIsShared(hold) /\ \E t : Handles(w, t) /\ t.by = hold
    BY <1>1, AtWorker
  <1>4. delivered # << >>
    BY <1>2, <1>3 DEF Handles, FirstIsShared
  <1>5. NoOperation'
    BY <1>1, <1>3 DEF Handles, NoOperation, AllIdle
  <1>6. socket = "closed" /\ queue = << >>
    BY <1>2 DEF Phases, TypeOK
  <1>7. Waiting' /\ ~InUse'
    BY <1>1, <1>2, <1>6 DEF Waiting, InOrder, InUse
  <1> QED BY <1>4, <1>5, <1>7, Zenon DEF OneOperation, Gone

LEMMA OperationStep ==
    ASSUME TypeOK, Phases, OneOperation, [Next]_vars
    PROVE  OneOperation'
  <1>1. CASE Open
    BY <1>1, OpenKeeps
  <1>2. CASE RemoveClient
    BY <1>2, CloseKeeps
  <1>3. CASE Arrive
    BY <1>3, ArriveKeeps
  <1>4. CASE CompleteReceive
    BY <1>4, CompleteKeeps
  <1>5. ASSUME NEW result \in Results, FailReceive(result) PROVE OneOperation'
    BY <1>5, FailKeeps
  <1>6. ASSUME NEW w \in Workers, Work(w) PROVE OneOperation'
    BY <1>6, RunKeeps, HandleDataKeeps, ReceiveAgainKeeps, HandleErrorKeeps,
       HandleDestroyedKeeps DEF Work
  <1>7. CASE GiveUp \/ List \/ Write \/ CompleteWrite \/ UNCHANGED vars
    <2>1. UNCHANGED <<socket, arrived, queue, receives, m_rcv_buffer, ready, workers, delivered>>
      BY <1>7 DEF GiveUp, List, Write, CompleteWrite, vars
    <2>2. failed' = failed /\ (Ended => Ended') /\ (InUse' => InUse)
      BY <1>7 DEF GiveUp, List, Write, CompleteWrite, vars, Ended, InUse
    <2> QED BY <2>1, <2>2, Unmoved
  <1> QED BY <1>1, <1>2, <1>3, <1>4, <1>5, <1>6, <1>7 DEF Next

LEMMA PhasesStep ==
    ASSUME TypeOK, Phases, OneOperation, [Next]_vars
    PROVE  Phases'
  <1>1. CASE Open
    BY <1>1 DEF Open, Phases, InUse
  <1>2. CASE owner = "opening" /\ ~Open
    <2>1. receives = << >> /\ ready = << >> /\ AllIdle /\ socket = "closed"
      BY <1>2 DEF Phases, NoOperation
    <2>2. GiveUp \/ CompleteWrite \/ UNCHANGED vars
      BY <1>2, <2>1 DEF Next, List, RemoveClient, Write, Arrive, CompleteReceive, FailReceive,
         Work, Run, HandleData, ReceiveAgain, HandleError, HandleDestroyed, AllIdle
    <2>3. UNCHANGED <<socket, arrived, receives, ready, workers, delivered>>
          /\ owner' \in {"opening", "none"}
      BY <1>2, <2>2 DEF GiveUp, CompleteWrite, vars
    <2> QED BY <1>2, <2>3 DEF Phases, NoOperation, AllIdle, InUse
  <1>3. CASE owner # "opening" /\ ~RemoveClient
    <2>1. owner' # "opening" /\ (owner' = "none" => owner = "none") /\ (InUse' => InUse)
          /\ (failed => failed')
      BY <1>3 DEF Next, Open, GiveUp, List, Write, Arrive, CompleteReceive, FailReceive, CompleteWrite,
         Work, Run, HandleData, ReceiveAgain, HandleError, HandleDestroyed, InUse, vars
    <2>2. socket' = socket \/ \E w \in Workers : HandleError(w)
      BY <1>3 DEF Next, Open, GiveUp, List, Write, Arrive, CompleteReceive, FailReceive, CompleteWrite,
         Work, Run, HandleData, ReceiveAgain, HandleDestroyed, vars
    <2>3. ASSUME NEW w \in Workers, HandleError(w)
          PROVE  Ended /\ (socket' = socket \/ socket' = "closed") /\ owner' = owner
      BY <2>3, HandleErrorKeeps DEF HandleError, Close
    <2> QED BY <1>3, <2>1, <2>2, <2>3 DEF Phases, Ended, InUse
  <1>4. CASE RemoveClient
    BY <1>4 DEF RemoveClient, Close, Phases, InUse
  <1> QED BY <1>1, <1>2, <1>3, <1>4 DEF Open

LEMMA OrderStep ==
    ASSUME TypeOK, OneOperation, DeliveredInOrder, [Next]_vars
    PROVE  DeliveredInOrder'
  <1>1. ASSUME NEW w \in Workers, HandleData(w) PROVE DeliveredInOrder'
    <2>1. delivered' = Append(delivered, Len(delivered) + 1) /\ delivered \in Seq(0 .. arrived)
      BY <1>1, HandleDataKeeps DEF TypeOK
    <2> QED BY <2>1 DEF DeliveredInOrder
  <1>2. CASE ~ \E w \in Workers : HandleData(w)
    <2>1. delivered' = delivered
      BY <1>2 DEF Next, Open, GiveUp, List, RemoveClient, Write, Arrive, CompleteReceive,
         FailReceive, CompleteWrite, Work, Run, ReceiveAgain, HandleError, HandleDestroyed, vars
    <2> QED BY <2>1 DEF DeliveredInOrder
  <1> QED BY <1>1, <1>2

LEMMA SafeStep ==
    ASSUME TypeOK, Phases, OneOperation, SafeUntilFirstDatagram, [Next]_vars
    PROVE  SafeUntilFirstDatagram'
  <1>1. ASSUME NEW w \in Workers, HandleDestroyed(w) PROVE SafeUntilFirstDatagram'
    BY <1>1, HandleDestroyedKeeps DEF HandleDestroyed, SafeUntilFirstDatagram
  <1>2. ASSUME NEW w \in Workers, HandleData(w) PROVE SafeUntilFirstDatagram'
    <2>1. delivered' # << >>
      BY <1>2 DEF HandleData, TypeOK
    <2> QED BY <2>1 DEF SafeUntilFirstDatagram
  <1>3. CASE ~ \E w \in Workers : HandleDestroyed(w) \/ HandleData(w)
    <2>1. delivered' = delivered /\ dangling' = dangling
      BY <1>3 DEF Next, Open, GiveUp, List, RemoveClient, Write, Arrive, CompleteReceive,
         FailReceive, CompleteWrite, Work, Run, ReceiveAgain, HandleError, vars
    <2> QED BY <2>1 DEF SafeUntilFirstDatagram
  <1> QED BY <1>1, <1>2, <1>3

LEMMA InvInit == Init => Inv
  <1> SUFFICES ASSUME Init PROVE Inv
    OBVIOUS
  <1>1. TypeOK
    BY TypeInit
  <1>2. NoOperation /\ Waiting /\ ~InUse
    BY DEF Init, NoOperation, AllIdle, Waiting, InOrder, InUse
  <1>3. Phases
    BY <1>2 DEF Init, Phases, InUse
  <1>4. DeliveredInOrder /\ SafeUntilFirstDatagram
    BY DEF Init, DeliveredInOrder, SafeUntilFirstDatagram
  <1> QED BY <1>1, <1>2, <1>3, <1>4 DEF Inv, OneOperation, Gone

LEMMA InvStep == Inv /\ [Next]_vars => Inv'
  BY TypeStep, OperationStep, PhasesStep, OrderStep, SafeStep DEF Inv

LEMMA InvHolds == Spec => []Inv
  BY InvInit, InvStep, PTL DEF Spec

(* However many threads run the handlers, the data handler is given the    *)
(* datagrams one by one in the order of their arrival.                     *)
THEOREM HandedOverInOrder == Spec => []DeliveredInOrder
  <1>1. Inv => DeliveredInOrder
    BY DEF Inv
  <1> QED BY <1>1, InvHolds, PTL

(* A client that was removed before it handed anything over is not used    *)
(* after its end.                                                          *)
THEOREM FirstReceiveProtects == Spec => []SafeUntilFirstDatagram
  <1>1. Inv => SafeUntilFirstDatagram
    BY DEF Inv
  <1> QED BY <1>1, InvHolds, PTL

(* A listed client has exactly one receive under way, completed or being   *)
(* handled, until one fails.                                               *)
THEOREM ReceivesOnAndOn == Spec => []KeepsReceiving
  <1>1. Inv => KeepsReceiving
    <2> SUFFICES ASSUME Inv, owner = "listed", ~failed
                 PROVE  \/ Len(receives) + Len(ready) = 1 /\ Busy = {}
                        \/ Len(receives) + Len(ready) = 0 /\ \E w \in Workers : Busy = {w}
      BY DEF KeepsReceiving
    <2>1. PICK hold \in Holds : Somewhere(hold)
      BY DEF Inv, OneOperation, Gone, InUse
    <2>2. AllIdle => Busy = {}
      BY DEF AllIdle, Busy
    <2>3. ASSUME Receives(hold) \/ \E c : Completes(c)
          PROVE  Len(receives) + Len(ready) = 1 /\ Busy = {}
      <3>1. /\ Busy = {}
            /\ \E x : \/ receives = <<x>> /\ ready = << >>
                      \/ receives = << >> /\ ready = <<x>>
        BY <2>2, <2>3, Zenon DEF Receives, Completes
      <3>2. PICK x : \/ receives = <<x>> /\ ready = << >>
                     \/ receives = << >> /\ ready = <<x>>
        BY <3>1
      <3>3. Len(<<x>>) = 1 /\ Len(<< >>) = 0
        OBVIOUS
      <3>4. CASE receives = <<x>> /\ ready = << >>
        BY <3>1, <3>3, <3>4
      <3>5. CASE receives = << >> /\ ready = <<x>>
        BY <3>1, <3>3, <3>5
      <3> QED BY <3>2, <3>4, <3>5
    <2>4. ASSUME NEW w \in Workers, NEW t, Handles(w, t), t # Idle
          PROVE  Len(receives) + Len(ready) = 0 /\ Busy = {w}
      BY <2>4 DEF Handles, Busy
    <2>5. \A at \in {"handle", "again"}, result \in Results :
              [at |-> at, result |-> result, by |-> hold] # Idle
      BY TasksMade
    <2>6. "data" \in Results /\ Errors \subseteq Results
      BY DEF Results, Errors
    <2> QED BY <2>1, <2>3, <2>4, <2>5, <2>6 DEF Somewhere
  <1> QED BY <1>1, InvHolds, PTL
=============================================================================
