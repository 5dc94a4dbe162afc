------------------------- MODULE DiscoveryLink_proofs -------------------------
(***************************************************************************)
(* Proofs about DiscoveryLink, for every interval, timeout, pause, delay   *)
(* and number of losses that fit together, and clocks set by any amounts.  *)
(***************************************************************************)
EXTENDS DiscoveryLink, TLAPS

LEMMA SeqFacts ==
    ASSUME NEW S, NEW s \in Seq(S)
    PROVE  /\ Len(s) \in Nat /\ DOMAIN s = 1 .. Len(s)
           /\ \A i \in DOMAIN s : s[i] \in S
           /\ \A x \in S : /\ Append(s, x) \in Seq(S) /\ Len(Append(s, x)) = Len(s) + 1
                          /\ Append(s, x)[Len(s) + 1] = x
                          /\ \A i \in 1 .. Len(s) : Append(s, x)[i] = s[i]
  OBVIOUS

LEMMA RemoveAtFacts ==
    ASSUME NEW S, NEW s \in Seq(S), NEW i \in DOMAIN s
    PROVE  /\ RemoveAt(s, i) \in Seq(S)
           /\ Len(RemoveAt(s, i)) = Len(s) - 1
           /\ \A k \in 1 .. Len(s) - 1 :
                 RemoveAt(s, i)[k] = IF k < i THEN s[k] ELSE s[k + 1]
<1>1. i \in 1 .. Len(s) /\ Len(s) \in Nat
  OBVIOUS
<1> DEFINE a == SubSeq(s, 1, i - 1)
           b == SubSeq(s, i + 1, Len(s))
<1>2. a \in Seq(S) /\ Len(a) = i - 1 /\ \A k \in 1 .. i - 1 : a[k] = s[k]
  BY <1>1
<1>3. b \in Seq(S) /\ Len(b) = Len(s) - i /\ \A k \in 1 .. Len(s) - i : b[k] = s[k + i]
  BY <1>1
<1> HIDE DEF a, b
<1>4. /\ a \o b \in Seq(S) /\ Len(a \o b) = Len(s) - 1
      /\ \A k \in 1 .. Len(s) - 1 : (a \o b)[k] = IF k < i THEN s[k] ELSE s[k + 1]
  BY <1>1, <1>2, <1>3
<1>5. RemoveAt(s, i) = a \o b
  BY DEF RemoveAt, a, b
<1> QED
  BY <1>1, <1>4, <1>5

LEMMA UpToFacts ==
    ASSUME NEW limit \in Int, NEW n \in Int
    PROVE  /\ UpTo(limit, n) \in Int
           /\ UpTo(limit, n) <= limit /\ UpTo(limit, n) <= n
           /\ UpTo(limit, n) = n \/ UpTo(limit, n) = limit
  BY DEF UpTo

(* From the sending of a datagram to the turn that takes it.               *)
Slack == MaxDelay + MaxPause

(* The types of the constants, in the form the steps use.                  *)
LEMMA Constants ==
    /\ Interval \in Nat /\ Timeout \in Nat /\ Timeout > 0 /\ MaxLost \in Nat
    /\ MaxPause \in Nat /\ MaxPause > 0 /\ MaxDelay \in Nat /\ MaxBack \in Nat /\ MaxSet \in Nat
    /\ \A k \in Settings : k \in Int
    /\ LongAgo \in Nat /\ LongAgo = Timeout + MaxBack + 1
    /\ Never \in Nat
    /\ Slack \in Nat /\ Slack = MaxDelay + MaxPause
    /\ DetectionTime \in Nat /\ DetectionTime = Timeout + Slack + MaxPause - 1
  BY LinkAssumption, ClockAssumption DEF LongAgo, DetectionTime, Never, Slack

-----------------------------------------------------------------------------
(* The parts of TypeOK.                                                    *)
Switches == /\ up \in BOOLEAN /\ senderClient \in BOOLEAN /\ client \in BOOLEAN
            /\ buffered \in BOOLEAN /\ interrupted \in BOOLEAN /\ jumped \in BOOLEAN
Routes   == route \in {"none", "online", "offline"}
Flight   == /\ flight \in Seq(0 .. MaxDelay)
            /\ stale \in Int /\ 0 <= stale /\ stale <= Len(flight)
Numbers  == /\ sinceSent \in Int /\ sinceHeard \in Int /\ sinceHeard <= LongAgo
            /\ senderPause \in Int /\ 0 <= senderPause /\ senderPause <= MaxPause
            /\ receiverPause \in Int /\ 0 <= receiverPause /\ receiverPause <= MaxPause
            /\ settings \in Int /\ 0 <= settings /\ settings <= MaxSet
            /\ setBack \in Int /\ 0 <= setBack /\ setBack <= MaxBack
            /\ missed \in Int /\ 0 <= missed /\ missed <= MaxLost + 1
            /\ downFor \in Int /\ 0 <= downFor /\ downFor <= DetectionTime + MaxBack + 1

LEMMA TypeParts == TypeOK <=> Switches /\ Routes /\ Flight /\ Numbers
<1>1. flight \in Seq(0 .. MaxDelay) => Len(flight) \in Nat
  OBVIOUS
<1>2. Flight <=> flight \in Seq(0 .. MaxDelay) /\ stale \in 0 .. Len(flight)
  BY <1>1 DEF Flight
<1>3. Numbers <=> /\ sinceSent \in Int /\ sinceHeard \in Int /\ sinceHeard <= LongAgo
                  /\ senderPause \in 0 .. MaxPause /\ receiverPause \in 0 .. MaxPause
                  /\ settings \in 0 .. MaxSet /\ setBack \in 0 .. MaxBack
                  /\ missed \in 0 .. MaxLost + 1
                  /\ downFor \in 0 .. DetectionTime + MaxBack + 1
  BY Constants DEF Numbers
<1> QED
  BY <1>2, <1>3, Zenon DEF TypeOK, Switches, Routes

(* Every step keeps each of the parts.                                     *)
LEMMA SwitchesKept == Switches /\ [Next]_vars => Switches'
<1> SUFFICES ASSUME Switches, [Next]_vars PROVE Switches'
  OBVIOUS
<1> USE DEF Switches, senderVars, receiverVars, clockVars
<1>1. CASE SenderTurn \/ SenderOpens \/ SenderCrashes \/ SenderRestarts
  BY <1>1, Zenon DEF SenderTurn, SenderOpens, SenderCrashes, SenderRestarts
<1>2. ASSUME NEW i \in DOMAIN flight, Arrive(i) \/ Lose(i) PROVE Switches'
  <2>1. CASE Arrive(i)
    <3>1. interrupted' \in BOOLEAN
      BY <2>1 DEF Arrive
    <3> QED
      BY <2>1, <3>1, Zenon DEF Arrive
  <2>2. CASE Lose(i)
    BY <2>2, Zenon DEF Lose
  <2> QED
    BY <1>2, <2>1, <2>2
<1>3. CASE ReceiverTurn
  <2>1. jumped' \in BOOLEAN
    BY <1>3 DEF ReceiverTurn, HearMessages
  <2> QED
    BY <1>3, <2>1, Zenon DEF ReceiverTurn, HearMessages
<1>4. CASE ReceiverOpens \/ ReceiverRestarts
  BY <1>4, Zenon DEF ReceiverOpens, ReceiverRestarts
<1>5. ASSUME NEW k \in Settings, SenderClockSet(k) PROVE Switches'
  BY <1>5, Zenon DEF SenderClockSet
<1>6. ASSUME NEW k \in Settings, ReceiverClockSet(k) PROVE Switches'
  <2>1. jumped' \in BOOLEAN
    BY <1>6 DEF ReceiverClockSet
  <2> QED
    BY <1>6, <2>1, Zenon DEF ReceiverClockSet
<1>7. CASE Tick
  BY <1>7, Zenon DEF Tick
<1>8. CASE UNCHANGED vars
  BY <1>8, Zenon DEF vars
<1> QED
  BY <1>1, <1>2, <1>3, <1>4, <1>5, <1>6, <1>7, <1>8 DEF Next, ArriveAny, LoseAny

LEMMA RoutesKept == Routes /\ [Next]_vars => Routes'
<1> SUFFICES ASSUME Routes, [Next]_vars PROVE Routes'
  OBVIOUS
<1>1. CASE ReceiverTurn
  BY <1>1 DEF ReceiverTurn, Routes
<1>2. CASE ReceiverRestarts
  BY <1>2 DEF ReceiverRestarts, Routes
<1>3. ASSUME ~ReceiverTurn, ~ReceiverRestarts PROVE route' = route
  BY <1>3, Zenon DEF Next, vars, SenderTurn, SenderOpens, SenderCrashes, SenderRestarts, ArriveAny,
     LoseAny, Arrive, Lose, ReceiverOpens, SenderClockSet, ReceiverClockSet, Tick, receiverVars
<1> QED
  BY <1>1, <1>2, <1>3 DEF Routes

LEMMA FlightKept == Flight /\ [Next]_vars => Flight'
<1> SUFFICES ASSUME Flight, [Next]_vars PROVE Flight'
  OBVIOUS
<1>0. Len(flight) \in Nat /\ 0 \in 0 .. MaxDelay
  BY Constants DEF Flight
<1>1. CASE SenderTurn
  <2>1. stale' = stale /\ (flight' = flight \/ flight' = Append(flight, 0))
    BY <1>1 DEF SenderTurn
  <2>2. /\ flight \in Seq(0 .. MaxDelay)
        /\ Append(flight, 0) \in Seq(0 .. MaxDelay)
        /\ Len(Append(flight, 0)) = Len(flight) + 1
    BY <1>0, SeqFacts DEF Flight
  <2>3. flight' \in Seq(0 .. MaxDelay)
    BY <2>1, <2>2
  <2>4. Len(flight') = Len(flight) \/ Len(flight') = Len(flight) + 1
    BY <2>1, <2>2
  <2> QED
    BY <1>0, <2>1, <2>3, <2>4 DEF Flight
<1>2. CASE SenderCrashes \/ \E k \in Settings : SenderClockSet(k)
  <2>1. flight' = flight /\ stale' = Len(flight)
    BY <1>2 DEF SenderCrashes, SenderClockSet
  <2> QED
    BY <1>0, <2>1 DEF Flight
<1>3. ASSUME NEW i \in DOMAIN flight, Arrive(i) \/ Lose(i) PROVE Flight'
  <2>1. flight' = RemoveAt(flight, i) /\ stale' = IF i <= stale THEN stale - 1 ELSE stale
    BY <1>3 DEF Arrive, Lose
  <2>2. flight' \in Seq(0 .. MaxDelay) /\ Len(flight') = Len(flight) - 1
    BY <2>1, RemoveAtFacts DEF Flight
  <2>3. i \in 1 .. Len(flight)
    BY DEF Flight
  <2> QED
    BY <1>0, <2>1, <2>2, <2>3 DEF Flight
<1>4. CASE Tick
  <2>1. stale' = stale /\ flight' = [i \in DOMAIN flight |-> flight[i] + 1]
    BY <1>4 DEF Tick
  <2>2. \A i \in DOMAIN flight : flight[i] \in 0 .. MaxDelay /\ flight[i] < MaxDelay
    <3>1. \A i \in DOMAIN flight : flight[i] \in 0 .. MaxDelay
      BY SeqFacts DEF Flight
    <3> QED
      BY <1>4, <3>1 DEF Tick
  <2>3. \A i \in DOMAIN flight : flight[i] + 1 \in 0 .. MaxDelay
    BY <2>2, Constants
  <2>4. DOMAIN flight = 1 .. Len(flight)
    BY DEF Flight
  <2>5. flight' \in Seq(0 .. MaxDelay) /\ Len(flight') = Len(flight)
    BY <2>1, <2>3, <2>4, <1>0
  <2> QED
    BY <2>1, <2>5 DEF Flight
<1>5. CASE \/ SenderOpens \/ SenderRestarts \/ ReceiverTurn \/ ReceiverOpens
           \/ ReceiverRestarts \/ \E k \in Settings : ReceiverClockSet(k)
           \/ UNCHANGED vars
  <2>1. flight' = flight /\ stale' = stale
    BY <1>5, Zenon DEF SenderOpens, SenderRestarts, ReceiverTurn, HearMessages, ReceiverOpens,
       ReceiverRestarts, ReceiverClockSet, vars
  <2> QED
    BY <2>1 DEF Flight
<1> QED
  BY <1>1, <1>2, <1>3, <1>4, <1>5 DEF Next, ArriveAny, LoseAny

LEMMA NumbersKept == Numbers /\ [Next]_vars => Numbers'
<1> SUFFICES ASSUME Numbers, [Next]_vars PROVE Numbers'
  OBVIOUS
<1> USE Constants
<1> USE DEF Numbers
<1>m. /\ UpTo(MaxLost + 1, missed + 1) \in Int /\ UpTo(MaxLost + 1, missed + 1) >= 0
      /\ UpTo(MaxLost + 1, missed + 1) <= MaxLost + 1
  BY DEF UpTo
<1>1. CASE SenderTurn
  <2>1. /\ sinceSent' \in Int /\ senderPause' = 0
        /\ missed' = missed \/ missed' = UpTo(MaxLost + 1, missed + 1)
    BY <1>1 DEF SenderTurn
  <2>2. UNCHANGED <<sinceHeard, receiverPause, settings, setBack, downFor>>
    BY <1>1, Zenon DEF SenderTurn, receiverVars, clockVars
  <2> QED
    BY <1>m, <2>1, <2>2
<1>2. CASE SenderOpens \/ ReceiverOpens \/ UNCHANGED vars
  <2>1. UNCHANGED <<sinceSent, senderPause, sinceHeard, receiverPause, settings, setBack,
                    missed, downFor>>
    BY <1>2, Zenon DEF SenderOpens, ReceiverOpens, vars, senderVars, receiverVars, clockVars
  <2> QED
    BY <2>1
<1>3. CASE SenderCrashes \/ SenderRestarts
  <2>1. /\ sinceSent' = Never \/ sinceSent' = sinceSent
        /\ senderPause' = 0 \/ senderPause' = senderPause
        /\ downFor' = 0
    BY <1>3, Zenon DEF SenderCrashes, SenderRestarts
  <2>2. UNCHANGED <<sinceHeard, receiverPause, settings, setBack, missed>>
    BY <1>3, Zenon DEF SenderCrashes, SenderRestarts, receiverVars, clockVars
  <2> QED
    BY <2>1, <2>2
<1>4. ASSUME NEW i \in DOMAIN flight, Arrive(i) \/ Lose(i) PROVE Numbers'
  <2>1. missed' = 0 \/ missed' = UpTo(MaxLost + 1, missed + 1)
    BY <1>4, Zenon DEF Arrive, Lose
  <2>2. UNCHANGED <<sinceSent, senderPause, sinceHeard, receiverPause, settings, setBack, downFor>>
    BY <1>4, Zenon DEF Arrive, Lose, senderVars, receiverVars, clockVars
  <2> QED
    BY <1>m, <2>1, <2>2
<1>5. CASE ReceiverTurn \/ ReceiverRestarts
  <2>1. receiverPause' = 0 /\ (sinceHeard' = 0 \/ sinceHeard' = sinceHeard)
    BY <1>5 DEF ReceiverTurn, HearMessages, ReceiverRestarts
  <2>2. UNCHANGED <<sinceSent, senderPause, settings, setBack, missed, downFor>>
    BY <1>5, Zenon DEF ReceiverTurn, HearMessages, ReceiverRestarts, senderVars, clockVars
  <2> QED
    BY <2>1, <2>2
<1>6. ASSUME NEW k \in Settings, SenderClockSet(k) PROVE Numbers'
  <2>1. sinceSent' \in Int /\ settings < MaxSet /\ settings' = settings + 1
    BY <1>6 DEF SenderClockSet
  <2>2. UNCHANGED <<sinceHeard, senderPause, receiverPause, setBack, missed, downFor>>
    BY <1>6, Zenon DEF SenderClockSet, receiverVars
  <2> QED
    BY <2>1, <2>2
<1>7. ASSUME NEW k \in Settings, ReceiverClockSet(k) PROVE Numbers'
  <2>1. sinceHeard' \in Int /\ sinceHeard' <= LongAgo
    BY <1>7, UpToFacts DEF ReceiverClockSet
  <2>2. /\ settings < MaxSet /\ settings' = settings + 1
        /\ setBack' \in Int /\ setBack' <= MaxBack /\ setBack' >= setBack
    BY <1>7 DEF ReceiverClockSet
  <2>3. UNCHANGED <<sinceSent, senderPause, receiverPause, missed, downFor>>
    BY <1>7, Zenon DEF ReceiverClockSet, senderVars
  <2> QED
    BY <2>1, <2>2, <2>3
<1>8. CASE Tick
  <2>1. /\ sinceSent' \in Int
        /\ senderPause' \in Int /\ 0 <= senderPause' /\ senderPause' <= MaxPause
        /\ receiverPause' \in Int /\ 0 <= receiverPause' /\ receiverPause' <= MaxPause
    BY <1>8 DEF Tick
  <2>2. sinceHeard' = 0 \/ sinceHeard' = UpTo(LongAgo, sinceHeard + 1)
    BY <1>8 DEF Tick
  <2>3. sinceHeard' \in Int /\ sinceHeard' <= LongAgo
    BY <2>2, UpToFacts
  <2>4. downFor' = 0 \/ downFor' = UpTo(DetectionTime + MaxBack + 1, downFor + 1)
    BY <1>8 DEF Tick
  <2>5. downFor' \in Int /\ 0 <= downFor' /\ downFor' <= DetectionTime + MaxBack + 1
    BY <2>4 DEF UpTo
  <2>6. UNCHANGED <<settings, setBack, missed>>
    BY <1>8, Zenon DEF Tick, clockVars
  <2> QED
    BY <2>1, <2>3, <2>5, <2>6
<1> QED
  BY <1>1, <1>2, <1>3, <1>4, <1>5, <1>6, <1>7, <1>8 DEF Next, ArriveAny, LoseAny

LEMMA TypeInit == Init => TypeOK
<1> SUFFICES ASSUME Init PROVE TypeOK
  OBVIOUS
<1>1. Switches /\ Routes
  BY DEF Init, Switches, Routes
<1>2. Flight
  BY DEF Init, Flight
<1>3. Numbers
  BY Constants DEF Init, Numbers
<1> QED
  BY <1>1, <1>2, <1>3, TypeParts

LEMMA TypeStep == TypeOK /\ [Next]_vars => TypeOK'
<1>1. TypeOK' <=> Switches' /\ Routes' /\ Flight' /\ Numbers'
  BY TypeParts, PTL
<1> QED
  BY <1>1, TypeParts, SwitchesKept, RoutesKept, FlightKept, NumbersKept

(* Every state has the types of TypeOK, for all values of the constants.   *)
THEOREM TypeCorrect == Spec => []TypeOK
  BY TypeInit, TypeStep, PTL DEF Spec

-----------------------------------------------------------------------------
(* A dead sender.  What it sent last bounds how long it has been down: the *)
(* age of every datagram, the wait of one that arrived, and the age of the *)
(* route, by a clock that may have been set back.  An age at its cap says  *)
(* nothing, and need not.                                                  *)
AliveIsNotDown  == up => downFor = 0
OlderThanDown   == \A i \in DOMAIN flight : downFor <= flight[i]
WaitedSinceDown == buffered => downFor <= MaxDelay + receiverPause
HeardBeforeDown ==
    route # "none" /\ sinceHeard <= Timeout + MaxBack - setBack =>
        downFor <= sinceHeard + setBack + Slack
OnlineBeforeDown ==
    route = "online" =>
        downFor < Timeout + setBack + Slack + receiverPause

DeadInv == AliveIsNotDown /\ OlderThanDown /\ WaitedSinceDown /\ HeardBeforeDown /\ OnlineBeforeDown

(* A step takes the sender's time on by one, ends it, or leaves it alone.  *)
LEMMA DownSteps ==
    ASSUME Numbers, AliveIsNotDown, [Next]_vars
    PROVE  /\ AliveIsNotDown'
           /\ Tick => downFor' <= downFor + 1
           /\ ~Tick => downFor' <= downFor
<1> USE Constants
<1> USE DEF Numbers, AliveIsNotDown
<1>1. CASE Tick
  <2>1. up' = up /\ downFor' = IF up THEN 0 ELSE UpTo(DetectionTime + MaxBack + 1, downFor + 1)
    BY <1>1 DEF Tick
  <2> QED
    BY <1>1, <2>1 DEF UpTo
<1>2. CASE SenderCrashes \/ SenderRestarts
  <2>1. downFor' = 0
    BY <1>2 DEF SenderCrashes, SenderRestarts
  <2> QED
    BY <2>1
<1>3. CASE ~Tick /\ ~SenderCrashes /\ ~SenderRestarts
  <2>1. downFor' = downFor /\ up' = up
    BY <1>3, Zenon DEF Next, vars, SenderTurn, SenderOpens, ArriveAny, LoseAny, Arrive, Lose,
       ReceiverTurn, HearMessages, ReceiverOpens, ReceiverRestarts, SenderClockSet,
       ReceiverClockSet, senderVars, receiverVars, clockVars
  <2> QED
    BY <1>3, <2>1
<1> QED
  BY <1>1, <1>2, <1>3

LEMMA OlderThanDownKept ==
    ASSUME Numbers, Flight, AliveIsNotDown, OlderThanDown, [Next]_vars
    PROVE  OlderThanDown'
<1> USE Constants
<1>0. /\ AliveIsNotDown'
      /\ Tick => downFor' <= downFor + 1
      /\ ~Tick => downFor' <= downFor
  BY DownSteps, Zenon
<1>n. downFor \in Int /\ downFor' \in Int
  BY NumbersKept DEF Numbers
<1>f. /\ Len(flight) \in Nat /\ DOMAIN flight = 1 .. Len(flight)
      /\ \A i \in DOMAIN flight : flight[i] \in 0 .. MaxDelay
  BY SeqFacts DEF Flight
<1>1. CASE Tick
  <2>1. flight' = [i \in DOMAIN flight |-> flight[i] + 1]
    BY <1>1 DEF Tick
  <2>2. DOMAIN flight' = DOMAIN flight /\ \A i \in DOMAIN flight : flight'[i] = flight[i] + 1
    BY <2>1
  <2>3. \A i \in DOMAIN flight : downFor' <= flight[i] + 1
    <3> TAKE i \in DOMAIN flight
    <3>1. flight[i] \in Int /\ downFor <= flight[i] /\ downFor' <= downFor + 1
      BY <1>0, <1>1, <1>f DEF OlderThanDown
    <3> QED
      BY <1>n, <3>1
  <2> QED
    BY <2>2, <2>3 DEF OlderThanDown
<1>2. ASSUME NEW i \in DOMAIN flight, Arrive(i) \/ Lose(i) PROVE OlderThanDown'
  <2>1. flight' = RemoveAt(flight, i) /\ downFor' = downFor
    BY <1>2, Zenon DEF Arrive, Lose
  <2>2. /\ flight' \in Seq(0 .. MaxDelay) /\ Len(flight') = Len(flight) - 1
        /\ \A k \in 1 .. Len(flight) - 1 :
              flight'[k] = IF k < i THEN flight[k] ELSE flight[k + 1]
    BY <2>1, RemoveAtFacts DEF Flight
  <2>3. DOMAIN flight' = 1 .. Len(flight) - 1
    BY <2>2, SeqFacts
  <2>4. \A k \in 1 .. Len(flight) - 1 : k \in DOMAIN flight /\ k + 1 \in DOMAIN flight
    BY <1>f
  <2> QED
    BY <2>1, <2>2, <2>3, <2>4 DEF OlderThanDown
<1>3. CASE SenderTurn
  <2>1. up /\ (flight' = flight \/ flight' = Append(flight, 0)) /\ up' = up
    BY <1>3 DEF SenderTurn
  <2>2. downFor' = 0
    <3>1. AliveIsNotDown'
      BY <1>0
    <3> QED
      BY <2>1, <3>1 DEF AliveIsNotDown
  <2>3. flight' \in Seq(0 .. MaxDelay)
    BY FlightKept DEF Flight
  <2> QED
    BY <2>2, <2>3, SeqFacts DEF OlderThanDown
<1>4. CASE ~Tick /\ ~SenderTurn /\ ~ArriveAny /\ ~LoseAny
  <2>1. flight' = flight
    BY <1>4, Zenon DEF Next, vars, SenderOpens, SenderCrashes, SenderRestarts, ReceiverTurn,
       HearMessages, ReceiverOpens, ReceiverRestarts, SenderClockSet, ReceiverClockSet
  <2> QED
    BY <1>0, <1>4, <1>f, <1>n, <2>1 DEF OlderThanDown
<1> QED
  BY <1>1, <1>2, <1>3, <1>4 DEF ArriveAny, LoseAny

LEMMA WaitedSinceDownKept ==
    ASSUME Numbers, Flight, AliveIsNotDown, OlderThanDown, WaitedSinceDown, [Next]_vars
    PROVE  WaitedSinceDown'
<1> USE Constants
<1>0. (Tick => downFor' <= downFor + 1) /\ (~Tick => downFor' <= downFor)
  BY DownSteps, Zenon
<1>n. downFor \in Int /\ downFor' \in Int /\ receiverPause \in Int /\ receiverPause >= 0
  BY NumbersKept DEF Numbers
<1>1. CASE Tick
  <2>1. buffered' = buffered /\ receiverPause' = receiverPause + 1
    BY <1>1 DEF Tick
  <2> QED
    BY <1>0, <1>1, <1>n, <2>1 DEF WaitedSinceDown
<1>2. ASSUME NEW i \in DOMAIN flight, Arrive(i) PROVE WaitedSinceDown'
  <2>1. downFor' = downFor /\ receiverPause' = receiverPause
    BY <1>2 DEF Arrive
  <2>2. downFor <= flight[i] /\ flight[i] \in 0 .. MaxDelay
    BY SeqFacts DEF OlderThanDown, Flight
  <2> QED
    BY <1>n, <2>1, <2>2 DEF WaitedSinceDown
<1>3. CASE ReceiverTurn \/ ReceiverRestarts
  BY <1>3 DEF ReceiverTurn, HearMessages, ReceiverRestarts, WaitedSinceDown
<1>4. CASE ~Tick /\ ~ArriveAny /\ ~ReceiverTurn /\ ~ReceiverRestarts
  <2>1. buffered' = buffered /\ receiverPause' = receiverPause
    BY <1>4, Zenon DEF Next, vars, SenderTurn, SenderOpens, SenderCrashes, SenderRestarts, LoseAny,
       Lose, ReceiverOpens, SenderClockSet, ReceiverClockSet, receiverVars
  <2> QED
    BY <1>0, <1>4, <1>n, <2>1 DEF WaitedSinceDown
<1> QED
  BY <1>1, <1>2, <1>3, <1>4 DEF ArriveAny

LEMMA HeardBeforeDownKept ==
    ASSUME Numbers, Routes, AliveIsNotDown, WaitedSinceDown, HeardBeforeDown, [Next]_vars
    PROVE  HeardBeforeDown'
<1> USE Constants
<1>0. (Tick => downFor' <= downFor + 1) /\ (~Tick => downFor' <= downFor)
  BY DownSteps, Zenon
<1>n. /\ downFor \in Int /\ downFor' \in Int /\ sinceHeard \in Int /\ sinceHeard' \in Int
      /\ receiverPause \in Int /\ receiverPause <= MaxPause
      /\ setBack \in Int /\ 0 <= setBack /\ setBack <= MaxBack
  BY NumbersKept, Zenon DEF Numbers
<1>1. CASE Tick
  <2>1. /\ route' = route /\ setBack' = setBack
        /\ route # "none" => sinceHeard' = UpTo(LongAgo, sinceHeard + 1)
    BY <1>1 DEF Tick, clockVars
  <2>2. downFor' <= downFor + 1
    BY <1>0, <1>1
  <2>3. CASE route # "none" /\ sinceHeard < LongAgo
    <3>1. sinceHeard' = sinceHeard + 1
      BY <1>n, <2>1, <2>3 DEF UpTo
    <3> QED
      BY <1>n, <2>1, <2>2, <3>1 DEF HeardBeforeDown
  <2>4. CASE route # "none" /\ ~(sinceHeard < LongAgo)
    <3>1. sinceHeard' >= LongAgo
      BY <1>n, <2>1, <2>4 DEF UpTo
    <3> QED
      BY <1>n, <2>1, <3>1 DEF HeardBeforeDown
  <2> QED
    BY <2>1, <2>3, <2>4 DEF HeardBeforeDown
<1>2. CASE ReceiverTurn
  <2>1. /\ setBack' = setBack /\ sinceHeard' = IF buffered THEN 0 ELSE sinceHeard
        /\ downFor' = downFor
    BY <1>2 DEF ReceiverTurn, HearMessages
  <2>2. CASE buffered
    BY <1>n, <2>1, <2>2 DEF HeardBeforeDown, WaitedSinceDown
  <2>3. CASE ~buffered
    <3>1. route' # "none" => route # "none"
      BY <1>2, <2>3 DEF ReceiverTurn
    <3> QED
      BY <1>n, <2>1, <2>3, <3>1 DEF HeardBeforeDown
  <2> QED
    BY <2>2, <2>3
<1>3. CASE ReceiverRestarts
  BY <1>3 DEF ReceiverRestarts, HeardBeforeDown
<1>4. ASSUME NEW k \in Settings, ReceiverClockSet(k) PROVE HeardBeforeDown'
  <2>1. k \in Int
    OBVIOUS
  <2>2. /\ sinceHeard' = UpTo(LongAgo, sinceHeard + k) /\ route' = route /\ downFor' = downFor
        /\ setBack' = IF k < 0 THEN setBack - k ELSE setBack
    BY <1>4 DEF ReceiverClockSet
  <2>3. setBack' \in Int /\ setBack' >= setBack /\ setBack' + k <= setBack + (IF k < 0 THEN 0 ELSE k)
    BY <1>n, <2>1, <2>2
  <2> QED
    BY <1>n, <2>1, <2>2 DEF HeardBeforeDown, UpTo
<1>5. CASE ~Tick /\ ~ReceiverTurn /\ ~ReceiverRestarts /\ ~\E k \in Settings : ReceiverClockSet(k)
  <2>1. route' = route /\ sinceHeard' = sinceHeard /\ setBack' = setBack
    BY <1>5, Zenon DEF Next, vars, SenderTurn, SenderOpens, SenderCrashes, SenderRestarts,
       ArriveAny, LoseAny, Arrive, Lose, ReceiverOpens, SenderClockSet, receiverVars, clockVars
  <2> QED
    BY <1>0, <1>5, <1>n, <2>1 DEF HeardBeforeDown
<1> QED
  BY <1>1, <1>2, <1>3, <1>4, <1>5

LEMMA Bounds ==
    ASSUME NEW d \in Int, NEW h \in Int, NEW b \in Int, NEW c \in Int, NEW p \in Int
    PROVE  /\ h < Timeout /\ d <= h + b + Slack => d < Timeout + b + Slack + 0
           /\ d < Timeout + b + Slack + p /\ c >= b => d < Timeout + c + Slack + p
  BY Constants

LEMMA OnlineBeforeDownKept ==
    ASSUME Numbers, Routes, AliveIsNotDown, WaitedSinceDown, HeardBeforeDown, OnlineBeforeDown,
           [Next]_vars
    PROVE  OnlineBeforeDown'
<1> USE Constants
<1>0. (Tick => downFor' <= downFor + 1) /\ (~Tick => downFor' <= downFor)
  BY DownSteps, Zenon
<1>n. /\ downFor \in Int /\ downFor' \in Int /\ sinceHeard \in Int
      /\ receiverPause \in Int /\ receiverPause' \in Int
      /\ setBack \in Int /\ 0 <= setBack /\ setBack <= MaxBack
  BY NumbersKept, Zenon DEF Numbers
<1>1. CASE Tick
  <2>1. route' = route /\ setBack' = setBack /\ receiverPause' = receiverPause + 1
    BY <1>1 DEF Tick, clockVars
  <2> QED
    BY <1>0, <1>1, <1>n, <2>1 DEF OnlineBeforeDown
<1>2. CASE ReceiverTurn
  <2>1. /\ setBack' = setBack /\ receiverPause' = 0 /\ downFor' = downFor
        /\ sinceHeard' \in Int
    BY <1>2, <1>n DEF ReceiverTurn, HearMessages
  <2>2. HeardBeforeDown'
    BY HeardBeforeDownKept, Zenon
  <2>3. route' = "online" => sinceHeard' < Timeout
    BY <1>2 DEF ReceiverTurn, IsRouteOnline
  <2>4. route' = "online" => downFor' <= sinceHeard' + setBack' + Slack
    <3>1. route' = "online" => sinceHeard' <= Timeout + MaxBack - setBack'
      BY <1>n, <2>1, <2>3
    <3> QED
      BY <2>2, <3>1 DEF HeardBeforeDown
  <2>5. route' = "online" =>
            downFor' < Timeout + setBack' + Slack + receiverPause'
    BY <1>n, <2>1, <2>3, <2>4, Bounds
  <2> QED
    BY <2>5 DEF OnlineBeforeDown
<1>3. CASE ReceiverRestarts
  BY <1>3 DEF ReceiverRestarts, OnlineBeforeDown
<1>4. ASSUME NEW k \in Settings, ReceiverClockSet(k) PROVE OnlineBeforeDown'
  <2>1. /\ route' = route /\ downFor' = downFor /\ receiverPause' = receiverPause
        /\ setBack' \in Int /\ setBack' >= setBack
    BY <1>4, <1>n DEF ReceiverClockSet
  <2>2. route' = "online" =>
            downFor < Timeout + setBack + Slack + receiverPause
    BY <2>1 DEF OnlineBeforeDown
  <2>3. route' = "online" =>
            downFor' < Timeout + setBack' + Slack + receiverPause'
    BY <1>n, <2>1, <2>2, Bounds
  <2> QED
    BY <2>3 DEF OnlineBeforeDown
<1>5. CASE ~Tick /\ ~ReceiverTurn /\ ~ReceiverRestarts /\ ~\E k \in Settings : ReceiverClockSet(k)
  <2>1. route' = route /\ receiverPause' = receiverPause /\ setBack' = setBack
    BY <1>5, Zenon DEF Next, vars, SenderTurn, SenderOpens, SenderCrashes, SenderRestarts,
       ArriveAny, LoseAny, Arrive, Lose, ReceiverOpens, SenderClockSet, receiverVars, clockVars
  <2> QED
    BY <1>0, <1>5, <1>n, <2>1 DEF OnlineBeforeDown
<1> QED
  BY <1>1, <1>2, <1>3, <1>4, <1>5

(* A neighbour that stays down is not online for longer than the detection *)
(* time, and what the clock of the receiver was set back: route_manager's  *)
(* update takes it from the table's good routes in time, however late its  *)
(* last datagram came.                                                     *)
THEOREM DeadAreDetected == Spec => []DeadIsDetected
<1> USE Constants
<1>1. Init => TypeOK /\ DeadInv
  <2>1. Init => TypeOK
    BY TypeInit
  <2>2. Init => DeadInv
    BY DEF Init, DeadInv, AliveIsNotDown, OlderThanDown, WaitedSinceDown, HeardBeforeDown,
       OnlineBeforeDown
  <2> QED
    BY <2>1, <2>2
<1>2. TypeOK /\ DeadInv /\ [Next]_vars => (TypeOK /\ DeadInv)'
  <2> SUFFICES ASSUME TypeOK, DeadInv, [Next]_vars PROVE TypeOK' /\ DeadInv'
    OBVIOUS
  <2>1. TypeOK' /\ Switches /\ Routes /\ Flight /\ Numbers
    BY TypeParts, TypeStep
  <2>2. /\ AliveIsNotDown /\ OlderThanDown /\ WaitedSinceDown /\ HeardBeforeDown
        /\ OnlineBeforeDown
    BY DEF DeadInv
  <2>3. AliveIsNotDown'
    BY <2>1, <2>2, DownSteps, Zenon
  <2>4. OlderThanDown' /\ WaitedSinceDown'
    BY <2>1, <2>2, OlderThanDownKept, WaitedSinceDownKept, Zenon
  <2>5. HeardBeforeDown' /\ OnlineBeforeDown'
    BY <2>1, <2>2, HeardBeforeDownKept, OnlineBeforeDownKept, Zenon
  <2> QED
    BY <2>1, <2>3, <2>4, <2>5, Zenon DEF DeadInv
<1>3. TypeOK /\ DeadInv => DeadIsDetected
  BY TypeParts DEF DeadInv, OnlineBeforeDown, DeadIsDetected, Numbers
<1> QED
  BY <1>1, <1>2, <1>3, PTL DEF Spec

-----------------------------------------------------------------------------
(* A live sender.  At most one datagram is under way that was sent since   *)
(* the sender last crashed or its clock was set, and it is as old as the   *)
(* last announcement.  Since a datagram of this life of the sender was     *)
(* heard, the sender announces itself in every period, so the age of the   *)
(* route is that of the announcements that failed, and of the last one.    *)
Period == Interval + MaxPause
Silence(n) == n * Period

Fresh == stale < Len(flight)

FreshIsLast ==
    Fresh => up /\ stale = Len(flight) - 1 /\ flight[Len(flight)] = sinceSent
Announces ==
    ~interrupted /\ (route # "none" \/ buffered) =>
        up /\ 0 <= sinceSent /\ sinceSent <= Interval + senderPause
Pending == IF Fresh THEN Period ELSE 0
AgeOfRoute ==
    ~interrupted /\ ~jumped /\ route # "none" /\ ~buffered /\ missed <= MaxLost =>
        sinceHeard <= Silence(missed) + Pending + sinceSent

LiveInv == FreshIsLast /\ Announces /\ AgeOfRoute /\ NoFalseSuspicion

LEMMA Silences ==
    /\ Period \in Nat /\ Period = Interval + MaxPause
    /\ Silence(0) = 0
    /\ \A n \in Nat : Silence(n) \in Nat /\ Silence(n + 1) = Silence(n) + Period
    /\ \A n \in Nat : n <= MaxLost => Silence(n) + Period + MaxDelay < Timeout
<1>1. Period \in Nat
  BY Constants DEF Period
<1>2. \A n \in Nat : n * Period \in Nat /\ (n + 1) * Period = n * Period + Period
  BY <1>1
<1>3. ASSUME NEW n \in Nat, n <= MaxLost PROVE n * Period <= MaxLost * Period
  <2>1. PICK d \in Nat : MaxLost = n + d
    <3>1. MaxLost - n \in Nat /\ MaxLost = n + (MaxLost - n)
      BY <1>3, Constants
    <3> QED
      BY <3>1
  <2>2. MaxLost * Period = n * Period + d * Period /\ d * Period \in Nat
    BY <1>1, <2>1
  <2> QED
    BY <1>2, <2>2
<1>4. (MaxLost + 1) * Period + MaxDelay < Timeout
  BY TimingAssumption DEF Period
<1>5. (MaxLost + 1) * Period = MaxLost * Period + Period /\ MaxLost * Period \in Nat
  BY <1>2, Constants
<1>6. \A n \in Nat : n <= MaxLost => n * Period + Period + MaxDelay < Timeout
  <2> TAKE n \in Nat
  <2> HAVE n <= MaxLost
  <2>1. n * Period <= MaxLost * Period /\ n * Period \in Nat
    BY <1>2, <1>3
  <2> QED
    BY <1>1, <1>4, <1>5, <2>1, Constants
<1>7. 0 * Period = 0
  BY <1>1
<1> QED
  BY <1>1, <1>2, <1>6, <1>7 DEF Silence, Period

(* What a receiver or the sender needs of the flight.                      *)
LEMMA FreshAge ==
    ASSUME Flight, FreshIsLast, Fresh
    PROVE  up /\ stale = Len(flight) - 1 /\ sinceSent \in 0 .. MaxDelay
<1>1. up /\ stale = Len(flight) - 1 /\ flight[Len(flight)] = sinceSent
  BY DEF FreshIsLast
<1>2. Len(flight) \in Nat /\ stale \in Int /\ 0 <= stale /\ stale < Len(flight)
  BY SeqFacts DEF Flight, Fresh
<1>3. Len(flight) \in DOMAIN flight
  BY <1>2, SeqFacts DEF Flight
<1> QED
  BY <1>1, <1>3, SeqFacts DEF Flight

LEMMA DueIsNotFresh ==
    ASSUME Flight, FreshIsLast, IsDue(sinceSent)
    PROVE  ~Fresh
<1> SUFFICES ASSUME Fresh PROVE FALSE
  OBVIOUS
<1>1. sinceSent \in 0 .. MaxDelay /\ sinceSent > Interval
  BY FreshAge DEF IsDue
<1> QED
  BY <1>1, Constants, TimingAssumption

LEMMA FreshIsLastKept ==
    ASSUME Numbers, Flight, FreshIsLast, [Next]_vars
    PROVE  FreshIsLast'
<1> USE Constants
<1>f. /\ flight \in Seq(0 .. MaxDelay) /\ Len(flight) \in Nat
      /\ DOMAIN flight = 1 .. Len(flight)
      /\ stale \in Int /\ 0 <= stale /\ stale <= Len(flight)
  BY SeqFacts DEF Flight
<1>1. CASE SenderTurn /\ IsDue(sinceSent)
  <2>1. /\ stale' = stale /\ up /\ up' = up /\ sinceSent' = 0
        /\ flight' = IF senderClient THEN Append(flight, 0) ELSE flight
    BY <1>1 DEF SenderTurn
  <2>2. stale = Len(flight)
    <3>1. ~(stale < Len(flight))
      BY <1>1, DueIsNotFresh, Zenon DEF Fresh
    <3>2. Len(flight) \in Int /\ stale \in Int /\ stale <= Len(flight)
      BY <1>f
    <3> QED
      BY <3>1, <3>2
  <2>3. CASE senderClient
    <3>1. Len(flight') = Len(flight) + 1 /\ flight'[Len(flight) + 1] = 0
      BY <1>f, <2>1, <2>3
    <3>2. stale' = Len(flight') - 1 /\ flight'[Len(flight')] = sinceSent' /\ up'
      BY <1>f, <2>1, <2>2, <3>1
    <3> QED
      BY <3>2 DEF FreshIsLast
  <2>4. CASE ~senderClient
    <3>1. stale' = stale /\ flight' = flight
      BY <2>1, <2>4
    <3>2. ~(stale' < Len(flight'))
      BY <1>f, <2>2, <3>1
    <3> QED
      BY <3>2 DEF FreshIsLast, Fresh
  <2> QED
    BY <2>3, <2>4
<1>2. CASE SenderCrashes \/ \E k \in Settings : SenderClockSet(k)
  <2>1. stale' = Len(flight) /\ flight' = flight
    BY <1>2 DEF SenderCrashes, SenderClockSet
  <2>2. ~(stale' < Len(flight'))
    BY <1>f, <2>1
  <2> QED
    BY <2>2 DEF FreshIsLast, Fresh
<1>3. ASSUME NEW i \in DOMAIN flight, Arrive(i) \/ Lose(i) PROVE FreshIsLast'
  <2>1. flight' = RemoveAt(flight, i) /\ stale' = IF i <= stale THEN stale - 1 ELSE stale
    BY <1>3 DEF Arrive, Lose
  <2>2. up' = up /\ sinceSent' = sinceSent
    BY <1>3, Zenon DEF Arrive, Lose, senderVars
  <2>3. /\ Len(flight') = Len(flight) - 1
        /\ \A k \in 1 .. Len(flight) - 1 :
              flight'[k] = IF k < i THEN flight[k] ELSE flight[k + 1]
    BY <1>f, <2>1, RemoveAtFacts
  <2>4. i \in Int /\ 1 <= i /\ i <= Len(flight)
    BY <1>f
  <2>5. SUFFICES ASSUME Fresh'
                 PROVE  up' /\ stale' = Len(flight') - 1 /\ flight'[Len(flight')] = sinceSent'
    BY DEF FreshIsLast
  <2>6. stale' < Len(flight) - 1
    BY <2>3, <2>5 DEF Fresh
  <2>7. Fresh
    BY <1>f, <2>1, <2>4, <2>6 DEF Fresh
  <2>8. up /\ stale = Len(flight) - 1 /\ flight[Len(flight)] = sinceSent
    BY <2>7 DEF FreshIsLast
  <2>9. i <= stale
    BY <1>f, <2>1, <2>4, <2>6, <2>8
  <2>10. flight'[Len(flight) - 1] = flight[Len(flight)]
    <3>1. Len(flight) - 1 \in 1 .. Len(flight) - 1 /\ ~(Len(flight) - 1 < i)
      BY <1>f, <2>4, <2>8, <2>9
    <3>2. flight'[Len(flight) - 1] = flight[(Len(flight) - 1) + 1]
      BY <2>3, <3>1
    <3> QED
      BY <1>f, <3>2
  <2> QED
    BY <1>f, <2>1, <2>2, <2>3, <2>8, <2>9, <2>10
<1>4. CASE Tick
  <2>1. /\ stale' = stale /\ up' = up /\ flight' = [i \in DOMAIN flight |-> flight[i] + 1]
        /\ up => sinceSent' = sinceSent + 1
    BY <1>4 DEF Tick
  <2>2. Len(flight') = Len(flight)
    BY <1>f, <2>1
  <2>3. SUFFICES ASSUME Fresh'
                 PROVE  up' /\ stale' = Len(flight') - 1 /\ flight'[Len(flight')] = sinceSent'
    BY DEF FreshIsLast
  <2>4. Fresh
    BY <2>1, <2>2, <2>3 DEF Fresh
  <2>5. up /\ stale = Len(flight) - 1 /\ flight[Len(flight)] = sinceSent
    BY <2>4 DEF FreshIsLast
  <2>6. Len(flight) \in DOMAIN flight
    BY <1>f, <2>5
  <2> QED
    BY <2>1, <2>2, <2>5, <2>6
<1>5. CASE SenderRestarts
  <2>1. ~up /\ stale' = stale /\ flight' = flight
    BY <1>5 DEF SenderRestarts
  <2>2. ~Fresh
    BY <2>1 DEF FreshIsLast
  <2> QED
    BY <2>1, <2>2 DEF FreshIsLast, Fresh
<1>6. CASE (SenderTurn /\ ~IsDue(sinceSent)) \/ SenderOpens \/ ReceiverTurn \/ ReceiverOpens
           \/ ReceiverRestarts \/ (\E k \in Settings : ReceiverClockSet(k)) \/ UNCHANGED vars
  <2>1. stale' = stale /\ flight' = flight /\ up' = up /\ sinceSent' = sinceSent
    BY <1>6, Zenon DEF SenderTurn, SenderOpens, ReceiverTurn, HearMessages, ReceiverOpens,
       ReceiverRestarts, ReceiverClockSet, vars, senderVars
  <2> QED
    BY <2>1 DEF FreshIsLast, Fresh
<1> QED
  BY <1>1, <1>2, <1>3, <1>4, <1>5, <1>6 DEF Next, ArriveAny, LoseAny

LEMMA AnnouncesKept ==
    ASSUME Numbers, Flight, FreshIsLast, Announces, [Next]_vars
    PROVE  Announces'
<1> USE Constants
<1>n. /\ sinceSent \in Int /\ senderPause \in Int /\ senderPause >= 0
      /\ senderPause' \in Int /\ sinceSent' \in Int
  BY NumbersKept, Zenon DEF Numbers
<1>1. CASE SenderTurn
  <2>1. /\ up /\ up' = up /\ senderPause' = 0
        /\ sinceSent' = IF IsDue(sinceSent) THEN 0 ELSE sinceSent
    BY <1>1 DEF SenderTurn
  <2>2. UNCHANGED <<interrupted, route, buffered>>
    BY <1>1, Zenon DEF SenderTurn, receiverVars
  <2>3. ~interrupted' /\ (route' # "none" \/ buffered') => 0 <= sinceSent
    BY <2>2 DEF Announces
  <2>4. ~interrupted' /\ (route' # "none" \/ buffered') =>
            0 <= sinceSent' /\ sinceSent' <= Interval
    BY <1>n, <2>1, <2>3 DEF IsDue
  <2> QED
    BY <1>n, <2>1, <2>4 DEF Announces
<1>2. CASE SenderCrashes \/ \E k \in Settings : SenderClockSet(k)
  <2>1. interrupted'
    BY <1>2 DEF SenderCrashes, SenderClockSet
  <2> QED
    BY <2>1 DEF Announces
<1>3. CASE SenderRestarts
  <2>1. ~up /\ UNCHANGED <<interrupted, route, buffered>>
    BY <1>3, Zenon DEF SenderRestarts, receiverVars
  <2> QED
    BY <2>1 DEF Announces
<1>4. ASSUME NEW i \in DOMAIN flight, Arrive(i) PROVE Announces'
  <2>1. UNCHANGED <<up, sinceSent, senderPause>>
    BY <1>4, Zenon DEF Arrive, senderVars
  <2>2. ~interrupted' => ~(i <= stale)
    BY <1>4 DEF Arrive
  <2>3. Len(flight) \in Nat /\ i \in 1 .. Len(flight) /\ stale \in Int
    BY SeqFacts DEF Flight
  <2>4. ~interrupted' => Fresh
    BY <2>2, <2>3 DEF Fresh
  <2>5. ~interrupted' => up /\ sinceSent \in 0 .. MaxDelay
    BY <2>4, FreshAge
  <2>6. ~interrupted' => up' /\ 0 <= sinceSent' /\ sinceSent' <= Interval + senderPause'
    BY <1>n, <2>1, <2>5, TimingAssumption
  <2> QED
    BY <2>6 DEF Announces
<1>5. CASE Tick
  <2>1. /\ up' = up /\ UNCHANGED <<interrupted, route, buffered>>
        /\ up => sinceSent' = sinceSent + 1 /\ senderPause' = senderPause + 1
    BY <1>5 DEF Tick
  <2>2. SUFFICES ASSUME ~interrupted', route' # "none" \/ buffered'
                 PROVE  up' /\ 0 <= sinceSent' /\ sinceSent' <= Interval + senderPause'
    BY DEF Announces
  <2>3. up /\ 0 <= sinceSent /\ sinceSent <= Interval + senderPause
    BY <2>1, <2>2 DEF Announces
  <2> QED
    BY <1>n, <2>1, <2>3
<1>6. CASE ReceiverTurn
  <2>1. /\ UNCHANGED <<up, sinceSent, senderPause, interrupted>> /\ ~buffered'
        /\ route' # "none" => route # "none" \/ buffered
    BY <1>6 DEF ReceiverTurn, HearMessages, senderVars
  <2> QED
    BY <2>1 DEF Announces
<1>7. CASE ReceiverRestarts
  BY <1>7 DEF ReceiverRestarts, Announces
<1>8. CASE SenderOpens \/ LoseAny \/ ReceiverOpens \/ (\E k \in Settings : ReceiverClockSet(k))
           \/ UNCHANGED vars
  <2>1. UNCHANGED <<up, sinceSent, senderPause, interrupted, route, buffered>>
    BY <1>8, Zenon DEF SenderOpens, LoseAny, Lose, ReceiverOpens, ReceiverClockSet, vars,
       senderVars, receiverVars
  <2> QED
    BY <2>1 DEF Announces
<1> QED
  BY <1>1, <1>2, <1>3, <1>4, <1>5, <1>6, <1>7, <1>8 DEF Next, ArriveAny

LEMMA AgeOfRouteKept ==
    ASSUME Numbers, Routes, Flight, FreshIsLast, Announces, AgeOfRoute, [Next]_vars
    PROVE  AgeOfRoute'
<1> USE Constants, Silences
<1>n. /\ sinceSent \in Int /\ sinceSent' \in Int /\ sinceHeard \in Int /\ sinceHeard' \in Int
      /\ senderPause \in Int /\ senderPause <= MaxPause
      /\ missed \in Int /\ 0 <= missed /\ missed' \in Int /\ 0 <= missed'
  BY NumbersKept, Zenon DEF Numbers
<1>m. missed \in Nat /\ missed' \in Nat
  BY <1>n
<1>p. Pending \in {0, Period} /\ Pending' \in {0, Period}
  BY DEF Pending
<1>s. SUFFICES ASSUME ~interrupted', ~jumped', route' # "none", ~buffered', missed' <= MaxLost
               PROVE  sinceHeard' <= Silence(missed') + Pending' + sinceSent'
  BY DEF AgeOfRoute
<1> DEFINE Before == sinceHeard <= Silence(missed) + Pending + sinceSent
           OldPremise == /\ ~interrupted /\ ~jumped /\ route # "none" /\ ~buffered
                         /\ missed <= MaxLost
<1>o. OldPremise => Before
  BY DEF AgeOfRoute
<1> HIDE DEF OldPremise
<1>1. CASE SenderTurn /\ IsDue(sinceSent)
  <2>1. OldPremise /\ sinceHeard' = sinceHeard /\ sinceSent' = 0
    <3>1. UNCHANGED <<interrupted, jumped, route, buffered, sinceHeard>> /\ sinceSent' = 0
      BY <1>1, Zenon DEF SenderTurn, receiverVars, clockVars
    <3>2. missed' <= MaxLost => missed <= MaxLost
      BY <1>1, <1>n DEF SenderTurn, UpTo
    <3> QED
      BY <1>s, <3>1, <3>2 DEF OldPremise
  <2>2. sinceSent <= Period
    BY <1>n, <2>1 DEF OldPremise, Announces
  <2>3. stale = Len(flight) /\ ~Fresh /\ Pending = 0
    <3>1. ~Fresh
      BY <1>1, DueIsNotFresh
    <3>2. Len(flight) \in Nat /\ stale \in Int /\ stale <= Len(flight)
      BY SeqFacts DEF Flight
    <3> QED
      BY <3>1, <3>2 DEF Fresh, Pending
  <2>4. sinceHeard <= Silence(missed) + Period
    <3>1. sinceHeard <= Silence(missed) + 0 + sinceSent /\ Silence(missed) \in Int
      BY <1>o, <1>m, <2>1, <2>3
    <3> QED
      BY <1>n, <2>2, <3>1
  <2>5. CASE senderClient
    <3>1. /\ missed' = missed /\ stale' = stale /\ flight' = Append(flight, 0)
      BY <1>1, <2>5 DEF SenderTurn
    <3>2. Len(flight') = Len(flight) + 1 /\ Len(flight) \in Nat
      BY <3>1, SeqFacts DEF Flight
    <3>3. Pending' = Period
      BY <2>3, <3>1, <3>2 DEF Pending, Fresh
    <3>4. Silence(missed') = Silence(missed) /\ Silence(missed) \in Nat
      BY <1>m, <3>1
    <3>5. Silence(missed') + Pending' + sinceSent' = Silence(missed) + Period
      BY <2>1, <3>3, <3>4
    <3> QED
      BY <2>1, <2>4, <3>5
  <2>6. CASE ~senderClient
    <3>1. missed' = missed + 1
      BY <1>1, <1>n, <1>s, <2>6 DEF SenderTurn, UpTo
    <3>2. Silence(missed') = Silence(missed) + Period
      BY <1>m, <3>1
    <3> QED
      BY <1>m, <1>n, <1>p, <2>1, <2>4, <3>2
  <2> QED
    BY <2>5, <2>6
<1>2. CASE SenderCrashes \/ (\E k \in Settings : SenderClockSet(k)) \/ ReceiverRestarts
  BY <1>2, <1>s DEF SenderCrashes, SenderClockSet, ReceiverRestarts
<1>3. CASE ArriveAny
  BY <1>3, <1>s DEF ArriveAny, Arrive
<1>4. ASSUME NEW i \in DOMAIN flight, Lose(i) PROVE sinceHeard' <= Silence(missed') + Pending' + sinceSent'
  <2>1. /\ UNCHANGED <<interrupted, jumped, route, buffered, sinceHeard, sinceSent>>
        /\ missed' = UpTo(MaxLost + 1, missed + 1)
    BY <1>4, Zenon DEF Lose, senderVars, receiverVars, clockVars
  <2>2. missed' = missed + 1 /\ missed <= MaxLost
    BY <1>n, <1>s, <2>1 DEF UpTo
  <2>3. Before
    BY <1>o, <1>s, <2>1, <2>2 DEF OldPremise
  <2>4. Silence(missed') = Silence(missed) + Period
    BY <1>m, <2>2
  <2>5. Pending <= Period /\ 0 <= Pending' /\ Pending \in Int /\ Pending' \in Int
    BY <1>p
  <2>6. Silence(missed) \in Int
    BY <1>m
  <2> QED
    BY <1>n, <2>1, <2>3, <2>4, <2>5, <2>6
<1>5. CASE Tick
  <2>1. /\ UNCHANGED <<interrupted, jumped, route, buffered, missed, stale, up>>
        /\ up => sinceSent' = sinceSent + 1
        /\ sinceHeard' = IF route = "none" THEN 0 ELSE UpTo(LongAgo, sinceHeard + 1)
        /\ flight' = [i \in DOMAIN flight |-> flight[i] + 1]
    BY <1>5 DEF Tick, clockVars
  <2>2. up /\ OldPremise
    BY <1>s, <2>1 DEF OldPremise, Announces
  <2>3. sinceHeard' <= sinceHeard + 1
    BY <1>n, <1>s, <2>1 DEF UpTo
  <2>4. Len(flight') = Len(flight)
    BY <2>1, SeqFacts DEF Flight
  <2>5. Pending' = Pending
    BY <2>1, <2>4 DEF Pending, Fresh
  <2>6. Silence(missed) \in Int /\ Silence(missed') = Silence(missed) /\ Pending \in Int
    BY <1>m, <1>p, <2>1
  <2> QED
    BY <1>n, <1>o, <2>1, <2>2, <2>3, <2>5, <2>6
<1>6. CASE ReceiverTurn
  <2>1. /\ UNCHANGED <<flight, stale, sinceSent, missed, interrupted>>
        /\ sinceHeard' = IF buffered THEN 0 ELSE sinceHeard
        /\ ~buffered => ~jumped /\ route # "none"
    <3>1. UNCHANGED <<flight, stale, sinceSent, missed, interrupted>>
      BY <1>6, Zenon DEF ReceiverTurn, HearMessages, senderVars
    <3>2. sinceHeard' = (IF buffered THEN 0 ELSE sinceHeard)
      BY <1>6 DEF ReceiverTurn, HearMessages
    <3>3. ASSUME ~buffered PROVE ~jumped /\ route # "none"
      BY <1>6, <1>s, <3>3 DEF ReceiverTurn, HearMessages
    <3> QED
      BY <3>1, <3>2, <3>3
  <2>2. Pending' = Pending /\ Silence(missed') = Silence(missed)
    BY <2>1 DEF Pending, Fresh
  <2>3. CASE buffered
    <3>1. 0 <= sinceSent
      BY <1>s, <2>1, <2>3 DEF Announces
    <3>2. Silence(missed) \in Nat /\ Pending \in Nat
      BY <1>m, <1>p
    <3> QED
      BY <1>n, <2>1, <2>2, <2>3, <3>1, <3>2
  <2>4. CASE ~buffered
    BY <1>o, <1>s, <2>1, <2>2, <2>4 DEF OldPremise
  <2> QED
    BY <2>3, <2>4
<1>7. ASSUME NEW k \in Settings, ReceiverClockSet(k) PROVE sinceHeard' <= Silence(missed') + Pending' + sinceSent'
  <2>1. /\ UNCHANGED <<flight, stale, sinceSent, missed, interrupted, route, buffered>>
        /\ sinceHeard' = UpTo(LongAgo, sinceHeard + k) /\ jumped' = (jumped \/ k > 0)
    BY <1>7, Zenon DEF ReceiverClockSet, senderVars
  <2>2. OldPremise
    BY <1>s, <2>1 DEF OldPremise
  <2>3. k \in Int /\ ~(k > 0)
    BY <1>s, <2>1
  <2>4. sinceHeard' <= sinceHeard
    BY <1>n, <2>1, <2>3 DEF UpTo
  <2>5. Pending' = Pending /\ Silence(missed') = Silence(missed)
    BY <2>1 DEF Pending, Fresh
  <2>6. Silence(missed) \in Int /\ Pending \in Int
    BY <1>m, <1>p
  <2> QED
    BY <1>n, <1>o, <2>1, <2>2, <2>4, <2>5, <2>6
<1>8. CASE (SenderTurn /\ ~IsDue(sinceSent)) \/ SenderOpens \/ SenderRestarts \/ ReceiverOpens
           \/ UNCHANGED vars
  <2>1. UNCHANGED <<sinceSent, flight, stale, sinceHeard, missed, interrupted, jumped, route, buffered>>
    BY <1>8, Zenon DEF SenderTurn, SenderOpens, SenderRestarts, ReceiverOpens, vars, senderVars,
       receiverVars, clockVars
  <2> QED
    BY <1>o, <1>s, <2>1 DEF OldPremise, Pending, Fresh
<1> QED
  BY <1>1, <1>2, <1>3, <1>4, <1>5, <1>6, <1>7, <1>8 DEF Next, LoseAny

LEMMA SuspicionKept ==
    ASSUME Numbers, Routes, Flight, FreshIsLast, Announces, AgeOfRoute, NoFalseSuspicion,
           [Next]_vars
    PROVE  NoFalseSuspicion'
<1> USE Constants, Silences
<1>n. /\ sinceSent \in Int /\ sinceHeard \in Int /\ missed \in Int /\ 0 <= missed
      /\ senderPause \in Int /\ senderPause <= MaxPause
  BY Zenon DEF Numbers
<1>s. SUFFICES ASSUME route' = "offline", ~buffered', up', ~interrupted', ~jumped',
                      ~(missed' > MaxLost)
               PROVE  FALSE
  BY DEF NoFalseSuspicion
<1> DEFINE OldPremise == /\ route = "offline" /\ ~buffered /\ up /\ ~interrupted /\ ~jumped
                         /\ ~(missed > MaxLost)
<1>o. ~OldPremise
  BY DEF NoFalseSuspicion
<1> HIDE DEF OldPremise
<1>1. CASE ReceiverTurn
  <2>1. /\ UNCHANGED <<flight, stale, sinceSent, missed, interrupted, up>>
        /\ sinceHeard' = IF buffered THEN 0 ELSE sinceHeard
        /\ ~buffered => ~jumped /\ route # "none"
        /\ ~(sinceHeard' < Timeout)
    <3>1. UNCHANGED <<flight, stale, sinceSent, missed, interrupted, up>>
      BY <1>1, Zenon DEF ReceiverTurn, HearMessages, senderVars
    <3>2. sinceHeard' = (IF buffered THEN 0 ELSE sinceHeard)
      BY <1>1 DEF ReceiverTurn, HearMessages
    <3>3. ASSUME ~buffered PROVE ~jumped /\ route # "none"
      BY <1>1, <1>s, <3>3 DEF ReceiverTurn, HearMessages
    <3>4. ~(sinceHeard' < Timeout)
      BY <1>1, <1>s DEF ReceiverTurn, IsRouteOnline
    <3> QED
      BY <3>1, <3>2, <3>3, <3>4
  <2>2. ~buffered /\ sinceHeard' = sinceHeard
    BY <2>1
  <2>3. missed \in Nat /\ missed <= MaxLost
    BY <1>n, <1>s, <2>1
  <2>4. sinceHeard <= Silence(missed) + Pending + sinceSent
    BY <1>s, <2>1, <2>2, <2>3 DEF AgeOfRoute
  <2>5. Silence(missed) \in Nat /\ Silence(missed) + Period + MaxDelay < Timeout
    BY <2>3
  <2>6. CASE Fresh
    <3>1. sinceSent <= MaxDelay /\ Pending = Period
      BY <2>6, FreshAge DEF Pending
    <3> QED
      BY <1>n, <2>1, <2>2, <2>4, <2>5, <3>1
  <2>7. CASE ~Fresh
    <3>1. sinceSent <= Interval + senderPause
      BY <1>s, <2>1, <2>2 DEF Announces
    <3>2. Pending = 0 /\ sinceSent <= Period
      BY <1>n, <2>7, <3>1 DEF Pending
    <3> QED
      BY <1>n, <2>1, <2>2, <2>4, <2>5, <3>2
  <2> QED
    BY <2>6, <2>7
<1>2. CASE SenderRestarts
  <2>1. ~up /\ UNCHANGED <<interrupted, route, buffered>>
    BY <1>2, Zenon DEF SenderRestarts, receiverVars
  <2> QED
    BY <1>s, <2>1 DEF Announces
<1>3. CASE SenderCrashes \/ ArriveAny \/ (\E k \in Settings : SenderClockSet(k))
           \/ ReceiverRestarts
  BY <1>3, <1>s DEF SenderCrashes, ArriveAny, Arrive, SenderClockSet, ReceiverRestarts
<1>4. CASE SenderTurn \/ LoseAny
  <2>1. UNCHANGED <<route, buffered, up, interrupted, jumped>>
    BY <1>4, Zenon DEF SenderTurn, LoseAny, Lose, senderVars, receiverVars, clockVars
  <2>2. missed > MaxLost => missed' > MaxLost
    <3>1. missed' = missed \/ missed' = UpTo(MaxLost + 1, missed + 1)
      BY <1>4 DEF SenderTurn, LoseAny, Lose
    <3> QED
      BY <1>n, <3>1 DEF UpTo
  <2> QED
    BY <1>o, <1>s, <2>1, <2>2 DEF OldPremise
<1>5. ASSUME NEW k \in Settings, ReceiverClockSet(k) PROVE FALSE
  <2>1. UNCHANGED <<route, buffered, up, interrupted, missed>> /\ jumped' = (jumped \/ k > 0)
    BY <1>5, Zenon DEF ReceiverClockSet, senderVars
  <2> QED
    BY <1>o, <1>s, <2>1 DEF OldPremise
<1>6. CASE SenderOpens \/ ReceiverOpens \/ Tick \/ UNCHANGED vars
  <2>1. UNCHANGED <<route, buffered, up, interrupted, jumped, missed>>
    BY <1>6, Zenon DEF SenderOpens, ReceiverOpens, Tick, vars, senderVars, receiverVars, clockVars
  <2> QED
    BY <1>o, <1>s, <2>1, Zenon DEF OldPremise
<1> QED
  BY <1>1, <1>2, <1>3, <1>4, <1>5, <1>6 DEF Next

(* Interval, timeout, pauses and delays fit together: while fewer than     *)
(* MaxLost announcements in a row fail, route_manager's update never takes *)
(* a neighbour for dead that lives and whose clock was left alone.         *)
THEOREM LiveAreTrusted == Spec => []NoFalseSuspicion
<1>1. Init => TypeOK /\ LiveInv
  <2> SUFFICES ASSUME Init PROVE TypeOK /\ LiveInv
    OBVIOUS
  <2>1. Len(flight) = 0 /\ stale = 0 /\ route = "none" /\ ~buffered
    BY DEF Init
  <2> QED
    BY <2>1, TypeInit DEF LiveInv, FreshIsLast, Fresh, Announces, AgeOfRoute, NoFalseSuspicion
<1>2. TypeOK /\ LiveInv /\ [Next]_vars => (TypeOK /\ LiveInv)'
  <2> SUFFICES ASSUME TypeOK, LiveInv, [Next]_vars PROVE TypeOK' /\ LiveInv'
    OBVIOUS
  <2>1. TypeOK' /\ Switches /\ Routes /\ Flight /\ Numbers
    BY TypeParts, TypeStep
  <2>2. FreshIsLast /\ Announces /\ AgeOfRoute /\ NoFalseSuspicion
    BY DEF LiveInv
  <2>3. FreshIsLast' /\ Announces' /\ AgeOfRoute' /\ NoFalseSuspicion'
    BY <2>1, <2>2, FreshIsLastKept, AnnouncesKept, AgeOfRouteKept, SuspicionKept, Zenon
  <2> QED
    BY <2>1, <2>3, Zenon DEF LiveInv
<1>3. TypeOK /\ LiveInv => NoFalseSuspicion
  BY DEF LiveInv
<1> QED
  BY <1>1, <1>2, <1>3, PTL DEF Spec
=============================================================================
