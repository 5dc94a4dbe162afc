---------------------------- MODULE DiscoveryLink ----------------------------
(***************************************************************************)
(* One node announces itself to another over a link that loses and delays  *)
(* datagrams: transmission_handler of the sender, data_handler, network    *)
(* handler and route_manager of the receiver.  The question is how the     *)
(* interval of 20 seconds, the timeout of 90 seconds, the pace of the two  *)
(* main loops, losses and crashes work together.                           *)
(*                                                                         *)
(* Of the receiver's table the model keeps the one route to the sender.    *)
(* All times are ages, counted up to where they stop to matter: the code   *)
(* compares each with one limit only.  Ages that the code takes from the   *)
(* system clock, of the last announcement and of the last report, change   *)
(* when that clock is set; the others are of real time.                    *)
(***************************************************************************)
EXTENDS Integers, Sequences, SequencesExt

CONSTANTS
    Interval,   \* m_interval of transmission_handler
    Timeout,    \* the limit in is_route_online
    MaxPause,   \* the longest time between two turns of a main loop
    MaxDelay,   \* the longest time a datagram is under way
    MaxLost,    \* datagrams that may be lost in a row
    Settings,   \* by how much a system clock may be set, forward or back
    MaxSet,     \* bound: how often a clock is set
    MaxBack     \* how far the clocks are set back, all in all

ASSUME LinkAssumption == /\ Interval \in Nat /\ Timeout \in Nat \ {0} /\ MaxLost \in Nat
                         /\ MaxPause \in Nat \ {0} /\ MaxDelay \in Nat
(* The numbers fit together: an announcement has arrived before the next   *)
(* is due, and a route outlives MaxLost failures in a row.                 *)
ASSUME TimingAssumption == /\ MaxDelay <= Interval
                           /\ (MaxLost + 1) * (Interval + MaxPause) + MaxDelay < Timeout
ASSUME ClockAssumption == /\ Settings \subseteq Int /\ MaxSet \in Nat /\ MaxBack \in Nat

VARIABLES
    up,            \* the sender runs
    sinceSent,     \* the age of m_last_discovery, by the sender's clock
    senderPause,   \* the time since the sender's last turn
    senderClient,  \* the sender's client is listed
    flight,        \* the datagrams under way, oldest first: how long each is
    stale,         \* history: the first of them are from before the sender crashed, or
                   \* its clock was set; so many are
    buffered,      \* a datagram waits in the receiver's data_handler
    client,        \* the receiver's client is listed
    receiverPause, \* the time since the receiver's last turn
    route,         \* the receiver's route to the sender
    sinceHeard,    \* the age of its m_last_discovery, by the receiver's clock
    settings,      \* how often a clock was set
    missed,        \* history: announcements lost, or never sent, since one arrived
    interrupted,   \* history: the sender crashed, or its clock was set, since it sent
                   \* the datagram that arrived last
    jumped,        \* history: the receiver's clock was set forward since it heard
    setBack,       \* history: how far the receiver's clock was set back
    downFor        \* history: how long the sender has been down

senderVars   == <<up, sinceSent, senderPause, senderClient>>
receiverVars == <<buffered, client, receiverPause, route, sinceHeard>>
clockVars    == <<settings, jumped, setBack>>
vars == <<up, sinceSent, senderPause, senderClient, flight, stale, buffered, client,
          receiverPause, route, sinceHeard, settings, missed, interrupted, jumped, setBack,
          downFor>>

(* A dead sender is noticed in this time: its last datagram arrives, waits *)
(* for the receiver's turn, expires right after a turn, and waits for the  *)
(* next one.                                                               *)
DetectionTime == Timeout + MaxDelay + 2 * MaxPause - 1

(* time_point_t::min(): due, however far the clock is set back.            *)
Never == Interval + MaxPause + MaxBack + 1

(* Ages of a route that are as good as any greater one.                    *)
LongAgo == Timeout + MaxBack + 1

UpTo(limit, n) == IF n < limit THEN n ELSE limit

TypeOK ==
    /\ up \in BOOLEAN /\ senderClient \in BOOLEAN /\ client \in BOOLEAN
    /\ buffered \in BOOLEAN /\ interrupted \in BOOLEAN /\ jumped \in BOOLEAN
    /\ sinceSent \in Int
    /\ senderPause \in 0 .. MaxPause /\ receiverPause \in 0 .. MaxPause
    /\ flight \in Seq(0 .. MaxDelay) /\ stale \in 0 .. Len(flight)
    /\ route \in {"none", "online", "offline"}
    /\ sinceHeard \in Int /\ sinceHeard <= LongAgo
    /\ settings \in 0 .. MaxSet /\ setBack \in 0 .. MaxBack
    /\ missed \in 0 .. MaxLost + 1
    /\ downFor \in 0 .. DetectionTime + MaxBack + 1

-----------------------------------------------------------------------------
(* transmission_handler::update.  The interval starts again even when the  *)
(* handler has no client to send with, as in the first turn of the daemon. *)
(* Both of its conditions say that more than the interval has passed.      *)
IsDue(age) == age > Interval

SenderTurn ==
    /\ up
    /\ senderPause' = 0
    /\ IF IsDue(sinceSent)
       THEN /\ sinceSent' = 0
            /\ flight' = IF senderClient THEN Append(flight, 0) ELSE flight
            /\ missed' = IF senderClient THEN missed ELSE UpTo(MaxLost + 1, missed + 1)
       ELSE UNCHANGED <<sinceSent, flight, missed>>
    /\ UNCHANGED <<up, senderClient, stale, receiverVars, clockVars, interrupted, downFor>>

(* network_handler lists the client, some time after the daemon started.   *)
SenderOpens ==
    /\ up /\ ~senderClient
    /\ senderClient' = TRUE
    /\ UNCHANGED <<up, sinceSent, senderPause, flight, stale, receiverVars, clockVars,
                   missed, interrupted, downFor>>

SenderCrashes ==
    /\ up
    /\ up' = FALSE
    /\ sinceSent' = Never
    /\ senderPause' = 0
    /\ senderClient' = FALSE
    /\ stale' = Len(flight)
    /\ interrupted' = TRUE
    /\ downFor' = 0
    /\ UNCHANGED <<flight, receiverVars, clockVars, missed>>

(* A new process, with m_last_discovery at its initial value.              *)
SenderRestarts ==
    /\ ~up /\ downFor > 0
    /\ up' = TRUE
    /\ downFor' = 0
    /\ UNCHANGED <<sinceSent, senderPause, senderClient, flight, stale, receiverVars,
                   clockVars, missed, interrupted>>

(* The system clock of the sender is set.                                  *)
SenderClockSet(k) ==
    /\ up /\ settings < MaxSet
    /\ settings' = settings + 1
    /\ sinceSent' = sinceSent + k
    /\ stale' = Len(flight)
    /\ interrupted' = TRUE
    /\ UNCHANGED <<up, senderPause, senderClient, flight, receiverVars, jumped, setBack,
                   missed, downFor>>

-----------------------------------------------------------------------------
(* The link.                                                               *)
Arrive(i) ==
    /\ i \in DOMAIN flight
    /\ client
    /\ flight' = RemoveAt(flight, i)
    /\ buffered' = TRUE
    /\ missed' = 0
    /\ stale' = IF i <= stale THEN stale - 1 ELSE stale
    /\ interrupted' = (i <= stale)
    /\ UNCHANGED <<senderVars, client, receiverPause, route, sinceHeard, clockVars, downFor>>

Lose(i) ==
    /\ i \in DOMAIN flight
    /\ flight' = RemoveAt(flight, i)
    /\ stale' = IF i <= stale THEN stale - 1 ELSE stale
    /\ missed' = UpTo(MaxLost + 1, missed + 1)
    /\ UNCHANGED <<senderVars, receiverVars, clockVars, interrupted, downFor>>

-----------------------------------------------------------------------------
(* The receiver's turn: network_handler::update takes what arrived to      *)
(* process_discovery_message, then route_manager::update sets the route's  *)
(* state from its age.                                                     *)
IsRouteOnline_Inclusive(age) == age <= Timeout
IsRouteOnline(age) == age < Timeout

HearMessages ==
    /\ receiverPause' = 0
    /\ buffered' = FALSE
    /\ sinceHeard' = IF buffered THEN 0 ELSE sinceHeard
    /\ jumped' = (jumped /\ ~buffered)
    /\ UNCHANGED <<senderVars, flight, stale, client, settings, setBack, missed, interrupted,
                   downFor>>

ReceiverTurn_TogglesFirst ==
    /\ HearMessages
    /\ route' = CASE route # "none" -> IF IsRouteOnline(sinceHeard) THEN "online" ELSE "offline"
                  [] route = "none" /\ buffered -> "online"
                  [] OTHER -> "none"

ReceiverTurn_StaysOffline ==
    /\ HearMessages
    /\ route' = CASE route = "none" /\ ~buffered -> "none"
                  [] route # "offline" /\ IsRouteOnline(sinceHeard') -> "online"
                  [] OTHER -> "offline"

ReceiverTurn ==
    /\ HearMessages
    /\ route' = CASE route = "none" /\ ~buffered -> "none"
                  [] (route # "none" \/ buffered) /\ IsRouteOnline(sinceHeard') -> "online"
                  [] OTHER -> "offline"

ReceiverOpens ==
    /\ ~client
    /\ client' = TRUE
    /\ UNCHANGED <<senderVars, flight, stale, buffered, receiverPause, route, sinceHeard,
                   clockVars, missed, interrupted, downFor>>

(* The receiver crashes and starts again: its table and what waited in its *)
(* buffer are gone.                                                        *)
ReceiverRestarts ==
    /\ client
    /\ client' = FALSE
    /\ buffered' = FALSE
    /\ route' = "none"
    /\ sinceHeard' = 0
    /\ receiverPause' = 0
    /\ UNCHANGED <<senderVars, flight, stale, clockVars, missed, interrupted, downFor>>

(* The system clock of the receiver is set.                                *)
ReceiverClockSet(k) ==
    /\ settings < MaxSet
    /\ route # "none"
    /\ settings' = settings + 1
    /\ sinceHeard' = UpTo(LongAgo, sinceHeard + k)
    /\ jumped' = (jumped \/ k > 0)
    /\ setBack' = IF k < 0 THEN setBack - k ELSE setBack
    /\ setBack' <= MaxBack
    /\ UNCHANGED <<senderVars, flight, stale, buffered, client, receiverPause, route,
                   missed, interrupted, downFor>>

-----------------------------------------------------------------------------
(* Time passes, unless a loop or a datagram is overdue.                    *)
Tick ==
    /\ up => senderPause < MaxPause
    /\ receiverPause < MaxPause
    /\ \A i \in DOMAIN flight : flight[i] < MaxDelay
    /\ sinceSent' = IF up THEN sinceSent + 1 ELSE sinceSent
    /\ senderPause' = IF up THEN senderPause + 1 ELSE senderPause
    /\ flight' = [i \in DOMAIN flight |-> flight[i] + 1]
    /\ receiverPause' = receiverPause + 1
    /\ sinceHeard' = IF route = "none" THEN 0 ELSE UpTo(LongAgo, sinceHeard + 1)
    /\ downFor' = IF up THEN 0 ELSE UpTo(DetectionTime + MaxBack + 1, downFor + 1)
    /\ UNCHANGED <<up, senderClient, stale, buffered, client, route, clockVars, missed,
                   interrupted>>

Init ==
    /\ up = TRUE
    /\ sinceSent = Never
    /\ senderPause = 0
    /\ senderClient = FALSE
    /\ flight = << >>
    /\ stale = 0
    /\ buffered = FALSE
    /\ client = FALSE
    /\ receiverPause = 0
    /\ route = "none"
    /\ sinceHeard = 0
    /\ settings = 0
    /\ missed = 0
    /\ interrupted = FALSE
    /\ jumped = FALSE
    /\ setBack = 0
    /\ downFor = 0

ArriveAny == \E i \in DOMAIN flight : Arrive(i)
LoseAny   == \E i \in DOMAIN flight : Lose(i)

Next ==
    \/ SenderTurn \/ SenderOpens \/ SenderCrashes \/ SenderRestarts
    \/ ArriveAny \/ LoseAny
    \/ ReceiverTurn \/ ReceiverOpens \/ ReceiverRestarts
    \/ \E k \in Settings : SenderClockSet(k) \/ ReceiverClockSet(k)
    \/ Tick

Spec == Init /\ [][Next]_vars

(* Time passes, the loops turn, clients open; a datagram that is sent over *)
(* and over arrives some time.  Nothing makes a process crash or restart.  *)
Fairness ==
    /\ WF_vars(Tick)
    /\ WF_vars(SenderTurn) /\ WF_vars(SenderOpens)
    /\ WF_vars(ReceiverTurn) /\ WF_vars(ReceiverOpens)
    /\ WF_vars(ArriveAny \/ LoseAny) /\ SF_vars(ArriveAny)

FairSpec == Spec /\ Fairness

-----------------------------------------------------------------------------
(* A route goes offline for a reason: the sender is down, or was and has   *)
(* not been heard since, or more than MaxLost announcements in a row       *)
(* failed, or somebody set a clock: the sender's, which is then silent     *)
(* until it has caught up, or the receiver's, to a later time.  Pauses and *)
(* delays alone never suspect a node that runs, and a datagram that arrived*)
(* brings the route back in the turn that takes it.                        *)
NoFalseSuspicion ==
    route = "offline" /\ ~buffered => ~up \/ interrupted \/ jumped \/ missed > MaxLost

(* A node that stays down does not stay online at its neighbour for longer *)
(* than the detection time, and what the neighbour's clock was set back.   *)
DeadIsDetected == downFor > DetectionTime + setBack => route # "online"

(* While neither side crashes any more, the sender's route does not stay   *)
(* offline or unknown for ever, whatever the link loses.                   *)
HeardAgain ==
    <>[][~SenderCrashes /\ ~ReceiverRestarts]_vars /\ <>[]up => []<>(route = "online")
=============================================================================
