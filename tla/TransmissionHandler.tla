------------------------- MODULE TransmissionHandler -------------------------
(***************************************************************************)
(* The daemon: main, with the configuration it was given, and the          *)
(* transmission_handler (discnet/src/transmission_handler.cpp) at the end  *)
(* of each iteration of its loop, on the clients that network_handler      *)
(* lists then.  The handler pairs clients with adapters, and the adapter   *)
(* it finds is paired with a client again when the message is sent.        *)
(*                                                                         *)
(* That more than the interval has passed is left open here, and taken to  *)
(* happen over and over; DiscoveryLink counts the time.                    *)
(***************************************************************************)
EXTENDS NetworkHandler, Configuration, Selection

CONSTANT CommandLines   \* what the daemon may be started with

ASSUME CommandLinesAssumption ==
    /\ CommandLines \subseteq Arguments
    /\ JoinMayThrow \/ \A arguments \in CommandLines : arguments.address = <<"group">>

VARIABLES
    configuration,   \* what get_configuration returned
    sent             \* the announcements that just left, each as the client that wrote it

transmissionVars == <<vars, configuration, sent>>

TransmissionTypeOK ==
    /\ TypeOK
    /\ configuration \in Configurations
    /\ sent \in Seq(Clients)

(* transmit_discovery_message: for each client that is listed, in order,   *)
(* the adapter with its mac, if there is one, and transmit_multicast on    *)
(* it, which takes the first client with that mac.                         *)
Announcements_UnknownToo ==
    [i \in DOMAIN m_clients |-> m_clients[FirstClient(m_clients[i].mac)]]

Announcements ==
    LET paired == Only(m_clients, {client \in Clients : client.mac \in Known}) IN
    [i \in DOMAIN paired |-> m_clients[FirstClient(paired[i].mac)]]

Transmit == EndCollect /\ sent' = Announcements /\ UNCHANGED configuration
NotDue   == EndCollect /\ sent' = << >> /\ UNCHANGED configuration

(* No socket joins a group on an address that is none: open throws, if it  *)
(* comes to that.                                                          *)
Opening ==
    IF configuration.m_multicast_address = "group"
    THEN ThreadStep
    ELSE \E i \in DOMAIN m_adapter_init_list : OpenFails(i) \/ JoinThrows(i)

(* What was sent is forgotten when the next iteration begins.              *)
Iterating == updating \/ cursor # 0

(* main goes on only with a configuration that get_configuration accepts.  *)
TransmissionInit ==
    /\ configuration \in {GetConfiguration(a) : a \in {b \in CommandLines : Accepts(b)}}
    /\ Init
    /\ sent = << >>

HandlerStep == /\ UpdateStep \/ Opening
               /\ sent' = IF Iterating' THEN << >> ELSE sent
               /\ UNCHANGED configuration

TransmissionNext == HandlerStep \/ Transmit \/ NotDue

TransmissionSpec == TransmissionInit /\ [][TransmissionNext]_transmissionVars

(* The main loop never stops, each thread makes its next attempt sooner or *)
(* later, and the interval passes again and again.                         *)
FairTransmissionSpec ==
    /\ TransmissionSpec
    /\ WF_transmissionVars(HandlerStep \/ NotDue)
    /\ \A mac \in Macs : WF_transmissionVars(HandlerStep /\ \E i \in OpensOf(mac) : OpenAttempt(i))
    /\ SF_transmissionVars(Transmit)

-----------------------------------------------------------------------------
(* Unless an adapter was removed or moved while its client was being       *)
(* opened, a transmission announces the node once on it, if it is served   *)
(* at all, and from its present first address.  A client that outlived its *)
(* adapter says nothing.                                                   *)
AnnouncedOnce ==
    [][Transmit =>
        /\ \A i \in DOMAIN sent' : sent'[i].mac \in Known
        /\ \A mac \in Known \ raced :
              LET own == {i \in DOMAIN sent' : sent'[i].mac = mac} IN
              /\ Cardinality(own) = IF ClientsOf(mac) # {} THEN 1 ELSE 0
              /\ \A i \in own : sent'[i].address = Head(m_adapters[mac].addresses)]_transmissionVars

(* Each adapter that stays fit for a client is announced on again and      *)
(* again, whatever was under way when the adapters stopped changing, but   *)
(* for those whose client failed to open, that changed while it was opened,*)
(* or that became fit after they were first seen.                          *)
AnnouncedAgain ==
    \A mac \in Macs : []<>(
        \/ terminated
        \/ mac \notin Known \ (raced \cup unserved \cup overlooked)
        \/ ~Active(m_adapters[mac])
        \/ \E i \in DOMAIN sent : sent[i].mac = mac)
=============================================================================
