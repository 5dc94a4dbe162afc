# Verification of discnet

discnet is a daemon that discovers neighbours.  Every host announces itself, and the nodes it
knows of, on a multicast group of each of its network adapters every 20 seconds; a node that
has not been heard of for 90 seconds is offline.  A simulator (`discnet_sim`) runs many
daemons in one window over a network that its user draws.

This directory holds TLA+ models of the daemon and of the simulated network, their checks on
small instances with TLC, and proofs with TLAPS.  `PROJECT.json` maps every definition to the
lines it stands for.

## 1. The system

The daemon has one main thread, one thread for each client that is being opened
(`std::async`) and two threads for sockets ("mercury" and "venus" of `asio_context`).  The main
loop (`discnet_app/src/main.cpp:91-96`) calls, every 100 ms, `update` of four components in
this order (`application.cpp:53-59`): adapter_manager, network_handler, route_manager,
transmission_handler.  The components call each other through signals (boost::signals2), all
on the main thread:

    OS -> adapter_fetcher -> adapter_manager --e_new, e_changed, e_removed--> network_handler
    socket -> udp_client -> data_handler / data_stream -> (next update) network_handler
    network_handler --e_discovery_message_received--> route_manager
    route_manager --e_new_route, e_online_state_changed--> listeners (RouteModel, log)
    transmission_handler -> route_manager.find_routes_for_adapter
                         -> network_handler.transmit_multicast -> packet codec -> udp_client

| component | state | operations | what makes it correct |
|---|---|---|---|
| adapter_fetcher (Windows) | none; asks the system | get_adapters | finds the usable interfaces; survives that they change meanwhile |
| adapter_manager | m_adapters, by MAC address | update; three signals | knows the last list; one signal per change, none without |
| network_handler | m_clients, m_adapter_init_list (futures), data handler per client | adapter_added / changed / removed, process_adapter (own thread), update, transmit_multicast | one client per active adapter, on its present address |
| udp_client | socket, receive buffer, operations under way | open, write, handle_read, close | hands datagrams over in order, goes on receiving, ends |
| data_handler, data_stream | bytes per sender, under a mutex | handle_receive (asio threads), process (main thread) | returns each packet once, in order; recovers |
| packet codec, buffer | - | encode, decode, validate | what is decoded is what was encoded |
| route_manager | m_adapter_routes, by adapter guid | process_discovery_message, process_persistent_route, update, find_routes_for_adapter | unique routes, offline exactly when stale, shortest path advertised, no echo |
| transmission_handler | m_last_discovery | update | an announcement per interval and adapter |
| configuration | none | get_configuration | accepts only what the daemon can run with |
| application, main loop | configuration | update, program_yield | order and pace |
| simulated network | traffic manager, routers, links, scene | draw, connect, remove, load, data_sent | delivers to connected adapters, once, and to no other addresses |

What is hard in it:

* three kinds of threads meet in m_adapter_init_list (futures), in data_handler (mutex) and in
  the life of a client (shared and bare pointers);
* adapters change while their client is being opened;
* datagrams are lost and delayed, cut and damaged, and the buffer they wait in has a limit;
* nodes crash and restart; both intervals are measured with a clock that may be set back;
* nodes tell on what they were told, over networks that may form a cycle;
* containers change inside loops and signals are sent from inside them;
* the user of the simulator connects and removes things in any order, while the simulated
  daemons create their clients in updates of their own;
* its adapters are found by address in some places and by identifier in others, and all of them
  are drawn with the address 192.200.1.1.

`PROJECT.json` lists the hazards one by one, each at its line, with the properties that cover
it, or the reason why none does.

## 2. The modules

| module | models | composed with | theorems in |
|---|---|---|---|
| `RouteManager` | route_manager, with adapter_manager's look-ups and RouteModel as the listener | - | `RouteManager_proofs` |
| `AdapterManager` | adapter_manager | - | `NetworkHandler_proofs` |
| `AdapterFetcher` | windows_adapter_fetcher and the system's interfaces | extends AdapterManager | `NetworkHandler_proofs` |
| `NetworkHandler` | network_handler's clients, its futures and threads | extends AdapterManager | `NetworkHandler_proofs` |
| `Configuration` | get_configuration, as operators | - | - |
| `TransmissionHandler` | main with its configuration, transmission_handler on the clients that are listed | extends NetworkHandler, Configuration | `NetworkHandler_proofs` |
| `UdpClient` | one udp_client, asio's operations and the worker threads | - | `UdpClient_proofs` |
| `DataHandler` | data_handler and data_stream over segments of bytes | - | `DataHandler_proofs` |
| `PacketCodec` | encode, decode, validate and buffer_t, byte by byte, as operators | - | `DataStream_proofs` |
| `DataStream` | data_stream and transmit_multicast over bytes | extends PacketCodec, instantiates DataHandler | `DataStream_proofs` |
| `DiscoveryLink` | two daemons, the link between them and their clocks, with time | - | `DiscoveryLink_proofs` |
| `DiscoveryNetwork` | many daemons on several networks that tell on what they were told | - | `DiscoveryNetwork_proofs` |
| `TrafficSimulator` | network_traffic_manager, network_router, simulator, SimulatorScene | - | `TrafficSimulator_proofs` |

`Selection` has the one operator for the loops that go through a list and keep some of its elements (`Only`); it is a
fold, as the prover knows nothing of SelectSeq.  `AdapterFetcher` and `TransmissionHandler` use it.

`MC...` modules give each a small instance.  Operators whose name has an underscore
(`Preferred_NotLonger`, `Read_KeepsSize`) are faulty variants of the definition that follows
them; the project's mutants use them to show that each property notices such a fault, and
nothing else refers to them.

### RouteManager

`table` is m_adapter_routes as a set of routes with their guid; `model` is what a listener
that follows the two signals shows (RouteModel::update); `adapters` is what the adapter manager holds in
this iteration, `now` the clock.  An iteration of the main loop is `BeginIteration` (the
adapter manager may have changed the adapters, the clock is read), any number of
`ProcessDiscoveryMessage` and `ProcessPersistentRoute`, and `Update`.  The loop of
process_discovery_message over the reports of a message is one step (`ProcessRoutes`); that this
is what the loop does, one report after the other (`ProcessRoute`, `ProcessInTurn`), is the property `BatchIsSequential`,
which is checked and proved.  `now` is part of the state because the
message handler and `update` of one iteration are given one time.

### AdapterManager, AdapterFetcher, NetworkHandler

`AdapterManager` runs `update` one turn of a loop at a time, because handlers of its signals run in
between: `DetectNew`, `DetectChange`, `DetectSame` for the entries of the list, `DetectRemoved` for
those that are gone, in the order of the map.  `events` is a history of the signals of the
present update.

`NetworkHandler` conjoins each of these steps with the handler the signal calls (`AdapterAdded` =
`DetectNew` and process_adapter, and so on).  A future is a record in
`m_adapter_init_list` with the state of its thread; `OpenAttempt` is one turn of the thread's
loop, in which opening succeeds, fails, is given up or throws; `CollectOpen`, `CollectFailed` and `CollectThrew` are
`update` looking at one future (`cursor`).  `raced`, `unserved` and `overlooked` are histories
that name the adapters for which the code gives no guarantee: they changed while their client
was being opened; no attempt succeeded; they became fit for a client after they were first
seen.

`AdapterFetcher` puts the two calls of GetAdaptersAddresses, between which interfaces may change,
in front of the manager, and keeps what the code keeps of an interface.

### Configuration, TransmissionHandler

`Configuration` says which command lines get_configuration accepts and what it makes of them; the options as boost
parses them are external.  A 16-bit number may be given as a negative one, as lexical_cast allows, and an address
need not be one of a multicast group: the code asks only for an IPv4 address.

`TransmissionHandler` is the daemon as a whole but for the routes: `main`, which goes on only with a configuration that
was accepted, and after each update of the network handler either a transmission (`Transmit`) or none (`NotDue`).
`Announcements` is the pairing of the code: from each client to its adapter by MAC address, and from the adapter back
to the first client with that address.  With an address that is no group's every joining throws (`Opening`).

### UdpClient

`receives` and `ready` are the operations under way and the completions a worker has yet to
run, each with what it holds the client by: the first receive by a shared pointer, the later
ones by a bare `this`.  A worker runs handle_read in two steps, the call of the
data handler (`HandleData`) and the next async_receive_from (`ReceiveAgain`), so that the other
worker, the main thread and the socket come in between.  A handler that runs on a destroyed
client is undefined behaviour; `dangling` records it, and properties say nothing of what follows.

### DataHandler, PacketCodec, DataStream

A buffer is modelled twice.  `DataHandler` keeps *segments*: a datagram or part of one, with its
length and the packet size its first bytes declare.  This is enough to say which packets come
out, and lets the runs use the code's own 4095 bytes.  `PacketCodec` and `DataStream` keep the *bytes*, with every
field of both message types in network order; DataStream carries DataHandler's segments along and checks after
each step that both say the same (`SegmentsAreExact`, `ReturnsWhatWasSent`).  Only the digest (MD5) is left
open: any function of the bytes will do, the runs use a polynomial one.  `MessageLists` are the lists the C++ types
can hold, with identifiers, counts and addresses of their width, and messages of any unknown type besides; a list
is `IsUnderstood` if it has none of those.  In DataHandler, a "foreign" packet
is one whose first message has an unknown type; one with an unknown type later reads
further before it fails, with the same effect on the buffer.  A vector's capacity grows to
exactly what is needed in both; a library that reserves more overflows later.

`Proceeds` is one turn of the loop of process(), `Outcome` all of them; over bytes these are `Turn` (which takes off
what it decoded by `Taken`) and `Turns`, a turn for each header's length of bytes in the buffer, and one: no packet is
shorter. DataStream assumes of its constants what it shares with DataHandler: a list that is not understood begins
with the unknown message (`UnknownComesFirst`), and the checksum of no bytes is not zero (`EmptyDigest`; MD5 of
nothing begins with d41d8cd9), so that zero bytes are no packet. Zero bytes that the buffer itself has put in
(`ZeroBytes`) have no name, as they come from no datagram. `DatagramsTyped` says of the two parts of a split packet
that they are as long together as the first one declares, as the parts of a packet are. A second part that is too
short would complete its packet with the next datagram, in a call in which nothing is owed for it.

### DiscoveryLink

The transmission_handler of one node, the route to it in the route_manager of the
other, and the link, which may lose, delay and reorder.  Time is a count of ticks; each loop
makes a turn at least every `MaxPause`, a datagram is under way for at most `MaxDelay`, and `flight` has the age of each
that is.  `missed` counts the announcements in a row that did not arrive, up to one more than `MaxLost`, the number the
properties tolerate; the link itself may lose any number.  Both nodes start without a listed client,
which is why the announcement of the first turn is always lost (`SenderOpens` comes later), and
both may crash and restart at any time.

The ages the code takes from the system clock (`sinceSent`, `sinceHeard`) may jump when somebody sets that clock, forward
or back (`SenderClockSet`, `ReceiverClockSet`); pauses and delays are of real time.  Histories say what such a setting
excuses: `interrupted` and `stale` (the datagrams from before a crash of the sender or a setting of its clock), `jumped`
(the receiver's clock was set forward since it heard) and `setBack` (how far it was set back).

### DiscoveryNetwork

What the nodes of several networks know of one of them, the target.  Time is counted in announcement intervals, and of
each table the routes to the target are kept, by network and reporter, as process_discovery_message and
find_routes_for_adapter do: a node takes every report, and tells on a network what it learned on its other ones.
`Announce` may be lost on any links; `Crash` takes the table with it, and the first announcement after `Restart` goes
nowhere.  Any number of nodes and networks, any topology; the code keeps no hop limit and no sequence number.

### TrafficSimulator

The scene's operations (`DropNode`, `AddAdapter`, `Connect`, `RemoveRouter`, `Load`, ...), each with all
calls it makes into the traffic manager and the routers, and `Update`, in which the daemons
create the clients of their new adapters.  An adapter is the number it came with, and what it is like is one of `Kinds`: its
node, its address, which another adapter of the node may have too, and whether it is `usable`, as
`network_handler::add_client` passes over disabled and loopback adapters and they never get an entry.  A client has the number of its adapter.

Which adapter is meant is decided in two ways, as in the code.  `create` asks the fetcher for the first adapter with the
client's address (`GetIdentifier`) and enters the client for that one (`identifiers`); `data_sent` finds the entry that sends by address too
(`Through`).  `add_link` and `remove_link` take the first entry with an identifier (`EntryOf`).  So where two adapters of
a node have one address, both clients are entered for the first, the first client alone has a router, and the datagrams of
both leave by it.  An entry outlives its adapter, as `close()` does nothing.

`Load` states in closed form what drawing and linking everything of a file one after
the other comes to.  `OnlyNeighboursReceive`, `SentOnce` and `NeighboursReceive` compare whom a datagram
reaches with what the scene shows.  Three histories name what the last of them excepts: `early`, `doubled` and `shared` (section 3).

## 3. Runs

| run | question | distinct states |
|---|---|---|
| routes | do routes come, age, expire and get advertised rightly while adapters come and go and an address moves | 385,953 |
| adapters | does the manager know the interfaces of the system, with one signal per change and none without | 5,894 |
| clients | do clients match adapters, whatever threads and changes do; is each adapter announced on, once and again and again | 280,925 |
| streams | do packets come out once, in order; does a stream recover | 118,989 |
| bytes | do codec and stream treat the bytes as DataHandler's segments say | 92,265 |
| link | 20 s, 90 s, three losses in a row, clocks that are set: no false suspicion, death noticed in time, a living node heard again | 1,059,028 |
| network | does all the network learn of a node that runs, and forget one that stopped | 72,891 |
| receives | does a client hand over everything in order, with two threads, and end | 1,502 |
| simulator | does a datagram reach the connected adapters, once, and no other addresses, when adapters share addresses or have no client | 326,789 |

Three runs end in a violation of something the repository says of itself; `findings` in `PROJECT.json`
quotes it:

| run | what the code does |
|---|---|
| clients_active | an adapter that becomes active after it was first seen never gets a client |
| clients_throws | an adapter that is not ready when its client joins the group ends a daemon started with a right command line |
| streams_whole | packets that together, or one that alone, exceed the buffer are lost |

The models contain the following behaviour too, which the properties of the passing runs name as exceptions:

* of two interfaces with one MAC address the manager knows only the later, and reports both as changed in
  every update (`DistinctMacs` of AdapterFetcher; `adapter_manager.cpp:140`);
* an interface that appears between the two calls to Windows ends the daemon (`ReadFails`; `adapter_fetcher.cpp:427`);
* after a message of unknown type, zero bytes stay in the buffer that was "cleared", and take the next packets with
  them (`AfterFailure` of DataHandler; `data_stream.cpp:80`);
* a client whose receive failed stays listed and deaf (`failed` of UdpClient; `udp_client.cpp:205`);
* a handler may run on a destroyed client (`dangling`; `udp_client.cpp:213`);
* around a cycle of networks, and between two nodes that share two networks, a dead node is never forgotten
  (`IsTree` of DiscoveryNetwork; `route_manager.cpp:70`);
* a clock that is set back silences a node until it has caught up (`interrupted` of DiscoveryLink;
  `transmission_handler.cpp:25`) and keeps a dead one online for as long (`setBack`; `route.cpp:26`);
* a daemon started with an address that is no group's ends on its first adapter (`Opening` of TransmissionHandler;
  `configuration.cpp:112`);
* a second adapter of a node on the same router is deaf in the simulator (`shared` of TrafficSimulator;
  `network_router.cpp:19`), and so is one that had no client when it was connected (`early`; `network_traffic_manager.cpp:122`):
  not yet, or never, because it is disabled or a loopback adapter (`network_handler.cpp:201,213`);
* of two adapters of a node with one address, as all have that nobody edits (`NodeItem.cpp:71`), the second is entered in the
  name of the first (`doubled`; `network_adapter_fetcher.h:52`): its connection is lost, and what it sends leaves by the
  router of the first.  `OnlyNeighboursReceive` is therefore about addresses, not adapters.

### Bounds, and why they are enough

* RouteManager: three adapters; the address of the first may move to the second, and on the third the routes of both are
  advertised; a neighbour on the first network that reports a second node, which is a neighbour on the
  second network as well; a timeout of 2, steps of the clock of 0, 1 or 2 and a time up to 3: a route appears, is refreshed,
  expires and comes back, with its adapter or without; equal and unequal costs, one node twice in a message, a route
  under two guids.  In the run the clock only moves forward; that `UniqueRoutes`, `ModelShowsTable`, `AdvertisesShortest`
  and `NoEcho` hold when it is set back is proved, not run.
* AdapterManager and AdapterFetcher: nine lists in which a card, a WLAN adapter and a PPP connection (with the empty MAC address) come
  and go, the card loses its address and its cable, is renamed, or shares its MAC address with a virtual
  adapter, and interfaces are hidden, not registered, or of a type that is not used; any list follows any
  other at any moment, without a bound in time.
* NetworkHandler and TransmissionHandler: two adapters, two attempts per thread (one that fails and one that succeeds or
  gives up), three changes of the list: an adapter goes and returns while its client is still being opened.  Ten command
  lines, of which two are accepted: a right one, and one with a negative node id and an address that is no group's.
* DataHandler: the code's sizes; one sender, as streams are kept apart by a map and never touch each other; up to
  three segments wait, of which two large ones overflow.  Bytes that are no packet declare at most 50 bytes, so that
  three segments suffice to complete them.  A full packet of 4096 bytes, which overflows alone, is in streams_whole.
* DataStream: 64 bytes in the place of 4096 to encode into, 80 to receive into: one list of messages does not fit the
  first, and two that fit do not fit the second.  A datagram is cut behind the eleventh byte, past the header
  of 10, or damaged in its content (byte 19).
* DiscoveryLink: seconds, the code's own numbers; a tick is a second, the pace of 100 ms is rounded up to it.  One clock is
  set once, by a minute forward or half a minute back: more than an interval, and less than the timeout.
* DiscoveryNetwork: four nodes in a line, around a hub, in a triangle behind one node, and two that share two networks; a
  timeout of two intervals, the least that leaves a node time to tell on what it heard; histories count to 4, past
  the three intervals in which the end of the line must have heard of the target, or forgotten it.
* UdpClient: four datagrams, two writes, two threads as in the code.
* TrafficSimulator: two nodes and at most three adapters, of four kinds: on the first node two with the same address, one
  of them disabled, and one with another; on the second one.  So two or three adapters of a node may share an address, a router, or both,
  with or without a neighbour that listens.  Two routers, which no definition tells apart (`SYMMETRY`), and saved scenes with a shared router and
  with a shared address.  A node or router that was removed is not drawn again, as a new one would have a new identifier.

### Fairness

* The main loop never stops (`WF` of the steps of update, and of `HandlerStep \/ NotDue` in TransmissionHandler): main.cpp
  loops until it is told to end.
* The interval passes again and again, so an iteration that could transmit does so now and then (`SF` of `Transmit`).
* Threads of process_adapter go on with their attempts; asio's workers run what is ready (`io_context::run`
  in a loop, asio_context.cpp:34-55); a receive completes when there is a datagram, a write in any case.
* A datagram that is sent again and again arrives some time (`SF` of `ArriveAny`): the usual assumption about a lossy
  link, without which nothing could be said.  Nothing forces a crash, a restart, a change of
  adapters or a loss.
* Where the system may stop (a removed client, a daemon ended by an exception) the cfg says
  `CHECK_DEADLOCK FALSE`.

## 4. Proofs

Each theorem holds for every value of the constants that satisfies the assumptions of its module, which mostly type them.
What more it needs is said in the last column.

| module | theorem | states | needs |
|---|---|---|---|
| RouteManager | `TypeCorrect` | `Spec => []TypeOK` | - |
| | `RoutesStayUnique` | `Spec => []UniqueRoutes` | - |
| | `ShortestIsAdvertised` | `Spec => []AdvertisesShortest` | - |
| | `ListenerIsRight` | `Spec => []ModelShowsTable` | - |
| | `NeverEchoes` | `Spec => []NoEcho` | - |
| | `OfflineRoutesAreStale` | `Spec => []OfflineIsStale` | a clock that is not set back |
| | `NothingResurrects` | `Spec => NoResurrection` | a clock that is not set back |
| | `DetachedExpire` | `Spec => []DetachedRoutesExpire` | a clock that is not set back |
| | `ReportsAreSequential` | `Spec => []BatchIsSequential` | - |
| AdapterManager | `ManagerTypeCorrect` | `ManagerSpec => []ManagerTypeOK` | - |
| | `KnowsTheList` | `ManagerSpec => []ManagerIsCurrent` | - |
| | `SignalsOnce` | `ManagerSpec => []OneSignalPerAdapter` | - |
| AdapterFetcher | `FetcherFeedsManager` | `FetcherSpec => ManagerSpec`: a refinement | what is kept of the interfaces is a list the manager may be given (`FetchesAssumption`) |
| | `ManagerKnowsInterfaces`, `FetcherSignalsOnce` | the two above, of the composition | the same |
| | `FetcherTypeCorrect` | `FetcherSpec => []FetcherTypeOK` | the same |
| | `QuietWhenSettled` | `FetcherSpec => []QuietWhenNothingChanges` | the same |
| | `KnowsWhatIsThere` | `FetcherSpec => []KnowsInterfaces` | the same |
| NetworkHandler | `HandlerTypeCorrect` | `Spec => []TypeOK` | - |
| | `ManagerIsLeftAlone` | `Spec => ManagerSpec`: a refinement | - |
| | `ClientsFollowAdapters` | `Spec => []ClientsMatchAdapters` | - |
| | `ActiveGetClients` | `Spec => []ActiveAreServed` | - |
| TransmissionHandler | `TransmissionOnlyReads` | `TransmissionSpec => Spec`: a refinement | - |
| | `RunsConfigured` | `TransmissionSpec => [](configuration \in Configurations)` | - |
| | `AnnouncesOnce` | `TransmissionSpec => AnnouncedOnce` | - |
| DataHandler | `StreamsTypeCorrect` | `Spec => []TypeOK` | - |
| | `CleanStreamsReturnAll` | `Spec => CleanStreamsDeliver` | - |
| | `NothingIsInvented` | `Spec => NothingInvented` | - |
| | `LeftoversWait` | `Spec => LeftoversAreIncomplete` | - |
| DataStream | `DatagramsRoundTrip` | `Spec => []WrittenWholeOrNot` | a buffer of at most 65535 bytes (`BufferSizeAssumption`; the code's has 4096), lists the C++ types can hold (`ListsTyped`) |
| | `BytesAreSegments` | `Spec /\ ArrivesWhole => []SegmentsAreExact` | the same, `UnknownComesFirst`, `EmptyDigest` |
| | `WholeDatagramsReturn` | `Spec /\ ArrivesWhole => ReturnsWhatWasSent` | the same |
| UdpClient | `ClientTypeCorrect` | `Spec => []TypeOK` | - |
| | `HandedOverInOrder` | `Spec => []DeliveredInOrder` | - |
| | `FirstReceiveProtects` | `Spec => []SafeUntilFirstDatagram` | - |
| | `ReceivesOnAndOn` | `Spec => []KeepsReceiving` | - |
| DiscoveryLink | `TypeCorrect` | `Spec => []TypeOK` | - |
| | `LiveAreTrusted` | `Spec => []NoFalseSuspicion` | the numbers fit together (`TimingAssumption`) |
| | `DeadAreDetected` | `Spec => []DeadIsDetected` | - |
| DiscoveryNetwork | `TreesForget` | `Spec => []DeadIsForgotten` | - (the property is about trees) |
| | `NewsReachesAll` | `Spec => []NewsTravels` | - |
| TrafficSimulator | `SceneTypeCorrect` | `Spec => []TypeOK` | - |
| | `NobodyElseReceives` | `Spec => []OnlyNeighboursReceive` | - |
| | `NobodyReceivesTwice` | `Spec => []SentOnce` | - |
| | `ConnectedReceive` | `Spec => []NeighboursReceive` | - |

The arguments, where the property is not inductive as it stands:

* RouteManager.  `OfflineIsStale`: a route goes offline only in `Update`, by `IsRouteOnline`, and time then only grows.
  `SeenWhileUp` for `DetachedRoutesExpire`: no route was reported later than its adapter was last there, and what `Update`
  left online was reported within the timeout.  `LearnedOnOwn` for `NoEcho`: the address a route was learned on belongs,
  in some configuration, to an adapter with the route's guid; `NoEcho` speaks of present adapters only, and an adapter may
  leave and return.  `ModelInv` for `ModelShowsTable`: each listed id has a row, and if it is listed under one guid the row
  agrees with it; the row may be wrong while an id is listed under two guids, and the table keeps every route.
  `Batch` for `BatchIsSequential`: what the table is after the first k reports, as a set; one more turn of the loop leads
  from k to k + 1, and after all of them it is `ProcessRoutes`.
* AdapterManager.  `Position` and `TracksList`: what the first loop has dealt with (`Done` entries) is known as it is listed last so
  far, what it has not is known as before; `SignalledOnce`: what was signalled is among the former, or removed and no more
  known.  `ManagerIsCurrent` speaks of ended updates only.
* AdapterFetcher.  `Steady`: since the first update that read the interfaces as they are, what was read is what is there,
  and the manager knows just that (`Agrees`); so a further update finds no entry that differs.  The loop that
  keeps the usable interfaces is described by the places it takes them from (`Places`), found by induction over the list.
* NetworkHandler.  `Matches`: an adapter that is not `raced` has one client, or one future, or neither, and what it has is on its
  first address.  `Served` the other way round.  That the manager's table is what its theorems say comes from
  `ManagerIsLeftAlone`.  `AnnouncesOnce` follows from `Matches` and the places `Only` takes the announcements from.
* DataHandler.  `CleanOnes`: while nothing has gone wrong, the buffer holds whole packets and these are what is owed.  `Accounted`:
  the first so many segments of a buffer were there after the last process() and were not complete then; each later one
  that completes a packet is owed, in the same order.  What a process() finds is drawn, in order, from the segments
  (`Draws`), and what it leaves is the rest from an incomplete place on, or zero bytes (`Leaves`).  All three are shown from the
  last place of a buffer to the first (`Downwards`), an induction that rests on the least element of a set of naturals, since
  the library's induction theorems take an operator as a parameter.
* DataStream.  The datagram is `Encode` of the list that was sent last (`WireInv`), so the round trip is a fact about the codec.
  A packet that fits is its fields one after another, and each *stands* in the packet at the place where the lengths of those before it
  end.  A reader at that place returns the field's value and is then at the end of the field: shown for a number
  (`BytesFacts` and `ReadIntFacts`), then for numbers in a row, a node, the nodes, a message and the messages, each by those before it.  The loops
  are recursive functions; `Upwards` and `SameAlong` give what they compute after each turn, by the least turn that would
  differ.  That the fields fit the buffer bounds every count, and the width of a buffer's size (65535) is why no count is
  cut off when it is written.  The checksum is whatever `Digest` says of the content, on both sides.
  `ArrivesWhole` says that no datagram is cut or damaged on the way; any may be lost or arrive again.  `WholeInv`: the
  segments are then packets, packets that are not understood and zeros (`Held`), and the buffer is the bytes of each, one after
  another (`BufferOf`).  So many packets come first in it (`Leading`).  As many turns of the loop over bytes take off one each, by
  the round trip with other bytes behind the packet; one more meets the end, too few bytes, zeros
  (`ZerosDecode`) or a packet that is not understood (`ForeignDecode`), and does what `LastRest` says; the others do nothing
  (`TurnsFacts`).  The loop over segments does the same (`OutcomeFacts`).
* UdpClient.  `OneOperation`: a client never has more than one receive; it is under way at the socket, completed, or in the hands
  of one worker, and each place says what the buffer, the queue and what was handed over have to do with each
  other.  All three properties follow.
* DiscoveryLink.  `DeadInv`: what is under way, waits or was heard is no younger than the sender's end, but for a clock that was set
  back.  `LiveInv`: at most one datagram under way is of the sender's present life, and the age of the route is no
  more than the announcements missed since, and the last one, explain.
* DiscoveryNetwork.  `LearnedNearer`: in a tree, a route that is online was learned from a node one hop nearer to the target, and the time
  the target is down is at most its age and what that node may lag behind.  `HeardInTime`: after as many steady intervals as a node is
  away, each nearer neighbour was heard within the last interval, and in this one if it has announced.
* TrafficSimulator.  `Fits`: a router serves only clients whose entry is for it, and an entry is only for the router to which the
  adapter is drawn that the client was entered for, and only if no client was entered for it before (`IsFirst`); that adapter has the client's address
  (`Named`).  `Serves`: the converse, but for `early`, `doubled` and `shared`.  Both are stated of any entries, identifiers, participants and
  connections, as connecting an adapter goes through a state in which it is connected to nothing.  `FirstIsNamed`, for
  `SentOnce`: a client was entered for an adapter that is no later than any present one with its address, so two clients of one address
  with routers were entered for the same adapter, and only one of them is the first.  `NewComeLater`: a client still to come has a greater number than all that
  are there, so it never comes before the first.

The proofs of AdapterManager and AdapterFetcher are in the module of those of NetworkHandler.  It has the constants and
variables of all of them; no theorem about the manager mentions those of the fetcher or of the clients.

Only model-checked:

* liveness (`ManagerFollows`, `AnnouncedAgain`, `Recovers`, `HeardAgain`, `EventuallyDelivered`, `EndsAfterRemoval`), which is out of
  the proof system's reach; the safety half of `ManagerFollows` is proved (`KnowsWhatIsThere`);
* `SegmentsAreExact` and `ReturnsWhatWasSent` where datagrams are cut or damaged: they hold of a digest that tells the damaged and
  misplaced packets of the run from whole ones, which four bytes cannot do for all packets.

## 5. Not modelled

* The Linux fetcher (the Linux build does not compile: `udp_client.cpp:84`), WBEM (not called),
  discovery_message_handler (nothing creates one), read_buffer_t (not used).
* Logging; Qt widgets and their drawing; the text of saved scenes; the creation and wiring of the components at the start.
* transmit_unicast, get_messages_for_adapter and data_sent to one recipient, which nothing calls; data messages have a codec
  and no sender.
* A write whose buffer is gone before asio has read it (`udp_client.cpp:162`): what is sent is then arbitrary; the models
  take it to be what was encoded.
* Registry keys and futures that are kept for ever (`windows/adapter_fetcher.cpp:88`, `network_handler.cpp:233`): no behaviour
  depends on them.
* Sizes and errors that are left out on purpose: a size field with its top bit set is read as a signed number
  (`data_stream.cpp:46`) and then taken for a huge one, where the models read a number of 32 bits; both wait for bytes that do not come before
  an overflow replaces the buffer, unless it has 2 GiB.  The runs declare much less.  When the second call to Windows fails for another reason than the
  size, or its message cannot be formatted, the code returns an empty list (`windows/adapter_fetcher.cpp:411-430`); `ReadFails` stands for the
  failures that end the daemon.
* Two adapters of a simulated node with the same MAC address, which is drawn at random (`NodeItem.cpp:55`).
* A malformed scene file, on which `load` leaves an empty simulator under the old drawing.

## 6. Plan

Done: all modules above.  What would add most next:

1. One composition of `RouteManager` with `DiscoveryNetwork`: that the routes of DiscoveryNetwork are those of each node's table, as a
   refinement (the aging in intervals and the one target are its mapping).
2. An abstract lossy FIFO that DataHandler implements: `NothingInvented` and `CleanStreamsDeliver` are what it would promise.
3. Liveness of DiscoveryNetwork under lossy links: that a node that runs is known again after any losses.
4. A failure detector as the abstract specification of DiscoveryLink.
