-------------------------- MODULE TrafficSimulator --------------------------
(***************************************************************************)
(* The simulated network of discnet_sim: the scene in which a user draws   *)
(* nodes, adapters, routers and connections (SimulatorScene), the          *)
(* network_traffic_manager and its routers, which carry the datagrams, and *)
(* the clients the simulated daemons create.  All of it runs on the thread *)
(* of the user interface; a timer runs simulator::update.                  *)
(*                                                                         *)
(* An adapter is the number with which it came to the simulator; numbers   *)
(* are never used again.  Its daemon creates one client for it at most,    *)
(* which has its number too.  Its address is as the user enters it: all    *)
(* start with the same one, and nothing makes them differ.  The MAC        *)
(* addresses of a node's adapters, drawn at random, are taken to differ.   *)
(***************************************************************************)
EXTENDS Naturals, Sequences, FiniteSetsExt, Functions

CONSTANTS
    Nodes,      \* nodes that may be drawn
    Kinds,      \* what adapters may be like: their node, address, and whether
                \* they are usable, that is enabled and no loopback adapter
    MaxAdapters,\* a bound on the adapters that are drawn
    Routers,    \* routers that may be drawn
    Files,      \* saved scenes: their nodes, adapters in the order in which
                \* they are added, routers and connections
    None        \* the empty optional

ASSUME KindsTyped == \A k \in Kinds : k.node \in Nodes /\ k.usable \in BOOLEAN
ASSUME NoneAssumption == None \notin Routers
ASSUME FilesTyped == \A f \in Files :
    /\ f.nodes \subseteq Nodes /\ f.routers \subseteq Routers
    /\ f.adapters \in Seq(Kinds) /\ \A a \in DOMAIN f.adapters : f.adapters[a].node \in f.nodes
    /\ DOMAIN f.drawn \subseteq DOMAIN f.adapters
    /\ \A a \in DOMAIN f.drawn : f.drawn[a] \in f.routers

VARIABLES
    nodes,         \* simulator::m_nodes
    unused,        \* nodes and routers not drawn so far
    adapters,      \* every adapter drawn so far
    fetched,       \* those that are in the fetchers of their nodes
    entries,       \* m_nodes of the traffic manager: client -> its router or None
    identifiers,   \* m_nodes: client -> the adapter it was entered for
    participants,  \* m_routers: router -> node -> the client that receives for it
    drawn,         \* the connections of the scene: adapter -> router
    early,         \* history: adapters connected when they had no client
    doubled,       \* history: clients created for the second adapter of an address
    shared         \* history: <<node, router>> of nodes that connected a second adapter

vars == <<nodes, unused, adapters, fetched, entries, identifiers, participants, drawn,
          early, doubled, shared>>

TypeOK ==
    /\ nodes \subseteq Nodes /\ unused \subseteq Nodes \cup Routers
    /\ adapters \in Seq(Kinds) /\ fetched \subseteq DOMAIN adapters
    /\ DOMAIN entries \subseteq DOMAIN adapters
    /\ \A c \in DOMAIN entries : entries[c] \in DOMAIN participants \cup {None}
    /\ DOMAIN identifiers = DOMAIN entries /\ Range(identifiers) \subseteq DOMAIN adapters
    /\ DOMAIN participants \subseteq Routers
    /\ \A r \in DOMAIN participants :
          /\ DOMAIN participants[r] \subseteq nodes
          /\ \A n \in DOMAIN participants[r] : adapters[participants[r][n]].node = n
    /\ DOMAIN drawn \subseteq fetched /\ \A a \in DOMAIN drawn : drawn[a] \in DOMAIN participants
    /\ early \cup doubled \subseteq DOMAIN adapters /\ shared \subseteq Nodes \X Routers

-----------------------------------------------------------------------------
Empty == [x \in {} |-> None]
Without(f, xs) == Restrict(f, DOMAIN f \ xs)
With(f, x, y) == [z \in DOMAIN f \cup {x} |-> IF z = x THEN y ELSE f[z]]

Node(a) == adapters[a].node

(* The lookups of fetcher and traffic manager go by address, those of      *)
(* add_link and remove_link by identifier; each takes the first it finds.  *)
SameAddress(as, a, b) == as[a].node = as[b].node /\ as[a].address = as[b].address
GetIdentifier_Own(as, present, c) == c
GetIdentifier(as, present, c) == Min({a \in present : SameAddress(as, a, c)})
HasEntry(ids, a) == a \in Range(ids)
EntryOf(ids, a) == Min({c \in DOMAIN ids : ids[c] = a})

(* network_router::add_participant: the first client of a node stays.      *)
AddParticipant(ps, r, n, c) ==
    [ps EXCEPT ![r] = IF n \in DOMAIN @ THEN @ ELSE With(@, n, c)]

(* remove_participant, for a set of routers.                               *)
RemoveParticipant(ps, rs, n) ==
    [r \in DOMAIN ps |-> IF r \in rs THEN Without(ps[r], {n}) ELSE ps[r]]

(* network_traffic_manager::remove_link and add_link.                      *)
Cut(c) == [entries EXCEPT ![c] = None]
Unlinked_EntryOnly(a) ==
    [entries      |-> IF HasEntry(identifiers, a) THEN Cut(EntryOf(identifiers, a)) ELSE entries,
     participants |-> participants]
Unlinked_EveryRouter(a) ==
    [entries      |-> IF HasEntry(identifiers, a) THEN Cut(EntryOf(identifiers, a)) ELSE entries,
     participants |-> IF HasEntry(identifiers, a)
                      THEN RemoveParticipant(participants, DOMAIN participants, Node(a))
                      ELSE participants]
Unlinked(a) ==
    [entries      |-> IF HasEntry(identifiers, a) THEN Cut(EntryOf(identifiers, a)) ELSE entries,
     participants |-> IF HasEntry(identifiers, a)
                      THEN RemoveParticipant(participants, {entries[EntryOf(identifiers, a)]}, Node(a))
                      ELSE participants]

Linked(net, a, r) ==
    IF HasEntry(identifiers, a) /\ r \in DOMAIN net.participants
    THEN [entries      |-> [net.entries EXCEPT ![EntryOf(identifiers, a)] = r],
          participants |-> AddParticipant(net.participants, r, Node(a), EntryOf(identifiers, a))]
    ELSE net

-----------------------------------------------------------------------------
(* What the user does.                                                     *)
DropNode(n) ==
    /\ n \in unused \cap Nodes
    /\ unused' = unused \ {n}
    /\ nodes' = nodes \cup {n}
    /\ UNCHANGED <<adapters, fetched, entries, identifiers, participants, drawn, early, doubled, shared>>

DropRouter(r) ==
    /\ r \in unused \cap Routers
    /\ unused' = unused \ {r}
    /\ participants' = With(participants, r, Empty)
    /\ UNCHANGED <<nodes, adapters, fetched, entries, identifiers, drawn, early, doubled, shared>>

AddAdapter(k) ==
    /\ Len(adapters) < MaxAdapters /\ k.node \in nodes
    /\ adapters' = Append(adapters, k)
    /\ fetched' = fetched \cup {Len(adapters) + 1}
    /\ UNCHANGED <<nodes, unused, entries, identifiers, participants, drawn, early, doubled, shared>>

(* A connection replaces the one the adapter had.                          *)
Connected(n, r) == {a \in DOMAIN drawn : Node(a) = n /\ drawn[a] = r}

Connect(a, r) ==
    /\ a \in fetched /\ r \in DOMAIN participants
    /\ LET net == Linked(IF a \in DOMAIN drawn THEN Unlinked(a)
                         ELSE [entries |-> entries, participants |-> participants], a, r)
       IN  /\ entries' = net.entries
           /\ participants' = net.participants
    /\ drawn' = With(drawn, a, r)
    /\ early' = IF a \in DOMAIN entries THEN early \ {a} ELSE early \cup {a}
    /\ shared' = IF Connected(Node(a), r) \ {a} # {}
                 THEN shared \cup {<<Node(a), r>>} ELSE shared \ {<<Node(a), r>>}
    /\ UNCHANGED <<nodes, unused, adapters, fetched, identifiers, doubled>>

RemoveAdapter(a) ==
    /\ a \in fetched
    /\ entries' = Unlinked(a).entries
    /\ participants' = Unlinked(a).participants
    /\ fetched' = fetched \ {a}
    /\ drawn' = Without(drawn, {a})
    /\ early' = early \ {a}
    /\ UNCHANGED <<nodes, unused, adapters, identifiers, doubled, shared>>

AfterRouter(r) == [c \in DOMAIN entries |-> IF entries[c] = r THEN None ELSE entries[c]]

RemoveRouter(r) ==
    /\ r \in DOMAIN participants
    /\ entries' = AfterRouter(r)
    /\ participants' = Without(participants, {r})
    /\ drawn' = Without(drawn, {a \in DOMAIN drawn : drawn[a] = r})
    /\ UNCHANGED <<nodes, unused, adapters, fetched, identifiers, early, doubled, shared>>

(* The node's daemon ends with it.                                         *)
AdaptersOf(n) == {a \in DOMAIN adapters : Node(a) = n}

RemoveNode(n) ==
    /\ n \in nodes
    /\ participants' = RemoveParticipant(participants,
                           {entries[c] : c \in AdaptersOf(n) \cap DOMAIN entries}, n)
    /\ entries' = Without(entries, AdaptersOf(n))
    /\ identifiers' = Without(identifiers, AdaptersOf(n))
    /\ nodes' = nodes \ {n}
    /\ fetched' = fetched \ AdaptersOf(n)
    /\ drawn' = Without(drawn, AdaptersOf(n))
    /\ early' = early \ AdaptersOf(n)
    /\ UNCHANGED <<unused, adapters, doubled, shared>>

-----------------------------------------------------------------------------
(* add_client: the adapters that get a client, and those of them whose     *)
(* address an earlier adapter of their node has.                           *)
Usable(as, present) == {a \in present : as[a].usable}
Doubled(as, present) ==
    {a \in Usable(as, present) : \E b \in present : b < a /\ SameAddress(as, b, a)}

(* simulator::update: each daemon creates the clients of its new adapters, *)
(* in the order in which they were added, and with each of them comes an   *)
(* entry.  The entry of an adapter that is removed stays, as its client's  *)
(* close() does nothing.                                                   *)
Update ==
    LET new == Usable(adapters, fetched) \ DOMAIN entries IN
    /\ entries' = [c \in DOMAIN entries \cup new |-> IF c \in new THEN None ELSE entries[c]]
    /\ identifiers' = [c \in DOMAIN identifiers \cup new |->
                          IF c \in new THEN GetIdentifier(adapters, fetched, c) ELSE identifiers[c]]
    /\ doubled' = doubled \cup (new \cap Doubled(adapters, fetched))
    /\ UNCHANGED <<nodes, unused, adapters, fetched, participants, drawn, early, shared>>

(* What updating once and linking one after the other comes to: an adapter *)
(* that has an entry gets its router, and a router the first of each node. *)
Identifiers(file) ==
    [c \in Usable(file.adapters, DOMAIN file.adapters) |->
        GetIdentifier(file.adapters, DOMAIN file.adapters, c)]
LinkedTo(file, ids, r) == {a \in DOMAIN file.drawn : file.drawn[a] = r /\ HasEntry(ids, a)}
FirstOf(file, order, n, linked) ==
    Min({i \in DOMAIN order : file.adapters[order[i]].node = n /\ order[i] \in linked})
ParticipantsOf(file, ids, order, linked) ==
    [n \in {file.adapters[a].node : a \in linked} |->
        EntryOf(ids, order[FirstOf(file, order, n, linked)])]
RouterOf(file, ids, c) ==
    IF ids[c] \in DOMAIN file.drawn /\ c = EntryOf(ids, ids[c]) THEN file.drawn[ids[c]] ELSE None

(* SimulatorScene::load of what serialize has written: a new simulator, in *)
(* which all is drawn at once, updated once and then linked, in the order  *)
(* in which the connections were first drawn.                              *)
Load(file, ids, order) ==
    /\ nodes' = file.nodes
    /\ unused' = (Nodes \cup Routers) \ (file.nodes \cup file.routers)
    /\ adapters' = file.adapters
    /\ fetched' = DOMAIN file.adapters
    /\ drawn' = file.drawn
    /\ identifiers' = ids
    /\ entries' = [c \in DOMAIN ids |-> RouterOf(file, ids, c)]
    /\ participants' =
          [r \in file.routers |-> ParticipantsOf(file, ids, order, LinkedTo(file, ids, r))]
    /\ early' = DOMAIN file.drawn \ DOMAIN ids
    /\ doubled' = Doubled(file.adapters, DOMAIN file.adapters)
    /\ shared' = {<<file.adapters[a].node, file.drawn[a]>> : a \in {b \in DOMAIN file.drawn :
                     \E c \in DOMAIN file.drawn \ {b} :
                         /\ file.drawn[c] = file.drawn[b]
                         /\ file.adapters[c].node = file.adapters[b].node}}

Orders(file) == Bijection(1 .. Cardinality(DOMAIN file.drawn), DOMAIN file.drawn)
Loads == UNION {{<<file, Identifiers(file), order>> : order \in Orders(file)} : file \in Files}

Init ==
    /\ nodes = {}
    /\ unused = Nodes \cup Routers
    /\ adapters = << >>
    /\ fetched = {}
    /\ entries = Empty
    /\ identifiers = Empty
    /\ participants = Empty
    /\ drawn = Empty
    /\ early = {}
    /\ doubled = {}
    /\ shared = {}

Next ==
    \/ \E n \in Nodes : DropNode(n) \/ RemoveNode(n)
    \/ \E r \in Routers : DropRouter(r) \/ RemoveRouter(r)
    \/ \E k \in Kinds : AddAdapter(k)
    \/ \E a \in fetched : RemoveAdapter(a)
    \/ \E a \in fetched, r \in Routers : Connect(a, r)
    \/ Update
    \/ \E load \in Loads : Load(load[1], load[2], load[3])

Spec == Init /\ [][Next]_vars

-----------------------------------------------------------------------------
(* data_sent: the entries through which a client's datagram leaves, which  *)
(* are found by its address, and the clients that receive it at once.      *)
Through(c) ==
    {e \in DOMAIN entries : SameAddress(adapters, e, c) /\ entries[e] \in DOMAIN participants}
Receivers(c) ==
    UNION {Range(Without(participants[entries[e]], {Node(c)})) : e \in Through(c)}

(* What the scene shows: the adapters of other nodes on the same router.   *)
Neighbours(a) ==
    {b \in DOMAIN drawn : a \in DOMAIN drawn /\ drawn[b] = drawn[a] /\ Node(b) # Node(a)}

(* A datagram reaches only addresses that the scene shows connected to the *)
(* one it is sent from: no router keeps a participant whose node or        *)
(* connection is gone.  Adapters of one node with one address the          *)
(* simulator cannot tell apart: one may send and receive for the other.    *)
OnlyNeighboursReceive ==
    \A c \in DOMAIN entries : \A d \in Receivers(c) :
        \E a, b \in DOMAIN drawn :
            /\ SameAddress(adapters, a, c) /\ SameAddress(adapters, b, d)
            /\ b \in Neighbours(a)

(* A datagram leaves through one router, even when several adapters of the *)
(* node have its address and are connected: nobody receives it twice.      *)
SentOnce == \A c \in DOMAIN entries : \A e, f \in Through(c) : e = f

(* A datagram reaches every adapter the scene shows connected, but for     *)
(* connections drawn while one of the two adapters had no client, not yet  *)
(* or because it is disabled or a loopback adapter; for adapters whose     *)
(* address an earlier one of their node had when they got their client;    *)
(* and for nodes that connected a second adapter to one router, of which   *)
(* one at most receives, until a connection of theirs is its only one.     *)
NeighboursReceive ==
    \A a \in DOMAIN entries : \A b \in Neighbours(a) :
        {a, b} \cap (early \cup doubled) = {} /\ <<Node(b), drawn[b]>> \notin shared
            => b \in Receivers(a)
=============================================================================
