---------------------------- MODULE RouteManager ----------------------------
(***************************************************************************)
(* The route table of one discnet daemon (discnet/src/route_manager.cpp)   *)
(* as the main loop drives it (discnet_app/src/application.cpp:53-59):     *)
(* every iteration reads the clock, refreshes the adapters, hands the      *)
(* discovery messages received so far to the route manager, and then       *)
(* updates the online state of all routes.  What the transmission handler  *)
(* then advertises is FindRoutesForAdapter.                                *)
(*                                                                         *)
(* Time is the system clock in units of which Timeout make the 90 seconds  *)
(* of is_route_online.  A list of jumps is abstracted to its sum, which is *)
(* all is_shorter_route looks at.  m_last_data_message stays at            *)
(* time_point::min() in the code and never makes a route online; m_mtu and *)
(* m_silent are never read.                                                *)
(***************************************************************************)
EXTENDS Integers, Sequences, FiniteSets

CONSTANTS
    Macs,             \* keys of m_adapters; their order is the order of the std::map
    Guids,            \* adapter guids; their order is the order of m_adapter_routes
    Addresses,        \* IPv4 addresses
    NodeIds,          \* identifiers of remote nodes
    AdapterConfigs,   \* what adapter_manager::update may leave in m_adapters
    Messages,         \* discovery messages that may arrive
    PersistentRoutes, \* arguments process_persistent_route may be called with
    HopCost,          \* the 256 of process_discovery_message
    Timeout,          \* the 90 seconds of is_route_online
    ClockSteps,       \* how far the system clock moves between two iterations
    MaxTime           \* bound on the clock

RouteIds == [node: NodeIds, address: Addresses, adapter: Addresses, reporter: Addresses]
Adapters == [guid: Guids, addresses: SUBSET Addresses]
Nodes    == [id: NodeIds, address: Addresses, cost: Nat]
Routes   == [guid: Guids, id: RouteIds, last: Int, online: BOOLEAN,
             persistent: BOOLEAN, cost: Nat]
IsMacTable(a) ==
    DOMAIN a \subseteq Macs /\ a \in [DOMAIN a -> Adapters]

ASSUME OrderedKeys    == Macs \subseteq Nat /\ Guids \subseteq Nat
ASSUME TimeAssumption == /\ Timeout \in Nat \ {0}
                         /\ ClockSteps \subseteq Int
                         /\ MaxTime \in Nat
                         /\ HopCost \in Nat
ASSUME InputsTyped ==
    /\ \A config \in AdapterConfigs : IsMacTable(config)
    /\ Messages \subseteq [id: NodeIds, sender: Addresses, adapter: Addresses,
                           nodes: Seq(Nodes)]
    /\ PersistentRoutes \subseteq [id: RouteIds, metric: Nat, enabled: BOOLEAN]

VARIABLES
    adapters,   \* adapter_manager::m_adapters: mac -> adapter
    table,      \* m_adapter_routes, as one set: each route carries its adapter's guid
    now,        \* current_time of this iteration
    settled,    \* route_manager::update has run in this iteration
    model,      \* RouteModel::m_data of a listener: route id -> shown online
    lastUp      \* history: guid -> last iteration in which an adapter had this guid

vars == <<adapters, table, now, settled, model, lastUp>>

TypeOK ==
    /\ IsMacTable(adapters)
    /\ table \subseteq Routes
    /\ now \in Int
    /\ settled \in BOOLEAN
    /\ DOMAIN model \subseteq RouteIds /\ model \in [DOMAIN model -> BOOLEAN]
    /\ lastUp \in [Guids -> Int]

-----------------------------------------------------------------------------
(* adapter_manager::find_adapter(address): m is the first entry, in the    *)
(* order of the map, that has the address.                                 *)
Holders(addr) == {m \in DOMAIN adapters : addr \in adapters[m].addresses}
IsFoundAdapter(m, addr) == m \in Holders(addr) /\ \A n \in Holders(addr) : m <= n

(* is_route_online.                                                        *)
IsRouteOnline_EarlyByOne(r, time) == r.persistent \/ r.last > time - Timeout + 1
IsRouteOnline(r, time) == r.persistent \/ r.last > time - Timeout

(* What a discovery message says: its sender, one hop away, then the nodes *)
(* the sender reports, one hop further than they are from the sender.      *)
DirectId(m) == [node |-> m.id, address |-> m.sender,
                adapter |-> m.adapter, reporter |-> m.sender]
IndirectId(m, n) == [node |-> n.id, address |-> n.address,
                     adapter |-> m.adapter, reporter |-> m.sender]
Reports(m) ==
    <<[id |-> DirectId(m), cost |-> HopCost]>> \o
    [i \in DOMAIN m.nodes |-> [id   |-> IndirectId(m, m.nodes[i]),
                               cost |-> HopCost + m.nodes[i].cost]]

-----------------------------------------------------------------------------
(* process_route: a route that is in the table has only its time of        *)
(* discovery refreshed, so its cost stays that of the first report and an  *)
(* offline route stays offline until the next update.                      *)
NewRoute(guid, report) ==
    [guid |-> guid, id |-> report.id, last |-> now, online |-> TRUE,
     persistent |-> FALSE, cost |-> report.cost]

Touched(guid, id, r) == IF r.guid = guid /\ r.id = id THEN [r EXCEPT !.last = now] ELSE r

ProcessRoute(guid, routes, report) ==
    IF \E r \in routes : r.guid = guid /\ r.id = report.id
    THEN {Touched(guid, report.id, r) : r \in routes}
    ELSE routes \cup {NewRoute(guid, report)}

(* The loop of process_discovery_message over the reports of a message.    *)
ProcessInTurn(guid, reports) ==
    LET after[k \in 0 .. Len(reports)] ==
          IF k = 0 THEN table ELSE ProcessRoute(guid, after[k - 1], reports[k])
    IN after[Len(reports)]

(* The same for all reports at once.                                       *)
ReportedIds(reports) == {reports[i].id : i \in DOMAIN reports}

KnownIds(guid) == {r.id : r \in {x \in table : x.guid = guid}}

FirstOf(reports, i) == \A j \in DOMAIN reports : reports[j].id = reports[i].id => i <= j

NewRoutes_NoLookup(guid, reports) ==
    {NewRoute(guid, reports[i]) : i \in DOMAIN reports}

NewRoutes_LastWins(guid, reports) ==
    {NewRoute(guid, reports[i]) : i \in {i \in DOMAIN reports :
        /\ reports[i].id \notin KnownIds(guid)
        /\ \A j \in DOMAIN reports : reports[j].id = reports[i].id => j <= i}}

NewRoutes(guid, reports) ==
    {NewRoute(guid, reports[i]) : i \in {i \in DOMAIN reports :
        reports[i].id \notin KnownIds(guid) /\ FirstOf(reports, i)}}

Refreshed(guid, reports) ==
    {IF r.guid = guid /\ r.id \in ReportedIds(reports) THEN [r EXCEPT !.last = now] ELSE r
       : r \in table}

ProcessRoutes(guid, reports) == Refreshed(guid, reports) \cup NewRoutes(guid, reports)

(* e_new_route: the listener adds a row that shows the route online, or,   *)
(* when another adapter's route has this id, replaces that route's row.    *)
ShowNew(new) == [i \in DOMAIN model \cup new |-> i \in new \/ model[i]]

NewIds(guid, reports) == ReportedIds(reports) \ KnownIds(guid)

-----------------------------------------------------------------------------
Init ==
    /\ adapters = [m \in {} |-> 0]
    /\ table = {}
    /\ now = 0
    /\ settled = TRUE
    /\ model = [i \in {} |-> TRUE]
    /\ lastUp = [g \in Guids |-> -Timeout]

(* The main loop takes the time and runs adapter_manager::update.          *)
BeginIteration(config, step) ==
    /\ settled
    /\ now + step \in 0 .. MaxTime
    /\ now' = now + step
    /\ adapters' = config
    /\ lastUp' = [g \in Guids |-> IF \E m \in DOMAIN config : config[m].guid = g
                                    THEN now' ELSE lastUp[g]]
    /\ settled' = FALSE
    /\ UNCHANGED <<table, model>>

(* process_discovery_message, called by network_handler::update with the   *)
(* time of this iteration.  A message for an address no adapter has is     *)
(* dropped: no mac satisfies IsFoundAdapter and nothing changes.           *)
ProcessDiscoveryMessage_KeyedByMac(m, mac) ==
    /\ ~settled
    /\ IsFoundAdapter(mac, m.adapter)
    /\ table' = ProcessRoutes(mac, Reports(m))
    /\ model' = ShowNew(NewIds(mac, Reports(m)))
    /\ UNCHANGED <<adapters, now, settled, lastUp>>

ProcessDiscoveryMessage(m, mac) ==
    /\ ~settled
    /\ IsFoundAdapter(mac, m.adapter)
    /\ LET guid == adapters[mac].guid IN
         /\ table' = ProcessRoutes(guid, Reports(m))
         /\ model' = ShowNew(NewIds(guid, Reports(m)))
    /\ UNCHANGED <<adapters, now, settled, lastUp>>

(* process_persistent_route: the route is processed like a reported one,   *)
(* announced, and only then made persistent, or not, whichever it was.     *)
ProcessPersistentRoute(p, mac) ==
    /\ ~settled
    /\ IsFoundAdapter(mac, p.id.adapter)
    /\ LET guid    == adapters[mac].guid
           reports == <<[id |-> p.id, cost |-> p.metric]>>
       IN  /\ table' = {IF r.guid = guid /\ r.id = p.id
                          THEN [r EXCEPT !.persistent = p.enabled] ELSE r
                          : r \in ProcessRoutes(guid, reports)}
           /\ model' = ShowNew(NewIds(guid, reports))
    /\ UNCHANGED <<adapters, now, settled, lastUp>>

(* route_manager::update: every route, of attached adapters or not, takes  *)
(* the state is_route_online gives it; a change is announced.  Rows of the *)
(* listener are keyed by route id alone, so of two changes with one id the *)
(* later one, of the greater guid, is shown.                               *)
Toggled(i) == {r \in table : r.id = i /\ r.online # IsRouteOnline(r, now)}

ShowToggled_OfflineOnly ==
    [i \in DOMAIN model |-> model[i] /\ ~\E r \in Toggled(i) : r.online]

ShowToggled ==
    [i \in DOMAIN model |->
        IF Toggled(i) = {} THEN model[i]
        ELSE \E r \in Toggled(i) : /\ \A s \in Toggled(i) : s.guid <= r.guid
                                   /\ ~r.online]

UpdatedTable_AttachedOnly ==
    {IF \E m \in DOMAIN adapters : adapters[m].guid = r.guid
       THEN [r EXCEPT !.online = IsRouteOnline(r, now)] ELSE r : r \in table}

UpdatedTable_TogglesBack ==
    {[r EXCEPT !.online = ~r.online \/ IsRouteOnline(r, now)] : r \in table}

UpdatedTable == {[r EXCEPT !.online = IsRouteOnline(r, now)] : r \in table}

Update ==
    /\ ~settled
    /\ table' = UpdatedTable
    /\ model' = ShowToggled
    /\ settled' = TRUE
    /\ UNCHANGED <<adapters, now, lastUp>>

Next ==
    \/ \E config \in AdapterConfigs, step \in ClockSteps : BeginIteration(config, step)
    \/ \E m \in Messages, mac \in Macs : ProcessDiscoveryMessage(m, mac)
    \/ \E p \in PersistentRoutes, mac \in Macs : ProcessPersistentRoute(p, mac)
    \/ Update

Spec == Init /\ [][Next]_vars

-----------------------------------------------------------------------------
(* find_routes_for_adapter: the online routes of all other adapters.  When *)
(* the address of an adapter has moved, one route id may be listed under   *)
(* two guids; the shorter route is kept, the first found of two equals.    *)
Candidates_AnyAdapter(guid) == {r \in table : r.online}
Candidates(guid) == {r \in table : r.guid # guid /\ r.online}

Preferred_NotLonger(r, s) == r.cost <= s.cost
Preferred(r, s) == r.cost < s.cost \/ (r.cost = s.cost /\ r.guid < s.guid)

FindRoutesForAdapter(guid) ==
    {r \in Candidates(guid) :
        \A s \in Candidates(guid) : s # r /\ s.id = r.id => Preferred(r, s)}

-----------------------------------------------------------------------------
(* What the route manager promises.                                        *)

SameRoute(r, s) == r.guid = s.guid /\ r.id = s.id

(* A route id is listed at most once per adapter however often, and with   *)
(* whatever costs, messages repeat it: process_route looks a route up      *)
(* before it adds one, for each entry of a message anew.                   *)
UniqueRoutes == \A r, s \in table : SameRoute(r, s) => r = s

(* Handing the reports of a message to process_route one after another, as *)
(* the code does, has the effect ProcessRoutes states for all at once,     *)
(* however often and at whatever costs the message repeats a route.        *)
BatchIsSequential ==
    ~settled => \A m \in Messages, guid \in Guids :
        ProcessRoutes(guid, Reports(m)) = ProcessInTurn(guid, Reports(m))

(* A route that is offline after an update was last reported Timeout or    *)
(* more ago; one that is offline before it is stale, or reported or made   *)
(* persistent in this very iteration (process_route leaves m_online to     *)
(* update).                                                                *)
OfflineIsStale ==
    \A r \in table : ~r.online =>
        \/ r.last <= now - Timeout
        \/ ~settled /\ (r.last = now \/ r.persistent)

(* As long as the system clock is not set back, a route that went offline  *)
(* comes back only when it is reported in that iteration or is persistent: *)
(* no step resurrects a route nobody heard of.                             *)
NoResurrection ==
    [][\A r \in table, s \in table' :
          SameRoute(r, s) /\ ~r.online /\ s.online => s.last = now' \/ s.persistent]_vars

(* The routes of an adapter that disappeared stay in m_adapter_routes and  *)
(* are advertised on the other adapters, but no longer than Timeout after  *)
(* the last iteration that had the adapter.                                *)
DetachedRoutesExpire ==
    settled => \A r \in table :
        r.online /\ ~r.persistent => lastUp[r.guid] > now - Timeout

(* What a listener that only follows e_new_route and e_online_state_changed*)
(* shows (RouteModel::update) is what the table holds, at every moment, if *)
(* the route id is listed under one adapter only.                          *)
ModelShowsTable ==
    \A r \in table : (\A s \in table : s.id = r.id => s.guid = r.guid) =>
        r.id \in DOMAIN model /\ model[r.id] = r.online

(* Each route id that is online on some other adapter is advertised once,  *)
(* at the least of its costs, also when the id is listed under several     *)
(* guids (the deduplication of find_routes_for_adapter).                   *)
AdvertisesShortest ==
    \A guid \in Guids :
        LET advertised == FindRoutesForAdapter(guid) IN
        \A r \in table : r.online /\ r.guid # guid =>
            \E a \in advertised :
                /\ a.id = r.id /\ a.cost <= r.cost
                /\ \A b \in advertised : b.id = r.id => b = a

(* No adapter but one ever has the address.                                *)
StaysPut(addr) ==
    \A c, d \in AdapterConfigs : \A m \in DOMAIN c, n \in DOMAIN d :
        addr \in c[m].addresses \cap d[n].addresses => c[m].guid = d[n].guid

(* A route is never advertised through the address it was learned on, so   *)
(* that neighbours do not hear their own reports back, unless that address *)
(* moves from one adapter to another.                                      *)
NoEcho ==
    \A m \in DOMAIN adapters : \A r \in FindRoutesForAdapter(adapters[m].guid) :
        r.id.adapter \in adapters[m].addresses => ~StaysPut(r.id.adapter)
=============================================================================
