------------------------ MODULE RouteManager_proofs ------------------------
(***************************************************************************)
(* Proofs about RouteManager, for all adapters, messages, clock steps and  *)
(* timeouts that satisfy its assumptions.                                  *)
(***************************************************************************)
EXTENDS RouteManager, WellFoundedInduction, TLAPS

(* Every nonempty set of naturals has a least element.                     *)
LEMMA LeastNatural ==
    ASSUME NEW T, T \subseteq Nat, T # {}
    PROVE  \E x \in T : \A y \in T : x <= y
  <1> DEFINE R == OpToRel(<, Nat)
  <1>1. PICK x \in T : \A y \in T : ~ (<<y, x>> \in R)
    <2>1. IsWellFoundedOn(R, Nat)
      BY NatLessThanWellFounded
    <2> HIDE DEF R
    <2> QED BY <2>1, WFMin, Zenon
  <1>2. ASSUME NEW y \in T PROVE x <= y
    <2>1. ~ (<<y, x>> \in R)
      BY <1>1
    <2>2. \A a, b \in Nat : a < b => <<a, b>> \in R
      BY DEF OpToRel
    <2> HIDE DEF R
    <2> QED BY <2>1, <2>2
  <1> QED BY <1>2

(* One report of a message names a route of the expected type.             *)
LEMMA ReportsTyped ==
    ASSUME NEW m \in Messages
    PROVE  /\ Reports(m) \in Seq([id: RouteIds, cost: Nat])
           /\ \A i \in DOMAIN Reports(m) :
                 Reports(m)[i].id \in RouteIds /\ Reports(m)[i].id.adapter = m.adapter
  <1> DEFINE R   == [id: RouteIds, cost: Nat]
             hd  == [id |-> DirectId(m), cost |-> HopCost]
             tl  == [i \in DOMAIN m.nodes |-> [id |-> IndirectId(m, m.nodes[i]),
                                              cost |-> HopCost + m.nodes[i].cost]]
  <1>1. m \in [id: NodeIds, sender: Addresses, adapter: Addresses, nodes: Seq(Nodes)]
    BY InputsTyped
  <1>2. hd \in R /\ hd.id.adapter = m.adapter
    BY <1>1, TimeAssumption DEF DirectId, RouteIds
  <1>3. DOMAIN m.nodes = 1 .. Len(m.nodes) /\ Len(m.nodes) \in Nat
    BY <1>1
  <1>4. ASSUME NEW i \in DOMAIN m.nodes
        PROVE  /\ [id |-> IndirectId(m, m.nodes[i]), cost |-> HopCost + m.nodes[i].cost] \in R
               /\ IndirectId(m, m.nodes[i]).adapter = m.adapter
    <2>1. m.nodes[i] \in Nodes
      BY <1>1, <1>3
    <2> QED
      BY <2>1, <1>1, TimeAssumption DEF IndirectId, RouteIds, Nodes
  <1>5. tl \in Seq(R) /\ Len(tl) = Len(m.nodes)
    BY <1>3, <1>4
  <1>6. <<hd>> \in Seq(R) /\ Len(<<hd>>) = 1 /\ <<hd>>[1] = hd
    BY <1>2
  <1>7. Reports(m) = <<hd>> \o tl
    BY DEF Reports
  <1>8. Reports(m) \in Seq(R)
    BY <1>5, <1>6, <1>7
  <1>9. ASSUME NEW i \in DOMAIN Reports(m)
        PROVE  Reports(m)[i].id \in RouteIds /\ Reports(m)[i].id.adapter = m.adapter
    <2>1. i \in 1 .. (1 + Len(m.nodes))
      BY <1>5, <1>6, <1>7, <1>8
    <2>2. CASE i = 1
      <3>1. Reports(m)[i] = hd
        BY <2>2, <1>5, <1>6, <1>7
      <3> QED BY <3>1, <1>2
    <2>3. CASE i # 1
      <3>1. i - 1 \in DOMAIN m.nodes
        BY <2>1, <2>3, <1>3
      <3>2. Reports(m)[i] = tl[i - 1]
        BY <2>1, <2>3, <1>3, <1>5, <1>6, <1>7
      <3> QED BY <3>1, <3>2, <1>4
    <2> QED BY <2>2, <2>3
  <1> QED BY <1>8, <1>9

(* A persistent route is processed as the single report of its id.         *)
LEMMA PersistentReportTyped ==
    ASSUME NEW p \in PersistentRoutes
    PROVE  /\ <<[id |-> p.id, cost |-> p.metric]>> \in Seq([id: RouteIds, cost: Nat])
           /\ \A i \in DOMAIN <<[id |-> p.id, cost |-> p.metric]>> :
                 <<[id |-> p.id, cost |-> p.metric]>>[i].id = p.id
           /\ p.id \in RouteIds /\ p.enabled \in BOOLEAN
  BY InputsTyped

-----------------------------------------------------------------------------
(* What ProcessRoutes does to the table.                                   *)

(* A route of the new table was in the old one, as it is or but for its    *)
(* time of discovery, or it is new, from the first report of its id.       *)
LEMMA ProcessRoutesCases ==
    ASSUME NEW guid, NEW reports, NEW s \in ProcessRoutes(guid, reports)
    PROVE  \/ s \in table /\ ~(s.guid = guid /\ s.id \in ReportedIds(reports))
           \/ \E r \in table : /\ r.guid = guid /\ r.id \in ReportedIds(reports)
                               /\ s = [r EXCEPT !.last = now]
           \/ \E i \in DOMAIN reports : /\ s = NewRoute(guid, reports[i])
                                        /\ reports[i].id \notin KnownIds(guid)
                                        /\ FirstOf(reports, i)
  BY DEF ProcessRoutes, Refreshed, NewRoutes

(* No route is lost.                                                       *)
LEMMA ProcessRoutesKeeps ==
    ASSUME NEW guid, NEW reports, NEW r \in table
    PROVE  IF r.guid = guid /\ r.id \in ReportedIds(reports)
             THEN [r EXCEPT !.last = now] \in ProcessRoutes(guid, reports)
             ELSE r \in ProcessRoutes(guid, reports)
  BY DEF ProcessRoutes, Refreshed

(* Every reported id is listed afterwards.                                 *)
LEMMA ProcessRoutesAdds ==
    ASSUME TypeOK, NEW guid, NEW reports \in Seq([id: RouteIds, cost: Nat]),
           NEW i \in DOMAIN reports, reports[i].id \notin KnownIds(guid)
    PROVE  \E s \in ProcessRoutes(guid, reports) : s.guid = guid /\ s.id = reports[i].id
  <1> DEFINE T == {k \in DOMAIN reports : reports[k].id = reports[i].id}
  <1>1. T \subseteq Nat /\ i \in T
    OBVIOUS
  <1>2. PICK j \in T : \A k \in T : j <= k
    BY <1>1, LeastNatural
  <1>3. FirstOf(reports, j) /\ reports[j].id \notin KnownIds(guid) /\ j \in DOMAIN reports
    BY <1>2 DEF FirstOf
  <1>4. NewRoute(guid, reports[j]) \in ProcessRoutes(guid, reports)
    BY <1>3 DEF ProcessRoutes, NewRoutes
  <1> QED BY <1>2, <1>4 DEF NewRoute

(* A report names a route id and a cost.                                   *)
LEMMA ReportFields ==
    ASSUME NEW reports \in Seq([id: RouteIds, cost: Nat]), NEW i \in DOMAIN reports
    PROVE  reports[i].id \in RouteIds /\ reports[i].cost \in Nat
  <1> DEFINE R == [id: RouteIds, cost: Nat]
  <1>1. reports[i] \in R
    <2> HIDE DEF R
    <2>1. reports \in Seq(R)
      BY DEF R
    <2> QED BY <2>1
  <1> QED BY <1>1

(* Processing reports leaves routes of the expected type.                  *)
LEMMA ProcessRoutesTyped ==
    ASSUME TypeOK, NEW guid \in Guids, NEW reports \in Seq([id: RouteIds, cost: Nat])
    PROVE  ProcessRoutes(guid, reports) \subseteq Routes
  <1> SUFFICES ASSUME NEW s \in ProcessRoutes(guid, reports) PROVE s \in Routes
    OBVIOUS
  <1>1. CASE s \in table
    BY <1>1 DEF TypeOK
  <1>2. ASSUME NEW r \in table, s = [r EXCEPT !.last = now] PROVE s \in Routes
    BY <1>2 DEF TypeOK, Routes
  <1>3. ASSUME NEW i \in DOMAIN reports, s = NewRoute(guid, reports[i]) PROVE s \in Routes
    <2>1. reports[i].id \in RouteIds /\ reports[i].cost \in Nat
      BY ReportFields
    <2> QED BY <1>3, <2>1 DEF TypeOK, Routes, NewRoute
  <1> QED BY <1>1, <1>2, <1>3, ProcessRoutesCases

(* Processing reports, which looks each of them up before it adds a route, *)
(* leaves no adapter with one route id twice.                              *)
LEMMA ProcessRoutesUnique ==
    ASSUME TypeOK, UniqueRoutes, NEW guid \in Guids,
           NEW reports \in Seq([id: RouteIds, cost: Nat]),
           NEW s \in ProcessRoutes(guid, reports), NEW t \in ProcessRoutes(guid, reports),
           SameRoute(s, t)
    PROVE  s = t
  <1> DEFINE Old(x) == \E r \in table :
                         /\ SameRoute(r, x)
                         /\ x = IF r.guid = guid /\ r.id \in ReportedIds(reports)
                                  THEN [r EXCEPT !.last = now] ELSE r
             New(x) == \E i \in DOMAIN reports : /\ x = NewRoute(guid, reports[i])
                                                /\ reports[i].id \notin KnownIds(guid)
                                                /\ FirstOf(reports, i)
  <1>1. ASSUME NEW x \in ProcessRoutes(guid, reports) PROVE Old(x) \/ New(x)
    <2>1. CASE x \in table /\ ~(x.guid = guid /\ x.id \in ReportedIds(reports))
      BY <2>1 DEF SameRoute
    <2>2. ASSUME NEW r \in table, r.guid = guid, r.id \in ReportedIds(reports),
                 x = [r EXCEPT !.last = now]
          PROVE  Old(x)
      <3>1. SameRoute(r, x)
        BY <2>2 DEF SameRoute, TypeOK, Routes
      <3> QED BY <2>2, <3>1
    <2> QED BY <2>1, <2>2, ProcessRoutesCases
  <1>2. ASSUME NEW x, NEW y, Old(x), New(y), SameRoute(x, y) PROVE FALSE
    BY <1>2 DEF SameRoute, NewRoute, KnownIds
  <1>3. CASE Old(s) /\ Old(t)
    BY <1>3 DEF UniqueRoutes, SameRoute
  <1>4. CASE New(s) /\ New(t)
    <2>1. PICK i \in DOMAIN reports : s = NewRoute(guid, reports[i]) /\ FirstOf(reports, i)
      BY <1>4
    <2>2. PICK j \in DOMAIN reports : t = NewRoute(guid, reports[j]) /\ FirstOf(reports, j)
      BY <1>4
    <2>3. reports[i].id = reports[j].id
      BY <2>1, <2>2 DEF SameRoute, NewRoute
    <2>4. i <= j /\ j <= i
      BY <2>1, <2>2, <2>3 DEF FirstOf
    <2>5. i = j
      BY <2>4
    <2> QED BY <2>1, <2>2, <2>5
  <1>5. SameRoute(t, s)
    BY DEF SameRoute
  <1> QED BY <1>1, <1>2, <1>3, <1>4, <1>5

-----------------------------------------------------------------------------
(* Type correctness.                                                       *)
THEOREM TypeCorrect == Spec => []TypeOK
  <1>1. Init => TypeOK
    BY TimeAssumption DEF Init, TypeOK, IsMacTable
  <1>2. TypeOK /\ [Next]_vars => TypeOK'
    <2> SUFFICES ASSUME TypeOK, [Next]_vars PROVE TypeOK'
      OBVIOUS
    <2> USE DEF TypeOK
    <2>1. ASSUME NEW config \in AdapterConfigs, NEW step \in ClockSteps,
                 BeginIteration(config, step)
          PROVE  TypeOK'
      <3>1. IsMacTable(config)
        BY InputsTyped
      <3>2. now' \in Int
        BY <2>1, TimeAssumption DEF BeginIteration
      <3>3. lastUp' \in [Guids -> Int]
        BY <2>1, <3>2 DEF BeginIteration
      <3>4. adapters' = config /\ settled' = FALSE /\ table' = table /\ model' = model
        BY <2>1 DEF BeginIteration
      <3> QED BY <3>1, <3>2, <3>3, <3>4 DEF IsMacTable
    <2>2. ASSUME NEW mac \in DOMAIN adapters PROVE adapters[mac].guid \in Guids
      BY DEF IsMacTable, Adapters
    <2>3. ASSUME NEW guid \in Guids, NEW reports \in Seq([id: RouteIds, cost: Nat])
          PROVE  /\ DOMAIN ShowNew(NewIds(guid, reports)) \subseteq RouteIds
                 /\ ShowNew(NewIds(guid, reports))
                       \in [DOMAIN ShowNew(NewIds(guid, reports)) -> BOOLEAN]
      <3>1. NewIds(guid, reports) \subseteq RouteIds
        BY ReportFields DEF NewIds, ReportedIds
      <3> QED BY <3>1 DEF ShowNew
    <2>4. ASSUME NEW m \in Messages, NEW mac \in Macs, ProcessDiscoveryMessage(m, mac)
          PROVE  TypeOK'
      <3> DEFINE guid == adapters[mac].guid
      <3>1. guid \in Guids
        BY <2>2, <2>4 DEF ProcessDiscoveryMessage, IsFoundAdapter, Holders
      <3>2. table' \subseteq Routes
        BY <2>4, <3>1, ReportsTyped, ProcessRoutesTyped DEF ProcessDiscoveryMessage
      <3>3. DOMAIN model' \subseteq RouteIds /\ model' \in [DOMAIN model' -> BOOLEAN]
        BY <2>3, <2>4, <3>1, ReportsTyped DEF ProcessDiscoveryMessage
      <3> QED BY <2>4, <3>2, <3>3 DEF ProcessDiscoveryMessage, IsMacTable
    <2>5. ASSUME NEW p \in PersistentRoutes, NEW mac \in Macs, ProcessPersistentRoute(p, mac)
          PROVE  TypeOK'
      <3> DEFINE guid    == adapters[mac].guid
                 reports == <<[id |-> p.id, cost |-> p.metric]>>
      <3>1. guid \in Guids
        BY <2>2, <2>5 DEF ProcessPersistentRoute, IsFoundAdapter, Holders
      <3>2. ProcessRoutes(guid, reports) \subseteq Routes
        BY <3>1, PersistentReportTyped, ProcessRoutesTyped
      <3>3. table' \subseteq Routes
        <4> HIDE DEF reports
        <4>1. table' = {IF r.guid = guid /\ r.id = p.id
                          THEN [r EXCEPT !.persistent = p.enabled] ELSE r
                          : r \in ProcessRoutes(guid, reports)}
          BY <2>5 DEF ProcessPersistentRoute, reports
        <4>2. ASSUME NEW r \in Routes PROVE [r EXCEPT !.persistent = p.enabled] \in Routes
          BY PersistentReportTyped DEF Routes
        <4> QED BY <3>2, <4>1, <4>2
      <3>4. DOMAIN model' \subseteq RouteIds /\ model' \in [DOMAIN model' -> BOOLEAN]
        BY <2>3, <2>5, <3>1, PersistentReportTyped DEF ProcessPersistentRoute
      <3> QED BY <2>5, <3>3, <3>4 DEF ProcessPersistentRoute, IsMacTable
    <2>6. CASE Update
      <3>1. table' \subseteq Routes
        BY <2>6 DEF Update, UpdatedTable, Routes, IsRouteOnline
      <3>2. DOMAIN model' \subseteq RouteIds /\ model' \in [DOMAIN model' -> BOOLEAN]
        BY <2>6 DEF Update, ShowToggled
      <3> QED BY <2>6, <3>1, <3>2 DEF Update, IsMacTable
    <2>7. CASE UNCHANGED vars
      BY <2>7 DEF vars, IsMacTable
    <2> QED BY <2>1, <2>4, <2>5, <2>6, <2>7 DEF Next
  <1> QED BY <1>1, <1>2, PTL DEF Spec

-----------------------------------------------------------------------------
(* What the two processing actions do, in terms of ProcessRoutes.          *)

(* A discovery message processes its reports under the guid of the adapter *)
(* it came in on, and touches the table and the listener only.             *)
LEMMA DiscoveryStep ==
    ASSUME TypeOK, NEW m \in Messages, NEW mac \in Macs, ProcessDiscoveryMessage(m, mac)
    PROVE  /\ adapters[mac].guid \in Guids /\ mac \in DOMAIN adapters
           /\ m.adapter \in adapters[mac].addresses
           /\ Reports(m) \in Seq([id: RouteIds, cost: Nat])
           /\ \A i \in DOMAIN Reports(m) : Reports(m)[i].id.adapter = m.adapter
           /\ table' = ProcessRoutes(adapters[mac].guid, Reports(m))
           /\ model' = ShowNew(NewIds(adapters[mac].guid, Reports(m)))
           /\ ~settled /\ UNCHANGED <<adapters, now, settled, lastUp>>
  <1>1. mac \in DOMAIN adapters /\ m.adapter \in adapters[mac].addresses
    BY DEF ProcessDiscoveryMessage, IsFoundAdapter, Holders
  <1>2. adapters[mac].guid \in Guids
    BY <1>1 DEF TypeOK, IsMacTable, Adapters
  <1> QED BY <1>1, <1>2, ReportsTyped DEF ProcessDiscoveryMessage

(* The report process_persistent_route hands on.                           *)
Single(p) == <<[id |-> p.id, cost |-> p.metric]>>
SetPersistent(routes, guid, p) ==
    {IF r.guid = guid /\ r.id = p.id THEN [r EXCEPT !.persistent = p.enabled] ELSE r
       : r \in routes}

(* A persistent route is processed as a single report and then marked;     *)
(* only the table and the listener change.                                 *)
LEMMA PersistentStep ==
    ASSUME TypeOK, NEW p \in PersistentRoutes, NEW mac \in Macs,
           ProcessPersistentRoute(p, mac)
    PROVE  /\ adapters[mac].guid \in Guids /\ mac \in DOMAIN adapters
           /\ p.id.adapter \in adapters[mac].addresses
           /\ Single(p) \in Seq([id: RouteIds, cost: Nat])
           /\ \A i \in DOMAIN Single(p) : Single(p)[i].id = p.id
           /\ table' = SetPersistent(ProcessRoutes(adapters[mac].guid, Single(p)),
                                     adapters[mac].guid, p)
           /\ model' = ShowNew(NewIds(adapters[mac].guid, Single(p)))
           /\ ~settled /\ UNCHANGED <<adapters, now, settled, lastUp>>
  <1>1. mac \in DOMAIN adapters /\ p.id.adapter \in adapters[mac].addresses
    BY DEF ProcessPersistentRoute, IsFoundAdapter, Holders
  <1>2. adapters[mac].guid \in Guids
    BY <1>1 DEF TypeOK, IsMacTable, Adapters
  <1> QED BY <1>1, <1>2, PersistentReportTyped
          DEF ProcessPersistentRoute, Single, SetPersistent

(* Making a route persistent changes nothing else about any route.         *)
LEMMA SetPersistentCases ==
    ASSUME NEW routes \in SUBSET Routes, NEW guid, NEW p \in PersistentRoutes,
           NEW s \in SetPersistent(routes, guid, p)
    PROVE  \E r \in routes :
              /\ SameRoute(r, s) /\ s.last = r.last /\ s.online = r.online
              /\ s = IF r.guid = guid /\ r.id = p.id
                       THEN [r EXCEPT !.persistent = p.enabled] ELSE r
  <1>1. PICK r \in routes : s = IF r.guid = guid /\ r.id = p.id
                                THEN [r EXCEPT !.persistent = p.enabled] ELSE r
    BY DEF SetPersistent
  <1>2. r \in Routes
    OBVIOUS
  <1>3. SameRoute(r, s) /\ s.last = r.last /\ s.online = r.online
    BY <1>1, <1>2 DEF Routes, SameRoute
  <1> QED BY <1>1, <1>3

(* An update gives each route the state is_route_online computes and       *)
(* changes nothing else of it.                                             *)
LEMMA UpdateCases ==
    ASSUME TypeOK, NEW s \in UpdatedTable
    PROVE  \E r \in table : /\ s = [r EXCEPT !.online = IsRouteOnline(r, now)]
                            /\ SameRoute(r, s) /\ s.last = r.last
                            /\ s.persistent = r.persistent
                            /\ s.online = IsRouteOnline(r, now)
  BY DEF TypeOK, UpdatedTable, Routes, SameRoute

-----------------------------------------------------------------------------
(* No adapter lists a route id twice.                                      *)

(* Every step keeps the routes of each adapter unique.                     *)
LEMMA UniqueStep ==
    ASSUME TypeOK, UniqueRoutes, [Next]_vars
    PROVE  UniqueRoutes'
  <1>1. ASSUME NEW config \in AdapterConfigs, NEW step \in ClockSteps,
               BeginIteration(config, step)
        PROVE  UniqueRoutes'
    BY <1>1 DEF BeginIteration, UniqueRoutes
  <1>2. ASSUME NEW m \in Messages, NEW mac \in Macs, ProcessDiscoveryMessage(m, mac)
        PROVE  UniqueRoutes'
    <2>1. /\ adapters[mac].guid \in Guids
          /\ Reports(m) \in Seq([id: RouteIds, cost: Nat])
          /\ table' = ProcessRoutes(adapters[mac].guid, Reports(m))
      BY <1>2, DiscoveryStep
    <2> QED BY <2>1, ProcessRoutesUnique DEF UniqueRoutes, SameRoute
  <1>3. ASSUME NEW p \in PersistentRoutes, NEW mac \in Macs, ProcessPersistentRoute(p, mac)
        PROVE  UniqueRoutes'
    <2> DEFINE guid   == adapters[mac].guid
               routes == ProcessRoutes(guid, Single(p))
    <2> SUFFICES ASSUME NEW s \in table', NEW t \in table', SameRoute(s, t)
                 PROVE  s = t
      BY DEF UniqueRoutes
    <2>1. routes \subseteq Routes
      BY <1>3, PersistentStep, ProcessRoutesTyped
    <2>2. s \in SetPersistent(routes, guid, p) /\ t \in SetPersistent(routes, guid, p)
      BY <1>3, PersistentStep
    <2> HIDE DEF routes, guid
    <2>3. ASSUME NEW x \in SetPersistent(routes, guid, p)
          PROVE  \E r \in routes :
                    /\ SameRoute(r, x)
                    /\ x = IF r.guid = guid /\ r.id = p.id
                             THEN [r EXCEPT !.persistent = p.enabled] ELSE r
      BY <2>1, SetPersistentCases
    <2>4. PICK r \in routes, q \in routes :
              /\ SameRoute(r, s) /\ SameRoute(q, t)
              /\ s = IF r.guid = guid /\ r.id = p.id
                       THEN [r EXCEPT !.persistent = p.enabled] ELSE r
              /\ t = IF q.guid = guid /\ q.id = p.id
                       THEN [q EXCEPT !.persistent = p.enabled] ELSE q
      BY <2>2, <2>3
    <2>5. SameRoute(r, q)
      BY <2>4 DEF SameRoute
    <2>6. r = q
      BY <1>3, <2>5, PersistentStep, ProcessRoutesUnique DEF routes, guid
    <2> QED BY <2>4, <2>6
  <1>4. CASE Update
    <2> SUFFICES ASSUME NEW s \in table', NEW t \in table', SameRoute(s, t)
                 PROVE  s = t
      BY DEF UniqueRoutes
    <2>1. PICK r \in table : /\ s = [r EXCEPT !.online = IsRouteOnline(r, now)]
                             /\ SameRoute(r, s)
      BY <1>4, UpdateCases DEF Update
    <2>2. PICK q \in table : /\ t = [q EXCEPT !.online = IsRouteOnline(q, now)]
                             /\ SameRoute(q, t)
      BY <1>4, UpdateCases DEF Update
    <2>3. r = q
      BY <2>1, <2>2 DEF SameRoute, UniqueRoutes
    <2> QED BY <2>1, <2>2, <2>3
  <1>5. CASE UNCHANGED vars
    BY <1>5 DEF vars, UniqueRoutes
  <1> QED BY <1>1, <1>2, <1>3, <1>4, <1>5 DEF Next

(* Whatever messages and persistent routes arrive, and however addresses   *)
(* and the clock move, an adapter's list holds a route id at most once.    *)
THEOREM RoutesStayUnique == Spec => []UniqueRoutes
  <1>1. Init => UniqueRoutes
    BY DEF Init, UniqueRoutes
  <1>2. TypeOK /\ UniqueRoutes /\ [Next]_vars => UniqueRoutes'
    BY UniqueStep
  <1> QED BY <1>1, <1>2, TypeCorrect, PTL DEF Spec

-----------------------------------------------------------------------------
(* The clock and the state of a route.                                     *)

(* Every step of a clock that is not set back keeps offline routes stale.  *)
LEMMA StaleStep ==
    ASSUME ClockSteps \subseteq Nat, TypeOK, OfflineIsStale, [Next]_vars
    PROVE  OfflineIsStale'
  <1> USE TimeAssumption
  <1>1. ASSUME NEW config \in AdapterConfigs, NEW step \in ClockSteps,
               BeginIteration(config, step)
        PROVE  OfflineIsStale'
    <2>1. \A r \in table : ~r.online => r.last <= now - Timeout
      BY <1>1 DEF BeginIteration, OfflineIsStale
    <2>2. now' >= now /\ table' = table
      BY <1>1 DEF BeginIteration, TypeOK
    <2>3. \A r \in table : r.last \in Int
      BY DEF TypeOK, Routes
    <2>4. now \in Int /\ now' \in Int
      BY <1>1 DEF BeginIteration, TypeOK
    <2> QED BY <2>1, <2>2, <2>3, <2>4 DEF OfflineIsStale
  <1>2. ASSUME NEW guid, NEW reports, ~settled,
               NEW s \in ProcessRoutes(guid, reports), ~s.online
        PROVE  s.last <= now - Timeout \/ s.last = now \/ s.persistent
    <2>1. CASE s \in table
      BY <2>1, <1>2 DEF OfflineIsStale
    <2>2. ASSUME NEW r \in table, s = [r EXCEPT !.last = now]
          PROVE  s.last = now
      BY <2>2 DEF TypeOK, Routes
    <2>3. ASSUME NEW i \in DOMAIN reports, s = NewRoute(guid, reports[i])
          PROVE  s.last = now
      BY <2>3 DEF NewRoute
    <2> QED BY <2>1, <2>2, <2>3, ProcessRoutesCases
  <1>3. ASSUME NEW m \in Messages, NEW mac \in Macs, ProcessDiscoveryMessage(m, mac)
        PROVE  OfflineIsStale'
    BY <1>2, <1>3, DiscoveryStep DEF OfflineIsStale
  <1>4. ASSUME NEW p \in PersistentRoutes, NEW mac \in Macs, ProcessPersistentRoute(p, mac)
        PROVE  OfflineIsStale'
    <2> DEFINE guid   == adapters[mac].guid
               routes == ProcessRoutes(guid, Single(p))
    <2>1. /\ guid \in Guids /\ Single(p) \in Seq([id: RouteIds, cost: Nat])
          /\ table' = SetPersistent(routes, guid, p)
          /\ ~settled /\ now' = now /\ settled' = settled
          /\ p.id \in ReportedIds(Single(p))
      BY <1>4, PersistentStep DEF Single, ReportedIds
    <2>2. routes \subseteq Routes
      BY <2>1, ProcessRoutesTyped
    <2>3. ASSUME NEW q \in routes, q.guid = guid, q.id = p.id
          PROVE  q.last = now
      <3>1. CASE \E r \in table : q = [r EXCEPT !.last = now]
        BY <3>1 DEF TypeOK, Routes
      <3>2. CASE \E i \in DOMAIN Single(p) : q = NewRoute(guid, Single(p)[i])
        BY <3>2 DEF NewRoute
      <3> QED BY <2>1, <2>3, <3>1, <3>2, ProcessRoutesCases
    <2> SUFFICES ASSUME NEW s \in table', ~s.online
                 PROVE  s.last <= now - Timeout \/ s.last = now \/ s.persistent
      BY <2>1 DEF OfflineIsStale
    <2>4. PICK q \in routes :
              /\ s.last = q.last /\ s.online = q.online
              /\ s = IF q.guid = guid /\ q.id = p.id
                       THEN [q EXCEPT !.persistent = p.enabled] ELSE q
      BY <2>1, <2>2, SetPersistentCases
    <2>5. CASE q.guid = guid /\ q.id = p.id
      BY <2>3, <2>4, <2>5
    <2>6. CASE ~(q.guid = guid /\ q.id = p.id)
      <3>1. s = q /\ s \in ProcessRoutes(guid, Single(p))
        BY <2>4, <2>6
      <3>2. s.last <= now - Timeout \/ s.last = now \/ s.persistent
        <4> HIDE DEF guid, routes
        <4> QED BY <1>2, <2>1, <3>1
      <3> QED BY <2>1, <3>2
    <2> QED BY <2>5, <2>6
  <1>5. CASE Update
    <2> SUFFICES ASSUME NEW s \in table', ~s.online
                 PROVE  s.last <= now - Timeout
      BY <1>5 DEF OfflineIsStale, Update
    <2>1. PICK r \in table : s.last = r.last /\ s.online = IsRouteOnline(r, now)
      BY <1>5, UpdateCases DEF Update
    <2>2. r.last \in Int /\ now \in Int
      BY DEF TypeOK, Routes
    <2>3. ~(r.last > now - Timeout)
      BY <2>1, Zenon DEF IsRouteOnline
    <2> QED BY <2>1, <2>2, <2>3
  <1>6. CASE UNCHANGED vars
    BY <1>6 DEF vars, OfflineIsStale
  <1> QED BY <1>1, <1>3, <1>4, <1>5, <1>6 DEF Next

(* With a clock that is not set back, a route is offline only when it was  *)
(* not reported for Timeout, or has just been reported again.              *)
THEOREM OfflineRoutesAreStale ==
    ASSUME ClockSteps \subseteq Nat
    PROVE  Spec => []OfflineIsStale
  <1>1. Init => OfflineIsStale
    BY DEF Init, OfflineIsStale
  <1>2. TypeOK /\ OfflineIsStale /\ [Next]_vars => OfflineIsStale'
    BY StaleStep
  <1> QED BY <1>1, <1>2, TypeCorrect, PTL DEF Spec

(* A step that lets an offline route come back has just heard of it, or    *)
(* finds it persistent.                                                    *)
ComesBack(r, s) == SameRoute(r, s) /\ ~r.online /\ s.online

(* In no step does a route come back that was neither heard of nor made    *)
(* persistent: route_manager::update finds it stale.                       *)
LEMMA ResurrectionStep ==
    ASSUME TypeOK, UniqueRoutes, OfflineIsStale, [Next]_vars,
           NEW r \in table, NEW s \in table', ComesBack(r, s)
    PROVE  s.last = now' \/ s.persistent
  <1> USE TimeAssumption
  <1>1. ASSUME NEW q \in table, SameRoute(q, s), s.online = q.online PROVE FALSE
    BY <1>1 DEF UniqueRoutes, SameRoute, ComesBack
  <1>2. ASSUME NEW guid, NEW reports, NEW q \in ProcessRoutes(guid, reports),
               SameRoute(q, s), s.online = q.online
        PROVE  FALSE
    <2>1. CASE q \in table
      BY <1>1, <1>2, <2>1
    <2>2. ASSUME NEW x \in table, q = [x EXCEPT !.last = now] PROVE FALSE
      <3>1. SameRoute(x, s) /\ s.online = x.online
        BY <1>2, <2>2 DEF SameRoute, TypeOK, Routes
      <3> QED BY <1>1, <3>1
    <2>3. ASSUME NEW i \in DOMAIN reports, q = NewRoute(guid, reports[i]),
                 reports[i].id \notin KnownIds(guid)
          PROVE  FALSE
      <3>1. r.guid = guid /\ r.id = reports[i].id
        BY <1>2, <2>3 DEF ComesBack, SameRoute, NewRoute
      <3> QED BY <2>3, <3>1 DEF KnownIds
    <2> QED BY <1>2, <2>1, <2>2, <2>3, ProcessRoutesCases
  <1>3. ASSUME NEW config \in AdapterConfigs, NEW step \in ClockSteps,
               BeginIteration(config, step)
        PROVE  FALSE
    BY <1>1, <1>3 DEF BeginIteration, ComesBack, SameRoute
  <1>4. ASSUME NEW m \in Messages, NEW mac \in Macs, ProcessDiscoveryMessage(m, mac)
        PROVE  FALSE
    <2>1. s \in ProcessRoutes(adapters[mac].guid, Reports(m))
      BY <1>4, DiscoveryStep
    <2> QED BY <1>2, <2>1 DEF SameRoute
  <1>5. ASSUME NEW p \in PersistentRoutes, NEW mac \in Macs, ProcessPersistentRoute(p, mac)
        PROVE  FALSE
    <2> DEFINE guid   == adapters[mac].guid
               routes == ProcessRoutes(guid, Single(p))
    <2>1. s \in SetPersistent(routes, guid, p) /\ routes \subseteq Routes
      BY <1>5, PersistentStep, ProcessRoutesTyped
    <2> HIDE DEF routes, guid
    <2>2. PICK q \in routes : SameRoute(q, s) /\ s.online = q.online
      BY <2>1, SetPersistentCases
    <2> QED BY <1>2, <2>2 DEF routes
  <1>6. CASE Update
    <2>1. PICK q \in table : /\ SameRoute(q, s) /\ s.last = q.last
                             /\ s.persistent = q.persistent
                             /\ s.online = IsRouteOnline(q, now)
      BY <1>6, UpdateCases DEF Update
    <2>2. q = r
      BY <2>1 DEF UniqueRoutes, SameRoute, ComesBack
    <2>3. r.last \in Int /\ now \in Int /\ now' = now
      BY <1>6 DEF TypeOK, Routes, Update
    <2>4. r.persistent \/ r.last > now - Timeout
      BY <2>1, <2>2, Zenon DEF ComesBack, IsRouteOnline
    <2>5. r.last <= now - Timeout \/ r.last = now \/ r.persistent
      BY Zenon DEF OfflineIsStale, ComesBack
    <2> QED BY <2>1, <2>2, <2>3, <2>4, <2>5
  <1>7. CASE UNCHANGED vars
    BY <1>1, <1>7 DEF vars, SameRoute, ComesBack
  <1> QED BY <1>3, <1>4, <1>5, <1>6, <1>7 DEF Next

(* While the clock is not set back, a route that went offline comes back   *)
(* only when it is reported in that iteration or is persistent.            *)
THEOREM NothingResurrects ==
    ASSUME ClockSteps \subseteq Nat
    PROVE  Spec => NoResurrection
  <1>1. TypeOK /\ UniqueRoutes /\ OfflineIsStale /\ [Next]_vars =>
          [\A r \in table, s \in table' :
             SameRoute(r, s) /\ ~r.online /\ s.online => s.last = now' \/ s.persistent]_vars
    BY ResurrectionStep DEF ComesBack
  <1> QED
    BY <1>1, TypeCorrect, RoutesStayUnique, OfflineRoutesAreStale, PTL
       DEF Spec, NoResurrection

-----------------------------------------------------------------------------
(* Routes of adapters that are gone.  No route was reported later than its *)
(* guid was last attached, and every attached guid is attached now.        *)
SeenWhileUp ==
    /\ \A g \in Guids : lastUp[g] <= now
    /\ \A r \in table : r.last <= lastUp[r.guid]
    /\ ~settled => \A m \in DOMAIN adapters : lastUp[adapters[m].guid] = now
    /\ settled => \A r \in table :
          r.online /\ ~r.persistent => r.last > now - Timeout

(* Every step of a clock that is not set back keeps SeenWhileUp.           *)
LEMMA SeenStep ==
    ASSUME ClockSteps \subseteq Nat, TypeOK, SeenWhileUp, [Next]_vars
    PROVE  SeenWhileUp'
  <1> USE TimeAssumption
  <1>1. ASSUME NEW config \in AdapterConfigs, NEW step \in ClockSteps,
               BeginIteration(config, step)
        PROVE  SeenWhileUp'
    <2>1. /\ now \in Int /\ now' \in Int /\ now <= now' /\ table' = table /\ ~settled'
          /\ adapters' = config
      BY <1>1 DEF BeginIteration, TypeOK
    <2>2. ASSUME NEW g \in Guids
          PROVE  /\ lastUp'[g] \in Int /\ lastUp[g] \in Int
                 /\ lastUp[g] <= lastUp'[g] /\ lastUp'[g] <= now'
      BY <1>1, <2>1 DEF BeginIteration, SeenWhileUp, TypeOK
    <2>3. ASSUME NEW r \in table PROVE r.last <= lastUp'[r.guid]
      <3>1. r.last \in Int /\ r.guid \in Guids
        BY DEF TypeOK, Routes
      <3> QED BY <2>2, <3>1 DEF SeenWhileUp
    <2>4. ASSUME NEW m \in DOMAIN config PROVE lastUp'[config[m].guid] = now'
      <3>1. config[m].guid \in Guids
        BY InputsTyped DEF IsMacTable, Adapters
      <3> QED BY <1>1, <3>1 DEF BeginIteration
    <2> QED BY <2>1, <2>2, <2>3, <2>4 DEF SeenWhileUp
  <1>2. ASSUME NEW guid \in Guids, lastUp[guid] = now, NEW reports,
               NEW s \in ProcessRoutes(guid, reports)
        PROVE  s.last <= lastUp[s.guid]
    <2>1. CASE s \in table
      BY <2>1 DEF SeenWhileUp
    <2>2. ASSUME NEW r \in table, r.guid = guid, s = [r EXCEPT !.last = now]
          PROVE  s.last = now /\ s.guid = guid
      BY <2>2 DEF TypeOK, Routes
    <2>3. ASSUME NEW i \in DOMAIN reports, s = NewRoute(guid, reports[i])
          PROVE  s.last = now /\ s.guid = guid
      BY <2>3 DEF NewRoute
    <2>4. now <= now
      BY DEF TypeOK
    <2> QED BY <1>2, <2>1, <2>2, <2>3, <2>4, ProcessRoutesCases
  <1>3. ASSUME NEW m \in Messages, NEW mac \in Macs, ProcessDiscoveryMessage(m, mac)
        PROVE  SeenWhileUp'
    <2>1. /\ adapters[mac].guid \in Guids /\ mac \in DOMAIN adapters
          /\ table' = ProcessRoutes(adapters[mac].guid, Reports(m))
          /\ ~settled /\ UNCHANGED <<adapters, now, settled, lastUp>>
      BY <1>3, DiscoveryStep
    <2>2. lastUp[adapters[mac].guid] = now
      BY <2>1 DEF SeenWhileUp
    <2> QED BY <1>2, <2>1, <2>2 DEF SeenWhileUp
  <1>4. ASSUME NEW p \in PersistentRoutes, NEW mac \in Macs, ProcessPersistentRoute(p, mac)
        PROVE  SeenWhileUp'
    <2> DEFINE guid   == adapters[mac].guid
               routes == ProcessRoutes(guid, Single(p))
    <2>1. /\ guid \in Guids /\ mac \in DOMAIN adapters
          /\ table' = SetPersistent(routes, guid, p)
          /\ routes \subseteq Routes
          /\ ~settled /\ UNCHANGED <<adapters, now, settled, lastUp>>
      BY <1>4, PersistentStep, ProcessRoutesTyped
    <2>2. lastUp[guid] = now
      BY <2>1 DEF SeenWhileUp
    <2>3. ASSUME NEW s \in table' PROVE s.last <= lastUp[s.guid]
      <3> HIDE DEF routes, guid
      <3>0. s \in SetPersistent(routes, guid, p) /\ routes \in SUBSET Routes
        BY <2>1
      <3>1. PICK r \in routes : SameRoute(r, s) /\ s.last = r.last
        BY <3>0, SetPersistentCases
      <3>2. r.last <= lastUp[r.guid]
        BY <1>2, <2>1, <2>2 DEF routes
      <3> QED BY <3>1, <3>2 DEF SameRoute
    <2> QED BY <2>1, <2>3 DEF SeenWhileUp
  <1>5. CASE Update
    <2>1. /\ table' = UpdatedTable /\ settled' = TRUE
          /\ UNCHANGED <<adapters, now, lastUp>>
      BY <1>5 DEF Update
    <2>2. ASSUME NEW s \in table'
          PROVE  /\ s.last <= lastUp[s.guid]
                 /\ s.online /\ ~s.persistent => s.last > now - Timeout
      <3>1. PICK r \in table : /\ SameRoute(r, s) /\ s.last = r.last
                               /\ s.persistent = r.persistent
                               /\ s.online = IsRouteOnline(r, now)
        BY <2>1, UpdateCases
      <3>2. s.last <= lastUp[s.guid]
        BY <3>1 DEF SameRoute, SeenWhileUp
      <3>3. s.online /\ ~s.persistent => r.last > now - Timeout
        BY <3>1, Zenon DEF IsRouteOnline
      <3> QED BY <3>1, <3>2, <3>3, Zenon
    <2> QED BY <2>1, <2>2 DEF SeenWhileUp
  <1>6. CASE UNCHANGED vars
    BY <1>6 DEF vars, SeenWhileUp
  <1> QED BY <1>1, <1>3, <1>4, <1>5, <1>6 DEF Next

(* Routes of an adapter that disappeared are offline, and so no longer     *)
(* advertised, Timeout after it was last seen.                             *)
THEOREM DetachedExpire ==
    ASSUME ClockSteps \subseteq Nat
    PROVE  Spec => []DetachedRoutesExpire
  <1>1. Init => SeenWhileUp
    BY TimeAssumption DEF Init, SeenWhileUp
  <1>2. TypeOK /\ SeenWhileUp /\ [Next]_vars => SeenWhileUp'
    BY SeenStep
  <1>3. TypeOK /\ SeenWhileUp => DetachedRoutesExpire
    <2> SUFFICES ASSUME TypeOK, SeenWhileUp, settled, NEW r \in table,
                        r.online, ~r.persistent
                 PROVE  lastUp[r.guid] > now - Timeout
      BY DEF DetachedRoutesExpire
    <2>1. r.last \in Int /\ r.guid \in Guids /\ lastUp[r.guid] \in Int /\ now \in Int
      BY DEF TypeOK, Routes
    <2>2. r.last > now - Timeout /\ r.last <= lastUp[r.guid]
      BY DEF SeenWhileUp
    <2> QED BY <2>1, <2>2, TimeAssumption
  <1> QED BY <1>1, <1>2, <1>3, TypeCorrect, PTL DEF Spec

-----------------------------------------------------------------------------
(* Split horizon.  Every route was learned on an address that belonged to  *)
(* an adapter with the route's guid.                                       *)
OwnsAddress(guid, addr) ==
    \E c \in AdapterConfigs : \E m \in DOMAIN c :
        c[m].guid = guid /\ addr \in c[m].addresses

LearnedOnOwn ==
    /\ \A m \in DOMAIN adapters : \A addr \in adapters[m].addresses :
          OwnsAddress(adapters[m].guid, addr)
    /\ \A r \in table : OwnsAddress(r.guid, r.id.adapter)

(* Every step keeps each route under a guid that had the address it was    *)
(* learned on.                                                             *)
LEMMA LearnedStep ==
    ASSUME TypeOK, LearnedOnOwn, [Next]_vars
    PROVE  LearnedOnOwn'
  <1>1. ASSUME NEW config \in AdapterConfigs, NEW step \in ClockSteps,
               BeginIteration(config, step)
        PROVE  LearnedOnOwn'
    BY <1>1 DEF BeginIteration, LearnedOnOwn, OwnsAddress
  <1>2. ASSUME NEW guid, NEW reports,
               \A i \in DOMAIN reports : OwnsAddress(guid, reports[i].id.adapter),
               NEW s \in ProcessRoutes(guid, reports)
        PROVE  OwnsAddress(s.guid, s.id.adapter)
    <2>1. CASE s \in table
      BY <2>1 DEF LearnedOnOwn
    <2>2. ASSUME NEW r \in table, s = [r EXCEPT !.last = now]
          PROVE  OwnsAddress(s.guid, s.id.adapter)
      <3>1. s.guid = r.guid /\ s.id = r.id
        BY <2>2 DEF TypeOK, Routes
      <3> QED BY <3>1 DEF LearnedOnOwn
    <2>3. ASSUME NEW i \in DOMAIN reports, s = NewRoute(guid, reports[i])
          PROVE  OwnsAddress(s.guid, s.id.adapter)
      BY <1>2, <2>3 DEF NewRoute
    <2> QED BY <2>1, <2>2, <2>3, ProcessRoutesCases
  <1>3. ASSUME NEW m \in Messages, NEW mac \in Macs, ProcessDiscoveryMessage(m, mac)
        PROVE  LearnedOnOwn'
    <2>1. /\ mac \in DOMAIN adapters /\ m.adapter \in adapters[mac].addresses
          /\ \A i \in DOMAIN Reports(m) : Reports(m)[i].id.adapter = m.adapter
          /\ table' = ProcessRoutes(adapters[mac].guid, Reports(m))
          /\ adapters' = adapters
      BY <1>3, DiscoveryStep
    <2>2. OwnsAddress(adapters[mac].guid, m.adapter)
      BY <2>1 DEF LearnedOnOwn
    <2>3. \A r \in table' : OwnsAddress(r.guid, r.id.adapter)
      BY <1>2, <2>1, <2>2
    <2> QED BY <2>1, <2>3 DEF LearnedOnOwn
  <1>4. ASSUME NEW p \in PersistentRoutes, NEW mac \in Macs, ProcessPersistentRoute(p, mac)
        PROVE  LearnedOnOwn'
    <2> DEFINE guid   == adapters[mac].guid
               routes == ProcessRoutes(guid, Single(p))
    <2>1. /\ mac \in DOMAIN adapters /\ p.id.adapter \in adapters[mac].addresses
          /\ \A i \in DOMAIN Single(p) : Single(p)[i].id = p.id
          /\ table' = SetPersistent(routes, guid, p)
          /\ adapters' = adapters
          /\ routes \in SUBSET Routes
      BY <1>4, PersistentStep, ProcessRoutesTyped
    <2>2. OwnsAddress(guid, p.id.adapter)
      BY <2>1 DEF LearnedOnOwn
    <2>3. \A q \in routes : OwnsAddress(q.guid, q.id.adapter)
      BY <1>2, <2>1, <2>2
    <2>4. ASSUME NEW s \in table' PROVE OwnsAddress(s.guid, s.id.adapter)
      <3> HIDE DEF routes, guid
      <3>1. s \in SetPersistent(routes, guid, p)
        BY <2>1
      <3>2. PICK q \in routes : SameRoute(q, s)
        BY <2>1, <3>1, SetPersistentCases
      <3> QED BY <2>3, <3>2 DEF SameRoute
    <2> QED BY <2>1, <2>4 DEF LearnedOnOwn
  <1>5. CASE Update
    <2>1. ASSUME NEW s \in table' PROVE OwnsAddress(s.guid, s.id.adapter)
      <3>1. PICK r \in table : SameRoute(r, s)
        BY <1>5, UpdateCases DEF Update
      <3> QED BY <3>1 DEF SameRoute, LearnedOnOwn
    <2> QED BY <1>5, <2>1 DEF Update, LearnedOnOwn
  <1>6. CASE UNCHANGED vars
    BY <1>6 DEF vars, LearnedOnOwn
  <1> QED BY <1>1, <1>3, <1>4, <1>5, <1>6 DEF Next

(* Neighbours never hear on a network the routes this node learned there,  *)
(* but for those learned on an address that moves between adapters.        *)
THEOREM NeverEchoes == Spec => []NoEcho
  <1>1. Init => LearnedOnOwn
    BY DEF Init, LearnedOnOwn
  <1>2. TypeOK /\ LearnedOnOwn /\ [Next]_vars => LearnedOnOwn'
    BY LearnedStep
  <1>3. LearnedOnOwn => NoEcho
    <2> SUFFICES ASSUME LearnedOnOwn, NEW m \in DOMAIN adapters,
                        NEW r \in FindRoutesForAdapter(adapters[m].guid),
                        StaysPut(r.id.adapter), r.id.adapter \in adapters[m].addresses
                 PROVE  FALSE
      BY DEF NoEcho
    <2>1. r \in table /\ r.guid # adapters[m].guid
      BY DEF FindRoutesForAdapter, Candidates
    <2>2. OwnsAddress(r.guid, r.id.adapter) /\ OwnsAddress(adapters[m].guid, r.id.adapter)
      BY <2>1 DEF LearnedOnOwn
    <2> QED BY <2>1, <2>2 DEF OwnsAddress, StaysPut
  <1> QED BY <1>1, <1>2, <1>3, TypeCorrect, PTL DEF Spec

-----------------------------------------------------------------------------
(* The listener.  Every route has a row, and the row of a route listed on  *)
(* one adapter only shows its state.                                       *)
OnOneAdapter(T, r) == \A s \in T : s.id = r.id => s.guid = r.guid

ModelInv ==
    \A r \in table : /\ r.id \in DOMAIN model
                     /\ OnOneAdapter(table, r) => model[r.id] = r.online

(* Announcing the new routes of a message keeps the rows right.            *)
LEMMA ShowNewRight ==
    ASSUME TypeOK, ModelInv, NEW guid \in Guids,
           NEW reports \in Seq([id: RouteIds, cost: Nat]),
           NEW s \in ProcessRoutes(guid, reports)
    PROVE  LET shown == ShowNew(NewIds(guid, reports)) IN
             /\ s.id \in DOMAIN shown
             /\ OnOneAdapter(ProcessRoutes(guid, reports), s) => shown[s.id] = s.online
  <1> DEFINE new   == NewIds(guid, reports)
             shown == ShowNew(new)
             P     == ProcessRoutes(guid, reports)
  <1>1. DOMAIN shown = DOMAIN model \cup new
    BY DEF ShowNew
  <1>2. ASSUME NEW r \in table, SameRoute(r, s), s.online = r.online
        PROVE  /\ s.id \in DOMAIN shown
               /\ OnOneAdapter(P, s) => shown[s.id] = s.online
    <2>1. s.id = r.id /\ s.id \in DOMAIN shown
      BY <1>1, <1>2 DEF ModelInv, SameRoute
    <2>2. ASSUME OnOneAdapter(P, s) PROVE shown[s.id] = s.online
      <3>1. s.id \notin new
        <4> SUFFICES ASSUME s.id \in new PROVE FALSE
          OBVIOUS
        <4>1. PICK i \in DOMAIN reports : /\ reports[i].id = s.id
                                         /\ reports[i].id \notin KnownIds(guid)
          BY DEF NewIds, ReportedIds
        <4>2. \E t \in P : t.guid = guid /\ t.id = reports[i].id
          BY <4>1, ProcessRoutesAdds, Zenon
        <4>3. s.guid = guid
          <5> HIDE DEF P
          <5> QED BY <2>2, <4>1, <4>2 DEF OnOneAdapter
        <4> QED BY <1>2, <4>1, <4>3 DEF KnownIds, SameRoute
      <3>2. OnOneAdapter(table, r)
        <4> SUFFICES ASSUME NEW q \in table, q.id = r.id PROVE q.guid = r.guid
          BY DEF OnOneAdapter
        <4>1. PICK t \in P : SameRoute(q, t)
          <5>1. CASE q.guid = guid /\ q.id \in ReportedIds(reports)
            <6>1. [q EXCEPT !.last = now] \in P
              BY <5>1, ProcessRoutesKeeps
            <6>2. SameRoute(q, [q EXCEPT !.last = now])
              BY DEF SameRoute, TypeOK, Routes
            <6> QED BY <6>1, <6>2
          <5>2. CASE ~(q.guid = guid /\ q.id \in ReportedIds(reports))
            <6>1. q \in P
              BY <5>2, ProcessRoutesKeeps
            <6> QED BY <6>1 DEF SameRoute
          <5> QED BY <5>1, <5>2
        <4>2. t.id = s.id
          BY <2>1, <4>1 DEF SameRoute
        <4>3. t.guid = s.guid
          BY <2>2, <4>2 DEF OnOneAdapter
        <4> QED BY <1>2, <4>1, <4>3 DEF SameRoute
      <3>3. model[r.id] = r.online /\ r.id \in DOMAIN model
        BY <3>2 DEF ModelInv
      <3>4. shown[s.id] = model[s.id]
        <4>1. shown[s.id] = (s.id \in new \/ model[s.id])
          BY <2>1, <3>3 DEF ShowNew
        <4>2. model[s.id] \in BOOLEAN
          BY <2>1, <3>3 DEF TypeOK
        <4> QED BY <3>1, <4>1, <4>2
      <3> QED BY <1>2, <2>1, <3>3, <3>4
    <2> QED BY <2>1, <2>2
  <1>3. ASSUME NEW i \in DOMAIN reports, s = NewRoute(guid, reports[i]),
               reports[i].id \notin KnownIds(guid)
        PROVE  s.id \in DOMAIN shown /\ shown[s.id] = s.online
    <2>1. s.id \in new /\ s.online = TRUE
      BY <1>3 DEF NewIds, ReportedIds, NewRoute
    <2> QED BY <1>1, <2>1 DEF ShowNew
  <1>4. ASSUME NEW r \in table, s = [r EXCEPT !.last = now]
        PROVE  SameRoute(r, s) /\ s.online = r.online
    BY <1>4 DEF SameRoute, TypeOK, Routes
  <1>5. s \in table => SameRoute(s, s)
    BY DEF SameRoute
  <1> QED BY <1>2, <1>3, <1>4, <1>5, ProcessRoutesCases

(* Every step keeps the rows of the listener right.                        *)
LEMMA ModelStep ==
    ASSUME TypeOK, UniqueRoutes, ModelInv, [Next]_vars
    PROVE  ModelInv'
  <1>1. ASSUME NEW config \in AdapterConfigs, NEW step \in ClockSteps,
               BeginIteration(config, step)
        PROVE  ModelInv'
    BY <1>1 DEF BeginIteration, ModelInv, OnOneAdapter
  <1>2. ASSUME NEW m \in Messages, NEW mac \in Macs, ProcessDiscoveryMessage(m, mac)
        PROVE  ModelInv'
    <2> DEFINE guid == adapters[mac].guid
    <2>1. /\ guid \in Guids /\ Reports(m) \in Seq([id: RouteIds, cost: Nat])
          /\ table' = ProcessRoutes(guid, Reports(m))
          /\ model' = ShowNew(NewIds(guid, Reports(m)))
      BY <1>2, DiscoveryStep
    <2> QED BY <2>1, ShowNewRight DEF ModelInv
  <1>3. ASSUME NEW p \in PersistentRoutes, NEW mac \in Macs, ProcessPersistentRoute(p, mac)
        PROVE  ModelInv'
    <2> DEFINE guid   == adapters[mac].guid
               routes == ProcessRoutes(guid, Single(p))
    <2>1. /\ guid \in Guids /\ Single(p) \in Seq([id: RouteIds, cost: Nat])
          /\ table' = SetPersistent(routes, guid, p)
          /\ model' = ShowNew(NewIds(guid, Single(p)))
      BY <1>3, PersistentStep
    <2>2. routes \in SUBSET Routes
      BY <2>1, ProcessRoutesTyped
    <2>3. ASSUME NEW q \in routes
          PROVE  q.id \in DOMAIN model' /\ (OnOneAdapter(routes, q) => model'[q.id] = q.online)
      BY <2>1, ShowNewRight
    <2>4. ASSUME NEW q \in routes PROVE \E t \in table' : SameRoute(q, t)
      <3> HIDE DEF routes, guid
      <3>1. CASE q.guid = guid /\ q.id = p.id
        <4>1. [q EXCEPT !.persistent = p.enabled] \in table'
          BY <2>1, <3>1 DEF SetPersistent
        <4>2. q \in Routes
          BY <2>2
        <4>3. SameRoute(q, [q EXCEPT !.persistent = p.enabled])
          BY <4>2 DEF SameRoute, Routes
        <4> QED BY <4>1, <4>3
      <3>2. CASE ~(q.guid = guid /\ q.id = p.id)
        <4>1. q \in table'
          BY <2>1, <3>2 DEF SetPersistent
        <4> QED BY <4>1 DEF SameRoute
      <3> QED BY <3>1, <3>2
    <2>5. ASSUME NEW s \in table'
          PROVE  s.id \in DOMAIN model' /\ (OnOneAdapter(table', s) => model'[s.id] = s.online)
      <3> HIDE DEF routes, guid
      <3>1. s \in SetPersistent(routes, guid, p)
        BY <2>1
      <3>2. PICK q \in routes : SameRoute(q, s) /\ s.online = q.online
        BY <2>2, <3>1, SetPersistentCases
      <3>3. OnOneAdapter(table', s) => OnOneAdapter(routes, q)
        BY <2>4, <3>2 DEF OnOneAdapter, SameRoute
      <3> QED BY <2>3, <3>2, <3>3 DEF SameRoute
    <2> QED BY <2>5 DEF ModelInv
  <1>4. CASE Update
    <2>1. table' = UpdatedTable /\ model' = ShowToggled
      BY <1>4 DEF Update
    <2>2. ASSUME NEW r \in table PROVE \E t \in table' : SameRoute(r, t)
      <3>1. [r EXCEPT !.online = IsRouteOnline(r, now)] \in table'
        BY <2>1 DEF UpdatedTable
      <3>2. SameRoute(r, [r EXCEPT !.online = IsRouteOnline(r, now)])
        BY DEF SameRoute, TypeOK, Routes
      <3> QED BY <3>1, <3>2
    <2>3. ASSUME NEW s \in table'
          PROVE  s.id \in DOMAIN model' /\ (OnOneAdapter(table', s) => model'[s.id] = s.online)
      <3>1. PICK r \in table : SameRoute(r, s) /\ s.online = IsRouteOnline(r, now)
        BY <2>1, UpdateCases
      <3>2. s.id = r.id /\ r.id \in DOMAIN model /\ DOMAIN model' = DOMAIN model
        BY <2>1, <3>1 DEF SameRoute, ModelInv, ShowToggled
      <3>3. ASSUME OnOneAdapter(table', s) PROVE model'[r.id] = IsRouteOnline(r, now)
        <4>1. OnOneAdapter(table, r)
          BY <2>2, <3>1, <3>3 DEF OnOneAdapter, SameRoute
        <4>2. model[r.id] = r.online
          BY <4>1 DEF ModelInv
        <4>3. Toggled(r.id) \subseteq {r}
          BY <4>1 DEF Toggled, OnOneAdapter, UniqueRoutes, SameRoute
        <4>4. CASE Toggled(r.id) = {}
          <5>1. model'[r.id] = model[r.id]
            BY <2>1, <3>2, <4>4 DEF ShowToggled
          <5>2. r.online = IsRouteOnline(r, now)
            BY <4>4 DEF Toggled
          <5> QED BY <4>2, <5>1, <5>2
        <4>5. CASE Toggled(r.id) # {}
          <5>1. Toggled(r.id) = {r}
            BY <4>3, <4>5
          <5>2. model'[r.id] = \E x \in {r} : /\ \A y \in {r} : y.guid <= x.guid
                                              /\ ~x.online
            BY <2>1, <3>2, <4>5, <5>1 DEF ShowToggled
          <5>3. r.guid <= r.guid
            BY OrderedKeys DEF TypeOK, Routes
          <5>4. model'[r.id] = ~r.online
            BY <5>2, <5>3, Zenon
          <5>5. r.online # IsRouteOnline(r, now)
            BY <5>1 DEF Toggled
          <5>6. r.online \in BOOLEAN /\ IsRouteOnline(r, now) \in BOOLEAN
            BY DEF TypeOK, Routes, IsRouteOnline
          <5> QED BY <5>4, <5>5, <5>6, Zenon
        <4> QED BY <4>4, <4>5
      <3> QED BY <3>1, <3>2, <3>3
    <2> QED BY <2>3 DEF ModelInv
  <1>5. CASE UNCHANGED vars
    BY <1>5 DEF vars, ModelInv, OnOneAdapter
  <1> QED BY <1>1, <1>2, <1>3, <1>4, <1>5 DEF Next

(* A listener that was told of every new route and of every change of a    *)
(* route's state, and of nothing else, shows what the table holds.         *)
THEOREM ListenerIsRight == Spec => []ModelShowsTable
  <1>1. Init => ModelInv
    BY DEF Init, ModelInv
  <1>2. TypeOK /\ UniqueRoutes /\ ModelInv /\ [Next]_vars => ModelInv'
    BY ModelStep
  <1>3. ModelInv => ModelShowsTable
    BY DEF ModelInv, ModelShowsTable, OnOneAdapter
  <1> QED BY <1>1, <1>2, <1>3, TypeCorrect, RoutesStayUnique, PTL DEF Spec

-----------------------------------------------------------------------------
(* Of the online routes with one id on other adapters, one is cheapest and *)
(* of least guid; deduplication keeps that one and no other.               *)
LEMMA CheapestExists ==
    ASSUME TypeOK, NEW C, C \subseteq table, C # {}
    PROVE  \E a \in C : \A s \in C :
              a.cost < s.cost \/ (a.cost = s.cost /\ a.guid <= s.guid)
  <1>1. /\ \A s \in C : s.cost \in Nat /\ s.guid \in Nat
    BY OrderedKeys DEF TypeOK, Routes
  <1>2. PICK c \in {s.cost : s \in C} : \A d \in {s.cost : s \in C} : c <= d
    <2>1. {s.cost : s \in C} \subseteq Nat /\ {s.cost : s \in C} # {}
      BY <1>1
    <2> QED BY <2>1, LeastNatural
  <1> DEFINE D == {s \in C : s.cost = c}
  <1>3. PICK g \in {s.guid : s \in D} : \A h \in {s.guid : s \in D} : g <= h
    <2>1. {s.guid : s \in D} \subseteq Nat /\ {s.guid : s \in D} # {}
      BY <1>1, <1>2
    <2> QED BY <2>1, LeastNatural
  <1>4. PICK a \in D : a.guid = g
    BY <1>3
  <1>5. ASSUME NEW s \in C
        PROVE  a.cost < s.cost \/ (a.cost = s.cost /\ a.guid <= s.guid)
    <2>1. c <= s.cost /\ a.cost = c /\ c \in Nat /\ s.cost \in Nat
      BY <1>1, <1>2, <1>4
    <2>2. CASE s.cost = c
      <3>1. s \in D
        BY <2>2
      <3> QED BY <2>1, <2>2, <3>1, <1>3, <1>4
    <2>3. CASE s.cost # c
      BY <2>1, <2>3
    <2> QED BY <2>2, <2>3
  <1> QED BY <1>4, <1>5

(* The shortest route to each id is advertised, exactly once, however many *)
(* guids the id is listed under.                                           *)
THEOREM ShortestIsAdvertised == Spec => []AdvertisesShortest
  <1>1. TypeOK /\ UniqueRoutes => AdvertisesShortest
    <2> SUFFICES ASSUME TypeOK, UniqueRoutes, NEW guid \in Guids,
                        NEW r \in table, r.online, r.guid # guid
                 PROVE  \E a \in FindRoutesForAdapter(guid) :
                           /\ a.id = r.id /\ a.cost <= r.cost
                           /\ \A b \in FindRoutesForAdapter(guid) : b.id = r.id => b = a
      BY DEF AdvertisesShortest
    <2>0. \A s \in table : s.cost \in Nat /\ s.guid \in Nat
      BY OrderedKeys DEF TypeOK, Routes
    <2> DEFINE C == {s \in Candidates(guid) : s.id = r.id}
    <2>1. r \in C /\ C \subseteq table
      BY DEF Candidates
    <2>2. PICK a \in C : \A s \in C : a.cost < s.cost \/ (a.cost = s.cost /\ a.guid <= s.guid)
      <3> HIDE DEF C
      <3> QED BY <2>1, CheapestExists
    <2>3. ASSUME NEW s \in C, s # a PROVE Preferred(a, s)
      <3>1. a \in table /\ s \in table /\ a.id = s.id
        BY <2>1
      <3>2. a.guid # s.guid
        BY <3>1, <2>3 DEF UniqueRoutes, SameRoute
      <3>3. a.cost < s.cost \/ (a.cost = s.cost /\ a.guid <= s.guid)
        BY <2>2
      <3> QED BY <2>0, <3>1, <3>2, <3>3 DEF Preferred
    <2>4. a \in FindRoutesForAdapter(guid)
      BY <2>3 DEF FindRoutesForAdapter
    <2>5. a.id = r.id /\ a.cost <= r.cost
      <3>1. a \in table /\ a.id = r.id
        BY <2>1
      <3> QED BY <3>1, <2>0, <2>1, <2>2
    <2>6. ASSUME NEW b \in FindRoutesForAdapter(guid), b.id = r.id, b # a PROVE FALSE
      <3>1. b \in C /\ b \in table /\ a \in table
        BY <2>1, <2>6 DEF FindRoutesForAdapter
      <3>2. Preferred(a, b)
        BY <2>3, <2>6, <3>1
      <3>3. Preferred(b, a)
        BY <2>5, <2>6, a \in Candidates(guid) DEF FindRoutesForAdapter
      <3>4. a.cost \in Nat /\ b.cost \in Nat /\ a.guid \in Nat /\ b.guid \in Nat
        BY <3>1, <2>0
      <3> QED BY <3>2, <3>3, <3>4 DEF Preferred
    <2> QED BY <2>4, <2>5, <2>6
  <1> QED BY <1>1, TypeCorrect, RoutesStayUnique, PTL

-----------------------------------------------------------------------------
(* What the first k reports do to the table.                               *)
IdsOf(reports, k) == {reports[i].id : i \in 1 .. k}
Fresh(guid, reports, k) ==
    {i \in 1 .. k : reports[i].id \notin KnownIds(guid) /\ FirstOf(reports, i)}
RefreshedBy(guid, reports, k, r) ==
    IF r.guid = guid /\ r.id \in IdsOf(reports, k) THEN [r EXCEPT !.last = now] ELSE r
Batch(guid, reports, k) ==
    {RefreshedBy(guid, reports, k, r) : r \in table}
        \cup {NewRoute(guid, reports[i]) : i \in Fresh(guid, reports, k)}

LEMMA BatchOfAll ==
    ASSUME NEW guid, NEW reports \in Seq([id: RouteIds, cost: Nat])
    PROVE  /\ Batch(guid, reports, Len(reports)) = ProcessRoutes(guid, reports)
           /\ Batch(guid, reports, 0) = table
  <1>1. DOMAIN reports = 1 .. Len(reports)
    OBVIOUS
  <1>2. IdsOf(reports, Len(reports)) = ReportedIds(reports)
    BY <1>1 DEF IdsOf, ReportedIds
  <1>3. /\ Refreshed(guid, reports) = {RefreshedBy(guid, reports, Len(reports), r) : r \in table}
        /\ NewRoutes(guid, reports) =
              {NewRoute(guid, reports[i]) : i \in Fresh(guid, reports, Len(reports))}
    BY <1>1, <1>2 DEF Refreshed, RefreshedBy, NewRoutes, Fresh
  <1>4. IdsOf(reports, 0) = {} /\ Fresh(guid, reports, 0) = {}
    BY DEF IdsOf, Fresh
  <1>5. \A r \in table : RefreshedBy(guid, reports, 0, r) = r
    BY <1>4 DEF RefreshedBy
  <1> QED BY <1>3, <1>4, <1>5 DEF Batch, ProcessRoutes

LEMMA RouteFields ==
    ASSUME TypeOK, NEW r \in table
    PROVE  /\ [r EXCEPT !.last = now].guid = r.guid /\ [r EXCEPT !.last = now].id = r.id
           /\ [[r EXCEPT !.last = now] EXCEPT !.last = now] = [r EXCEPT !.last = now]
  BY DEF TypeOK, Routes

LEMMA NewRouteFields ==
    ASSUME NEW guid, NEW report
    PROVE  /\ [NewRoute(guid, report) EXCEPT !.last = now] = NewRoute(guid, report)
           /\ NewRoute(guid, report).guid = guid /\ NewRoute(guid, report).id = report.id
  <1> DEFINE new == NewRoute(guid, report)
             R == [guid: {guid}, id: {report.id}, last: {now}, online: {TRUE},
                   persistent: {FALSE}, cost: {report.cost}]
  <1>1. new \in R
    BY DEF NewRoute
  <1>2. new.last = now /\ new.guid = guid /\ new.id = report.id
    BY DEF NewRoute
  <1> HIDE DEF new
  <1>3. [new EXCEPT !.last = now] = new
    BY <1>1, <1>2
  <1> QED BY <1>2, <1>3 DEF new

LEMMA BatchStep ==
    ASSUME TypeOK, NEW guid \in Guids, NEW reports \in Seq([id: RouteIds, cost: Nat]),
           NEW k \in 0 .. Len(reports) - 1
    PROVE  Batch(guid, reports, k + 1)
              = ProcessRoute(guid, Batch(guid, reports, k), reports[k + 1])
  <1> DEFINE x == reports[k + 1]
             Old(r) == RefreshedBy(guid, reports, k, r)
             New(i) == NewRoute(guid, reports[i])
             Found == \E r \in Batch(guid, reports, k) : r.guid = guid /\ r.id = x.id
  <1>1. /\ Len(reports) \in Nat /\ DOMAIN reports = 1 .. Len(reports) /\ k \in Nat
        /\ k + 1 \in DOMAIN reports /\ 1 .. k + 1 = (1 .. k) \cup {k + 1}
    OBVIOUS
  <1>2. IdsOf(reports, k + 1) = IdsOf(reports, k) \cup {x.id}
    BY <1>1 DEF IdsOf
  <1>3. ASSUME NEW r \in table
        PROVE  /\ Touched(guid, x.id, Old(r)) = RefreshedBy(guid, reports, k + 1, r)
               /\ Old(r).guid = r.guid /\ Old(r).id = r.id
               /\ (r.guid = guid /\ r.id = x.id) \/ RefreshedBy(guid, reports, k + 1, r) = Old(r)
    <2>1. CASE r.guid = guid /\ r.id \in IdsOf(reports, k)
      <3>1. Old(r) = [r EXCEPT !.last = now]
        BY <2>1 DEF RefreshedBy
      <3>2. RefreshedBy(guid, reports, k + 1, r) = [r EXCEPT !.last = now]
        BY <1>2, <2>1 DEF RefreshedBy
      <3> QED BY <3>1, <3>2, RouteFields DEF Touched
    <2>2. CASE ~ (r.guid = guid /\ r.id \in IdsOf(reports, k))
      <3>1. Old(r) = r
        BY <2>2 DEF RefreshedBy
      <3>2. RefreshedBy(guid, reports, k + 1, r) = Touched(guid, x.id, r)
        BY <1>2, <2>2 DEF RefreshedBy, Touched
      <3> QED BY <3>1, <3>2 DEF Touched
    <2> QED BY <2>1, <2>2
  <1>4. ASSUME NEW i \in Fresh(guid, reports, k)
        PROVE  /\ Touched(guid, x.id, New(i)) = New(i)
               /\ New(i).guid = guid /\ New(i).id = reports[i].id
    BY NewRouteFields DEF Touched
  <1>5. Fresh(guid, reports, k + 1) =
           IF x.id \notin KnownIds(guid) /\ FirstOf(reports, k + 1)
           THEN Fresh(guid, reports, k) \cup {k + 1} ELSE Fresh(guid, reports, k)
    BY <1>1 DEF Fresh
  <1> HIDE DEF x, Old, New
  <1>6. Batch(guid, reports, k) =
           {Old(r) : r \in table} \cup {New(i) : i \in Fresh(guid, reports, k)}
    BY DEF Batch, Old, New
  <1>7. CASE Found
    <2>1. ~ (x.id \notin KnownIds(guid) /\ FirstOf(reports, k + 1))
      <3>1. PICK r \in Batch(guid, reports, k) : r.guid = guid /\ r.id = x.id
        BY <1>7
      <3>2. CASE \E o \in table : r = Old(o)
        BY <1>3, <3>1, <3>2 DEF KnownIds
      <3>3. CASE \E i \in Fresh(guid, reports, k) : r = New(i)
        <4>1. PICK i \in Fresh(guid, reports, k) : r = New(i)
          BY <3>3
        <4>2. i \in 1 .. k /\ reports[i].id = x.id
          BY <1>4, <3>1, <4>1 DEF Fresh
        <4>3. i \in DOMAIN reports /\ ~ (k + 1 <= i)
          BY <1>1, <4>2
        <4> QED BY <4>2, <4>3 DEF FirstOf, x
      <3> QED BY <1>6, <3>1, <3>2, <3>3
    <2>2. Fresh(guid, reports, k + 1) = Fresh(guid, reports, k)
      BY <1>5, <2>1
    <2>3. {Touched(guid, x.id, r) : r \in Batch(guid, reports, k)} =
             {Touched(guid, x.id, Old(r)) : r \in table}
                \cup {Touched(guid, x.id, New(i)) : i \in Fresh(guid, reports, k)}
      BY <1>6
    <2>4. {Touched(guid, x.id, Old(r)) : r \in table} =
             {RefreshedBy(guid, reports, k + 1, r) : r \in table}
      BY <1>3
    <2>5. {Touched(guid, x.id, New(i)) : i \in Fresh(guid, reports, k)} =
             {NewRoute(guid, reports[i]) : i \in Fresh(guid, reports, k + 1)}
      BY <1>4, <2>2 DEF New
    <2>6. ProcessRoute(guid, Batch(guid, reports, k), x) =
             {Touched(guid, x.id, r) : r \in Batch(guid, reports, k)}
      BY <1>7 DEF ProcessRoute
    <2> QED BY <2>3, <2>4, <2>5, <2>6 DEF Batch, x
  <1>8. CASE ~Found
    <2>1. x.id \notin KnownIds(guid)
      <3>1. \A r \in table : ~ (r.guid = guid /\ r.id = x.id)
        BY <1>3, <1>6, <1>8
      <3> QED BY <3>1 DEF KnownIds
    <2>2. FirstOf(reports, k + 1)
      <3> DEFINE T == {j \in DOMAIN reports : reports[j].id = x.id}
      <3>1. T \subseteq Nat /\ k + 1 \in T
        BY <1>1 DEF x
      <3>2. PICK j \in T : \A l \in T : j <= l
        BY <3>1, LeastNatural
      <3>3. j \in 1 .. k + 1 /\ reports[j].id = x.id /\ FirstOf(reports, j)
        BY <1>1, <3>1, <3>2 DEF FirstOf
      <3>4. j \notin 1 .. k
        <4> SUFFICES ASSUME j \in 1 .. k PROVE FALSE
          OBVIOUS
        <4>1. j \in Fresh(guid, reports, k)
          BY <2>1, <3>3 DEF Fresh
        <4> QED BY <1>4, <1>6, <1>8, <3>3, <4>1
      <3>5. j = k + 1
        BY <1>1, <3>3, <3>4
      <3> QED BY <3>3, <3>5
    <2>3. Fresh(guid, reports, k + 1) = Fresh(guid, reports, k) \cup {k + 1}
      BY <1>5, <2>1, <2>2
    <2>4. \A r \in table : RefreshedBy(guid, reports, k + 1, r) = Old(r)
      <3>1. \A r \in table : ~ (r.guid = guid /\ r.id = x.id)
        BY <1>3, <1>6, <1>8
      <3> QED BY <1>3, <3>1
    <2>5. ProcessRoute(guid, Batch(guid, reports, k), x) =
             Batch(guid, reports, k) \cup {New(k + 1)}
      BY <1>8 DEF ProcessRoute, New, x
    <2>6. Batch(guid, reports, k + 1) =
             {Old(r) : r \in table} \cup {New(i) : i \in Fresh(guid, reports, k + 1)}
      BY <2>4 DEF Batch, New
    <2> QED BY <1>6, <2>3, <2>5, <2>6 DEF x
  <1> QED BY <1>7, <1>8

(* The loop over the reports of a message.                                 *)
Turns(f, guid, reports) ==
    f = [k \in 0 .. Len(reports) |->
           IF k = 0 THEN table ELSE ProcessRoute(guid, f[k - 1], reports[k])]

LEMMA InTurnIsBatch ==
    ASSUME TypeOK, NEW guid \in Guids, NEW reports \in Seq([id: RouteIds, cost: Nat])
    PROVE  ProcessRoutes(guid, reports) = ProcessInTurn(guid, reports)
  <1> DEFINE n == Len(reports)
             g == [k \in 0 .. n |-> Batch(guid, reports, k)]
             f == CHOOSE f : Turns(f, guid, reports)
  <1>1. n \in Nat
    OBVIOUS
  <1>2. Turns(g, guid, reports)
    <2>1. ASSUME NEW k \in 0 .. n
          PROVE  g[k] = IF k = 0 THEN table ELSE ProcessRoute(guid, g[k - 1], reports[k])
      <3>1. CASE k = 0
        BY <3>1, BatchOfAll
      <3>2. CASE k # 0
        <4>1. k - 1 \in 0 .. n - 1 /\ k - 1 \in 0 .. n /\ (k - 1) + 1 = k
          BY <1>1, <3>2
        <4>2. Batch(guid, reports, (k - 1) + 1)
                 = ProcessRoute(guid, Batch(guid, reports, k - 1), reports[(k - 1) + 1])
          BY <4>1, BatchStep
        <4>3. g[k] = Batch(guid, reports, k) /\ g[k - 1] = Batch(guid, reports, k - 1)
          BY <4>1
        <4> HIDE DEF g
        <4> QED BY <3>2, <4>1, <4>2, <4>3
      <3> QED BY <3>1, <3>2
    <2>2. g = [k \in 0 .. n |-> g[k]]
      OBVIOUS
    <2> HIDE DEF g
    <2> QED BY <2>1, <2>2 DEF Turns
  <1>3. Turns(f, guid, reports)
    <2> HIDE DEF g
    <2> QED BY <1>2
  <1>4. ProcessInTurn(guid, reports) = f[n]
    BY DEF ProcessInTurn, Turns
  <1> HIDE DEF f, g
  <1>5. \A k \in 0 .. n : f[k] = Batch(guid, reports, k)
    <2> DEFINE Bad == {k \in 0 .. n : f[k] # Batch(guid, reports, k)}
    <2> SUFFICES ASSUME Bad # {} PROVE FALSE
      OBVIOUS
    <2>1. PICK k \in Bad : \A j \in Bad : k <= j
      <3>1. Bad \subseteq Nat
        OBVIOUS
      <3> HIDE DEF Bad
      <3> QED BY <3>1, LeastNatural
    <2>2. k \in 0 .. n /\ f[k] # Batch(guid, reports, k)
      OBVIOUS
    <2>3. k # 0
      <3>1. f[0] = table
        BY <1>1, <1>3 DEF Turns
      <3> QED BY <2>2, <3>1, BatchOfAll
    <2>4. k - 1 \in 0 .. n - 1 /\ k - 1 \in 0 .. n /\ (k - 1) + 1 = k /\ ~ (k <= k - 1)
      BY <1>1, <2>2, <2>3
    <2>5. f[k - 1] = Batch(guid, reports, k - 1)
      BY <2>1, <2>4
    <2>6. f[k] = ProcessRoute(guid, f[k - 1], reports[k])
      BY <1>3, <2>2, <2>3 DEF Turns
    <2>7. Batch(guid, reports, (k - 1) + 1)
             = ProcessRoute(guid, Batch(guid, reports, k - 1), reports[(k - 1) + 1])
      BY <2>4, BatchStep
    <2> QED BY <2>2, <2>4, <2>5, <2>6, <2>7
  <1>6. f[n] = Batch(guid, reports, n)
    BY <1>1, <1>5
  <1> QED BY <1>4, <1>6, BatchOfAll

(* Reports that are processed one after another, as the code does, have    *)
(* the effect that is stated for all of them at once.                      *)
THEOREM ReportsAreSequential == Spec => []BatchIsSequential
  <1>1. TypeOK => BatchIsSequential
    BY ReportsTyped, InTurnIsBatch DEF BatchIsSequential
  <1> QED BY <1>1, TypeCorrect, PTL
=============================================================================
