--------------------------- MODULE AdapterManager ---------------------------
(***************************************************************************)
(* adapter_manager (discnet/src/adapter_manager.cpp): compares the list of *)
(* adapters the operating system reports with the adapters it knows and    *)
(* signals e_new, e_changed and e_removed.  One step is one turn of a loop *)
(* of adapter_manager::update with all that the connected handlers do, as  *)
(* signals call them synchronously; threads that open sockets may run      *)
(* between two turns.                                                      *)
(*                                                                         *)
(* Of an adapter the model keeps what some code distinguishes: the         *)
(* addresses, whether it is enabled, whether it is a loopback adapter (the *)
(* one field adapter_diff leaves out), and "rest", which stands for guid,  *)
(* name, index, description, mtu and gateway.                              *)
(***************************************************************************)
EXTENDS Integers, Sequences, FiniteSets

CONSTANTS
    Macs,         \* MAC addresses, the keys of m_adapters, in the order of the map
    Addresses,    \* IPv4 addresses
    Rest,         \* values of the fields that only adapter_diff looks at
    Fetches       \* the lists get_adapters may return

Adapters == [enabled: BOOLEAN, loopback: BOOLEAN, addresses: Seq(Addresses), rest: Rest]
Entries  == [mac: Macs, adapter: Adapters]

ASSUME MacsOrdered  == Macs \subseteq Nat
ASSUME FetchesTyped == Fetches \subseteq Seq(Entries)

VARIABLES
    m_adapters,   \* mac -> adapter
    fetched,      \* the list of this update
    todo,         \* the part of it the first loop has not compared yet
    updating,     \* update is running
    events        \* history: the signals of this update, as <<kind, mac>>

managerVars == <<m_adapters, fetched, todo, updating, events>>

IsAdapterMap(a) == DOMAIN a \subseteq Macs /\ a \in [DOMAIN a -> Adapters]

ManagerTypeOK ==
    /\ IsAdapterMap(m_adapters)
    /\ fetched \in Seq(Entries)
    /\ todo \in Seq(Entries)
    /\ updating \in BOOLEAN
    /\ events \in Seq({"new", "changed", "removed"} \X Macs)

-----------------------------------------------------------------------------
(* adapter_diff finds something.                                           *)
Differ_AddressesOnly(a, b) == a.addresses # b.addresses
Differ(a, b) == [a EXCEPT !.loopback = b.loopback] # b

Known == DOMAIN m_adapters

(* The adapters the second loop removes, and the first of them.            *)
Absent_OfRest == {mac \in Known : \A i \in DOMAIN todo : todo[i].mac # mac}
Absent == {mac \in Known : \A i \in DOMAIN fetched : fetched[i].mac # mac}
IsFirstAbsent(mac) == mac \in Absent /\ \A n \in Absent : mac <= n

With(mac, adapter) == [n \in Known \cup {mac} |-> IF n = mac THEN adapter ELSE m_adapters[n]]
Without(mac) == [n \in Known \ {mac} |-> m_adapters[n]]

ManagerInit ==
    /\ m_adapters = [m \in {} |-> 0]
    /\ fetched = << >>
    /\ todo = << >>
    /\ updating = FALSE
    /\ events = << >>

(* get_adapters.                                                           *)
Fetch(list) ==
    /\ ~updating
    /\ updating' = TRUE
    /\ fetched' = list
    /\ todo' = list
    /\ events' = << >>
    /\ UNCHANGED m_adapters

(* The first loop, at the head of todo: an unknown adapter, a change, or   *)
(* nothing new.                                                            *)
Current == Head(todo)
Previous == m_adapters[Current.mac]

TakeEntry == updating /\ todo # << >> /\ todo' = Tail(todo) /\ UNCHANGED <<fetched, updating>>

DetectNew ==
    /\ TakeEntry
    /\ Current.mac \notin Known
    /\ m_adapters' = With(Current.mac, Current.adapter)
    /\ events' = Append(events, <<"new", Current.mac>>)

DetectChange_KeepsOld ==
    /\ TakeEntry
    /\ Current.mac \in Known /\ Differ(Previous, Current.adapter)
    /\ events' = Append(events, <<"changed", Current.mac>>)
    /\ UNCHANGED m_adapters
DetectChange ==
    /\ TakeEntry
    /\ Current.mac \in Known /\ Differ(Previous, Current.adapter)
    /\ m_adapters' = With(Current.mac, Current.adapter)
    /\ events' = Append(events, <<"changed", Current.mac>>)

DetectSame ==
    /\ TakeEntry
    /\ Current.mac \in Known /\ ~Differ(Previous, Current.adapter)
    /\ UNCHANGED <<m_adapters, events>>

(* The second loop, in the order of the map, and its end.                  *)
DetectRemoved(mac) ==
    /\ updating /\ todo = << >>
    /\ IsFirstAbsent(mac)
    /\ m_adapters' = Without(mac)
    /\ events' = Append(events, <<"removed", mac>>)
    /\ UNCHANGED <<fetched, todo, updating>>

EndUpdate ==
    /\ updating /\ todo = << >> /\ Absent = {}
    /\ updating' = FALSE
    /\ UNCHANGED <<m_adapters, fetched, todo, events>>

(* The adapters a list reports, and the entry that counts for each: the    *)
(* last one, if the list names a mac twice.                                *)
Reported(list) == {list[i].mac : i \in DOMAIN list}
LastEntry(list, mac) ==
    list[CHOOSE i \in DOMAIN list :
            list[i].mac = mac /\ \A j \in DOMAIN list : list[j].mac = mac => j <= i].adapter
NoDuplicates(list) == Cardinality(Reported(list)) = Len(list)

-----------------------------------------------------------------------------
(* After an update the manager knows the adapters of the list it fetched,  *)
(* with all they say but, where nothing else differs, the loopback flag.   *)
ManagerIsCurrent ==
    ~updating =>
        /\ Known = Reported(fetched)
        /\ \A mac \in Known :
              m_adapters[mac] = [LastEntry(fetched, mac) EXCEPT
                                    !.loopback = m_adapters[mac].loopback]

(* In one update each adapter causes at most one signal, and one that is   *)
(* listed is not reported removed, provided the list has each mac once.    *)
OneSignalPerAdapter ==
    NoDuplicates(fetched) =>
        \A i, j \in DOMAIN events : events[i][2] = events[j][2] => i = j

-----------------------------------------------------------------------------
(* The manager on its own: only the history listens to the signals.        *)
ManagerNext ==
    \/ \E list \in Fetches : Fetch(list)
    \/ DetectNew
    \/ DetectChange
    \/ DetectSame
    \/ \E mac \in Macs : DetectRemoved(mac)
    \/ EndUpdate

ManagerSpec == ManagerInit /\ [][ManagerNext]_managerVars
=============================================================================
