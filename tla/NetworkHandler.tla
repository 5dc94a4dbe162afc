--------------------------- MODULE NetworkHandler ---------------------------
(***************************************************************************)
(* network_handler (discnet/src/network/network_handler.cpp) on top of the *)
(* adapter manager whose signals drive it.  The handlers of e_new,         *)
(* e_changed and e_removed run on the main thread, inside the update of    *)
(* the adapter manager.  A client is not listed when it is created: a      *)
(* thread of its own (std::async, process_adapter) tries to open the       *)
(* socket and the main thread collects the outcome in a later              *)
(* network_handler::update.  Between the two, adapters change and go.      *)
(*                                                                         *)
(* A future that was collected is no longer valid() and is skipped for     *)
(* ever after; the model drops it from the list.                           *)
(***************************************************************************)
EXTENDS AdapterManager, SequencesExt

CONSTANTS
    MaxTries,       \* attempts of process_adapter within its 15 seconds
    JoinMayThrow,   \* whether joining the multicast group may fail
    MaxChanges      \* bound: how often the list of adapters changes

ASSUME BoundsAssumption == /\ MaxTries \in Nat \ {0}
                           /\ JoinMayThrow \in BOOLEAN
                           /\ MaxChanges \in Nat

VARIABLES
    m_clients,             \* the clients that listen, in the order they were collected
    m_adapter_init_list,   \* the futures, each with the state of its thread
    cursor,       \* network_handler::update is at this future, or 0: not running
    terminated,   \* an exception left main
    changes,      \* how often the list of adapters changed
    raced,        \* history: macs removed or moved while a client was being opened
    unserved,     \* history: macs whose client could not be opened
    overlooked    \* history: macs that became active with no client listed

handlerVars == <<m_clients, m_adapter_init_list, cursor, terminated, changes,
                 raced, unserved, overlooked>>
vars == <<m_adapters, fetched, todo, updating, events, m_clients, m_adapter_init_list,
          cursor, terminated, changes, raced, unserved, overlooked>>

Clients == [mac: Macs, address: Addresses]
Opens   == [mac: Macs, address: Addresses, tries: 0 .. MaxTries,
            status: {"opening", "open", "failed", "threw"}]

TypeOK ==
    /\ ManagerTypeOK
    /\ m_clients \in Seq(Clients)
    /\ m_adapter_init_list \in Seq(Opens)
    /\ cursor \in Nat
    /\ terminated \in BOOLEAN
    /\ changes \in 0 .. MaxChanges
    /\ raced \subseteq Macs /\ unserved \subseteq Macs /\ overlooked \subseteq Macs

-----------------------------------------------------------------------------
ClientsOf(mac) == {i \in DOMAIN m_clients : m_clients[i].mac = mac}
OpensOf(mac)   == {i \in DOMAIN m_adapter_init_list : m_adapter_init_list[i].mac = mac}
FirstClient(mac) == CHOOSE i \in ClientsOf(mac) : \A j \in ClientsOf(mac) : i <= j

(* What add_client asks of an adapter.                                     *)
Active(adapter) == adapter.enabled /\ adapter.addresses # << >> /\ ~adapter.loopback

(* add_client: start a thread that opens a client on the first address.    *)
AddClient_WhenIdle(mac, adapter) ==
    IF Active(adapter) /\ m_adapter_init_list = << >>
    THEN <<[mac |-> mac, address |-> Head(adapter.addresses), tries |-> 0, status |-> "opening"]>>
    ELSE m_adapter_init_list

AddClient(mac, adapter) ==
    IF Active(adapter)
    THEN Append(m_adapter_init_list,
                [mac |-> mac, address |-> Head(adapter.addresses),
                 tries |-> 0, status |-> "opening"])
    ELSE m_adapter_init_list

(* remove_client: close and forget the first client of the adapter.        *)
RemoveClient_Last(mac) ==
    IF ClientsOf(mac) = {} THEN m_clients ELSE Front(m_clients)

RemoveClient(mac) ==
    IF ClientsOf(mac) = {} THEN m_clients ELSE RemoveAt(m_clients, FirstClient(mac))

-----------------------------------------------------------------------------
(* The main thread, in adapter_manager::update.                            *)
Running == ~terminated /\ cursor = 0

BeginUpdate(list) ==
    /\ Running
    /\ Fetch(list)
    /\ changes' = IF list = fetched THEN changes ELSE changes + 1
    /\ changes' <= MaxChanges
    /\ UNCHANGED <<m_clients, m_adapter_init_list, cursor, terminated,
                   raced, unserved, overlooked>>

(* adapter_added.                                                          *)
AdapterAdded ==
    /\ Running
    /\ DetectNew
    /\ m_adapter_init_list' = AddClient(Current.mac, Current.adapter)
    /\ UNCHANGED <<m_clients, cursor, terminated, changes, raced, unserved, overlooked>>

(* adapter_changed: with a client listed and another list of addresses,    *)
(* the client is replaced; otherwise nothing is done.                      *)
Moved == Previous.addresses # Current.adapter.addresses

Replaces(mac) == ClientsOf(mac) # {} /\ Moved

AdapterChanged ==
    /\ Running
    /\ DetectChange
    /\ LET mac == Current.mac IN
         /\ IF Replaces(mac)
            THEN /\ m_clients' = RemoveClient(mac)
                 /\ m_adapter_init_list' = AddClient(mac, Current.adapter)
            ELSE UNCHANGED <<m_clients, m_adapter_init_list>>
         /\ raced' = IF OpensOf(mac) # {} /\ Moved THEN raced \cup {mac} ELSE raced
         /\ overlooked' = IF /\ ~Active(Previous) /\ Active(Current.adapter)
                             /\ ClientsOf(mac) = {} /\ OpensOf(mac) = {}
                          THEN overlooked \cup {mac} ELSE overlooked
    /\ UNCHANGED <<cursor, terminated, changes, unserved>>

AdapterUnchanged ==
    /\ Running
    /\ DetectSame
    /\ UNCHANGED handlerVars

(* adapter_removed.                                                        *)
AdapterRemoved(mac) ==
    /\ Running
    /\ DetectRemoved(mac)
    /\ m_clients' = RemoveClient(mac)
    /\ raced' = IF OpensOf(mac) # {} THEN raced \cup {mac} ELSE raced
    /\ unserved' = unserved \ {mac}
    /\ overlooked' = overlooked \ {mac}
    /\ UNCHANGED <<m_adapter_init_list, cursor, terminated, changes>>

(* adapter_manager::update returns; network_handler::update begins.        *)
BeginCollect ==
    /\ Running
    /\ EndUpdate
    /\ cursor' = 1
    /\ UNCHANGED <<m_clients, m_adapter_init_list, terminated, changes,
                   raced, unserved, overlooked>>

(* network_handler::update looks at one future.  A thread that is still    *)
(* opening is passed over; an exception of the thread is thrown again by   *)
(* get(), and nothing between here and main catches it.                    *)
AtFuture == ~terminated /\ cursor \in DOMAIN m_adapter_init_list
Future == m_adapter_init_list[cursor]

CollectOpen ==
    /\ AtFuture /\ Future.status = "open"
    /\ m_clients' = Append(m_clients, [mac |-> Future.mac, address |-> Future.address])
    /\ m_adapter_init_list' = RemoveAt(m_adapter_init_list, cursor)
    /\ UNCHANGED <<cursor, terminated, changes, raced, unserved, overlooked>>
    /\ UNCHANGED managerVars

CollectFailed ==
    /\ AtFuture /\ Future.status = "failed"
    /\ m_adapter_init_list' = RemoveAt(m_adapter_init_list, cursor)
    /\ unserved' = unserved \cup {Future.mac}
    /\ UNCHANGED <<m_clients, cursor, terminated, changes, raced, overlooked>>
    /\ UNCHANGED managerVars

CollectThrew ==
    /\ AtFuture /\ Future.status = "threw"
    /\ terminated' = TRUE
    /\ UNCHANGED <<m_clients, m_adapter_init_list, cursor, changes,
                   raced, unserved, overlooked>>
    /\ UNCHANGED managerVars

PassOpening ==
    /\ AtFuture /\ Future.status = "opening"
    /\ cursor' = cursor + 1
    /\ UNCHANGED <<m_clients, m_adapter_init_list, terminated, changes,
                   raced, unserved, overlooked>>
    /\ UNCHANGED managerVars

EndCollect_ForgetsPending ==
    /\ ~terminated /\ cursor > Len(m_adapter_init_list)
    /\ cursor' = 0
    /\ m_adapter_init_list' = << >>
    /\ UNCHANGED <<m_clients, terminated, changes, raced, unserved, overlooked>>
    /\ UNCHANGED managerVars

EndCollect ==
    /\ ~terminated /\ cursor > Len(m_adapter_init_list)
    /\ cursor' = 0
    /\ UNCHANGED <<m_clients, m_adapter_init_list, terminated, changes,
                   raced, unserved, overlooked>>
    /\ UNCHANGED managerVars

-----------------------------------------------------------------------------
(* The threads: an attempt of process_adapter to open the client opens it, *)
(* fails, the last time for good, or throws in join_group.                 *)
Resolve(i, status) ==
    /\ ~terminated
    /\ i \in DOMAIN m_adapter_init_list
    /\ m_adapter_init_list[i].status = "opening"
    /\ m_adapter_init_list' = [m_adapter_init_list EXCEPT ![i].status = status,
                                                          ![i].tries = @ + 1]
    /\ UNCHANGED <<m_clients, cursor, terminated, changes, raced, unserved, overlooked>>
    /\ UNCHANGED managerVars

AfterFailure_OnceMore(tries) == IF tries <= MaxTries THEN "opening" ELSE "failed"
AfterFailure(tries) == IF tries < MaxTries THEN "opening" ELSE "failed"

OpenSucceeds(i) == Resolve(i, "open")
OpenFails(i) == /\ i \in DOMAIN m_adapter_init_list
                /\ Resolve(i, AfterFailure(m_adapter_init_list[i].tries + 1))
JoinThrows(i) == JoinMayThrow /\ Resolve(i, "threw")

OpenAttempt(i) == OpenSucceeds(i) \/ OpenFails(i) \/ JoinThrows(i)

-----------------------------------------------------------------------------
Init ==
    /\ ManagerInit
    /\ m_clients = << >>
    /\ m_adapter_init_list = << >>
    /\ cursor = 0
    /\ terminated = FALSE
    /\ changes = 0
    /\ raced = {} /\ unserved = {} /\ overlooked = {}

UpdateStep ==
    \/ \E list \in Fetches : BeginUpdate(list)
    \/ AdapterAdded
    \/ AdapterChanged
    \/ AdapterUnchanged
    \/ \E mac \in Macs : AdapterRemoved(mac)
    \/ BeginCollect
    \/ CollectOpen
    \/ CollectFailed
    \/ CollectThrew
    \/ PassOpening

MainStep == UpdateStep \/ EndCollect

ThreadStep == \E i \in DOMAIN m_adapter_init_list : OpenAttempt(i)

Next == MainStep \/ ThreadStep

Spec == Init /\ [][Next]_vars

-----------------------------------------------------------------------------
(* Unless an adapter was removed or moved while its client was being       *)
(* opened, it has at most one client, listed or to come, and that one is   *)
(* on the adapter's present first address: no client outlives its adapter, *)
(* and none listens on an address the adapter has lost.                    *)
ClientsMatchAdapters ==
    \A mac \in Macs \ raced :
        /\ Cardinality(ClientsOf(mac)) + Cardinality(OpensOf(mac)) <= 1
        /\ \A address \in {m_clients[i].address : i \in ClientsOf(mac)} \cup
                          {m_adapter_init_list[i].address : i \in OpensOf(mac)} :
              /\ mac \in Known
              /\ m_adapters[mac].addresses # << >>
              /\ address = Head(m_adapters[mac].addresses)

(* Every adapter that is fit for a client has one, or one to come, but for *)
(* those whose client failed to open, that changed while it was opened, or *)
(* that became fit after they were first seen.                             *)
ActiveAreServed ==
    \A mac \in Known \ (raced \cup unserved \cup overlooked) :
        Active(m_adapters[mac]) => ClientsOf(mac) # {} \/ OpensOf(mac) # {}

-----------------------------------------------------------------------------
(* What the documentation says.                                            *)

(* resources/notes.txt: "Sets up a UDP client for each active adapter".    *)
(* When nothing is under way and nothing failed, each active adapter has   *)
(* its client.                                                             *)
ClientForEachActiveAdapter ==
    Running /\ ~updating /\ m_adapter_init_list = << >> =>
        \A mac \in Known \ unserved : Active(m_adapters[mac]) => ClientsOf(mac) # {}

(* The comment of process_adapter: "give the OS some time to initialize    *)
(* the adapter before we start listening".  An adapter that is not ready   *)
(* yet is tried again and at worst left alone; it does not end the daemon. *)
NotReadyIsTolerated == ~terminated
=============================================================================
