--------------------------- MODULE AdapterFetcher ---------------------------
(***************************************************************************)
(* windows_adapter_fetcher under adapter_manager: the daemon asks Windows  *)
(* for its interfaces, in two calls, and keeps those it can use, while     *)
(* interfaces come, go and change.                                         *)
(*                                                                         *)
(* Two interfaces may have one MAC address: a card and the virtual switch  *)
(* bridged to it, or PPP connections, which have the empty one.            *)
(***************************************************************************)
EXTENDS AdapterManager, Selection

CONSTANT InterfaceLists   \* the lists of interfaces Windows may have

NotAsked == -1

InterfaceAddresses == [v4: BOOLEAN, address: Addresses]
InterfaceTypes == {"ethernet", "wireless", "ppp", "other"}
Interfaces == [type: InterfaceTypes,
               hidden: BOOLEAN,        \* its name begins with "Local Area Connection*"
               registered: BOOLEAN,    \* the registry has a GUID for its name
               mac: Macs, up: BOOLEAN,
               addresses: Seq(InterfaceAddresses), rest: Rest]

ASSUME InterfacesTyped == InterfaceLists \subseteq Seq(Interfaces)

VARIABLES
    interfaces,   \* what Windows has, IPv6 addresses included
    outBufLen,    \* the size the first call returned
    exited,       \* exit(1) was called
    settled       \* history: updates that ended since the interfaces changed, up to 2

fetcherVars == <<interfaces, outBufLen, exited, settled>>
fetchingVars == <<managerVars, fetcherVars>>

FetcherTypeOK ==
    /\ ManagerTypeOK
    /\ interfaces \in Seq(Interfaces)
    /\ outBufLen \in Nat \cup {NotAsked} /\ (outBufLen # NotAsked => ~updating /\ ~exited)
    /\ exited \in BOOLEAN
    /\ settled \in 0 .. 2

-----------------------------------------------------------------------------
(* What is kept of an interface, and of which ones.                        *)
IsUsable_AnyType(i) == ~i.hidden /\ i.registered
IsUsable(i) == i.type \in {"ethernet", "wireless", "ppp"} /\ ~i.hidden /\ i.registered

V4Addresses(i) ==
    LET v4 == Only(i.addresses, {a \in InterfaceAddresses : a.v4}) IN
    [j \in DOMAIN v4 |-> v4[j].address]

AsAdapter(i) ==
    [mac |-> i.mac, adapter |-> [enabled |-> i.up, loopback |-> FALSE,
                                 addresses |-> V4Addresses(i), rest |-> i.rest]]

GetAdapters(list) ==
    LET usable == Only(list, {i \in Interfaces : IsUsable(i)}) IN
    [j \in DOMAIN usable |-> AsAdapter(usable[j])]

(* What the manager may be given.                                          *)
ASSUME FetchesAssumption == \A list \in InterfaceLists : GetAdapters(list) \in Fetches

(* The memory the list takes: interfaces and their IPv4 addresses, as      *)
(* both calls ask for the family AF_INET.                                  *)
SizeOf(list) ==
    LET upTo[i \in 0 .. Len(list)] ==
          IF i = 0 THEN 0 ELSE upTo[i - 1] + 1 + Len(V4Addresses(list[i]))
    IN upTo[Len(list)]

-----------------------------------------------------------------------------
Configure(list) ==
    /\ list # interfaces
    /\ interfaces' = list
    /\ settled' = 0
    /\ UNCHANGED <<managerVars, outBufLen, exited>>

(* get_adapters calls GetAdaptersAddresses for the size and again for the  *)
(* list.  When the list has outgrown the buffer in between, the call fails *)
(* and the daemon exits; when there is no interface, the list is empty.    *)
AskSize ==
    /\ ~exited /\ ~updating /\ outBufLen = NotAsked
    /\ outBufLen' = SizeOf(interfaces)
    /\ UNCHANGED <<managerVars, interfaces, exited, settled>>

Read_KeepsSize ==
    /\ outBufLen # NotAsked /\ SizeOf(interfaces) <= outBufLen
    /\ Fetch(GetAdapters(interfaces))
    /\ UNCHANGED fetcherVars
Read ==
    /\ outBufLen # NotAsked /\ SizeOf(interfaces) <= outBufLen
    /\ Fetch(GetAdapters(interfaces))
    /\ outBufLen' = NotAsked
    /\ UNCHANGED <<interfaces, exited, settled>>

ReadFails ==
    /\ outBufLen # NotAsked /\ SizeOf(interfaces) > outBufLen
    /\ exited' = TRUE
    /\ outBufLen' = NotAsked
    /\ UNCHANGED <<managerVars, interfaces, settled>>

Compare ==
    /\ DetectNew \/ DetectChange \/ DetectSame \/ \E mac \in Macs : DetectRemoved(mac)
    /\ UNCHANGED fetcherVars

(* An update counts as settled when the list it read is the present one.   *)
Finish ==
    /\ EndUpdate
    /\ settled' = IF fetched = GetAdapters(interfaces) /\ settled < 2 THEN settled + 1 ELSE settled
    /\ UNCHANGED <<interfaces, outBufLen, exited>>

FetcherInit ==
    /\ ManagerInit
    /\ interfaces \in InterfaceLists
    /\ outBufLen = NotAsked
    /\ exited = FALSE
    /\ settled = 0

Loop == AskSize \/ Read \/ ReadFails \/ Compare \/ Finish

FetcherNext == Loop \/ \E list \in InterfaceLists : Configure(list)

FetcherSpec == FetcherInit /\ [][FetcherNext]_fetchingVars

(* The main loop goes on.                                                  *)
FairFetcherSpec == FetcherSpec /\ WF_fetchingVars(Loop)

-----------------------------------------------------------------------------
DistinctMacs == \A i, j \in DOMAIN interfaces :
    IsUsable(interfaces[i]) /\ IsUsable(interfaces[j]) /\ interfaces[i].mac = interfaces[j].mac => i = j

(* An interface the daemon may use is an adapter the manager knows, up or  *)
(* not, with its IPv4 addresses.                                           *)
IsKnown(i) ==
    /\ i.mac \in Known
    /\ m_adapters[i.mac].enabled = i.up /\ m_adapters[i.mac].rest = i.rest
    /\ m_adapters[i.mac].addresses = V4Addresses(i)

(* Once the interfaces stay as they are, and no two share a MAC address,   *)
(* the manager comes to know exactly those that are Ethernet, WLAN or PPP, *)
(* visible and registered, and keeps knowing them, unless the daemon has   *)
(* exited.                                                                 *)
ManagerFollows ==
    (<>[][interfaces' = interfaces]_fetchingVars /\ []<>DistinctMacs)
        => <>[](\/ exited
                \/ /\ \A n \in DOMAIN interfaces :
                         interfaces[n].type # "other" /\ ~interfaces[n].hidden
                           /\ interfaces[n].registered => IsKnown(interfaces[n])
                   /\ \A mac \in Known : \E n \in DOMAIN interfaces :
                         /\ interfaces[n].mac = mac /\ interfaces[n].type # "other"
                         /\ ~interfaces[n].hidden /\ interfaces[n].registered)

(* A second update that finds the interfaces as the first did signals      *)
(* nothing, if no two share a MAC address: no client is created anew       *)
(* without a cause.                                                        *)
QuietWhenNothingChanges == settled = 2 /\ ~updating /\ DistinctMacs => events = << >>
=============================================================================
