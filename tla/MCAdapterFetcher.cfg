\* The manager follows the interfaces of the system.
SPECIFICATION FairFetcherSpec
CONSTANTS
    Macs <- MCMacs
    Addresses <- MCAddresses
    Rest <- MCRest
    Fetches <- MCFetches
    InterfaceLists <- MCInterfaceLists
INVARIANTS
    FetcherTypeOK
    ManagerIsCurrent
    OneSignalPerAdapter
    QuietWhenNothingChanges
PROPERTIES
    ManagerFollows
