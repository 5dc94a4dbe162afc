\* Adapters come and go, the address of one may move, and the clock moves forward.
SPECIFICATION Spec
CONSTANTS
    Macs <- MCMacs
    Guids <- MCGuids
    Addresses <- MCAddresses
    NodeIds <- MCNodeIds
    AdapterConfigs <- MCAdapterConfigs
    Messages <- MCMessages
    PersistentRoutes <- MCPersistentRoutes
    HopCost = 256
    Timeout = 2
    ClockSteps <- MCClockSteps
    MaxTime = 3
INVARIANTS
    TypeOK
    UniqueRoutes
    OfflineIsStale
    DetachedRoutesExpire
    AdvertisesShortest
    BatchIsSequential
    NoEcho
    ModelShowsTable
PROPERTY
    NoResurrection
