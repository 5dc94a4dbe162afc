\* Adapters change while clients are being opened; opening may fail, joining may throw.
SPECIFICATION FairTransmissionSpec
CONSTANTS
    Macs <- MCMacs
    Addresses <- MCAddresses
    Rest <- MCRest
    Fetches <- MCFetches
    CommandLines <- MCCommandLines
    MaxTries = 2
    JoinMayThrow = TRUE
    MaxChanges = 3
INVARIANTS
    ClientsMatchAdapters
    ActiveAreServed
PROPERTIES
    AnnouncedOnce
    AnnouncedAgain
\* The daemon stops when an exception leaves main.
CHECK_DEADLOCK FALSE
