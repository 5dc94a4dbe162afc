\* Split packets, datagrams that are none, and a buffer that overflows.
SPECIFICATION FairSpec
CONSTANTS
    Senders = {"a"}
    Datagrams <- Mixed
    Capacity = 4095
    HeaderSize = 10
    ReadSize = 12
    MaxPending = 3
INVARIANTS
    TypeOK
PROPERTIES
    CleanStreamsDeliver
    NothingInvented
    LeftoversAreIncomplete
    Recovers
