\* A client with two workers from its opening to its end.
SPECIFICATION FairSpec
\* A client that was removed does nothing more.
CHECK_DEADLOCK FALSE
CONSTANTS
    Workers = {"mercury", "venus"}
    MaxDatagrams = 4
    MaxWrites = 2
INVARIANTS
    TypeOK
    DeliveredInOrder
    KeepsReceiving
    SafeUntilFirstDatagram
PROPERTIES
    EventuallyDelivered
    EndsAfterRemoval
