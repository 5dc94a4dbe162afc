\* Whole packets are lost when a buffer is too small for them.
SPECIFICATION Spec
CONSTANTS
    Senders = {"a"}
    Datagrams <- Whole
    Capacity = 4095
    HeaderSize = 10
    ReadSize = 12
    MaxPending = 3
PROPERTIES
    PacketsAreReturned
