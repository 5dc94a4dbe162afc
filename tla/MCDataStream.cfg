\* Bytes against DataHandler's segments, with a buffer that overflows.
SPECIFICATION Spec
CONSTANTS
    Digest <- MCDigest
    BufferSize = 64
    Lists <- MCLists
    Cut = 11
    Flaws = {19}
    Capacity = 80
    MaxPending = 2
INVARIANTS
    WrittenWholeOrNot
    SegmentsAreExact
PROPERTIES
    ReturnsWhatWasSent
