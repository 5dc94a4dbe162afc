\* A user draws, connects and removes in any order; the daemons keep up or do not.
SPECIFICATION Spec
CONSTANTS
    Nodes <- MCNodes
    Kinds <- MCKinds
    MaxAdapters = 3
    R1 = R1
    R2 = R2
    Routers <- MCRouters
    Files <- MCFiles
    None = None
SYMMETRY RoutersAlike
INVARIANTS
    OnlyNeighboursReceive
    SentOnce
    NeighboursReceive
