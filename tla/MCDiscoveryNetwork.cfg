\* Four nodes in four topologies, two of them trees.
SPECIFICATION Spec
CONSTANTS
    A = A
    B = B
    C = C
    D = D
    Nodes <- MCNodes
    Target = D
    Networks <- MCNetworks
    Topologies <- MCTopologies
    Timeout = 2
    Horizon = 4
INVARIANTS
    DeadIsForgotten
    NewsTravels
