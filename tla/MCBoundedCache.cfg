CONSTANTS
    g1 = g1
    g2 = g2
    k1 = k1
    k2 = k2
    k3 = k3
    p1 = p1
    NoOne = NoOne
    Goroutines = {g1, g2}
    Keys = {k1, k2, k3}
    Plans = {p1}
    Requested = 2
    MaxCalls = 4
SPECIFICATION FairSpec
INVARIANTS
    TypeOK
    SnapshotIsRing
    EvictionsAccounted
PROPERTIES
    FifoSpec
    CallsReturn
