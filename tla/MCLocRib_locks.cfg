\* The two managers and the two locks.
CONSTANTS
    None = None
    n1 = n1
    n2 = n2
    h1 = h1
    h2 = h2
    b1 = b1
    b2 = b2
    Nlris = {n1}
    Peers = {1, 2}
    Paths <- MCPaths
    BasePrefixes = {b1, b2}
    BaseSets <- MCBaseSets
    Covers <- MCCovers
    RibCap = 2
    FibCap = 1
    MaxUpdates = 2
    MaxChanges = 0
SPECIFICATION FairSpec
CHECK_DEADLOCK FALSE
PROPERTY UpdateProcessing
