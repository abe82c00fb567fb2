SPECIFICATION Spec
CONSTANTS
    n1 = n1
    n2 = n2
    Neighbors = {n1, n2}
    EvCap = 8
    RibCap = 4
    FibCap = 4
    MaxInputs = 2
INVARIANTS
    TypeOK
    LockOrder
    OnlyManagersDeadlock
CHECK_DEADLOCK FALSE
