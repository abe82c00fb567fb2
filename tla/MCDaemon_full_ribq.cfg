SPECIFICATION Spec
CONSTANTS
    n1 = n1
    n2 = n2
    Neighbors = {n1}
    EvCap = 8
    RibCap = 1
    FibCap = 4
    MaxInputs = 3
INVARIANT OnlyManagersDeadlock
CHECK_DEADLOCK FALSE
