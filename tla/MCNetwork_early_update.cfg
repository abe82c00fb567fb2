\* Two speakers of which one is established first.
CONSTANTS
    n1 = n1
    n2 = n2
    Nets <- First
    Nlris = {n1}
SPECIFICATION Spec
CHECK_DEADLOCK FALSE
INVARIANT NoUpdateMissed
