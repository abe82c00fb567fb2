\* An origin whose paths name the AS of speaker 2.
CONSTANTS
    n1 = n1
    n2 = n2
    Nets <- Named
    Nlris = {n1}
SPECIFICATION Spec
CHECK_DEADLOCK FALSE
INVARIANT QuietIsExact
