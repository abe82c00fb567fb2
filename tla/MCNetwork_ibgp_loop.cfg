\* Two speakers of one AS with a path of their own each.
CONSTANTS
    n1 = n1
    n2 = n2
    Nets <- Inside
    Nlris = {n1}
SPECIFICATION Spec
CHECK_DEADLOCK FALSE
INVARIANT NoForwardingLoop
