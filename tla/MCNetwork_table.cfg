\* A table of two paths is sent when a session comes up.
CONSTANTS
    n1 = n1
    n2 = n2
    Nets <- Table
    Nlris = {n1, n2}
SPECIFICATION Spec
CHECK_DEADLOCK FALSE
INVARIANT OwnAttributes
