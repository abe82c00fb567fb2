\* Two pairs of speakers without a session between them.
CONSTANTS
    n1 = n1
    n2 = n2
    Nets <- Unlinked
    Nlris = {n1}
SPECIFICATION Spec
CHECK_DEADLOCK FALSE
INVARIANT QuietIsExact
