\* Routes of one prefix in rings, meshes and lines of speakers.
CONSTANTS
    n1 = n1
    n2 = n2
    Nets <- All
    Nlris = {n1}
SPECIFICATION Spec
CHECK_DEADLOCK FALSE
INVARIANTS TypeOK NoPathRevisits NoGhostRoutes NoForwardingLoop QuietIsExact PeersHaveBest
