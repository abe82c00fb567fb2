SPECIFICATION Spec
CONSTANTS
    OurOpens <- MCOurOpens
    PeerOpens <- MCPeerOpens
    OurUpdates <- MCOurUpdates
    PeerMps <- MCPeerMps
INVARIANTS
    TypeOK
    FamiliesFound
    OurUpdatesArrive
    PeerMpArrives
CHECK_DEADLOCK FALSE
