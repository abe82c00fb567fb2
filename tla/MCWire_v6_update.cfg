SPECIFICATION Spec
CONSTANTS
    OurOpens <- None
    PeerOpens <- None
    OurUpdates <- V6OurUpdates
    PeerMps <- None
INVARIANT OurUpdatesArrive
CHECK_DEADLOCK FALSE
