\* Attributes that are misread; tlc -continue shows both.
SPECIFICATION Spec
CONSTANTS
    OurOpens <- None
    PeerOpens <- None
    OurUpdates <- None
    PeerMps <- MisreadPeerMps
INVARIANT PeerPrefixesKept
CHECK_DEADLOCK FALSE
