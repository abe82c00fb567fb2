\* One connection at a time, made by connect() or accepted: the life of sessions.
CONSTANTS
    Conns = {c1, c2}
    Out = c1
    None = None
    Rids = {1, 3}
    LocalRid = 2
    RemoteAsn = 100
    v4 = v4
    v6 = v6
    m4 = m4
    p1 = p1
    p2 = p2
    AllFamilies = {v4, v6, m4}
    Ipv4Unicast = v4
    Families = {v4, v6, m4}
    SpeakerFamilies = {v4, v6}
    Nlris = {p1, p2}
    Opens <- SessionOpens
    Updates <- SessionUpdates
    QueueCap = 7
    MaxMoves = 3
    InboxCap = 1
    MaxFaults = 1
    MaxTicks = None
SPECIFICATION OneByOne
CHECK_DEADLOCK FALSE
INVARIANT TypeOK
PROPERTIES FsmTransitions DeadPeerDetected NotificationCloses HandshakeProgress
