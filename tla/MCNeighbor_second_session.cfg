\* A session that follows another one.
CONSTANTS
    Conns = {c1, c2}
    Out = c1
    None = None
    Rids = {1, 2}
    LocalRid = 2
    RemoteAsn = 100
    v4 = v4
    v6 = v6
    m4 = m4
    p1 = p1
    p2 = p2
    AllFamilies = {v4, v6}
    Ipv4Unicast = v4
    Families = {v4}
    SpeakerFamilies = {v4}
    Nlris = {p1, p2}
    Opens <- LiveOpens
    Updates <- RaceUpdates
    QueueCap = 1
    MaxMoves = 3
    InboxCap = 1
    MaxFaults = 1
    MaxTicks = 0
SPECIFICATION Spec
CHECK_DEADLOCK FALSE
PROPERTY CollisionIsWithAnother
