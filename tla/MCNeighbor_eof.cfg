\* The peer closes the connection.
CONSTANTS
    Conns = {c1}
    Out = c1
    None = None
    Rids = {1, 2}
    LocalRid = 2
    RemoteAsn = 100
    v4 = v4
    v6 = v6
    m4 = m4
    p1 = p1
    p2 = p2
    AllFamilies = {v4, v6}
    Ipv4Unicast = v4
    Families = {v4}
    SpeakerFamilies = {v4}
    Nlris = {p1, p2}
    Opens <- LiveOpens
    Updates <- LiveUpdates
    QueueCap = 6
    MaxMoves = 4
    InboxCap = 1
    MaxFaults = 1
    MaxTicks = None
SPECIFICATION FairSpec
CHECK_DEADLOCK FALSE
PROPERTY EndOfStreamEndsLoop
