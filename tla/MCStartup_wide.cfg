\* A neighbour with a family the speaker does not have.
CONSTANTS
    None = None
    Ipv4 = Ipv4
    Ipv6 = Ipv6
    h1 = h1
    h2 = h2
    ips = ips
    text = text
    Counters = {0, 1, 2, 3, 4, 5, 6, 7, 8, 9, 10, 11, 12, 13}
    Files <- Wide
    Families = {Ipv4, Ipv6}
    Hosts = {h1, h2}
    MaxIncoming = 2
SPECIFICATION Spec
CHECK_DEADLOCK FALSE
INVARIANT RibAlwaysExists
