\* Configurations that work, two that do not, and two with a neighbour wider than the
\* speaker.
CONSTANTS
    None = None
    Ipv4 = Ipv4
    Ipv6 = Ipv6
    h1 = h1
    h2 = h2
    ips = ips
    text = text
    Counters = {0, 1, 2, 3, 4, 5, 6, 7, 8, 9, 10, 11, 12, 13}
    Files <- Every
    Families = {Ipv4, Ipv6}
    Hosts = {h1, h2}
    MaxIncoming = 2
SPECIFICATION FairSpec
CHECK_DEADLOCK FALSE
INVARIANTS TypeOK RibExists DelayInRange BacksOff
PROPERTIES AllTried RibtxFollows
