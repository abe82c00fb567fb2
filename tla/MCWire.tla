------------------------------- MODULE MCWire -------------------------------
EXTENDS Wire, FiniteSetsExt

Family4 == [afi |-> 1, safi |-> 1]
Family6 == [afi |-> 2, safi |-> 1]

MCOurOpens == {<<>>, <<Family4>>, <<Family6>>, <<Family4, Family6>>,
               <<Family6, Family4>>,
               <<Family4, Family6, [afi |-> 1, safi |-> 2], [afi |-> 2, safi |-> 2]>>}

\* Capabilities of other implementations: families, one with a SAFI ubgpd does not
\* know, ROUTE-REFRESH, graceful restart, four-octet AS, and two it does not know.
Caps == {Multiprotocol(Family4), Multiprotocol(Family6),
         Multiprotocol([afi |-> 1, safi |-> 128]),
         [code |-> 2, value |-> <<>>], [code |-> 64, value |-> <<0, 120>>],
         [code |-> 65, value |-> <<0, 1, 1, 1>>], [code |-> 9, value |-> <<1>>],
         [code |-> 8, value |-> <<0, 2, 0, 1>>]}

\* A capability (FQDN) that fills a parameter up to n bytes of the OPEN's 255.
Filler(n) == [code |-> 73, value |-> [i \in 1..n |-> 1]]

Filled == {<<<<Filler(245), Multiprotocol(Family6)>>>>,
           <<<<Filler(243)>>, <<Multiprotocol(Family6)>>>>,
           <<<<Multiprotocol(Family4)>>, <<Filler(237), Multiprotocol(Family6)>>>>,
           <<<<Multiprotocol(Family6)>>, <<Filler(243)>>>>}

MCPeerOpens == {<<cs>> : cs \in SeqOf(Caps, 3)}
               \cup {<<cs, ds>> : cs \in SeqOf(Caps, 1), ds \in SeqOf(Caps, 2)}
               \cup {<<>>} \cup Filled

Net4(len) == [afi |-> 1, addr |-> <<10, 171, 205, 239>>, len |-> len]
Net6(len) == [afi |-> 2, len |-> len,
              addr |-> <<32, 1, 13, 184>> \o [i \in 1..12 |-> 16 * i + 15]]

Path(n) == [type |-> 2, as_list |-> [i \in 1..n |-> 64000 + i]]
AsSet(n) == [type |-> 1, as_list |-> [i \in 1..n |-> 100 * i]]
Paths == {<<>>, <<Path(1)>>, <<Path(0)>>, <<Path(2), AsSet(3)>>, <<AsSet(2), Path(1)>>,
          <<Path(126)>>, <<Path(127)>>, <<Path(128)>>, <<Path(255)>>,
          <<Path(125), AsSet(1)>>, <<Path(255), Path(255)>>}

\* The attributes of an announcement, and those a path may carry besides.
Announcement(path) == <<origin(0), aspath(path), nexthop(<<10, 0, 0, 1>>)>>
Besides == {<<>>, <<med(<<0, 0, 1, 44>>)>>, <<local_pref(<<255, 255, 255, 255>>)>>,
            <<[Attribute(6, FALSE, TRUE, <<>>) EXCEPT !.partial = TRUE],
              aggregator(65535, <<10, 0, 0, 9>>)>>}

Upd(wd, pa, nlri) == [withdrawn_routes |-> wd, path_attributes |-> pa, nlri |-> nlri]

MCOurUpdates ==
    {Upd(<<Net4(len)>>, <<>>, <<>>) : len \in 0..32}
    \cup {Upd(<<>>, Announcement(<<Path(1)>>), <<Net4(len), Net4(0), Net4(24)>>) : len \in 0..32}
    \cup {Upd(<<Net4(17), Net4(32)>>, Announcement(path) \o others, <<Net4(12)>>) :
             path \in Paths, others \in Besides}
    \cup {Upd(<<>>, <<>>, <<>>)}

\* send_update puts the routes of either family into the same two fields.
V6OurUpdates == {Upd(<<>>, Announcement(<<Path(1)>>), <<Net6(len)>>) : len \in {16, 32, 48, 64}}

MpAttr(reach, extended, nh, nlris) ==
    [reach |-> reach, extended |-> extended, afi |-> nlris[1].afi, nh |-> nh, nlris |-> nlris]

\* Next hops: an address, and a global one with a link-local one behind it.
NextHops(afi) ==
    IF afi = 1 THEN {Net4(32).addr} ELSE {Net6(128).addr, Net6(128).addr \o Net6(128).addr}

\* As many prefixes of nine bytes as a length of one byte has room for, and one more.
Many(n) == [i \in 1..n |-> Net6(64)]

Lists == {<<Net6(len), Net6(64)>> : len \in 0..128} \cup {<<Net4(len), Net4(9)>> : len \in 0..32}

MCPeerMps ==
    {MpAttr(FALSE, extended, <<>>, nets) : extended \in BOOLEAN, nets \in Lists \cup {Many(28)}}
    \cup UNION {{MpAttr(TRUE, extended, nh, nets) : extended \in BOOLEAN,
                     nh \in NextHops(nets[1].afi)} : nets \in Lists}
    \cup {MpAttr(FALSE, TRUE, <<>>, Many(29)), MpAttr(TRUE, TRUE, Net6(128).addr, Many(29))}
    \cup {[reach |-> FALSE, extended |-> e, afi |-> 2, nh |-> <<>>, nlris |-> <<>>] : e \in BOOLEAN}

\* An MP_REACH, and an MP_UNREACH with a length of two bytes.
MisreadPeerMps ==
    {MpAttr(TRUE, FALSE, Net6(128).addr, <<Net6(32)>>), MpAttr(FALSE, TRUE, <<>>, <<Net6(32)>>)}

None == {}
=============================================================================
