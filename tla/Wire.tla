-------------------------------- MODULE Wire --------------------------------
(***************************************************************************)
(* The bytes of BGP messages (bgp/messages.rs, attributes.rs, nlri.rs,     *)
(* capabilities.rs, types.rs; neighbor/capabilities.rs) and one message    *)
(* that is encoded by a sender and decoded by ubgpd.                       *)
(*                                                                         *)
(* A u16 is a number, a u32 or an address the sequence of its bytes, which *)
(* to_be_bytes and from_be_bytes only copy.  Offsets count from 0, as in   *)
(* the code.  A decoder returns a record: tag says "ok", "err" for an Err  *)
(* or "panic", val is the value, next the offset it stopped at.            *)
(***************************************************************************)
EXTENDS Naturals, Sequences, SequencesExt

CONSTANTS
    OurOpens,       \* the families configured for our OPENs, in order
    PeerOpens,      \* OPENs of others: for each parameter, its capabilities
    OurUpdates,     \* UPDATEs as BGPUpdateMessage holds them
    PeerMps         \* MP_REACH and MP_UNREACH attributes of others

Byte == 0..255
At(s, i) == s[i + 1]
Slice(s, from, to) == SubSeq(s, from + 1, to)
From(s, i) == Slice(s, i, Len(s))
u16(n) == <<n \div 256, n % 256>>
u16At(s, i) == 256 * At(s, i) + At(s, i + 1)
Zeros(n) == [i \in 1..n |-> 0]

\* Mutant: what came is not filled up.
ResizeNot(s, n) == s

resize(s, n) == SubSeq(s \o Zeros(n), 1, n)

Ok(v, next) == [tag |-> "ok", val |-> v, next |-> next]
Fail(tag) == [tag |-> tag, val |-> <<>>, next |-> 0]

-----------------------------------------------------------------------------
(* NLRI: a net is [afi, addr, len]; addr may have bits beyond len          *)

Afis == {1, 2}
Safis == {1, 2}
Width(afi) == IF afi = 1 THEN 4 ELSE 16

\* div_ceil(8), for a length that prefix_bytes accepts.
prefix_bytes(len) == (len + 7) \div 8

\* IpNet::network()
Kept(len, k) == LET bits == len - 8 * (k - 1)
                IN IF len <= 8 * (k - 1) THEN 0 ELSE IF bits > 8 THEN 8 ELSE bits
network(net) ==
    [net EXCEPT !.addr = [k \in DOMAIN @ |-> @[k] - (@[k] % 2^(8 - Kept(net.len, k)))]]

NlriBytes(net) == <<net.len>> \o SubSeq(network(net).addr, 1, prefix_bytes(net.len))

RECURSIVE prefixes(_, _, _, _, _)
\* The loops over NLRI: from offset i while it is before stop.  Reading past the
\* end is what the loop at hand makes of it: an Err where it is checked, a panic
\* of the index or slice where it is not.
prefixes(src, i, stop, afi, beyond) ==
    IF i >= stop THEN Ok(<<>>, i)
    ELSE IF i >= Len(src) THEN Fail(beyond)
    ELSE IF At(src, i) > 8 * Width(afi) THEN Fail("err")
    ELSE LET len == At(src, i)
             end == i + prefix_bytes(len) + 1
             net == [afi |-> afi, len |-> len,
                     addr |-> resize(Slice(src, i + 1, end), Width(afi))]
         IN IF end > Len(src) THEN Fail(beyond)
            ELSE LET rest == prefixes(src, end, stop, afi, beyond)
                 IN IF rest.tag = "ok" THEN [rest EXCEPT !.val = <<net>> \o @] ELSE rest

-----------------------------------------------------------------------------
(* MP_REACH_NLRI and MP_UNREACH_NLRI: [afi, safi, nh, nlris].  src starts  *)
(* with the attribute's length byte.                                       *)

\* Default for Mpnlri and Mpunlri
DefaultMp == [afi |-> 2, safi |-> 1, nh |-> Zeros(16), nlris |-> <<>>]

Mp(src, nh, r) ==
    IF r.tag # "ok" THEN r
    ELSE Ok([afi |-> u16At(src, 0), safi |-> At(src, 2), nh |-> nh, nlris |-> r.val], r.next)

KnownFamily(src) == u16At(src, 0) \in Afis /\ At(src, 2) \in Safis

Mpnlri(attr) ==
    LET src == From(attr, 1)
        nhl == At(src, 3)
    IN IF Len(attr) < 5 THEN Fail("err")
       ELSE IF ~KnownFamily(src) \/ Len(src) < 4 + nhl THEN Fail("err")
       ELSE LET afi == u16At(src, 0)
            IN Mp(src, resize(Slice(src, 4, 4 + nhl), Width(afi)),
                  prefixes(src, 4 + nhl, At(attr, 0), afi, "panic"))

\* Mutant: the prefixes are looked for behind a next hop that is not there.
MpunlriShifted(attr) ==
    LET src == From(attr, 1)
    IN IF Len(attr) < 4 \/ ~KnownFamily(src) THEN Fail("err")
       ELSE Mp(src, Zeros(16), prefixes(src, 4, At(attr, 0), u16At(src, 0), "err"))

Mpunlri(attr) ==
    LET src == From(attr, 1)
    IN IF Len(attr) < 4 \/ ~KnownFamily(src) THEN Fail("err")
       ELSE Mp(src, Zeros(16), prefixes(src, 3, At(attr, 0), u16At(src, 0), "err"))

-----------------------------------------------------------------------------
(* Path attributes: [type, optional, transitive, partial, extended, value] *)

Origin == 1
AsPath == 2
NextHop == 3
MultiExitDisc == 4
LocalPref == 5
Aggregator == 7
MPReachableNLRI == 14
MPUnreachableNLRI == 15
TypeCodes == 1..16

\* The constructors of PathAttribute.
Attribute(type, optional, transitive, value) ==
    [type |-> type, optional |-> optional, transitive |-> transitive, partial |-> FALSE,
     extended |-> FALSE, value |-> value]
origin(o) == Attribute(Origin, FALSE, TRUE, <<o>>)
aspath(segments) == Attribute(AsPath, FALSE, TRUE, segments)
nexthop(addr) == Attribute(NextHop, FALSE, TRUE, addr)
med(v) == Attribute(MultiExitDisc, TRUE, FALSE, v)
local_pref(v) == Attribute(LocalPref, TRUE, FALSE, v)
aggregator(as, addr) == Attribute(Aggregator, TRUE, TRUE, u16(as) \o addr)

\* A segment is [type, as_list]; the count is one byte.
SegmentBytes(s) ==
    <<s.type, Len(s.as_list) % 256>>
    \o [k \in 1..(2 * Len(s.as_list)) |-> u16(s.as_list[(k + 1) \div 2])[2 - (k % 2)]]

\* What follows the header.  The types without a value have an empty one, and
\* mp_reachable and mp_unreachable have no caller.
ValueBytes(a) ==
    IF a.type = AsPath THEN FlattenSeq([i \in DOMAIN a.value |-> SegmentBytes(a.value[i])])
    ELSE a.value

\* Mutant: 256 bytes still get a length of one byte.
IsExtendedLate(n) == n > 256

IsExtended(n) == n > 255

Flags(a, extended) ==
    16 * ((IF extended THEN 1 ELSE 0) + (IF a.partial THEN 2 ELSE 0)
          + (IF a.transitive THEN 4 ELSE 0) + (IF a.optional THEN 8 ELSE 0))

AttributeBytes(a) ==
    LET v == ValueBytes(a)
        extended == IsExtended(Len(v))
    IN <<Flags(a, extended), a.type>>
       \o (IF extended THEN u16(Len(v) % 65536) ELSE <<Len(v) % 256>>) \o v

Bit(byte, b) == (byte \div b) % 2 = 1
is_extended_len(flags) == Bit(flags, 16)

RECURSIVE segments(_, _, _)
\* The AS_PATH loop.  A segment longer than the attribute underflows total_len,
\* and the loop ends at an index that is not there.
segments(src, i, total) ==
    IF total = 0 THEN Ok(<<>>, i)
    ELSE IF i + 2 > Len(src) THEN Fail("panic")
    ELSE LET n == At(src, i + 1)
             end == i + 2 + 2 * n
         IN IF At(src, i) \notin {1, 2} \/ end > Len(src) \/ 2 + 2 * n > total
            THEN Fail("panic")
            ELSE LET rest == segments(src, end, total - (2 + 2 * n))
                     seg == [type |-> At(src, i),
                             as_list |-> [x \in 1..n |-> u16At(src, i + 2 * x)]]
                 IN IF rest.tag = "ok" THEN [rest EXCEPT !.val = <<seg>> \o @] ELSE rest

\* Fields of a fixed place: src[3..3 + n], whatever the header's length.
Fixed(src, n) == IF Len(src) < 3 + n THEN Fail("panic") ELSE Ok(Slice(src, 3, 3 + n), 0)

\* The value of an attribute with a known type code.
Value(src) ==
    LET t == At(src, 1)
        mp(r) == IF r.tag = "err" THEN Ok(DefaultMp, 0) ELSE r      \* unwrap_or_default
    IN CASE t = Origin -> IF Len(src) < 4 \/ At(src, 3) > 2 THEN Fail("panic") ELSE Fixed(src, 1)
         [] t = AsPath -> IF is_extended_len(At(src, 0))
                          THEN segments(src, 4, u16At(src, 2))
                          ELSE segments(src, 3, At(src, 2))
         [] t \in {NextHop, MultiExitDisc, LocalPref} -> Fixed(src, 4)
         [] t = Aggregator -> Fixed(src, 6)
         [] t = MPReachableNLRI -> mp(Mpnlri(From(src, 2)))
         [] t = MPUnreachableNLRI -> mp(Mpunlri(From(src, 2)))
         [] OTHER -> Ok(<<>>, 0)

PathAttribute(src) ==
    LET v == Value(src)
    IN IF At(src, 1) \notin TypeCodes THEN Fail("panic")
       ELSE IF v.tag # "ok" THEN v
       ELSE Ok([type |-> At(src, 1), value |-> v.val, extended |-> Bit(At(src, 0), 16),
                partial |-> Bit(At(src, 0), 32), transitive |-> Bit(At(src, 0), 64),
                optional |-> Bit(At(src, 0), 128)], 0)

-----------------------------------------------------------------------------
(* UPDATE: [withdrawn_routes, path_attributes, nlri]                       *)

WithLength(s) == u16(Len(s) % 65536) \o s
NlrisBytes(nets) == FlattenSeq([i \in DOMAIN nets |-> NlriBytes(nets[i])])

UpdateBytes(u) ==
    WithLength(NlrisBytes(u.withdrawn_routes))
    \o WithLength(FlattenSeq([i \in DOMAIN u.path_attributes |->
                                AttributeBytes(u.path_attributes[i])]))
    \o NlrisBytes(u.nlri)

RECURSIVE attributes(_, _, _)
\* An attribute that does not fit ends the list, and NLRI is read from there.
attributes(src, i, stop) ==
    LET head == IF is_extended_len(At(src, i)) THEN 4 ELSE 3
        n == IF head = 4 THEN u16At(src, i + 2) ELSE At(src, i + 2)
        end == i + head + n
    IN IF i >= stop \/ i >= Len(src) THEN Ok(<<>>, i)
       ELSE IF i + head > Len(src) THEN Ok(<<>>, i)
       ELSE IF end > Len(src) THEN Ok(<<>>, i)
       ELSE LET a == PathAttribute(Slice(src, i, end))
                rest == attributes(src, end, stop)
            IN IF a.tag # "ok" THEN a
               ELSE IF rest.tag = "ok" THEN [rest EXCEPT !.val = <<a.val>> \o @] ELSE rest

Update(src) ==
    LET wd == prefixes(src, 2, 2 + u16At(src, 0), 1, "err")
        i == wd.next
        stop == i + 2 + u16At(src, i)
        pa == attributes(src, i + 2, stop)
        routes == prefixes(src, pa.next, Len(src), 1, "panic")
    IN IF Len(src) < 2 THEN Fail("err")
       ELSE IF wd.tag # "ok" THEN wd
       ELSE IF i + 2 > Len(src) THEN Fail("err")
       ELSE IF stop > Len(src) THEN Fail("err")
       ELSE IF pa.tag # "ok" THEN pa
       ELSE IF routes.tag # "ok" THEN routes
       ELSE Ok([withdrawn_routes |-> wd.val, path_attributes |-> pa.val,
                nlri |-> routes.val], Len(src))

-----------------------------------------------------------------------------
(* OPEN: [asn, hold_time, router_id, params], a parameter [type, value]    *)

\* A capability is [code, value].
CapabilityBytes(c) == <<c.code, Len(c.value) % 256>> \o c.value
Multiprotocol(f) == [code |-> 1, value |-> u16(f.afi) \o <<0, f.safi>>]

ParamBytes(p) == <<p.type, Len(p.value) % 256>> \o p.value

ParamsBytes(params) ==
    LET all == FlattenSeq([i \in DOMAIN params |-> ParamBytes(params[i])])
    IN <<Len(all) % 256>> \o all

OpenBytes(o) ==
    <<4>> \o u16(o.asn) \o u16(o.hold_time) \o o.router_id \o ParamsBytes(o.params)

CapabilityParam(caps) ==
    [type |-> 2, value |-> FlattenSeq([i \in DOMAIN caps |-> CapabilityBytes(caps[i])])]

\* Without configured families the parameter is BGPOptionalParameter::default().
Advertised(families) == IF families = <<>> THEN <<[afi |-> 1, safi |-> 1]>> ELSE families

\* BGPOpenMessage::new: one parameter for all families.
NewOpen(families) ==
    LET fs == Advertised(families)
    IN [asn |-> 64512, hold_time |-> 180, router_id |-> <<10, 0, 0, 1>>,
        params |-> <<CapabilityParam([i \in DOMAIN fs |-> Multiprotocol(fs[i])])>>]

RECURSIVE parameters(_, _, _)
\* used is a u8: beyond 255 the addition panics, or wraps and an index does.
parameters(src, i, used) ==
    IF At(src, 0) <= used THEN Ok(<<>>, i)
    ELSE IF i + 2 > Len(src) THEN Fail("panic")
    ELSE LET end == i + 2 + At(src, i + 1)
         IN IF end > Len(src) \/ At(src, i) \notin {1, 2} \/ used + (end - i) > 255
            THEN Fail("panic")
            ELSE LET rest == parameters(src, end, used + (end - i))
                     p == [type |-> At(src, i), value |-> Slice(src, i + 2, end)]
                 IN IF rest.tag = "ok" THEN [rest EXCEPT !.val = <<p>> \o @] ELSE rest

OpenMessage(src) ==
    LET p == parameters(From(src, 9), 1, 0)
    IN IF Len(src) < 10 THEN Fail("panic")
       ELSE IF p.tag # "ok" THEN p
       ELSE Ok([asn |-> u16At(src, 1), hold_time |-> u16At(src, 3),
                router_id |-> Slice(src, 5, 9), params |-> p.val], Len(src))

CapabilityCodes == {1, 2, 3, 5, 64, 65, 67, 68, 69, 70, 71, 73, 255}

\* Mutant: what an unknown code carries is kept.
CapabilityKept(src) ==
    LET code == At(src, 0)
    IN [code |-> IF code \in CapabilityCodes THEN code ELSE 1, length |-> At(src, 1),
        value |-> From(src, 2)]

\* An unknown code is taken for a multiprotocol capability of length 0.
Capability(src) ==
    IF Len(src) < 2 \/ At(src, 0) \notin CapabilityCodes
    THEN [code |-> 1, length |-> 0, value |-> <<>>]
    ELSE [code |-> At(src, 0), length |-> At(src, 1),
          value |-> IF Len(src) >= 2 + At(src, 1) THEN Slice(src, 2, 2 + At(src, 1)) ELSE <<>>]

CapEnd(data, i) == i + 2 + At(data, i + 1)

RECURSIVE capabilities(_, _)
\* The walk through a parameter: a capability that claims more than twice what
\* is there is kept without its value, any other that does not fit is dropped.
capabilities(data, i) ==
    LET left == Len(data) - i - 2
    IN IF i + 2 > Len(data) THEN <<>>
       ELSE IF CapEnd(data, i) <= Len(data)
            THEN <<Capability(Slice(data, i, CapEnd(data, i)))>>
                 \o capabilities(data, CapEnd(data, i))
       ELSE IF left > 0 /\ At(data, i + 1) > 2 * left
            THEN <<Capability(From(data, i))>> ELSE <<>>

ParamCapabilities(p) == IF p.type = 2 THEN capabilities(p.value, 0) ELSE <<>>

Family(c) == [afi |-> u16At(c.value, 0), safi |-> At(c.value, 3)]

\* Capabilities::from: the families in order, each once.  A four-octet AS number
\* of another length, or a family whose value is missing, panics.
Families(params) ==
    LET caps == FlattenSeq([i \in DOMAIN params |-> ParamCapabilities(params[i])])
        mp == SelectSeq(caps, LAMBDA c : c.code = 1 /\ c.length >= 4)
        known == SelectSeq([i \in DOMAIN mp |-> Family(mp[i])],
                           LAMBDA f : f.afi \in Afis /\ f.safi \in Safis)
    IN IF \E i \in DOMAIN caps :
            \/ caps[i].code = 65 /\ (caps[i].length # 4 \/ Len(caps[i].value) # 4)
            \/ caps[i].code = 1 /\ caps[i].length >= 4 /\ Len(caps[i].value) < 4
       THEN Fail("panic") ELSE Ok(ToSet(known), 0)

-----------------------------------------------------------------------------
(* One message on its way.                                                 *)

VARIABLES kind, message, bytes, result

vars == <<kind, message, bytes, result>>

Init ==
    /\ \/ kind = "our open" /\ message \in OurOpens
       \/ kind = "peer open" /\ message \in PeerOpens
       \/ kind = "our update" /\ message \in OurUpdates
       \/ kind = "peer mp" /\ message \in PeerMps
    /\ bytes = <<>> /\ result = Fail("none")

\* The standard's encoding of an attribute [reach, extended, afi, nh, nlris], by others:
\* MP_REACH has a reserved byte between the next hop and the prefixes, and the length may
\* take two bytes even if one is enough.
PeerMpBytes(m) ==
    LET body == u16(m.afi) \o <<1>>
                \o (IF m.reach THEN <<Len(m.nh)>> \o m.nh \o <<0>> ELSE <<>>)
                \o NlrisBytes(m.nlris)
    IN <<128 + (IF m.extended THEN 16 ELSE 0),
         IF m.reach THEN MPReachableNLRI ELSE MPUnreachableNLRI>>
       \o (IF m.extended THEN u16(Len(body)) ELSE <<Len(body)>>) \o body

Send ==
    /\ bytes = <<>>
    /\ \/ kind = "our open" /\ bytes' = OpenBytes(NewOpen(message))
       \/ /\ kind = "peer open"
          /\ bytes' = OpenBytes([NewOpen(<<>>) EXCEPT
                         !.params = [i \in DOMAIN message |-> CapabilityParam(message[i])]])
       \/ kind = "our update" /\ bytes' = UpdateBytes(message)
       \/ kind = "peer mp" /\ bytes' = WithLength(<<>>) \o WithLength(PeerMpBytes(message))
    /\ UNCHANGED <<kind, message, result>>

Receive ==
    /\ bytes # <<>> /\ result.tag = "none"
    /\ result' = IF kind \in {"our open", "peer open"} THEN OpenMessage(bytes)
                 ELSE Update(bytes)
    /\ UNCHANGED <<kind, message, bytes>>

Next == Send \/ Receive

Spec == Init /\ [][Next]_vars

-----------------------------------------------------------------------------
(* Properties                                                              *)

IsNet(net) == net.len \in 0..(8 * Width(net.afi)) /\ net.addr \in Seq(Byte)
              /\ Len(net.addr) = Width(net.afi)

\* A message is a sequence of bytes, a decoder ends in one of its outcomes, and
\* what it takes for a prefix is an address of its family with a length in range.
TypeOK ==
    /\ bytes \in Seq(Byte)
    /\ result.tag \in {"none", "ok", "err", "panic"}
    /\ kind = "our update" /\ result.tag = "ok" =>
         \A net \in ToSet(result.val.withdrawn_routes) \cup ToSet(result.val.nlri) : IsNet(net)

Received == result.tag # "none"

\* The families a peer announces that ubgpd knows.
Announced(params) ==
    {f \in [afi : Afis, safi : Safis] :
        \E i \in DOMAIN params : \E c \in ToSet(params[i]) : c = Multiprotocol(f)}

\* The families announced in an OPEN are found, and no others: in ours, which
\* decodes to itself, and in a peer's, whatever other capabilities, known to ubgpd
\* or not, stand before and between them and however all are spread over optional
\* parameters, up to the last byte an OPEN has for them.
FamiliesFound ==
    kind \in {"our open", "peer open"} /\ Received =>
        /\ result.tag = "ok" /\ Families(result.val.params).tag = "ok"
        /\ kind = "our open" => result.val = NewOpen(message)
        /\ Families(result.val.params).val =
             IF kind = "our open" THEN ToSet(Advertised(message)) ELSE Announced(message)

\* What a receiver should make of an attribute of ours.
AsSent(a) == [a EXCEPT !.extended = Len(ValueBytes(a)) > 255]

\* An UPDATE of ours decodes to itself, host bits of its prefixes aside, with
\* prefixes of every length and AS paths on both sides of the extended length.
OurUpdatesArrive ==
    kind = "our update" /\ Received =>
        /\ result.tag = "ok"
        /\ result.val.withdrawn_routes =
             [i \in DOMAIN message.withdrawn_routes |-> network(message.withdrawn_routes[i])]
        /\ result.val.path_attributes =
             [i \in DOMAIN message.path_attributes |-> AsSent(message.path_attributes[i])]
        /\ result.val.nlri = [i \in DOMAIN message.nlri |-> network(message.nlri[i])]

\* What handle_update is given of a multiprotocol attribute of another implementation:
\* the prefixes of an MP_UNREACH are all there and no others; an MP_REACH comes with its
\* next hop, the first address if there are two, and with its prefixes behind a default
\* route, which is its reserved byte (nlri.rs:223); and an attribute with a length of two
\* bytes, short or long, never panics and is taken for an empty one (attributes.rs:323).
PeerMpArrives ==
    kind = "peer mp" /\ Received =>
        LET sent == [i \in DOMAIN message.nlris |-> network(message.nlris[i])]
            default == [afi |-> message.afi, len |-> 0, addr |-> Zeros(Width(message.afi))]
        IN /\ result.tag = "ok" /\ Len(result.val.path_attributes) = 1
           /\ LET mp == result.val.path_attributes[1].value
              IN IF message.extended THEN mp.nlris = <<>>
                 ELSE /\ mp.afi = message.afi
                      /\ message.reach => mp.nh = SubSeq(message.nh, 1, Width(message.afi))
                      /\ mp.nlris = (IF message.reach THEN <<default>> ELSE <<>>) \o sent

\* A multiprotocol attribute of another implementation carries its prefixes, and no
\* others, to handle_update.
PeerPrefixesKept ==
    kind = "peer mp" /\ Received =>
        /\ result.tag = "ok" /\ Len(result.val.path_attributes) = 1
        /\ result.val.path_attributes[1].value.nlris =
             [i \in DOMAIN message.nlris |-> network(message.nlris[i])]
=============================================================================
