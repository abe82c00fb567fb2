------------------------------ MODULE Network -------------------------------
(***************************************************************************)
(* Several ubgpd speakers that peer with each other, and external peers    *)
(* (origins) from which the routes of one address family come: how a path  *)
(* travels from handle_update through the Loc-RIB and send_update to the   *)
(* next speaker, and what is left when it is withdrawn.                    *)
(*                                                                         *)
(* A session begins when both ends are in OpenConfirm, before either has   *)
(* seen a KEEPALIVE.  The wire from r to s is everything on the way from   *)
(* r's RibUpdate events to s's RIB manager: the event channel, TCP and the *)
(* manager's channel keep the order of one peer's messages, and the        *)
(* manager takes those of different peers in any order.                    *)
(*                                                                         *)
(* Every next hop is reachable (LocRib has the FIB's part).  A path has    *)
(* two fields the code does not have: via, the speakers it came through,   *)
(* nearest first, and own, the AS path its sender had for this prefix.     *)
(***************************************************************************)
EXTENDS Naturals, Sequences, FiniteSets, SequencesExt, PathList

CONSTANTS
    Nets,        \* the networks: records of the names below
    Nlris

ASSUME NetworkAssumption ==
    /\ IsFiniteSet(Nlris)
    /\ \A x \in Nets :
        /\ x.routers \subseteq Nat /\ x.origins \subseteq Nat /\ x.routers \cap x.origins = {}
        /\ \A l \in x.links : l \subseteq x.routers /\ Cardinality(l) = 2
        /\ x.fresh \subseteq x.links
        /\ \A o \in x.origins : x.at[o] \in x.routers /\ x.asn[o] # x.asn[x.at[o]]
        /\ \A r \in x.routers \cup x.origins : x.asn[r] \in Nat
        /\ x.tails \subseteq Seq(Nat) /\ x.sends \in Nat /\ x.losses \in Nat

VARIABLE net    \* the network at hand

Routers == net.routers      \* the speakers, by router id
Links == net.links          \* the configured sessions, as sets of two routers
Origins == net.origins      \* the external peers, by router id
At == net.at                \* the router an origin peers with
Asn == net.asn              \* the AS of a router or an origin
Tails == net.tails          \* the AS paths behind the origins' own AS
Fresh == net.fresh          \* the sessions that are not yet established
MaxSends == net.sends       \* bound: messages of one origin
MaxLosses == net.losses     \* bound: connections that break

None == <<>>

Peers(r) == {s \in Routers : {r, s} \in Links}
PeersIn(r) == Peers(r) \cup {x \in Origins : At[x] = r}
Wires == {w \in (Routers \cup Origins) \X Routers : w[1] \in PeersIn(w[2])}
Ends == {e \in Routers \X Routers : e[2] \in Peers(e[1])}

Ibgp(r, s) == Asn[r] = Asn[s]

\* An UPDATE: what its attributes say, and the prefixes with their true origin.
Update(routes, as_path, withdrawn, all) ==
    [kind |-> "update", routes |-> routes, as_path |-> as_path, withdrawn |-> withdrawn,
     all |-> all]
Keepalive == [kind |-> "keepalive"]

NoRoutes == [n \in {} |-> <<>>]

VARIABLES
    state,      \* attributes.state of each end of a session
    wire,       \* what is on its way
    rib,        \* the Loc-RIBs
    modified,   \* rib_mgr: what it has to report, and
    left,       \*          the neighbours it has not yet reported it to
    announced,  \* what an origin announces now
    sent, lost, \* how many messages it sent, how many connections broke
    missed,     \* the ends that dropped an UPDATE because they were in OpenConfirm
    untold      \* a router and a prefix whose best path it did not report

vars == <<net, state, wire, rib, modified, left, announced, sent, lost, missed, untold>>

Init ==
    /\ net \in Nets
    /\ state = [e \in Ends |->
                  IF {e[1], e[2]} \in Fresh THEN "OpenConfirm" ELSE "Established"]
    /\ wire = [w \in Wires |-> <<>>]
    /\ rib = [r \in Routers |-> NoRoutes]
    /\ modified = [r \in Routers |-> <<>>] /\ left = [r \in Routers |-> {}]
    /\ announced = [x \in Origins |-> [n \in Nlris |-> None]]
    /\ sent = [x \in Origins |-> 0] /\ lost = 0
    /\ missed = {} /\ untold = {}

-----------------------------------------------------------------------------
(* send_update                                                             *)

\* Mutant: the path is sent on as it came.
prependForgotten(r, s, a) == a.as_path

\* The AS path of a on the way from r to s.
prepend(r, s, a) == IF Ibgp(r, s) THEN a.as_path ELSE <<Asn[r]>> \o a.as_path

\* Mutant: the peer types are mixed up.
should_send_swapped(r, s, a) == ~Ibgp(r, s) \/ a.peer_type = 0

should_send(r, s, a) == ~Ibgp(r, s) \/ a.peer_type = 1

\* The entries grouped by attributes, as PartialEq compares them: the first one
\* inserted stands for the group.
Groups(entries) == {{e \in entries : SameAttributes(e[2], f[2])} : f \in entries}

\* The messages send_update may write for a RibUpdate event, none or one: the
\* attributes of all groups follow each other and a receiver keeps the last ones;
\* which are last is the HashMap's choice, and who stands for a group that of the
\* table it was read from.
Messages(r, s, nlris) ==
    LET wd == {nlris[i][1] : i \in {j \in DOMAIN nlris : nlris[j][2] = None}}
        entries == {nlris[i] : i \in {j \in DOMAIN nlris :
                       nlris[j][2] # None /\ ~is_from_neighbor(nlris[j][2], s)}}
        firsts == {f \in [Groups(entries) -> entries] : \A g \in Groups(entries) : f[g] \in g}
        Sent(f) == UNION {g \in Groups(entries) : should_send(r, s, f[g][2])}
        Route(f, n) == LET a == (CHOOSE e \in Sent(f) : e[1] = n)[2]
                       IN [own |-> prepend(r, s, a), via |-> <<r>> \o a.via]
        Body(f, last) ==
            Update([n \in {e[1] : e \in Sent(f)} |-> Route(f, n)],
                   IF last = {} THEN <<>> ELSE prepend(r, s, f[last][2]), wd, FALSE)
    IN IF wd = {} /\ entries = {} THEN {<<>>}
       ELSE UNION {IF Sent(f) = {} THEN {<<Body(f, {})>>}
                   ELSE {<<Body(f, g)>> : g \in {h \in Groups(entries) : h \subseteq Sent(f)}}
                   : f \in firsts}

-----------------------------------------------------------------------------
(* rib_mgr                                                                 *)

\* RouteAttributes::new, for an UPDATE of s to r.  recv_time only counts within
\* the list of a prefix: the newest path has the greatest.
Path(r, s, m, n) ==
    LET list == IF n \in DOMAIN rib[r] THEN rib[r][n] ELSE <<>>
    IN [local_pref |-> 0, path_type |-> IF Ibgp(r, s) THEN 1 ELSE 0,
        path_len |-> Len(m.as_path), origin |-> 0, multi_exit_disc |-> 0,
        peer_type |-> IF Ibgp(r, s) THEN 0 ELSE 1, recv_time |-> Max({0} \cup {list[i].recv_time + 1 : i \in DOMAIN list}),
        peer_rid |-> s, peer_ip |-> s, looped |-> Asn[r] \in ToSet(m.as_path),
        as_path |-> m.as_path, own |-> m.routes[n].own, via |-> m.routes[n].via]

\* loc_rib_added for every prefix of the message.
loc_rib_added(r, s, m) ==
    [n \in DOMAIN rib[r] \cup {k \in DOMAIN m.routes : is_valid(Path(r, s, m, k))} |->
        IF n \in DOMAIN m.routes /\ is_valid(Path(r, s, m, n))
        THEN Inserted(rib[r], n, Path(r, s, m, n))[n] ELSE rib[r][n]]

Added(r, s, m) ==
    {<<n, Path(r, s, m, n)>> : n \in {k \in DOMAIN m.routes :
        /\ is_valid(Path(r, s, m, k))
        /\ Improves(Path(r, s, m, k), IF k \in DOMAIN rib[r] THEN rib[r][k][1] ELSE None, None)}}

\* The prefixes loc_rib_withdraw looks at.
Candidates(table, s, m) ==
    IF m.all THEN {n \in DOMAIN table : FromPeer(table[n], s)} ELSE m.withdrawn \cap DOMAIN table

loc_rib_withdraw(table, s, m) ==
    [n \in {k \in DOMAIN table :
              k \in Candidates(table, s, m) => k \in DOMAIN Withdrawn(table, k, s)} |->
        IF n \in Candidates(table, s, m) THEN Withdrawn(table, n, s)[n] ELSE table[n]]

\* Mutant: the loss of the best path is not reported, that of another one is.
LostOther(table, s, m) ==
    {<<n, None>> : n \in {k \in Candidates(table, s, m) : table[k][1].peer_rid # s}}

\* The loss of the best path, even if there is another.
Lost(table, s, m) ==
    {<<n, None>> : n \in {k \in Candidates(table, s, m) : table[k][1].peer_rid = s}}

\* The prefixes of r whose best path is not reported: another one took over from a
\* withdrawn path, or came first without being greater.
Untold(r, table, added) ==
    {n \in DOMAIN table :
        /\ <<n, table[n][1]>> \notin added
        /\ <<r, n>> \in untold \/ n \notin DOMAIN rib[r] \/ table[n][1] # rib[r][n][1]}

\* process_rib_event up to its report; the order of the entries of one UPDATE is
\* that of its prefixes.
Process(r, s) ==
    /\ left[r] = {} /\ wire[<<s, r>>] # <<>>
    /\ s \in Peers(r) => state[<<r, s>>] # "OpenConfirm"
    /\ LET m == Head(wire[<<s, r>>])
           added == loc_rib_added(r, s, m)
           table == loc_rib_withdraw(added, s, m)
           changes == SetToSeq(Added(r, s, m)) \o SetToSeq(Lost(added, s, m))
       IN /\ m.kind = "update"
          /\ rib' = [rib EXCEPT ![r] = table]
          /\ untold' = {u \in untold : u[1] # r}
                          \cup {r} \X Untold(r, table, Added(r, s, m))
          /\ modified' = [modified EXCEPT ![r] = changes]
          /\ left' = [left EXCEPT ![r] = IF changes = <<>> THEN {} ELSE Peers(r)]
    /\ wire' = [wire EXCEPT ![<<s, r>>] = Tail(@)]
    /\ UNCHANGED <<state, announced, sent, lost, missed>>

\* The next neighbour is told, if the session with it is established.
Report(r, s) ==
    /\ s \in left[r]
    /\ left' = [left EXCEPT ![r] = @ \ {s}]
    /\ modified' = [modified EXCEPT ![r] = IF left'[r] = {} THEN <<>> ELSE @]
    /\ \/ /\ state[<<r, s>>] = "Established"
          /\ \E m \in Messages(r, s, modified[r]) : wire' = [wire EXCEPT ![<<r, s>>] = @ \o m]
       \/ state[<<r, s>>] # "Established" /\ UNCHANGED wire
    /\ UNCHANGED <<state, rib, announced, sent, lost, missed, untold>>

-----------------------------------------------------------------------------
(* Sessions                                                                *)

\* Mutant: only an established connection sends KEEPALIVEs.
KeepaliveWhenEstablished(r, s) ==
    /\ state[<<r, s>>] = "Established" /\ state[<<s, r>>] = "OpenConfirm"
    /\ wire' = [wire EXCEPT ![<<r, s>>] = Append(@, Keepalive)]
    /\ UNCHANGED <<state, rib, modified, left, announced, sent, lost, missed, untold>>

\* timer_hold.  One that finds the peer established only resets a timer there.
KeepaliveTimerExpires(r, s) ==
    /\ state[<<r, s>>] # "Idle" /\ state[<<s, r>>] = "OpenConfirm"
    /\ Keepalive \notin ToSet(wire[<<r, s>>])
    /\ wire' = [wire EXCEPT ![<<r, s>>] = Append(@, Keepalive)]
    /\ UNCHANGED <<state, rib, modified, left, announced, sent, lost, missed, untold>>

\* Mutant: the table is not sent.
send_locrib_nothing(r) == SubSeq(SetToSeq(DOMAIN rib[r]), 1, 0)

\* The first path of every prefix.
send_locrib(r) == SetToSeq({<<n, rib[r][n][1]>> : n \in DOMAIN rib[r]})

HandleKeepalive(r, s) ==
    /\ state[<<r, s>>] # "Idle"
    /\ wire[<<s, r>>] # <<>> /\ Head(wire[<<s, r>>]) = Keepalive
    /\ LET rest == [wire EXCEPT ![<<s, r>>] = Tail(@)]
       IN \/ /\ state[<<r, s>>] = "OpenConfirm"
             /\ state' = [state EXCEPT ![<<r, s>>] = "Established"]
             /\ \E m \in Messages(r, s, send_locrib(r)) :
                  wire' = [rest EXCEPT ![<<r, s>>] = @ \o m]
          \/ state[<<r, s>>] = "Established" /\ wire' = rest /\ UNCHANGED state
    /\ UNCHANGED <<rib, modified, left, announced, sent, lost, missed, untold>>

\* process_message_openconfirm has no arm for an UPDATE.
DropUpdate(r, s) ==
    /\ state[<<r, s>>] = "OpenConfirm"
    /\ wire[<<s, r>>] # <<>> /\ Head(wire[<<s, r>>]).kind = "update"
    /\ wire' = [wire EXCEPT ![<<s, r>>] = Tail(@)]
    /\ missed' = missed \cup {<<r, s>>}
    /\ UNCHANGED <<state, rib, modified, left, announced, sent, lost, untold>>

\* The UPDATEs among the first k messages.
Updates(sq, k) ==
    LET those == {i \in 1..k : sq[i] # Keepalive}
    IN [j \in 1..Cardinality(those) |-> sq[Nth(those, j)]]

\* Of the messages on their way to r, those that are already in the channel of its
\* RIB manager when the connection breaks.
Survive(r, s) ==
    IF state[<<r, s>>] = "OpenConfirm" THEN {<<>>}
    ELSE {Updates(wire[<<s, r>>], k) : k \in 0..Len(wire[<<s, r>>])}

\* A connection breaks: both ends become Idle, what was learnt stays, and nothing
\* connects again.
Break(r, s) ==
    /\ lost < MaxLosses /\ lost' = lost + 1
    /\ state[<<r, s>>] # "Idle"
    /\ state' = [state EXCEPT ![<<r, s>>] = "Idle", ![<<s, r>>] = "Idle"]
    /\ \E in \in Survive(r, s), out \in Survive(s, r) :
         wire' = [wire EXCEPT ![<<s, r>>] = in, ![<<r, s>>] = out]
    /\ UNCHANGED <<rib, modified, left, announced, sent, missed, untold>>

-----------------------------------------------------------------------------
(* Origins                                                                 *)

Sends(x, m, now) ==
    /\ sent[x] < MaxSends /\ sent' = [sent EXCEPT ![x] = @ + 1]
    /\ wire' = [wire EXCEPT ![<<x, At[x]>>] = Append(@, m)]
    /\ announced' = [announced EXCEPT ![x] = now]
    /\ UNCHANGED <<state, rib, modified, left, lost, missed, untold>>

Announce(x, N, tail) ==
    LET as_path == <<Asn[x]>> \o tail
    IN Sends(x, Update([n \in N |-> [own |-> as_path, via |-> <<x>>]], as_path, {}, FALSE),
             [n \in Nlris |-> IF n \in N THEN as_path ELSE announced[x][n]])

Withdraw(x, N) ==
    Sends(x, Update(NoRoutes, <<>>, N, FALSE),
          [n \in Nlris |-> IF n \in N THEN None ELSE announced[x][n]])

\* A NOTIFICATION: withdraw_neighbor_routes has the RIB manager remove all of x.
Notify(x) ==
    /\ sent[x] < MaxSends /\ sent' = [sent EXCEPT ![x] = MaxSends]
    /\ wire' = [wire EXCEPT ![<<x, At[x]>>] = Append(@, Update(NoRoutes, <<>>, {}, TRUE))]
    /\ announced' = [announced EXCEPT ![x] = [n \in Nlris |-> None]]
    /\ UNCHANGED <<state, rib, modified, left, lost, missed, untold>>

Originate ==
    \E x \in Origins :
        \/ \E N \in SUBSET Nlris \ {{}}, tail \in Tails : Announce(x, N, tail)
        \/ \E N \in SUBSET Nlris \ {{}} : Withdraw(x, N)
        \/ Notify(x)

-----------------------------------------------------------------------------
Session(r, s) == KeepaliveTimerExpires(r, s) \/ HandleKeepalive(r, s) \/ DropUpdate(r, s)

Run ==
    /\ \/ \E w \in Wires : Process(w[2], w[1])
       \/ \E e \in Ends : Report(e[1], e[2]) \/ Session(e[1], e[2])
    /\ UNCHANGED net

Environment == (Originate \/ \E e \in Ends : Break(e[1], e[2])) /\ UNCHANGED net

Next == Run \/ Environment

Spec == Init /\ [][Next]_vars

\* As long as a manager or a connection has something to do, or a timer has to
\* expire for a session to come up, one of them runs.
FairSpec == Spec /\ WF_vars(Run)

-----------------------------------------------------------------------------
(* Properties                                                              *)

Paths(r) == UNION {ToSet(rib[r][n]) : n \in DOMAIN rib[r]}

\* Tables, channels and sessions have their types; a prefix has a path.
TypeOK ==
    /\ state \in [Ends -> {"Idle", "OpenConfirm", "Established"}]
    /\ \A r \in Routers :
         /\ DOMAIN rib[r] \subseteq Nlris
         /\ \A n \in DOMAIN rib[r] : rib[r][n] # <<>> /\ Descending(rib[r][n])
         /\ \A a \in Paths(r) : IsPath(a) /\ a.peer_rid \in PeersIn(r)
         /\ left[r] \subseteq Peers(r) /\ (left[r] # {} => modified[r] # <<>>)
    /\ \A w \in Wires : \A i \in DOMAIN wire[w] : wire[w][i].kind \in {"update", "keepalive"}

\* No path passes a speaker twice: between ASes is_valid sees to it, within an AS
\* only is_from_ibgp does.
NoPathRevisits ==
    \A r \in Routers : \A a \in Paths(r) :
        LET way == <<r>> \o a.via
        IN \A i, j \in DOMAIN way : way[i] = way[j] => i = j

\* Nothing is on its way and no manager has anything to report.
Quiet == (\A w \in Wires : wire[w] = <<>>) /\ (\A r \in Routers : left[r] = {})

InSession(r, s) == state[<<r, s>>] = "Established" /\ state[<<s, r>>] = "Established"
AllUp == \A e \in Ends : InSession(e[1], e[2])
Has(r, s, n) == n \in DOMAIN rib[r] /\ FromPeer(rib[r][n], s)

\* When the network is quiet, what a speaker holds of a peer it is in session with
\* is a prefix the peer still has, whatever was announced, withdrawn, overtaken or
\* cut off in between.
NoGhostRoutes ==
    Quiet =>
        /\ \A e \in Ends, n \in Nlris :
             InSession(e[1], e[2]) /\ Has(e[1], e[2], n) => n \in DOMAIN rib[e[2]]
        /\ \A x \in Origins, n \in Nlris : Has(At[x], x, n) => announced[x][n] # None

\* The best path of r that goes to s is there, and so are its attributes.
Arrived(r, s, n) ==
    LET best == rib[r][n][1]
    IN best.peer_rid # s /\ should_send(r, s, best) /\ Asn[s] \notin ToSet(prepend(r, s, best))
          => Has(s, r, n) /\ \E a \in ToSet(rib[s][n]) : a.as_path = prepend(r, s, best)

\* When the network is quiet every established peer that missed nothing in
\* OpenConfirm has the best path of every prefix that was reported, whether it was
\* learnt before, while or after the session came up.
PeersHaveBest ==
    Quiet =>
        \A e \in Ends : InSession(e[1], e[2]) /\ <<e[2], e[1]>> \notin missed =>
            \A n \in DOMAIN rib[e[1]] :
                <<e[1], n>> \notin untold => Arrived(e[1], e[2], n)

\* No end of a session misses an UPDATE (README.md:3, "UPDATE processing").
NoUpdateMissed == missed = {}

\* A prefix is announced with the attributes of its own path.
OwnAttributes == \A r \in Routers : \A a \in Paths(r) : a.as_path = a.own

\* Where a packet for n goes from a router that has a route.
NextRouter(r, n) == rib[r][n][1].peer_rid

\* When the network is quiet and no connection broke, a packet for n leaves it: in any
\* set of routers with a route there is one that sends it out of the set, so it
\* never circles.
NoForwardingLoop ==
    Quiet /\ lost = 0 =>
        \A n \in Nlris, C \in SUBSET Routers :
            C # {} /\ (\A r \in C : n \in DOMAIN rib[r])
                => \E r \in C : NextRouter(r, n) \notin C

\* Every speaker has a route to exactly the prefixes that are announced.
Exact ==
    \A r \in Routers, n \in Nlris :
        n \in DOMAIN rib[r] <=> \E x \in Origins : announced[x][n] # None

\* Nothing was dropped and every best path was reported.
AllTold == missed = {} /\ untold = {}

\* What is announced reaches every speaker, and so does its withdrawal, through any
\* number of detours: once the network is quiet and its sessions are up nothing is
\* missing and nothing is left, unless an UPDATE was missed or not sent.
QuietIsExact ==
    Quiet /\ AllUp /\ AllTold => Exact

\* Both ends of every session end up established although each only waits for the
\* other's timer, and routes stop travelling, at the right places unless an UPDATE
\* was missed or not sent.
Converges ==
    <>[](Quiet /\ AllUp /\ (AllTold => Exact))
=============================================================================
