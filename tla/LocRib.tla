------------------------------- MODULE LocRib -------------------------------
(***************************************************************************)
(* The Loc-RIB of one address family and its route to the kernel: the RIB  *)
(* manager and the FIB manager (speaker/manager.rs) over the rib and the   *)
(* fib (rib.rs, fib.rs), two objects behind a Mutex each.                  *)
(*                                                                         *)
(* The peers' connections are the senders of the RIB manager's channel     *)
(* (Neighbor models them); the kernel is external.  A step of a manager is *)
(* what it does between two awaits; a guard it keeps across awaits is the  *)
(* variable rib_lock or fib_lock.                                          *)
(***************************************************************************)
EXTENDS Integers, Sequences, FiniteSets, PathList

CONSTANTS
    None,
    Nlris, Peers,      \* prefixes, and the peers' router ids
    Paths,             \* what a peer may announce: paths without recv_time
    BasePrefixes,      \* destinations of kernel routes that are not ours
    BaseSets,          \* the sets of those the kernel may hold
    Covers,            \* the next hops a prefix contains
    RibCap, FibCap,    \* capacities of the two channels (100)
    MaxUpdates,        \* bound: messages from the peers
    MaxChanges         \* bound: changes of the kernel's other routes, netlink failures

Prefixes == Nlris \cup BasePrefixes

Stamped(a, t) == [f \in DOMAIN a \cup {"recv_time"} |-> IF f = "recv_time" THEN t ELSE a[f]]
Routes == {Stamped(a, t) : a \in Paths, t \in 0..MaxUpdates}

\* A speaker::Update.  all: withdrawn is Some with no prefixes, for every route.
Updates == [attr : Routes, added : SUBSET Nlris, withdrawn : SUBSET Nlris, all : BOOLEAN]

KernelRoutes == [prefix : Prefixes, next_hop : {a.next_hop : a \in Paths} \cup {None}]

ASSUME LocRibAssumption ==
    /\ None \notin Routes /\ None \notin Updates
    /\ \A a \in Paths : a.peer_rid \in Peers
    /\ \A a \in Paths, t \in 0..MaxUpdates :
         LET r == Stamped(a, t)
         IN IsPath(r) /\ r.peer_rid = a.peer_rid /\ r.next_hop = a.next_hop
    /\ Nlris \cap BasePrefixes = {}
    /\ \A B \in BaseSets : B \subseteq BasePrefixes
    /\ RibCap \in Nat /\ FibCap \in Nat /\ MaxUpdates \in Nat /\ MaxChanges \in Nat

VARIABLES
    clock, adjrib, pending, ribq,              \* the connections and the channel
    rib, rib_lock,                             \* Arc<Mutex<Rib>>
    rpc, ev, todo, cur, prev, modified,        \* rib_mgr
    fibq, fpc, left,                           \* fib_mgr
    routes, fib_lock,                          \* Arc<Mutex<Fib>>: the snapshot
    kernel, changes,                           \* the kernel's table
    told,                                      \* what the neighbours were last told
    crossed       \* history, read by properties only: the prefixes that the last UPDATE
                  \* of a peer about them both withdrew and announced

peervars == <<clock, adjrib, pending, crossed>>
ribvars  == <<rpc, ev, todo, cur, prev, modified>>
fibvars  == <<fpc, left>>
envvars  == <<kernel, changes>>
vars == <<peervars, ribq, rib, rib_lock, ribvars, fibq, fibvars, routes, fib_lock,
          envvars, told>>

Base(B) == {[prefix |-> p, next_hop |-> None] : p \in B}

Init ==
    /\ clock = 0 /\ adjrib = [p \in Peers |-> [n \in Nlris |-> None]]
    /\ pending = [p \in Peers |-> None] /\ ribq = <<>>
    /\ rib = [n \in {} |-> <<>>] /\ rib_lock = "free"
    /\ rpc = "recv" /\ ev = None /\ todo = {} /\ cur = None /\ prev = None
    /\ modified = <<>>
    /\ fibq = 0 /\ fpc = "lock" /\ left = {}
    /\ \E B \in BaseSets : kernel = Base(B)
    /\ routes = kernel /\ fib_lock = "free"        \* Fib::new refreshed it
    /\ changes = 0
    /\ told = [n \in Nlris |-> None]
    /\ crossed = {}

-----------------------------------------------------------------------------
(* The senders of RibEvent::UpdateRoutes                                   *)

\* handle_update stamps the path, withdraw_neighbor_routes sends a default one
\* that carries the router id; either is on its way until the channel has room.  An
\* UPDATE may withdraw a prefix that it announces: the Adj-RIB-In withdraws it first.
Learn(p) ==
    /\ pending[p] = None /\ clock < MaxUpdates
    /\ clock' = clock + 1
    /\ \E a \in {q \in Paths : q.peer_rid = p}, added \in SUBSET Nlris,
          withdrawn \in SUBSET Nlris, all \in BOOLEAN :
         /\ all => added = {} /\ withdrawn = {}
         /\ added = {} => a = CHOOSE q \in Paths : q.peer_rid = p
         /\ adjrib' = [adjrib EXCEPT ![p] = [n \in Nlris |->
              IF n \in added THEN Stamped(a, clock)
              ELSE IF all \/ n \in withdrawn THEN None ELSE @[n]]]
         /\ pending' = [pending EXCEPT ![p] =
              [attr |-> Stamped(a, clock), added |-> added,
               withdrawn |-> withdrawn, all |-> all]]
         /\ crossed' = {x \in crossed : x[1] # p \/ (~all /\ x[2] \notin added \cup withdrawn)}
                         \cup {p} \X (added \cap withdrawn)
    /\ UNCHANGED <<ribq, rib, rib_lock, ribvars, fibq, fibvars, routes, fib_lock,
                   envvars, told>>

Deliver(p) ==
    /\ pending[p] # None /\ Len(ribq) < RibCap
    /\ ribq' = Append(ribq, pending[p])
    /\ pending' = [pending EXCEPT ![p] = None]
    /\ UNCHANGED <<clock, adjrib, crossed, rib, rib_lock, ribvars, fibq, fibvars, routes,
                   fib_lock, envvars, told>>

-----------------------------------------------------------------------------
(* rib_mgr                                                                 *)

\* Fib::has_route: some prefix of the snapshot contains the address.
has_route(addr) == \E r \in routes : addr \in Covers[r.prefix]

\* The first path of a list whose next hop the snapshot knows.
best_reachable(s) ==
    LET reachable == {i \in DOMAIN s : has_route(s[i].next_hop)}
    IN IF reachable = {} THEN None ELSE s[Nth(reachable, 1)]

\* loc_rib_withdraw is called when withdrawn is Some.
AfterAdd == IF ev.all \/ ev.withdrawn # {} THEN "lockwd" ELSE "report"

RibRecv ==
    /\ rpc = "recv" /\ ribq # <<>>
    /\ ev' = Head(ribq) /\ ribq' = Tail(ribq)
    /\ modified' = <<>>
    /\ rpc' = IF ev'.added # {} THEN "lockadd"
              ELSE IF ev'.all \/ ev'.withdrawn # {} THEN "lockwd" ELSE "report"
    /\ UNCHANGED <<peervars, rib, rib_lock, todo, cur, prev, fibq, fibvars, routes,
                   fib_lock, envvars, told>>

LockAdd ==
    /\ rpc = "lockadd" /\ rib_lock = "free"
    /\ rib_lock' = "rib_mgr" /\ todo' = ev.added /\ rpc' = "add"
    /\ UNCHANGED <<peervars, ribq, rib, ev, cur, prev, modified, fibq, fibvars, routes,
                   fib_lock, envvars, told>>

\* loc_rib_added up to its last look at the fib, for one prefix.
AddOne ==
    /\ rpc = "add"
    /\ \E n \in todo :
         \/ /\ ~is_valid(ev.attr)
            /\ todo' = todo \ {n}
            /\ UNCHANGED <<rib, cur, prev, rpc>>
         \/ /\ is_valid(ev.attr) /\ n \notin DOMAIN rib
            /\ rib' = Inserted(rib, n, ev.attr)
            /\ cur' = n /\ prev' = None /\ rpc' = "reach"
            /\ UNCHANGED todo
         \/ /\ is_valid(ev.attr) /\ n \in DOMAIN rib /\ fib_lock = "free"
            /\ prev' = best_reachable(rib[n])
            /\ rib' = Inserted(rib, n, ev.attr)
            /\ cur' = n /\ rpc' = "reach"
            /\ UNCHANGED todo
    /\ UNCHANGED <<peervars, ribq, rib_lock, ev, modified, fibq, fibvars, routes,
                   fib_lock, envvars, told>>

AddReach ==
    /\ rpc = "reach" /\ fib_lock = "free"
    /\ modified' = IF has_route(ev.attr.next_hop) /\ Improves(ev.attr, prev, None)
                   THEN Append(modified, <<cur, ev.attr>>) ELSE modified
    /\ todo' = todo \ {cur} /\ rpc' = "add"
    /\ cur' = None /\ prev' = None
    /\ UNCHANGED <<peervars, ribq, rib, rib_lock, ev, fibq, fibvars, routes, fib_lock,
                   envvars, told>>

AddDone ==
    /\ rpc = "add" /\ todo = {}
    /\ rib_lock' = "free" /\ rpc' = AfterAdd
    /\ UNCHANGED <<peervars, ribq, rib, ev, todo, cur, prev, modified, fibq, fibvars,
                   routes, fib_lock, envvars, told>>

LockWithdraw ==
    /\ rpc = "lockwd" /\ rib_lock = "free"
    /\ rib_lock' = "rib_mgr" /\ rpc' = "withdraw"
    /\ todo' = IF ev.all
               THEN {n \in DOMAIN rib : FromPeer(rib[n], ev.attr.peer_rid)}
               ELSE ev.withdrawn
    /\ UNCHANGED <<peervars, ribq, rib, ev, cur, prev, modified, fibq, fibvars, routes,
                   fib_lock, envvars, told>>

\* loc_rib_withdraw for one prefix: it reports the loss of the best path, not
\* the path that takes its place.
WithdrawOne ==
    /\ rpc = "withdraw"
    /\ \E n \in todo :
         /\ todo' = todo \ {n}
         /\ \/ n \notin DOMAIN rib /\ UNCHANGED <<rib, modified>>
            \/ /\ n \in DOMAIN rib /\ fib_lock = "free"
               /\ LET rid == ev.attr.peer_rid
                      best == best_reachable(rib[n])
                  IN /\ rib' = Withdrawn(rib, n, rid)
                     /\ modified' = IF best # None /\ best.peer_rid = rid
                                    THEN Append(modified, <<n, None>>) ELSE modified
    /\ UNCHANGED <<peervars, ribq, rib_lock, rpc, ev, cur, prev, fibq, fibvars, routes,
                   fib_lock, envvars, told>>

WithdrawDone ==
    /\ rpc = "withdraw" /\ todo = {}
    /\ rib_lock' = "free" /\ rpc' = "report"
    /\ UNCHANGED <<peervars, ribq, rib, ev, todo, cur, prev, modified, fibq, fibvars,
                   routes, fib_lock, envvars, told>>

\* process_rib_event, once both calls returned.  Without a FIB manager the send
\* fails, and the error keeps the change from the neighbours too.
Report ==
    /\ rpc = "report"
    /\ \/ /\ modified = <<>> \/ fpc = "dead"
          /\ rpc' = "recv" /\ ev' = None /\ modified' = <<>> /\ UNCHANGED fibq
       \/ /\ modified # <<>> /\ fpc # "dead" /\ fibq < FibCap
          /\ fibq' = fibq + 1 /\ rpc' = "tell" /\ UNCHANGED <<ev, modified>>
    /\ UNCHANGED <<peervars, ribq, rib, rib_lock, todo, cur, prev, fibvars,
                   routes, fib_lock, envvars, told>>

\* The last entry for a prefix is the one a neighbour ends up with.
Tell ==
    /\ rpc = "tell"
    /\ told' = [n \in Nlris |->
         LET about == {i \in DOMAIN modified : modified[i][1] = n}
         IN IF about = {} THEN told[n] ELSE modified[Nth(about, Cardinality(about))][2]]
    /\ rpc' = "recv" /\ ev' = None /\ modified' = <<>>
    /\ UNCHANGED <<peervars, ribq, rib, rib_lock, todo, cur, prev, fibq, fibvars, routes,
                   fib_lock, envvars>>

-----------------------------------------------------------------------------
(* fib_mgr                                                                 *)

\* Mutant: the manager takes an event that is not there.
FibRecvUnguarded ==
    /\ fpc = "wait"
    /\ fibq' = fibq - 1 /\ fpc' = "locksync"
    /\ UNCHANGED <<peervars, ribq, rib, rib_lock, ribvars, left, routes, fib_lock,
                   envvars, told>>

\* A RibUpdated event, or thirty seconds without one.
FibRecv ==
    /\ fpc = "wait"
    /\ \/ fibq > 0 /\ fibq' = fibq - 1 /\ fpc' = "locksync"
       \/ fibq = 0 /\ UNCHANGED fibq /\ fpc' = "lock"
    /\ UNCHANGED <<peervars, ribq, rib, rib_lock, ribvars, left, routes, fib_lock,
                   envvars, told>>

FibLock ==
    /\ fpc \in {"lock", "locksync"} /\ fib_lock = "free"
    /\ fib_lock' = "fib_mgr"
    /\ fpc' = IF fpc = "lock" THEN "refresh" ELSE "refreshsync"
    /\ UNCHANGED <<peervars, ribq, rib, rib_lock, ribvars, fibq, left, routes, envvars,
                   told>>

\* Fib::refresh.  A netlink error ends the dump early and the rest is lost; no
\* netlink connection at all is an unwrap() that ends the manager.
Refresh ==
    /\ fpc \in {"refresh", "refreshsync"}
    /\ \/ routes' = kernel /\ UNCHANGED changes
       \/ /\ changes < MaxChanges /\ changes' = changes + 1
          /\ routes' \in SUBSET kernel
    /\ \/ fpc = "refresh" /\ fpc' = "wait" /\ fib_lock' = "free"
       \/ fpc = "refreshsync" /\ fpc' = "sync" /\ UNCHANGED fib_lock
    /\ UNCHANGED <<peervars, ribq, rib, rib_lock, ribvars, fibq, left, kernel, told>>

RefreshPanics ==
    /\ fpc \in {"refresh", "refreshsync"}
    /\ changes < MaxChanges /\ changes' = changes + 1
    /\ fpc' = "dead" /\ fib_lock' = "free" /\ fibq' = 0
    /\ UNCHANGED <<peervars, ribq, rib, rib_lock, ribvars, left, routes, kernel, told>>

\* Fib::sync without a netlink connection returns at once.
SyncSkipped ==
    /\ fpc = "sync"
    /\ changes < MaxChanges /\ changes' = changes + 1
    /\ fpc' = "wait" /\ fib_lock' = "free"
    /\ UNCHANGED <<peervars, ribq, rib, rib_lock, ribvars, fibq, left, routes, kernel, told>>

SyncLock ==
    /\ fpc = "sync" /\ rib_lock = "free"
    /\ rib_lock' = "fib_mgr" /\ left' = DOMAIN rib /\ fpc' = "install"
    /\ UNCHANGED <<peervars, ribq, rib, ribvars, fibq, routes, fib_lock, envvars, told>>

\* Fib::find_route looks at the snapshot, not at the kernel.
find_route(n, nh) == [prefix |-> n, next_hop |-> nh] \in routes

\* The kernel refuses a second route to a destination; add_route ignores that.
add_route(n, nh) ==
    IF \E r \in kernel : r.prefix = n THEN kernel
    ELSE kernel \cup {[prefix |-> n, next_hop |-> nh]}

\* Mutant: sync looks at the first path only.
SelectedFirst(n) == IF has_route(rib[n][1].next_hop) THEN rib[n][1] ELSE None

Selected(n) == best_reachable(rib[n])

\* Any other error of the request is ignored too, and leaves the kernel as it was.
Install ==
    /\ fpc = "install"
    /\ \E n \in left :
         /\ left' = left \ {n}
         /\ LET best == Selected(n)
                wanted == best # None /\ ~find_route(n, best.next_hop)
            IN \/ /\ kernel' = IF wanted THEN add_route(n, best.next_hop) ELSE kernel
                  /\ UNCHANGED changes
               \/ /\ wanted /\ changes < MaxChanges /\ changes' = changes + 1
                  /\ UNCHANGED kernel
    /\ UNCHANGED <<peervars, ribq, rib, rib_lock, ribvars, fibq, fpc, routes, fib_lock,
                   told>>

SyncDone ==
    /\ fpc = "install" /\ left = {}
    /\ rib_lock' = "free" /\ fib_lock' = "free" /\ fpc' = "wait"
    /\ UNCHANGED <<peervars, ribq, rib, ribvars, fibq, left, routes, envvars, told>>

\* Someone else changes the routing table.
KernelChange ==
    /\ changes < MaxChanges /\ changes' = changes + 1
    /\ \E B \in BaseSets :
         kernel' = {r \in kernel : r.prefix \in Nlris} \cup Base(B)
    /\ UNCHANGED <<peervars, ribq, rib, rib_lock, ribvars, fibq, fibvars, routes,
                   fib_lock, told>>

-----------------------------------------------------------------------------
RibMgr == \/ RibRecv \/ LockAdd \/ AddOne \/ AddReach \/ AddDone \/ LockWithdraw
          \/ WithdrawOne \/ WithdrawDone \/ Report \/ Tell
FibMgr == \/ FibRecv \/ FibLock \/ Refresh \/ RefreshPanics
          \/ SyncSkipped \/ SyncLock \/ Install \/ SyncDone

Next == \/ \E p \in Peers : Learn(p) \/ Deliver(p)
        \/ RibMgr \/ FibMgr \/ KernelChange

Spec == Init /\ [][Next]_vars

\* The runtime polls every ready task, and a tokio Mutex queues its waiters.
FairSpec == Spec /\ SF_vars(RibMgr) /\ SF_vars(FibMgr)

-----------------------------------------------------------------------------
(* Properties                                                              *)

Managers == {"free", "rib_mgr", "fib_mgr"}

\* Every field, lock and channel has its type, the bounds included.
TypeOK ==
    /\ clock \in 0..MaxUpdates
    /\ adjrib \in [Peers -> [Nlris -> Routes \cup {None}]]
    /\ pending \in [Peers -> Updates \cup {None}] /\ ribq \in Seq(Updates)
    /\ DOMAIN rib \subseteq Nlris /\ \A n \in DOMAIN rib : rib[n] \in Seq(Routes)
    /\ rib_lock \in Managers /\ fib_lock \in {"free", "fib_mgr"}
    /\ rpc \in {"recv", "lockadd", "add", "reach", "lockwd", "withdraw", "report", "tell"}
    /\ ev \in Updates \cup {None} /\ todo \subseteq Nlris
    /\ cur \in Nlris \cup {None} /\ prev \in Routes \cup {None}
    /\ modified \in Seq(Nlris \X (Routes \cup {None}))
    /\ fibq \in 0..FibCap /\ left \subseteq Nlris
    /\ fpc \in {"wait", "lock", "locksync", "refresh", "refreshsync", "sync", "install",
               "dead"}
    /\ routes \subseteq KernelRoutes /\ kernel \subseteq KernelRoutes
    /\ changes \in 0..MaxChanges
    /\ told \in [Nlris -> Routes \cup {None}]
    /\ crossed \subseteq Peers \X Nlris

\* Whatever order the peers' messages come in and however often a peer repeats
\* itself, the paths of a prefix stay in order of preference: best_reachable and
\* Fib::sync take the first one they can use, send_locrib the very first.
Ordered == \A n \in DOMAIN rib : Descending(rib[n])

\* send_locrib's expect("BUG: RIB entry should have at least one route
\* attribute"): a prefix leaves the table with its last path.
NoEmptyEntry == \A n \in DOMAIN rib : rib[n] # <<>>

\* A path that already went through our AS is never kept, advertised or
\* installed, even if it arrives for a prefix that has a good one.
NoLoopedPath ==
    /\ \A n \in DOMAIN rib : \A i \in DOMAIN rib[n] : ~rib[n][i].looped
    /\ \A n \in Nlris : told[n] # None => ~told[n].looped

\* Nothing of peer p is on its way or half processed.
Drained(p) ==
    /\ pending[p] = None
    /\ \A i \in DOMAIN ribq : ribq[i].attr.peer_rid # p
    /\ ev # None => ev.attr.peer_rid # p

\* The Loc-RIB has a path of peer p for n.
Present(p, n) == n \in DOMAIN rib /\ \E i \in DOMAIN rib[n] : rib[n][i].peer_rid = p

\* What the Loc-RIB holds of a peer follows the peer's Adj-RIB-In: a withdrawn prefix is
\* gone, even one whose best path is another peer's, and a usable announcement is there,
\* but for the prefixes whose last UPDATE both withdrew and announced them: of those the
\* Adj-RIB-In has the path and the Loc-RIB has none.
LocRibFollowsAdjRib ==
    \A p \in Peers, n \in Nlris :
        Drained(p) =>
            /\ Present(p, n) => adjrib[p][n] # None /\ <<p, n>> \notin crossed
            /\ adjrib[p][n] # None /\ is_valid(adjrib[p][n]) /\ <<p, n>> \notin crossed
                 => Present(p, n)

\* While reachability does not change, the path the neighbours were told of is
\* one the table holds, and no path the kernel can reach is preferred to it.
AdvertisedIsBest ==
    rpc = "recv" /\ changes = 0 =>
        \A n \in Nlris : told[n] # None =>
            /\ n \in DOMAIN rib /\ told[n] \in {rib[n][i] : i \in DOMAIN rib[n]}
            /\ \A i \in DOMAIN rib[n] :
                 has_route(rib[n][i].next_hop) => ~Less(told[n], rib[n][i])

\* Once both managers have nothing to do, every prefix with a usable path has a
\* route in the kernel, if reachability did not change meanwhile.
QuiescentInstalled ==
    rpc = "recv" /\ fpc = "wait" /\ fibq = 0 /\ changes = 0 =>
        \A n \in DOMAIN rib :
            best_reachable(rib[n]) # None => \E r \in kernel : r.prefix = n

\* The neighbours know of every prefix that has a usable path
\* (speaker/manager.rs:182).
BestIsPropagated ==
    rpc = "recv" =>
        \A n \in DOMAIN rib : best_reachable(rib[n]) # None => told[n] # None

\* Once nothing of a peer is on its way, its usable routes are the same in both tables.
TablesEqual ==
    \A p \in Peers, n \in Nlris :
        Drained(p) => (Present(p, n) <=> adjrib[p][n] # None /\ is_valid(adjrib[p][n]))

\* The RIB manager finishes what it started.
UpdateProcessing == rpc \in {"lockadd", "lockwd"} ~> rpc = "recv"
=============================================================================
