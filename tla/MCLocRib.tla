------------------------------ MODULE MCLocRib ------------------------------
(* Values for the constants of LocRib.                                     *)
EXTENDS LocRib, TLC

CONSTANTS n1, n2, h1, h2, b1, b2

\* Peer 1 is an eBGP peer, peer 2 an iBGP peer.
Ebgp(lp, len, nh, looped) ==
    [local_pref |-> lp, path_type |-> 0, path_len |-> len, origin |-> 0,
     multi_exit_disc |-> 0, peer_type |-> 1, peer_rid |-> 1, peer_ip |-> 1,
     next_hop |-> nh, looped |-> looped]
Ibgp(lp, len, nh) ==
    [local_pref |-> lp, path_type |-> 1, path_len |-> len, origin |-> 0,
     multi_exit_disc |-> 0, peer_type |-> 0, peer_rid |-> 2, peer_ip |-> 2,
     next_hop |-> nh, looped |-> FALSE]

\* A good and a better path of peer 1, one that loops, and one of peer 2, between
\* the two in preference, through a next hop that is not always reachable.
MCPaths == {Ebgp(1, 2, h1, FALSE), Ebgp(2, 1, h1, FALSE), Ebgp(1, 1, h1, TRUE),
            Ibgp(1, 1, h2)}

\* The connected networks, and which next hop is in which.
MCCovers == (b1 :> {h1}) @@ (b2 :> {h2}) @@ (n1 :> {}) @@ (n2 :> {})
MCBaseSets == {{b1}, {b1, b2}}

\* The last message is for behaviours in which nothing happened to the kernel's table.
Tables == Init /\ [][Next /\ (changes' = 0 \/ clock' < MaxUpdates)]_vars
=============================================================================
