----------------------------- MODULE RouteOrder -----------------------------
(***************************************************************************)
(* The preference order of paths (rib.rs, impl Ord for RouteAttributes) and *)
(* the lists kept in that order (speaker/manager.rs).                      *)
(*                                                                         *)
(* A path is a record of what cmp looks at, each part a natural number that *)
(* grows as the Rust value does: an Option is 0 for None and n + 1 for     *)
(* Some(n); path_type is 0 for External, 1 for Internal; peer_type is 0    *)
(* for Ibgp, 1 for Ebgp; path_len is the summed length of the AS path's    *)
(* segments.  next_hop and looped (our own AS is in the path) play no part *)
(* in the order.                                                           *)
(***************************************************************************)
EXTENDS Naturals, Sequences, FiniteSets

Keys == 1..9

IsPath(a) ==
    /\ a.local_pref \in Nat /\ a.path_type \in {0, 1} /\ a.path_len \in Nat
    /\ a.origin \in Nat /\ a.multi_exit_disc \in Nat /\ a.peer_type \in {0, 1}
    /\ a.recv_time \in Nat /\ a.peer_rid \in Nat /\ a.peer_ip \in Nat

\* cmp consults the parts in this order; the time counts between eBGP paths only.
Part(a, i) ==
    CASE i = 1 -> a.local_pref
      [] i = 2 -> a.path_type
      [] i = 3 -> a.path_len
      [] i = 4 -> a.origin
      [] i = 5 -> a.multi_exit_disc
      [] i = 6 -> a.peer_type
      [] i = 7 -> IF a.peer_type = 1 THEN a.recv_time ELSE 0
      [] i = 8 -> a.peer_rid
      [] i = 9 -> a.peer_ip

\* Mutant: the longer AS path is the greater one.
PartLessLonger(a, b, i) == Part(a, i) < Part(b, i)

\* The shorter AS path is the greater one.
PartLess(a, b, i) ==
    IF i = 3 THEN Part(b, i) < Part(a, i) ELSE Part(a, i) < Part(b, i)

\* a.cmp(b) == Ordering::Less
Less(a, b) ==
    \E i \in Keys :
        /\ PartLess(a, b, i)
        /\ \A j \in 1..(i - 1) : Part(a, j) = Part(b, j)

\* a.cmp(b) == Ordering::Equal
Tied(a, b) == ~Less(a, b) /\ ~Less(b, a)

\* PartialEq: coarser than the order, and blind to where the path leads.
SameAttributes(a, b) ==
    /\ a.local_pref = b.local_pref /\ a.multi_exit_disc = b.multi_exit_disc
    /\ a.origin = b.origin /\ a.path_len = b.path_len

-----------------------------------------------------------------------------
\* Where sort() followed by reverse() puts the i-th element: after the greater
\* ones and, since sort() is stable, after the later ones of its own rank.
Place(s, i) ==
    1 + Cardinality({j \in DOMAIN s :
                        Less(s[i], s[j]) \/ (j > i /\ Tied(s[i], s[j]))})

\* Mutant: sort() without reverse().
SortAscending(s) ==
    [k \in DOMAIN s |->
        s[CHOOSE i \in DOMAIN s : Place(s, i) = Len(s) + 1 - k]]

SortReverse(s) == [k \in DOMAIN s |-> s[CHOOSE i \in DOMAIN s : Place(s, i) = k]]

\* Mutant: the AS path is not searched for our own AS.
is_valid_always(a) == a.looped \in BOOLEAN

\* RouteAttributes::is_valid and is_from_neighbor
is_valid(a) == ~a.looped
is_from_neighbor(a, rid) == a.peer_rid = rid

Descending(s) == \A i, j \in DOMAIN s : i < j => ~Less(s[i], s[j])
=============================================================================
