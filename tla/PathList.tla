------------------------------ MODULE PathList ------------------------------
(***************************************************************************)
(* A Rib is a map from prefixes to lists of paths, the best path first.    *)
(* What the RIB manager does with the list of one prefix                   *)
(* (speaker/manager.rs), shared by LocRib and Network.                     *)
(***************************************************************************)
EXTENDS RouteOrder

Put(f, k, v) == [x \in DOMAIN f \cup {k} |-> IF x = k THEN v ELSE f[x]]
Without(f, k) == [x \in DOMAIN f \ {k} |-> f[x]]

\* The list after a path arrived: an earlier path of the same peer stays.
Inserted(table, n, a) ==
    IF n \in DOMAIN table THEN Put(table, n, SortReverse(Append(table[n], a)))
    ELSE Put(table, n, <<a>>)

\* Mutant: every reachable new path is reported.
ImprovesAlways(a, best, None) == TRUE

\* The new path replaces the best one only when it is strictly greater.
Improves(a, best, None) == best = None \/ Less(best, a)

\* Mutant: only the prefixes whose best path is the peer's.
FromPeerFirst(s, rid) == is_from_neighbor(s[1], rid)

FromPeer(s, rid) == \E i \in DOMAIN s : is_from_neighbor(s[i], rid)

\* The k-th smallest of a set of positions.
Nth(S, k) == CHOOSE i \in S : Cardinality({j \in S : j <= i}) = k

Retained(s, rid) ==
    LET kept == {i \in DOMAIN s : ~is_from_neighbor(s[i], rid)}
    IN [k \in 1..Cardinality(kept) |-> s[Nth(kept, k)]]

\* Mutant: the entry stays when its last path goes.
WithdrawnKeptEmpty(table, n, rid) == Put(table, n, Retained(table[n], rid))

\* The lists a withdrawal leaves: no list at all when no path is left.
Withdrawn(table, n, rid) ==
    IF Retained(table[n], rid) = <<>> THEN Without(table, n)
    ELSE Put(table, n, Retained(table[n], rid))
=============================================================================
