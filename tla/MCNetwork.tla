----------------------------- MODULE MCNetwork ------------------------------
(* Topologies for Network.                                                 *)
EXTENDS Network, TLC

CONSTANTS n1, n2

Pair == {{1, 2}}
Line == {{1, 2}, {2, 3}}
Triangle == {{1, 2}, {2, 3}, {1, 3}}

\* Every speaker in an AS of its own, and all of them in one.
Ases == (1 :> 1) @@ (2 :> 2) @@ (3 :> 3) @@ (8 :> 8) @@ (9 :> 9)
OneAs == (1 :> 1) @@ (2 :> 1) @@ (3 :> 1) @@ (8 :> 8) @@ (9 :> 9)

\* A border router in the AS of speaker 1.
TwoInOneAs == (1 :> 1) @@ (2 :> 1) @@ (3 :> 3) @@ (9 :> 9)

\* AS paths of one length, of two, and two of one length.
Short == {<<>>}
TwoLengths == {<<>>, <<7>>}
OneLength == {<<7>>, <<5>>}

\* Origin 9 at speaker 1, 8 at speaker 2.
Net(links, origins, asn, tails, fresh, sends, losses) ==
    [routers |-> UNION links, links |-> links, origins |-> origins,
     at |-> (8 :> 2) @@ (9 :> 1), asn |-> asn, tails |-> tails, fresh |-> fresh,
     sends |-> sends, losses |-> losses]

\* An origin announces, withdraws and announces again.
Ring == Net(Triangle, {9}, Ases, Short, {}, 3, 0)

\* A connection breaks.
Broken == Net(Triangle, {9}, Ases, Short, {}, 2, 1)

\* A full mesh inside one AS.
Mesh == Net(Triangle, {9}, OneAs, Short, {}, 2, 1)

\* An origin of the same prefix in either AS.
TwoOrigins == Net(Pair, {8, 9}, Ases, TwoLengths, {}, 2, 0)

\* Sessions come up while routes come and go.
Joining(tails) == Net(Line, {9}, Ases, tails, Line, 2, 0)

\* Paths tie inside an AS and are handed on to another.
Ties == Net(Line, {9}, TwoInOneAs, OneLength, {}, 2, 0)

All == {Ring, Broken, Mesh, TwoOrigins, Ties, Joining(TwoLengths)}
Fair == {Joining(Short)}

\* Two speakers of one AS with a path of their own each.
Inside == {Net(Pair, {8, 9}, OneAs, Short, {}, 1, 0)}

\* A session comes up; a table of two paths is sent on it.
First == {Net(Pair, {9}, Ases, Short, Pair, 1, 0)}
Table == {Net(Pair, {9}, Ases, TwoLengths, Pair, 2, 0)}

\* The AS of speaker 1 behind speaker 2, an origin whose paths name that of speaker 2,
\* and two pairs without a session between them.
AsAgain == (1 :> 1) @@ (2 :> 2) @@ (3 :> 1) @@ (9 :> 9)
FourAses == (1 :> 1) @@ (2 :> 2) @@ (3 :> 3) @@ (4 :> 4) @@ (9 :> 9)
Repeated == {Net(Line, {9}, AsAgain, Short, {}, 1, 0)}
Named == {Net(Pair, {9}, Ases, {<<2>>}, {}, 1, 0)}
Unlinked == {Net({{1, 2}, {3, 4}}, {9}, FourAses, Short, {}, 1, 0)}
=============================================================================
