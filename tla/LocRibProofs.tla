---------------------------- MODULE LocRibProofs ----------------------------
(***************************************************************************)
(* Safety of LocRib for any prefixes, peers, paths, kernel tables, channel *)
(* capacities and bounds.                                                  *)
(***************************************************************************)
EXTENDS LocRib, PathListProofs

\* What handle_update and withdraw_neighbor_routes send: a prefix is added, withdrawn
\* or both, and a withdrawal of everything adds nothing.
WellFormed(m) ==
    /\ m \in Updates
    /\ m.all => m.added = {} /\ m.withdrawn = {}

\* The prefixes a message is about, those it withdraws and announces, and what it
\* leaves of one in the Adj-RIB-In, which withdraws first.
Touches(m, n) == m.all \/ n \in m.added \/ n \in m.withdrawn
Crosses(m, n) == n \in m.added /\ n \in m.withdrawn
Outcome(m, n) == IF n \in m.added THEN m.attr ELSE None

MessagesOK ==
    /\ \A p \in Peers : pending[p] # None =>
          WellFormed(pending[p]) /\ pending[p].attr.peer_rid = p
    /\ \A i \in DOMAIN ribq : WellFormed(ribq[i])
    /\ ev # None => WellFormed(ev)

\* Where the managers are, which locks they hold and what they are about to do.
Places ==
    /\ rpc = "recv" <=> ev = None
    /\ rpc \in {"recv", "lockadd"} => modified = <<>>
    /\ rib_lock = "rib_mgr" <=> rpc \in {"add", "reach", "withdraw"}
    /\ rib_lock = "fib_mgr" <=> fpc = "install"
    /\ fib_lock = "fib_mgr" <=> fpc \in {"refresh", "refreshsync", "sync", "install"}
    /\ rpc \in {"add", "reach"} => todo \subseteq ev.added
    /\ rpc = "reach" => cur \in todo
    /\ rpc = "withdraw" => todo \cap ev.added \subseteq ev.withdrawn
    /\ fpc = "install" => left \subseteq DOMAIN rib

\* Every list is in order, and no looped path is in the table or on its way out.
TablesOK ==
    /\ GoodTable(rib) /\ DOMAIN rib \subseteq Nlris
    /\ \A n \in Nlris : \A a \in PathsOf(rib, n) : a \in Routes /\ is_valid(a)
    /\ rpc = "reach" => is_valid(ev.attr) /\ ev.attr \in PathsOf(rib, cur)
    /\ \A i \in DOMAIN modified : modified[i][2] # None => is_valid(modified[i][2])
    /\ \A n \in Nlris : told[n] # None => is_valid(told[n])

Safe == TypeOK /\ MessagesOK /\ Places /\ TablesOK

-----------------------------------------------------------------------------
(* Paths, lists and messages                                               *)

\* A path that was stamped is one the order is about, of a peer, with a next hop
\* the kernel may be told of.
LEMMA RouteIsPath ==
    ASSUME NEW r \in Routes
    PROVE  /\ IsPath(r) /\ r # None /\ r.peer_rid \in Peers
           /\ r.next_hop \in {a.next_hop : a \in Paths}
<1>1. PICK a \in Paths, t \in 0..MaxUpdates : r = Stamped(a, t)
  BY DEF Routes
<1>2. IsPath(r) /\ r.peer_rid = a.peer_rid /\ r.next_hop = a.next_hop
  BY <1>1, LocRibAssumption
<1> QED
  BY <1>1, <1>2, LocRibAssumption

\* A list all of whose paths are routes is a sequence of routes.
LEMMA ListOfRoutes ==
    ASSUME NEW s, IsPathList(s), \A a \in Elems(s) : a \in Routes
    PROVE  s \in Seq(Routes)
<1>1. s \in Seq(Elems(s)) /\ Elems(s) \subseteq Routes
  BY DEF IsPathList
<1> QED
  BY <1>1, SeqDef, ElementOfSeq, LenProperties

\* What a table of the right type has at a prefix.
LEMMA TableType ==
    ASSUME NEW t, GoodTable(t), DOMAIN t \subseteq Nlris,
           \A n \in Nlris : \A a \in PathsOf(t, n) : a \in Routes
    PROVE  \A n \in DOMAIN t : t[n] \in Seq(Routes)
  BY ListOfRoutes DEF GoodTable, PathsOf

\* A path appended to a list adds itself and nothing else.
LEMMA Appended ==
    ASSUME NEW S, NEW s \in Seq(S), NEW x \in S
    PROVE  /\ Append(s, x) \in Seq(S) /\ Append(s, x) # <<>>
           /\ DOMAIN s = 1..Len(s) /\ Len(s) \in Nat
           /\ DOMAIN Append(s, x) = 1..(Len(s) + 1)
           /\ Append(s, x)[Len(s) + 1] = x
           /\ \A i \in DOMAIN s : i \in DOMAIN Append(s, x) /\ Append(s, x)[i] = s[i]
           /\ \A i \in DOMAIN Append(s, x) : i = Len(s) + 1 \/ i \in DOMAIN s
<1>1. /\ Append(s, x) \in Seq(S) /\ Len(Append(s, x)) = Len(s) + 1
      /\ Append(s, x)[Len(s) + 1] = x /\ Append(s, x) # <<>>
      /\ \A i \in 1..Len(s) : Append(s, x)[i] = s[i]
  BY AppendProperties
<1>2. DOMAIN s = 1..Len(s) /\ Len(s) \in Nat
      /\ DOMAIN Append(s, x) = 1..Len(Append(s, x))
  BY <1>1, LenProperties
<1> QED
  BY <1>1, <1>2

\* best_reachable() finds a path if one is reachable, and none is preferred to it.
LEMMA BestReachable ==
    ASSUME NEW s, IsPathList(s), Descending(s), \A a \in Elems(s) : a # None
    PROVE  /\ best_reachable(s) = None => \A a \in Elems(s) : ~has_route(a.next_hop)
           /\ best_reachable(s) # None =>
                /\ best_reachable(s) \in Elems(s) /\ has_route(best_reachable(s).next_hop)
                /\ \A a \in Elems(s) : has_route(a.next_hop) => ~Less(best_reachable(s), a)
<1> DEFINE R == {i \in DOMAIN s : has_route(s[i].next_hop)}
<1>1. R \subseteq Nat /\ IsFiniteSet(R)
  BY Positions
<1>2. best_reachable(s) = IF R = {} THEN None ELSE s[Nth(R, 1)]
  BY DEF best_reachable
<1>3. CASE R = {}
  BY <1>2, <1>3 DEF Elems
<1>4. CASE R # {}
  <2> DEFINE k == Nth(R, 1)
  <2>1. k \in R /\ \A i \in R : k <= i
    BY <1>1, <1>4, NthEnds
  <2>2. k \in DOMAIN s /\ has_route(s[k].next_hop) /\ best_reachable(s) = s[k]
    BY <1>2, <1>4, <2>1
  <2>3. s[k] \in Elems(s) /\ s[k] # None
    BY <2>2 DEF Elems
  <2>4. ASSUME NEW i \in DOMAIN s, has_route(s[i].next_hop) PROVE ~Less(s[k], s[i])
    <3>1. i \in R /\ k <= i /\ k \in Nat /\ i \in Nat
      BY <1>1, <2>1, <2>4
    <3>2. CASE k = i
      BY <2>3, <3>2, LessIrreflexive DEF IsPathList
    <3>3. CASE k < i
      BY <2>2, <3>3 DEF Descending
    <3> QED
      BY <3>1, <3>2, <3>3
  <2> QED
    BY <2>2, <2>3, <2>4 DEF Elems
<1> QED
  BY <1>3, <1>4

-----------------------------------------------------------------------------
(* Safe is inductive                                                       *)

\* The initial states satisfy Safe.
LEMMA SafeInit == Init => Safe
<1> SUFFICES ASSUME Init PROVE Safe
  OBVIOUS
<1> USE DEF Init
<1>1. TypeOK
  <2>1. PICK B \in BaseSets : kernel = Base(B)
    OBVIOUS
  <2>2. kernel \subseteq KernelRoutes
    BY <2>1, LocRibAssumption DEF Base, KernelRoutes, Prefixes
  <2> QED
    BY <2>2, LocRibAssumption DEF TypeOK, Managers
<1>2. MessagesOK
  BY LocRibAssumption DEF MessagesOK
<1>3. Places
  BY DEF Places
<1>4. TablesOK
  BY DEF TablesOK, GoodTable, PathsOf
<1> QED
  BY <1>1, <1>2, <1>3, <1>4 DEF Safe

\* What a peer's message does to its Adj-RIB-In, and which prefixes it crosses.
LEMMA Learnt ==
    ASSUME Safe, NEW p \in Peers, Learn(p)
    PROVE  \E m \in Updates :
             /\ WellFormed(m) /\ m.attr.peer_rid = p
             /\ pending' = [pending EXCEPT ![p] = m]
             /\ adjrib' = [adjrib EXCEPT ![p] = [n \in Nlris |->
                  IF Touches(m, n) THEN Outcome(m, n) ELSE adjrib[p][n]]]
             /\ crossed' \subseteq Peers \X Nlris
             /\ \A q \in Peers, n \in Nlris :
                  <<q, n>> \in crossed' <=>
                    IF q = p /\ Touches(m, n) THEN Crosses(m, n) ELSE <<q, n>> \in crossed
<1>1. PICK a \in {q \in Paths : q.peer_rid = p}, added \in SUBSET Nlris,
           withdrawn \in SUBSET Nlris, all \in BOOLEAN :
        /\ all => added = {} /\ withdrawn = {}
        /\ added = {} => a = CHOOSE q \in Paths : q.peer_rid = p
        /\ adjrib' = [adjrib EXCEPT ![p] = [n \in Nlris |->
             IF n \in added THEN Stamped(a, clock)
             ELSE IF all \/ n \in withdrawn THEN None ELSE @[n]]]
        /\ pending' = [pending EXCEPT ![p] =
             [attr |-> Stamped(a, clock), added |-> added,
              withdrawn |-> withdrawn, all |-> all]]
        /\ crossed' = {x \in crossed : x[1] # p \/ (~all /\ x[2] \notin added \cup withdrawn)}
                        \cup {p} \X (added \cap withdrawn)
  BY Zenon DEF Learn
<1> USE DEF Safe
<1> DEFINE m == [attr |-> Stamped(a, clock), added |-> added,
                 withdrawn |-> withdrawn, all |-> all]
<1>2. clock \in 0..MaxUpdates
  BY DEF TypeOK
<1>3. Stamped(a, clock) \in Routes /\ Stamped(a, clock).peer_rid = p
  BY <1>1, <1>2, LocRibAssumption DEF Routes
<1>4. m \in Updates /\ m.attr.peer_rid = p /\ WellFormed(m)
  BY <1>1, <1>3 DEF Updates, WellFormed
<1>5. \A n \in Nlris : (IF Touches(m, n) THEN Outcome(m, n) ELSE adjrib[p][n])
         = IF n \in added THEN Stamped(a, clock)
           ELSE IF all \/ n \in withdrawn THEN None ELSE adjrib[p][n]
  BY DEF Touches, Outcome
<1>6. adjrib' = [adjrib EXCEPT ![p] = [n \in Nlris |->
             IF n \in added THEN Stamped(a, clock)
             ELSE IF all \/ n \in withdrawn THEN None ELSE adjrib[p][n]]]
  BY <1>1 DEF TypeOK
<1>7. adjrib' = [adjrib EXCEPT ![p] = [n \in Nlris |->
                  IF Touches(m, n) THEN Outcome(m, n) ELSE adjrib[p][n]]]
  BY <1>5, <1>6
<1>8. crossed' \subseteq Peers \X Nlris
  BY <1>1 DEF TypeOK
<1>9. ASSUME NEW q \in Peers, NEW n \in Nlris
      PROVE  <<q, n>> \in crossed' <=>
               IF q = p /\ Touches(m, n) THEN Crosses(m, n) ELSE <<q, n>> \in crossed
  <2>1. <<q, n>> \in crossed' <=>
          \/ <<q, n>> \in crossed /\ (q # p \/ (~all /\ n \notin added \cup withdrawn))
          \/ q = p /\ n \in added /\ n \in withdrawn
    BY <1>1
  <2>2. Touches(m, n) <=> all \/ n \in added \/ n \in withdrawn
    BY DEF Touches
  <2>3. Crosses(m, n) <=> n \in added /\ n \in withdrawn
    BY DEF Crosses
  <2> QED
    BY <2>1, <2>2, <2>3
<1> HIDE DEF m
<1> QED
  BY <1>1, <1>4, <1>7, <1>8, <1>9 DEF m

\* Learn preserves Safe.
LEMMA LearnSafe ==
    ASSUME Safe, NEW p \in Peers, Learn(p)
    PROVE  Safe'
<1> USE DEF Safe
<1>1. PICK m \in Updates :
        /\ WellFormed(m) /\ m.attr.peer_rid = p
        /\ pending' = [pending EXCEPT ![p] = m]
        /\ adjrib' = [adjrib EXCEPT ![p] = [n \in Nlris |->
             IF Touches(m, n) THEN Outcome(m, n) ELSE adjrib[p][n]]]
        /\ crossed' \subseteq Peers \X Nlris
  BY Learnt
<1>2. clock' \in 0..MaxUpdates
  BY LocRibAssumption DEF Learn, TypeOK
<1>3. \A n \in Nlris : Outcome(m, n) \in Routes \cup {None}
  BY DEF Outcome, Updates
<1>4. adjrib' \in [Peers -> [Nlris -> Routes \cup {None}]]
  BY <1>1, <1>3 DEF TypeOK
<1>5. pending' \in [Peers -> Updates \cup {None}] /\ pending'[p] = m
      /\ \A q \in Peers : q # p => pending'[q] = pending[q]
  BY <1>1 DEF TypeOK
<1>6. TypeOK'
  BY <1>1, <1>2, <1>4, <1>5 DEF TypeOK, Learn, ribvars, fibvars, envvars
<1>7. MessagesOK'
  BY <1>1, <1>5 DEF MessagesOK, Learn, ribvars
<1>8. Places'
  BY DEF Places, Learn, ribvars, fibvars
<1>9. TablesOK'
  BY DEF TablesOK, Learn, ribvars
<1> QED
  BY <1>6, <1>7, <1>8, <1>9

\* Deliver preserves Safe.
LEMMA DeliverSafe ==
    ASSUME Safe, NEW p \in Peers, Deliver(p)
    PROVE  Safe'
<1> USE DEF Safe
<1>1. pending[p] \in Updates /\ WellFormed(pending[p]) /\ ribq \in Seq(Updates)
  BY DEF TypeOK, Deliver, MessagesOK
<1>2. ribq' \in Seq(Updates)
      /\ \A i \in DOMAIN ribq' : ribq'[i] = pending[p] \/ (i \in DOMAIN ribq /\ ribq'[i] = ribq[i])
  <2>1. ribq' = Append(ribq, pending[p])
    BY DEF Deliver
  <2> QED
    BY <1>1, <2>1, Appended
<1>3. pending' \in [Peers -> Updates \cup {None}] /\ pending'[p] = None
      /\ \A q \in Peers : q # p => pending'[q] = pending[q]
  BY DEF TypeOK, Deliver
<1>4. TypeOK'
  BY <1>2, <1>3 DEF TypeOK, Deliver, ribvars, fibvars, envvars
<1>5. MessagesOK'
  <2>1. \A i \in DOMAIN ribq' : WellFormed(ribq'[i])
    BY <1>1, <1>2 DEF MessagesOK
  <2> QED
    BY <1>3, <2>1 DEF MessagesOK, Deliver, ribvars
<1>6. Places'
  BY DEF Places, Deliver, ribvars, fibvars
<1>7. TablesOK'
  BY DEF TablesOK, Deliver, ribvars
<1> QED
  BY <1>4, <1>5, <1>6, <1>7

\* RibRecv preserves Safe.
LEMMA RibRecvSafe ==
    ASSUME Safe, RibRecv
    PROVE  Safe'
<1> USE DEF Safe
<1>1. ribq \in Seq(Updates) /\ ribq # <<>>
  BY DEF TypeOK, RibRecv
<1>2. ribq' \in Seq(Updates) /\ ev' = ribq[1] /\ 1 \in DOMAIN ribq
      /\ \A i \in DOMAIN ribq' : i + 1 \in DOMAIN ribq /\ ribq'[i] = ribq[i + 1]
  BY <1>1, HeadTailProperties, LenProperties DEF RibRecv
<1>3. ev' \in Updates /\ WellFormed(ev') /\ ev' # None
  BY <1>2, LocRibAssumption DEF MessagesOK, WellFormed
<1>4. modified' = <<>> /\ rpc' \in {"lockadd", "lockwd", "report"}
  BY DEF RibRecv
<1>5. TypeOK'
  BY <1>2, <1>3, <1>4 DEF TypeOK, RibRecv, peervars, fibvars, envvars
<1>6. MessagesOK'
  BY <1>2, <1>3 DEF MessagesOK, RibRecv, peervars
<1>7. Places'
  BY <1>3, <1>4 DEF Places, RibRecv, fibvars
<1>8. TablesOK'
  BY <1>4 DEF TablesOK, RibRecv
<1> QED
  BY <1>5, <1>6, <1>7, <1>8

\* LockAdd preserves Safe.
LEMMA LockAddSafe ==
    ASSUME Safe, LockAdd
    PROVE  Safe'
<1> USE DEF Safe
<1>1. ev \in Updates /\ ev.added \subseteq Nlris
  BY DEF TypeOK, LockAdd, Places, Updates
<1>2. TypeOK'
  BY <1>1 DEF TypeOK, LockAdd, peervars, fibvars, envvars, Managers
<1>3. MessagesOK'
  BY DEF MessagesOK, LockAdd, peervars
<1>4. Places'
  BY DEF Places, LockAdd, fibvars
<1>5. TablesOK'
  BY DEF TablesOK, LockAdd
<1> QED
  BY <1>2, <1>3, <1>4, <1>5

\* What best_reachable() finds in the entry of a prefix.
LEMMA BestOfEntry ==
    ASSUME TablesOK, NEW n \in DOMAIN rib
    PROVE  /\ best_reachable(rib[n]) \in Routes \cup {None}
           /\ best_reachable(rib[n]) = None =>
                \A a \in PathsOf(rib, n) : ~has_route(a.next_hop)
           /\ best_reachable(rib[n]) # None =>
                /\ best_reachable(rib[n]) \in PathsOf(rib, n)
                /\ has_route(best_reachable(rib[n]).next_hop)
                /\ \A a \in PathsOf(rib, n) :
                     has_route(a.next_hop) => ~Less(best_reachable(rib[n]), a)
<1>1. IsPathList(rib[n]) /\ Descending(rib[n]) /\ PathsOf(rib, n) = Elems(rib[n])
  BY DEF TablesOK, GoodTable, PathsOf
<1>2. \A a \in PathsOf(rib, n) : a \in Routes /\ a # None
  BY RouteIsPath DEF TablesOK
<1> QED
  BY <1>1, <1>2, BestReachable

\* The table after a usable path of the event at hand was added.
LEMMA TableAdded ==
    ASSUME TablesOK, NEW n \in Nlris, ev.attr \in Routes, is_valid(ev.attr),
           rib' = Inserted(rib, n, ev.attr)
    PROVE  /\ GoodTable(rib') /\ DOMAIN rib' \subseteq Nlris
           /\ \A m \in Nlris : \A a \in PathsOf(rib', m) : a \in Routes /\ is_valid(a)
           /\ \A m \in DOMAIN rib' : rib'[m] \in Seq(Routes)
           /\ PathsOf(rib', n) = PathsOf(rib, n) \cup {ev.attr}
           /\ \A m : m # n => PathsOf(rib', m) = PathsOf(rib, m)
<1>1. GoodTable(rib) /\ DOMAIN rib \subseteq Nlris /\ IsPath(ev.attr)
  BY RouteIsPath DEF TablesOK
<1>2. /\ GoodTable(rib') /\ DOMAIN rib' \subseteq Nlris
      /\ PathsOf(rib', n) = PathsOf(rib, n) \cup {ev.attr}
      /\ \A m : m # n => PathsOf(rib', m) = PathsOf(rib, m)
  <2>1. GoodTable(rib') /\ Adds(rib, rib', n, ev.attr)
    BY <1>1, InsertedTable
  <2> QED
    BY <1>1, <2>1 DEF Adds
<1>3. \A m \in Nlris : \A a \in PathsOf(rib', m) : a \in Routes /\ is_valid(a)
  BY <1>2 DEF TablesOK
<1>4. \A m \in DOMAIN rib' : rib'[m] \in Seq(Routes)
  BY <1>2, <1>3, TableType
<1> QED
  BY <1>2, <1>3, <1>4

\* A table without one peer's paths of a prefix is still a good table.
LEMMA TableWithdrawn ==
    ASSUME TablesOK, NEW n \in DOMAIN rib, NEW rid, rib' = Withdrawn(rib, n, rid)
    PROVE  /\ GoodTable(rib') /\ DOMAIN rib' \subseteq Nlris
           /\ \A m \in Nlris : \A a \in PathsOf(rib', m) : a \in Routes /\ is_valid(a)
           /\ \A m \in DOMAIN rib' : rib'[m] \in Seq(Routes)
           /\ PathsOf(rib', n) = {a \in PathsOf(rib, n) : a.peer_rid # rid}
           /\ \A m : m # n => PathsOf(rib', m) = PathsOf(rib, m)
<1>1. GoodTable(rib) /\ DOMAIN rib \subseteq Nlris
  BY DEF TablesOK
<1>2. /\ GoodTable(rib') /\ DOMAIN rib' \subseteq Nlris
      /\ PathsOf(rib', n) = {a \in PathsOf(rib, n) : a.peer_rid # rid}
      /\ \A m : m # n => PathsOf(rib', m) = PathsOf(rib, m)
  <2>1. GoodTable(rib') /\ Drops(rib, rib', n, rid)
    BY <1>1, WithdrawnTable
  <2> QED
    BY <1>1, <2>1 DEF Drops
<1>3. \A m \in Nlris : \A a \in PathsOf(rib', m) : a \in Routes /\ is_valid(a)
  BY <1>2 DEF TablesOK
<1>4. \A m \in DOMAIN rib' : rib'[m] \in Seq(Routes)
  BY <1>2, <1>3, TableType
<1> QED
  BY <1>2, <1>3, <1>4

\* While the RIB manager is at an event, the event is a message.
LEMMA EventType ==
    ASSUME Safe, rpc # "recv"
    PROVE  /\ ev \in Updates /\ ev # None /\ WellFormed(ev)
           /\ ev.attr \in Routes /\ ev.added \subseteq Nlris /\ ev.withdrawn \subseteq Nlris
           /\ ev.all \in BOOLEAN
<1>1. ev \in Updates /\ ev # None
  BY DEF Safe, TypeOK, Places
<1> QED
  BY <1>1 DEF Updates, Safe, MessagesOK

\* AddOne preserves Safe.
LEMMA AddOneSafe ==
    ASSUME Safe, AddOne
    PROVE  Safe'
<1> USE DEF Safe
<1>1. PICK n \in todo :
         \/ /\ ~is_valid(ev.attr)
            /\ todo' = todo \ {n}
            /\ UNCHANGED <<rib, cur, prev, rpc>>
         \/ /\ is_valid(ev.attr)
            /\ \/ n \notin DOMAIN rib /\ prev' = None
               \/ n \in DOMAIN rib /\ prev' = best_reachable(rib[n])
            /\ rib' = Inserted(rib, n, ev.attr)
            /\ cur' = n /\ rpc' = "reach" /\ UNCHANGED todo
  BY DEF AddOne
<1>2. rpc = "add" /\ n \in Nlris /\ ev.attr \in Routes
  BY EventType DEF AddOne, TypeOK
<1>3. CASE ~is_valid(ev.attr)
  <2>1. todo' = todo \ {n} /\ UNCHANGED <<rib, cur, prev, rpc>>
    BY <1>1, <1>3
  <2>2. TypeOK'
    BY <2>1 DEF TypeOK, AddOne, peervars, fibvars, envvars
  <2>3. MessagesOK'
    BY DEF MessagesOK, AddOne, peervars
  <2>4. Places'
    BY <2>1, <1>2 DEF Places, AddOne, fibvars
  <2>5. TablesOK'
    BY <2>1, <1>2 DEF TablesOK, AddOne
  <2> QED
    BY <2>2, <2>3, <2>4, <2>5
<1>4. CASE is_valid(ev.attr)
  <2>1. /\ rib' = Inserted(rib, n, ev.attr)
        /\ cur' = n /\ rpc' = "reach" /\ UNCHANGED todo
    BY <1>1, <1>4
  <2>2. prev' \in Routes \cup {None}
    BY <1>1, <1>4, BestOfEntry
  <2>3. /\ GoodTable(rib') /\ DOMAIN rib' \subseteq Nlris
        /\ \A m \in Nlris : \A a \in PathsOf(rib', m) : a \in Routes /\ is_valid(a)
        /\ \A m \in DOMAIN rib' : rib'[m] \in Seq(Routes)
        /\ PathsOf(rib', n) = PathsOf(rib, n) \cup {ev.attr}
    BY <1>2, <1>4, <2>1, TableAdded
  <2>4. TypeOK'
    BY <1>2, <2>1, <2>2, <2>3 DEF TypeOK, AddOne, peervars, fibvars, envvars
  <2>5. MessagesOK'
    BY DEF MessagesOK, AddOne, peervars
  <2>6. Places'
    BY <2>1, <1>2 DEF Places, AddOne, fibvars
  <2>7. TablesOK'
    BY <1>4, <2>1, <2>3 DEF TablesOK, AddOne
  <2> QED
    BY <2>4, <2>5, <2>6, <2>7
<1> QED
  BY <1>3, <1>4

\* AddReach preserves Safe.
LEMMA AddReachSafe ==
    ASSUME Safe, AddReach
    PROVE  Safe'
<1> USE DEF Safe
<1> DEFINE S == Nlris \X (Routes \cup {None})
<1>1. ev.attr \in Routes /\ is_valid(ev.attr) /\ cur \in Nlris /\ modified \in Seq(S)
  BY EventType DEF AddReach, TypeOK, TablesOK, Places
<1>2. <<cur, ev.attr>> \in S
  BY <1>1
<1>3. modified' = modified \/ modified' = Append(modified, <<cur, ev.attr>>)
  BY DEF AddReach
<1> HIDE DEF S
<1>4. modified' \in Seq(S)
      /\ \A i \in DOMAIN modified' :
           \/ modified'[i] = <<cur, ev.attr>>
           \/ i \in DOMAIN modified /\ modified'[i] = modified[i]
  <2>1. CASE modified' = modified
    BY <1>1, <2>1
  <2>2. CASE modified' = Append(modified, <<cur, ev.attr>>)
    BY <1>1, <1>2, <2>2, Appended
  <2> QED
    BY <1>3, <2>1, <2>2
<1>5. \A i \in DOMAIN modified' : modified'[i][2] # None => is_valid(modified'[i][2])
  BY <1>1, <1>4 DEF TablesOK
<1>6. TypeOK'
  BY <1>4 DEF S, TypeOK, AddReach, peervars, fibvars, envvars
<1>7. MessagesOK'
  BY DEF MessagesOK, AddReach, peervars
<1>8. Places'
  BY DEF Places, AddReach, fibvars
<1>9. TablesOK'
  BY <1>5 DEF TablesOK, AddReach
<1> QED
  BY <1>6, <1>7, <1>8, <1>9

\* AddDone preserves Safe.
LEMMA AddDoneSafe ==
    ASSUME Safe, AddDone
    PROVE  Safe'
<1> USE DEF Safe
<1>1. rpc' \in {"lockwd", "report"}
  BY DEF AddDone, AfterAdd
<1>2. TypeOK'
  BY <1>1 DEF TypeOK, AddDone, Managers, peervars, fibvars, envvars
<1>3. MessagesOK'
  BY DEF MessagesOK, AddDone, peervars
<1>4. Places'
  BY <1>1 DEF Places, AddDone, fibvars
<1>5. TablesOK'
  BY <1>1 DEF TablesOK, AddDone
<1> QED
  BY <1>2, <1>3, <1>4, <1>5

\* LockWithdraw preserves Safe.
LEMMA LockWithdrawSafe ==
    ASSUME Safe, LockWithdraw
    PROVE  Safe'
<1> USE DEF Safe
<1>1. WellFormed(ev) /\ ev.withdrawn \subseteq Nlris
  BY EventType DEF LockWithdraw
<1>2. todo' \subseteq Nlris /\ todo' \cap ev.added \subseteq ev.withdrawn
  BY <1>1 DEF LockWithdraw, WellFormed, TypeOK
<1>3. TypeOK'
  BY <1>2 DEF TypeOK, LockWithdraw, Managers, peervars, fibvars, envvars
<1>4. MessagesOK'
  BY DEF MessagesOK, LockWithdraw, peervars
<1>5. Places'
  BY <1>2 DEF Places, LockWithdraw, fibvars
<1>6. TablesOK'
  BY DEF TablesOK, LockWithdraw
<1> QED
  BY <1>3, <1>4, <1>5, <1>6

\* WithdrawOne preserves Safe.
LEMMA WithdrawOneSafe ==
    ASSUME Safe, WithdrawOne
    PROVE  Safe'
<1> USE DEF Safe
<1> DEFINE S == Nlris \X (Routes \cup {None})
<1>1. PICK n \in todo :
         /\ todo' = todo \ {n}
         /\ \/ n \notin DOMAIN rib /\ UNCHANGED <<rib, modified>>
            \/ /\ n \in DOMAIN rib /\ rib' = Withdrawn(rib, n, ev.attr.peer_rid)
               /\ modified' = modified \/ modified' = Append(modified, <<n, None>>)
  BY DEF WithdrawOne
<1>2. n \in Nlris /\ <<n, None>> \in S /\ modified \in Seq(S)
  BY DEF TypeOK
<1> HIDE DEF S
<1>3. modified' \in Seq(S)
      /\ \A i \in DOMAIN modified' :
           \/ modified'[i] = <<n, None>>
           \/ i \in DOMAIN modified /\ modified'[i] = modified[i]
  <2>1. CASE modified' = modified
    BY <1>2, <2>1
  <2>2. CASE modified' = Append(modified, <<n, None>>)
    BY <1>2, <2>2, Appended
  <2> QED
    BY <1>1, <2>1, <2>2
<1>4. \A i \in DOMAIN modified' : modified'[i][2] # None => is_valid(modified'[i][2])
  BY <1>3 DEF TablesOK
<1>5. /\ GoodTable(rib') /\ DOMAIN rib' \subseteq Nlris
      /\ \A m \in Nlris : \A a \in PathsOf(rib', m) : a \in Routes /\ is_valid(a)
      /\ \A m \in DOMAIN rib' : rib'[m] \in Seq(Routes)
  <2>1. CASE n \notin DOMAIN rib
    BY <1>1, <2>1 DEF TablesOK, TypeOK
  <2>2. CASE n \in DOMAIN rib
    BY <1>1, <2>2, TableWithdrawn
  <2> QED
    BY <2>1, <2>2
<1>6. TypeOK'
  BY <1>1, <1>3, <1>5 DEF S, TypeOK, WithdrawOne, peervars, fibvars, envvars
<1>7. MessagesOK'
  BY DEF MessagesOK, WithdrawOne, peervars
<1>8. Places'
  BY <1>1 DEF Places, WithdrawOne, fibvars
<1>9. TablesOK'
  BY <1>4, <1>5 DEF TablesOK, WithdrawOne
<1> QED
  BY <1>6, <1>7, <1>8, <1>9

\* WithdrawDone preserves Safe.
LEMMA WithdrawDoneSafe ==
    ASSUME Safe, WithdrawDone
    PROVE  Safe'
<1> USE DEF Safe
<1>1. TypeOK'
  BY DEF TypeOK, WithdrawDone, Managers, peervars, fibvars, envvars
<1>2. MessagesOK'
  BY DEF MessagesOK, WithdrawDone, peervars
<1>3. Places'
  BY DEF Places, WithdrawDone, fibvars
<1>4. TablesOK'
  BY DEF TablesOK, WithdrawDone
<1> QED
  BY <1>1, <1>2, <1>3, <1>4

\* Report preserves Safe.
LEMMA ReportSafe ==
    ASSUME Safe, Report
    PROVE  Safe'
<1> USE DEF Safe
<1>1. \/ rpc' = "recv" /\ ev' = None /\ modified' = <<>> /\ UNCHANGED fibq
      \/ fibq < FibCap /\ fibq' = fibq + 1 /\ rpc' = "tell" /\ UNCHANGED <<ev, modified>>
  BY DEF Report
<1>2. fibq' \in 0..FibCap
  BY <1>1, LocRibAssumption DEF TypeOK
<1>3. TypeOK'
  <2> DEFINE S == Nlris \X (Routes \cup {None})
  <2>a. ev \in Updates \cup {None} /\ modified \in Seq(S)
    BY DEF TypeOK
  <2> HIDE DEF S
  <2>b. ev' \in Updates \cup {None} /\ modified' \in Seq(S)
    <3>1. (ev' = None /\ modified' = <<>>) \/ (ev' = ev /\ modified' = modified)
      BY <1>1
    <3>2. <<>> \in Seq(S)
      BY EmptySeq
    <3> QED
      BY <2>a, <3>1, <3>2
  <2>1. ev' \in Updates \cup {None} /\ modified' \in Seq(Nlris \X (Routes \cup {None}))
    BY <2>b DEF S
  <2> QED
    BY <1>1, <1>2, <2>1 DEF TypeOK, Report, peervars, fibvars, envvars
<1>4. MessagesOK'
  BY <1>1 DEF MessagesOK, Report, peervars
<1>5. Places'
  BY <1>1 DEF Places, Report, fibvars
<1>6. TablesOK'
  BY <1>1 DEF TablesOK, Report
<1> QED
  BY <1>3, <1>4, <1>5, <1>6

\* What a neighbour ends up with of a prefix is the last entry for it.
LEMMA LastEntry ==
    ASSUME TypeOK, NEW n
    PROVE  LET about == {i \in DOMAIN modified : modified[i][1] = n}
               k == Nth(about, Cardinality(about))
           IN about # {} =>
                /\ k \in DOMAIN modified /\ modified[k][1] = n
                /\ \A j \in DOMAIN modified : j > k => modified[j][1] # n
<1> DEFINE about == {i \in DOMAIN modified : modified[i][1] = n}
           k == Nth(about, Cardinality(about))
<1>1. DOMAIN modified = 1..Len(modified) /\ Len(modified) \in Nat
  BY LenProperties DEF TypeOK
<1>2. about \subseteq Nat /\ IsFiniteSet(about) /\ about \subseteq DOMAIN modified
  BY <1>1, FirstNumbers, FS_Subset
<1>3. ASSUME about # {}
      PROVE  k \in about /\ \A i \in about : i <= k
  BY <1>2, <1>3, NthEnds
<1>4. ASSUME about # {}, NEW j \in DOMAIN modified, j > k PROVE modified[j][1] # n
  <2>1. k \in Nat /\ j \in Nat
    BY <1>1, <1>2, <1>3, <1>4
  <2>2. j \notin about
    BY <1>3, <1>4, <2>1
  <2> QED
    BY <2>2
<1> QED
  BY <1>3, <1>4

\* Tell preserves Safe.
LEMMA TellSafe ==
    ASSUME Safe, Tell
    PROVE  Safe'
<1> USE DEF Safe
<1>1. \A n \in Nlris :
        \/ told'[n] = told[n]
        \/ \E k \in DOMAIN modified : told'[n] = modified[k][2]
  <2> SUFFICES ASSUME NEW n \in Nlris
               PROVE  \/ told'[n] = told[n]
                      \/ \E k \in DOMAIN modified : told'[n] = modified[k][2]
    OBVIOUS
  <2> DEFINE about == {i \in DOMAIN modified : modified[i][1] = n}
             k == Nth(about, Cardinality(about))
  <2>1. told'[n] = IF about = {} THEN told[n] ELSE modified[k][2]
    BY DEF Tell
  <2>2. about # {} => k \in DOMAIN modified
    <3>1. TypeOK
      OBVIOUS
    <3> QED
      BY ONLY <3>1, LastEntry
  <2> HIDE DEF about, k
  <2> QED
    BY <2>1, <2>2
<1>2. \A k \in DOMAIN modified : modified[k][2] \in Routes \cup {None}
  BY ElementOfSeq, LenProperties DEF TypeOK
<1>3. \A n \in Nlris : told'[n] \in Routes \cup {None}
  BY <1>1, <1>2 DEF TypeOK
<1>4. told' \in [Nlris -> Routes \cup {None}]
  BY <1>3 DEF Tell
<1>5. TypeOK'
  <2>1. modified' \in Seq(Nlris \X (Routes \cup {None}))
    BY EmptySeq DEF Tell
  <2> QED
    BY <1>4, <2>1 DEF TypeOK, Tell, peervars, fibvars, envvars
<1>6. MessagesOK'
  BY DEF MessagesOK, Tell, peervars
<1>7. Places'
  BY DEF Places, Tell, fibvars
<1>8. \A n \in Nlris : told'[n] # None => is_valid(told'[n])
  BY <1>1 DEF TablesOK
<1>9. TablesOK'
  BY <1>8 DEF TablesOK, Tell
<1> QED
  BY <1>5, <1>6, <1>7, <1>9

\* The FIB manager changes neither the events nor the table.
LEMMA FibMgrSafe ==
    ASSUME Safe, FibMgr
    PROVE  Safe'
<1> USE DEF Safe
<1> USE DEF peervars, ribvars, fibvars, envvars
<1>1. CASE FibRecv
  <2>1. fibq' \in 0..FibCap
    BY <1>1, LocRibAssumption DEF FibRecv, TypeOK
  <2>2. TypeOK'
    BY <1>1, <2>1 DEF TypeOK, FibRecv
  <2>3. Places'
    BY <1>1 DEF Places, FibRecv
  <2> QED
    BY <1>1, <2>2, <2>3 DEF FibRecv, MessagesOK, TablesOK
<1>2. CASE FibLock
  <2>1. TypeOK'
    BY <1>2 DEF TypeOK, FibLock
  <2>2. Places'
    BY <1>2 DEF Places, FibLock
  <2> QED
    BY <1>2, <2>1, <2>2 DEF FibLock, MessagesOK, TablesOK
<1>3. CASE Refresh
  <2>1. routes' \subseteq KernelRoutes /\ changes' \in 0..MaxChanges
    BY <1>3, LocRibAssumption DEF Refresh, TypeOK
  <2>2. TypeOK'
    BY <1>3, <2>1 DEF TypeOK, Refresh
  <2>3. Places'
    BY <1>3 DEF Places, Refresh
  <2> QED
    BY <1>3, <2>2, <2>3 DEF Refresh, MessagesOK, TablesOK
<1>4. CASE RefreshPanics
  <2>1. changes' \in 0..MaxChanges /\ fibq' \in 0..FibCap
    BY <1>4, LocRibAssumption DEF RefreshPanics, TypeOK
  <2>2. TypeOK'
    BY <1>4, <2>1 DEF TypeOK, RefreshPanics
  <2>3. Places'
    BY <1>4 DEF Places, RefreshPanics
  <2> QED
    BY <1>4, <2>2, <2>3 DEF RefreshPanics, MessagesOK, TablesOK
<1>5. CASE SyncSkipped
  <2>1. changes' \in 0..MaxChanges
    BY <1>5, LocRibAssumption DEF SyncSkipped, TypeOK
  <2>2. TypeOK'
    BY <1>5, <2>1 DEF TypeOK, SyncSkipped
  <2>3. Places'
    BY <1>5 DEF Places, SyncSkipped
  <2> QED
    BY <1>5, <2>2, <2>3 DEF SyncSkipped, MessagesOK, TablesOK
<1>6. CASE SyncLock
  <2>1. TypeOK'
    BY <1>6 DEF TypeOK, SyncLock, Managers
  <2>2. Places'
    BY <1>6 DEF Places, SyncLock
  <2> QED
    BY <1>6, <2>1, <2>2 DEF SyncLock, MessagesOK, TablesOK
<1>7. CASE Install
  <2>1. kernel' \subseteq KernelRoutes
    <3>1. PICK n \in left : kernel' = kernel
             \/ (Selected(n) # None /\ kernel' = add_route(n, Selected(n).next_hop))
      BY <1>7 DEF Install
    <3>2. CASE kernel' = kernel
      BY <3>2 DEF TypeOK
    <3>3. CASE Selected(n) # None /\ kernel' = add_route(n, Selected(n).next_hop)
      <4>1. n \in Nlris
        BY DEF TypeOK
      <4>2. n \in DOMAIN rib
        BY <1>7 DEF Install, Places
      <4>3. Selected(n) \in Routes
        BY <3>3, <4>2, BestOfEntry DEF Selected
      <4>4. [prefix |-> n, next_hop |-> Selected(n).next_hop] \in KernelRoutes
        BY <4>1, <4>3, RouteIsPath DEF KernelRoutes, Prefixes
      <4> QED
        BY <3>3, <4>4 DEF add_route, TypeOK
    <3> QED
      BY <3>1, <3>2, <3>3
  <2>2. TypeOK'
    <3>1. changes' \in 0..MaxChanges
      BY <1>7, LocRibAssumption DEF Install, TypeOK
    <3> QED
      BY <1>7, <2>1, <3>1 DEF TypeOK, Install
  <2>3. Places'
    BY <1>7 DEF Places, Install
  <2> QED
    BY <1>7, <2>2, <2>3 DEF Install, MessagesOK, TablesOK
<1>8. CASE SyncDone
  <2>1. TypeOK'
    BY <1>8 DEF TypeOK, SyncDone, Managers
  <2>2. Places'
    BY <1>8 DEF Places, SyncDone
  <2> QED
    BY <1>8, <2>1, <2>2 DEF SyncDone, MessagesOK, TablesOK
<1> QED
  BY <1>1, <1>2, <1>3, <1>4, <1>5, <1>6, <1>7, <1>8 DEF FibMgr

\* KernelChange preserves Safe.
LEMMA KernelChangeSafe ==
    ASSUME Safe, KernelChange
    PROVE  Safe'
<1> USE DEF Safe
<1>1. PICK B \in BaseSets : kernel' = {r \in kernel : r.prefix \in Nlris} \cup Base(B)
  BY DEF KernelChange
<1>2. kernel' \subseteq KernelRoutes
  BY <1>1, LocRibAssumption DEF Base, KernelRoutes, Prefixes, TypeOK
<1>3. changes' \in 0..MaxChanges
  BY LocRibAssumption DEF KernelChange, TypeOK
<1>4. TypeOK'
  BY <1>2, <1>3 DEF TypeOK, KernelChange, peervars, ribvars, fibvars
<1>5. Places'
  BY DEF Places, KernelChange, ribvars, fibvars
<1> QED
  BY <1>4, <1>5 DEF KernelChange, MessagesOK, TablesOK, peervars, ribvars, fibvars

\* RibMgr preserves Safe.
LEMMA RibMgrSafe ==
    ASSUME Safe, RibMgr
    PROVE  Safe'
  BY RibRecvSafe, LockAddSafe, AddOneSafe, AddReachSafe, AddDoneSafe, LockWithdrawSafe,
     WithdrawOneSafe, WithdrawDoneSafe, ReportSafe, TellSafe DEF RibMgr

\* Every step preserves Safe.
LEMMA SafeNext == Safe /\ [Next]_vars => Safe'
<1> SUFFICES ASSUME Safe, [Next]_vars PROVE Safe'
  OBVIOUS
<1>1. CASE Next
  BY <1>1, LearnSafe, DeliverSafe, RibMgrSafe, FibMgrSafe, KernelChangeSafe DEF Next
<1>2. CASE UNCHANGED vars
  <2> USE <1>2 DEF vars, peervars, ribvars, fibvars, envvars
  <2>1. TypeOK'
    BY DEF Safe, TypeOK
  <2>2. MessagesOK'
    BY DEF Safe, MessagesOK
  <2>3. Places'
    BY DEF Safe, Places
  <2>4. TablesOK'
    BY DEF Safe, TablesOK
  <2> QED
    BY <2>1, <2>2, <2>3, <2>4 DEF Safe
<1> QED
  BY <1>1, <1>2

\* Types, order, no empty entry and no looping path, at every step of both managers.
THEOREM SafeAlways == Spec => []Safe
  BY SafeInit, SafeNext, PTL DEF Spec

\* Every variable of the managers and of the channels keeps its type, the
\* channels' capacities included.
THEOREM TypesHold == Spec => []TypeOK
<1>1. Safe => TypeOK
  BY DEF Safe
<1> QED
  BY <1>1, SafeAlways, PTL

\* At every moment, also between two steps of loc_rib_added or loc_rib_withdraw,
\* the paths of each prefix are in order of preference.
THEOREM ListsStayOrdered == Spec => []Ordered
<1>1. Safe => Ordered
  BY DEF Safe, TablesOK, GoodTable, Ordered
<1> QED
  BY <1>1, SafeAlways, PTL

\* send_locrib's expect() cannot fail: a prefix of the table has a path.
THEOREM EntriesHavePaths == Spec => []NoEmptyEntry
<1>1. Safe => NoEmptyEntry
  BY DEF Safe, TablesOK, GoodTable, NoEmptyEntry
<1> QED
  BY <1>1, SafeAlways, PTL

\* No path that went through our AS enters the table or is told to a neighbour.
THEOREM LoopsAreRejected == Spec => []NoLoopedPath
<1>1. ASSUME Safe PROVE NoLoopedPath
  <2>1. \A n \in DOMAIN rib : \A i \in DOMAIN rib[n] : rib[n][i] \in PathsOf(rib, n)
    BY DEF PathsOf, Elems
  <2>2. DOMAIN rib \subseteq Nlris
    BY <1>1 DEF Safe, TypeOK
  <2>3. \A n \in DOMAIN rib : \A i \in DOMAIN rib[n] : ~rib[n][i].looped
    BY <1>1, <2>1, <2>2 DEF Safe, TablesOK, is_valid
  <2> QED
    BY <1>1, <2>3 DEF Safe, TablesOK, is_valid, NoLoopedPath
<1> QED
  BY <1>1, SafeAlways, PTL

-----------------------------------------------------------------------------
(* The Loc-RIB follows the Adj-RIBs-In                                     *)

InPending(p, n) == pending[p] # None /\ Touches(pending[p], n)
InQueue(p, n, i) == ribq[i].attr.peer_rid = p /\ Touches(ribq[i], n)

\* What the RIB manager still has to do for n of the event it is at.
Purge(n) == ev.all \/ n \in ev.withdrawn
InHand(p, n) ==
    /\ ev # None /\ ev.attr.peer_rid = p
    /\ \/ rpc = "lockadd" /\ Touches(ev, n)
       \/ rpc = "add" /\ (n \in todo \/ Purge(n))
       \/ rpc = "reach" /\ ((n \in todo /\ n # cur) \/ Purge(n))
       \/ rpc = "lockwd" /\ Purge(n)
       \/ rpc = "withdraw" /\ n \in todo

\* The Adj-RIB-In and crossed are as message m leaves them.
Decided(p, n, m) ==
    adjrib[p][n] = Outcome(m, n) /\ (<<p, n>> \in crossed <=> Crosses(m, n))

Agrees(p, n) ==
    /\ Present(p, n) => adjrib[p][n] # None /\ <<p, n>> \notin crossed
    /\ adjrib[p][n] # None /\ is_valid(adjrib[p][n]) /\ <<p, n>> \notin crossed
         => Present(p, n)

Settled(p, n) == IF InHand(p, n) THEN Decided(p, n, ev) ELSE Agrees(p, n)

\* The last message of p that touches n decides what its Adj-RIB-In holds; once
\* there is none left, the Loc-RIB agrees with it.
FollowsAt(p, n) ==
    /\ InPending(p, n) => Decided(p, n, pending[p])
    /\ ~InPending(p, n) =>
         /\ \A i \in DOMAIN ribq :
              InQueue(p, n, i) /\ (\A j \in DOMAIN ribq : j > i => ~InQueue(p, n, j))
                => Decided(p, n, ribq[i])
         /\ (\A i \in DOMAIN ribq : ~InQueue(p, n, i)) => Settled(p, n)

Follows == \A p \in Peers, n \in Nlris : FollowsAt(p, n)

\* The Loc-RIB has a path of a peer for a prefix if one of the prefix's paths is.
LEMMA PresentPaths ==
    ASSUME NEW p, NEW n
    PROVE  /\ Present(p, n) <=> \E a \in PathsOf(rib, n) : a.peer_rid = p
           /\ Present(p, n)' <=> \E a \in PathsOf(rib', n) : a.peer_rid = p
  BY DEF Present, PathsOf, Elems

\* The initial states satisfy Follows.
LEMMA FollowsInit == Init => Follows
<1> SUFFICES ASSUME Init, NEW p \in Peers, NEW n \in Nlris PROVE FollowsAt(p, n)
  BY DEF Follows
<1>1. /\ pending[p] = None /\ ribq = <<>> /\ adjrib[p][n] = None /\ ev = None
      /\ DOMAIN rib = {}
  BY DEF Init
<1> QED
  BY <1>1 DEF FollowsAt, InPending, Settled, InHand, Agrees, Present

\* Who leaves the channel and the Adj-RIBs-In alone has the event at hand to see to.
LEMMA OnlyTheEvent ==
    ASSUME Follows, NEW p \in Peers, NEW n \in Nlris,
           UNCHANGED <<adjrib, crossed, pending, ribq>>,
           Settled(p, n) => Settled(p, n)'
    PROVE  FollowsAt(p, n)'
<1>1. FollowsAt(p, n)
  BY DEF Follows
<1>2. /\ InPending(p, n)' <=> InPending(p, n)
      /\ \A i \in DOMAIN ribq : InQueue(p, n, i)' <=> InQueue(p, n, i)
  BY DEF InPending, InQueue
<1> QED
  BY <1>1, <1>2 DEF FollowsAt, Decided

\* Learn preserves Follows.
LEMMA LearnFollows ==
    ASSUME Safe, Follows, NEW q \in Peers, Learn(q)
    PROVE  Follows'
<1> SUFFICES ASSUME NEW p \in Peers, NEW n \in Nlris PROVE FollowsAt(p, n)'
  BY DEF Follows
<1>1. FollowsAt(p, n)
  BY DEF Follows
<1>2. UNCHANGED <<ribq, rib, rpc, ev, todo, cur>>
  BY DEF Learn, ribvars
<1>3. /\ \A i \in DOMAIN ribq : InQueue(p, n, i)' <=> InQueue(p, n, i)
      /\ InHand(p, n)' <=> InHand(p, n)
      /\ Present(p, n)' <=> Present(p, n)
  BY <1>2 DEF InQueue, InHand, Purge, Present
<1>4. PICK m \in Updates :
        /\ pending' = [pending EXCEPT ![q] = m]
        /\ adjrib' = [adjrib EXCEPT ![q] = [k \in Nlris |->
             IF Touches(m, k) THEN Outcome(m, k) ELSE adjrib[q][k]]]
        /\ <<p, n>> \in crossed' <=>
             IF p = q /\ Touches(m, n) THEN Crosses(m, n) ELSE <<p, n>> \in crossed
  BY Learnt
<1>5. adjrib \in [Peers -> [Nlris -> Routes \cup {None}]]
      /\ pending \in [Peers -> Updates \cup {None}]
  BY DEF Safe, TypeOK
<1>6. CASE p # q
  <2>1. pending'[p] = pending[p] /\ adjrib'[p] = adjrib[p]
        /\ (<<p, n>> \in crossed' <=> <<p, n>> \in crossed)
    BY <1>4, <1>5, <1>6
  <2>2. InPending(p, n)' <=> InPending(p, n)
    BY <2>1 DEF InPending
  <2> QED
    BY <1>1, <1>2, <1>3, <2>1, <2>2 DEF FollowsAt, Settled, Agrees, Decided
<1>7. CASE p = q
  <2>1. pending[p] = None /\ ~InPending(p, n)
    BY <1>7 DEF Learn, InPending
  <2>2. pending'[p] = m
    BY <1>4, <1>5, <1>7
  <2>3. adjrib'[p][n] = IF Touches(m, n) THEN Outcome(m, n) ELSE adjrib[p][n]
    BY <1>4, <1>5, <1>7
  <2>4. pending'[p] # None
    BY <2>2, LocRibAssumption
  <2>5. CASE Touches(m, n)
    BY <1>4, <1>7, <2>2, <2>3, <2>4, <2>5 DEF FollowsAt, InPending, Decided
  <2>6. CASE ~Touches(m, n)
    <3>1. adjrib'[p][n] = adjrib[p][n] /\ (<<p, n>> \in crossed' <=> <<p, n>> \in crossed)
      BY <1>4, <2>3, <2>6
    <3>2. ~InPending(p, n)'
      BY <2>2, <2>6 DEF InPending
    <3> QED
      BY <1>1, <1>2, <1>3, <2>1, <3>1, <3>2 DEF FollowsAt, Settled, Agrees, Decided
  <2> QED
    BY <2>5, <2>6
<1> QED
  BY <1>6, <1>7

\* Deliver preserves Follows.
LEMMA DeliverFollows ==
    ASSUME Safe, Follows, NEW q \in Peers, Deliver(q)
    PROVE  Follows'
<1> SUFFICES ASSUME NEW p \in Peers, NEW n \in Nlris PROVE FollowsAt(p, n)'
  BY DEF Follows
<1>1. FollowsAt(p, n)
  BY DEF Follows
<1>2. UNCHANGED <<adjrib, crossed, rib, rpc, ev, todo, cur>>
  BY DEF Deliver, ribvars
<1>3. /\ Settled(p, n)' <=> Settled(p, n)
      /\ \A m : Decided(p, n, m)' <=> Decided(p, n, m)
  BY <1>2 DEF Settled, InHand, Purge, Agrees, Present, Decided
<1>k. PICK k : k = Len(ribq) + 1
  OBVIOUS
<1>m. PICK m : m = pending[q]
  OBVIOUS
<1>4. m \in Updates /\ pending[q] = m /\ m # None /\ m.attr.peer_rid = q
      /\ ribq \in Seq(Updates) /\ ribq' = Append(ribq, m)
  BY <1>m DEF Safe, TypeOK, MessagesOK, Deliver
<1>5. /\ DOMAIN ribq = 1..Len(ribq) /\ Len(ribq) \in Nat
      /\ DOMAIN ribq' = 1..k /\ ribq'[k] = m
      /\ \A i \in DOMAIN ribq : i \in DOMAIN ribq' /\ ribq'[i] = ribq[i]
      /\ \A i \in DOMAIN ribq' : i = k \/ i \in DOMAIN ribq
  BY <1>k, <1>4, Appended
<1>6. k \in DOMAIN ribq' /\ k \in Nat /\ \A i \in DOMAIN ribq : k > i /\ ~(i > k)
  BY <1>k, <1>5
<1>7. /\ \A i \in DOMAIN ribq : InQueue(p, n, i)' <=> InQueue(p, n, i)
      /\ InQueue(p, n, k)' <=> p = q /\ Touches(m, n)
  BY <1>4, <1>5 DEF InQueue
<1>8. pending'[q] = None /\ (p # q => pending'[p] = pending[p])
  BY DEF Deliver, Safe, TypeOK
<1>9. InPending(p, n)' <=> InPending(p, n) /\ p # q
  BY <1>8 DEF InPending
<1>10. CASE InQueue(p, n, k)'
  <2>1. Decided(p, n, m)' /\ p = q
    BY <1>1, <1>3, <1>4, <1>7, <1>10 DEF FollowsAt, InPending
  <2>2. ~InPending(p, n)'
    BY <1>9, <2>1
  <2>3. ASSUME NEW i \in DOMAIN ribq', \A j \in DOMAIN ribq' : j > i => ~InQueue(p, n, j)'
        PROVE  i = k
    BY <1>5, <1>6, <1>10, <2>3
  <2>4. \A i \in DOMAIN ribq' :
           InQueue(p, n, i)' /\ (\A j \in DOMAIN ribq' : j > i => ~InQueue(p, n, j)')
             => Decided(p, n, ribq[i])'
    <3>1. Decided(p, n, ribq[k])'
      BY <1>5, <2>1 DEF Decided
    <3> QED
      BY <2>3, <3>1
  <2> QED
    BY <1>6, <1>10, <2>2, <2>4 DEF FollowsAt
<1>11. CASE ~InQueue(p, n, k)'
  <2>1. InPending(p, n)' <=> InPending(p, n)
    BY <1>4, <1>7, <1>9, <1>11 DEF InPending
  <2>2. InPending(p, n) => pending'[p] = pending[p]
    BY <1>8, <1>9, <2>1
  <2>3. ASSUME ~InPending(p, n), NEW i \in DOMAIN ribq', InQueue(p, n, i)',
               \A j \in DOMAIN ribq' : j > i => ~InQueue(p, n, j)'
        PROVE  Decided(p, n, ribq[i])'
    <3>1. i \in DOMAIN ribq /\ InQueue(p, n, i) /\ ribq'[i] = ribq[i]
      BY <1>5, <1>7, <1>11, <2>3
    <3>2. \A j \in DOMAIN ribq : j > i => ~InQueue(p, n, j)
      BY <1>5, <1>7, <2>3
    <3>3. Decided(p, n, ribq[i])
      BY <1>1, <2>3, <3>1, <3>2 DEF FollowsAt
    <3> QED
      BY <1>2, <3>1, <3>3 DEF Decided
  <2>4. ASSUME ~InPending(p, n), \A i \in DOMAIN ribq' : ~InQueue(p, n, i)'
        PROVE  Settled(p, n)'
    BY <1>1, <1>3, <1>5, <1>7, <2>4 DEF FollowsAt
  <2>5. InPending(p, n) => Decided(p, n, pending[p])'
    BY <1>1, <1>2, <2>2 DEF FollowsAt, Decided
  <2> QED
    BY <2>1, <2>3, <2>4, <2>5 DEF FollowsAt
<1> QED
  BY <1>10, <1>11

\* RibRecv preserves Follows.
LEMMA RibRecvFollows ==
    ASSUME Safe, Follows, RibRecv
    PROVE  Follows'
<1> SUFFICES ASSUME NEW p \in Peers, NEW n \in Nlris PROVE FollowsAt(p, n)'
  BY DEF Follows
<1>1. FollowsAt(p, n)
  BY DEF Follows
<1>2. UNCHANGED <<adjrib, crossed, pending, rib>> /\ rpc = "recv" /\ ev = None
  BY DEF RibRecv, peervars, Safe, Places
<1>3. ribq \in Seq(Updates) /\ ribq # <<>>
  BY DEF RibRecv, Safe, TypeOK
<1>4. /\ ribq' \in Seq(Updates) /\ ev' = ribq[1] /\ 1 \in DOMAIN ribq
      /\ DOMAIN ribq = 1..Len(ribq) /\ Len(ribq) \in Nat
      /\ DOMAIN ribq' = 1..(Len(ribq) - 1)
      /\ \A i \in DOMAIN ribq' : ribq'[i] = ribq[i + 1]
  BY <1>3, HeadTailProperties, LenProperties DEF RibRecv
<1>5. /\ \A i \in DOMAIN ribq' : i \in Nat /\ i + 1 \in DOMAIN ribq
      /\ \A i \in DOMAIN ribq : i \in Nat /\ (i > 1 => i - 1 \in DOMAIN ribq')
  BY <1>4
<1>6. \A i \in DOMAIN ribq' : InQueue(p, n, i)' <=> InQueue(p, n, i + 1)
  BY <1>4 DEF InQueue
<1>7. InPending(p, n)' <=> InPending(p, n)
  BY <1>2 DEF InPending
<1>8. WellFormed(ribq[1]) /\ ribq[1] # None
  BY <1>4, LocRibAssumption DEF Safe, MessagesOK, WellFormed
<1>9. InHand(p, n)' <=> InQueue(p, n, 1)
  BY <1>4, <1>8 DEF InHand, InQueue, Touches, Purge, RibRecv
<1>10. ASSUME ~InPending(p, n), NEW i \in DOMAIN ribq', InQueue(p, n, i)',
              \A j \in DOMAIN ribq' : j > i => ~InQueue(p, n, j)'
       PROVE  Decided(p, n, ribq[i])'
  <2>1. i + 1 \in DOMAIN ribq /\ InQueue(p, n, i + 1) /\ i \in Nat
    BY <1>5, <1>6, <1>10
  <2>2. ASSUME NEW j \in DOMAIN ribq, j > i + 1 PROVE ~InQueue(p, n, j)
    <3>1. j \in Nat /\ j > 1 /\ j - 1 > i /\ (j - 1) + 1 = j
      BY <1>5, <2>1, <2>2
    <3>2. j - 1 \in DOMAIN ribq'
      BY <1>5, <3>1
    <3>3. InQueue(p, n, j - 1)' <=> InQueue(p, n, j)
      BY <1>6, <3>1, <3>2
    <3> QED
      BY <1>10, <3>1, <3>2, <3>3
  <2>3. Decided(p, n, ribq[i + 1])
    BY <1>1, <1>10, <2>1, <2>2 DEF FollowsAt
  <2> QED
    BY <1>2, <1>4, <2>3 DEF Decided
<1>11. ASSUME ~InPending(p, n), \A i \in DOMAIN ribq' : ~InQueue(p, n, i)'
       PROVE  Settled(p, n)'
  <2>1. ASSUME NEW j \in DOMAIN ribq, j > 1 PROVE ~InQueue(p, n, j)
    <3>1. j \in Nat /\ (j - 1) + 1 = j /\ j - 1 \in DOMAIN ribq'
      BY <1>5, <2>1
    <3>2. InQueue(p, n, j - 1)' <=> InQueue(p, n, j)
      BY <1>6, <3>1
    <3> QED
      BY <1>11, <3>1, <3>2
  <2>2. CASE InQueue(p, n, 1)
    <3>1. Decided(p, n, ribq[1])
      BY <1>1, <1>4, <1>11, <2>1, <2>2 DEF FollowsAt
    <3> QED
      BY <1>2, <1>4, <1>9, <2>2, <3>1 DEF Settled, Decided
  <2>3. CASE ~InQueue(p, n, 1)
    <3>1. \A j \in DOMAIN ribq : j = 1 \/ j > 1
      BY <1>4
    <3>2. \A j \in DOMAIN ribq : ~InQueue(p, n, j)
      BY <2>1, <2>3, <3>1
    <3>3. Settled(p, n) /\ ~InHand(p, n)
      BY <1>1, <1>2, <1>11, <3>2 DEF FollowsAt, InHand
    <3> QED
      BY <1>2, <1>9, <2>3, <3>3 DEF Settled, Agrees, Present
  <2> QED
    BY <2>2, <2>3
<1> QED
  BY <1>1, <1>2, <1>7, <1>10, <1>11 DEF FollowsAt, Decided

\* AddOne preserves Follows.
LEMMA AddOneFollows ==
    ASSUME Safe, AddOne, NEW p \in Peers, NEW n \in Nlris, Settled(p, n)
    PROVE  Settled(p, n)'
<1>1. PICK k \in todo :
         \/ /\ ~is_valid(ev.attr)
            /\ todo' = todo \ {k}
            /\ UNCHANGED <<rib, cur, prev, rpc>>
         \/ /\ is_valid(ev.attr)
            /\ rib' = Inserted(rib, k, ev.attr)
            /\ cur' = k /\ rpc' = "reach" /\ UNCHANGED todo
  BY DEF AddOne
<1>2. UNCHANGED <<ev, adjrib, crossed>> /\ rpc = "add" /\ k \in Nlris /\ k \in ev.added
      /\ ev.attr \in Routes /\ ev # None
  BY EventType DEF AddOne, peervars, Safe, TypeOK, Places
<1>3. UNCHANGED Purge(n) /\ (Decided(p, n, ev)' <=> Decided(p, n, ev))
  BY <1>2 DEF Purge, Decided, Outcome, Crosses
<1>4. /\ is_valid(ev.attr) =>
           /\ PathsOf(rib', k) = PathsOf(rib, k) \cup {ev.attr}
           /\ n # k => PathsOf(rib', n) = PathsOf(rib, n)
      /\ ~is_valid(ev.attr) => UNCHANGED rib
  BY <1>1, <1>2, TableAdded DEF Safe
<1>5. CASE n # k \/ ev.attr.peer_rid # p
  <2>1. Present(p, n)' <=> Present(p, n)
    BY <1>4, <1>5, PresentPaths
  <2>2. InHand(p, n)' <=> InHand(p, n)
    BY <1>1, <1>2, <1>3, <1>5 DEF InHand
  <2> QED
    BY <1>2, <1>3, <2>1, <2>2 DEF Settled, Agrees
<1>6. CASE n = k /\ ev.attr.peer_rid = p /\ Purge(n)
  <2>1. InHand(p, n) /\ InHand(p, n)'
    BY <1>1, <1>2, <1>3, <1>6 DEF InHand
  <2> QED
    BY <1>3, <2>1 DEF Settled
<1>7. CASE n = k /\ ev.attr.peer_rid = p /\ ~Purge(n)
  <2>1. InHand(p, n) /\ ~InHand(p, n)'
    BY <1>1, <1>2, <1>3, <1>7 DEF InHand
  <2>2. adjrib[p][n] = ev.attr /\ ev.attr # None /\ <<p, n>> \notin crossed
    BY <1>2, <1>7, <2>1, RouteIsPath DEF Settled, Decided, Outcome, Crosses, Purge
  <2>3. is_valid(ev.attr) => Present(p, n)'
    BY <1>4, <1>7, PresentPaths
  <2> QED
    BY <1>2, <2>1, <2>2, <2>3 DEF Settled, Agrees
<1> QED
  BY <1>5, <1>6, <1>7

\* LockWithdraw preserves Follows.
LEMMA LockWithdrawFollows ==
    ASSUME Safe, LockWithdraw, NEW p \in Peers, NEW n \in Nlris, Settled(p, n)
    PROVE  Settled(p, n)'
<1>1. UNCHANGED <<ev, adjrib, crossed, rib>> /\ rpc = "lockwd" /\ rpc' = "withdraw"
      /\ WellFormed(ev) /\ ev # None
      /\ todo' = IF ev.all
                 THEN {k \in DOMAIN rib : FromPeer(rib[k], ev.attr.peer_rid)}
                 ELSE ev.withdrawn
  BY EventType DEF LockWithdraw, peervars
<1>2. UNCHANGED Present(p, n) /\ (Decided(p, n, ev)' <=> Decided(p, n, ev))
  BY <1>1 DEF Decided, Outcome, Crosses, Present
<1>3. CASE InHand(p, n) <=> InHand(p, n)'
  BY <1>1, <1>2, <1>3 DEF Settled, Agrees
<1>4. CASE ~(InHand(p, n) <=> InHand(p, n)')
  <2>1. ev.all /\ n \notin todo' /\ InHand(p, n) /\ ~InHand(p, n)' /\ ev.attr.peer_rid = p
    BY <1>1, <1>4 DEF InHand, Purge
  <2>2. adjrib[p][n] = None
    BY <1>1, <2>1 DEF Settled, Decided, Outcome, WellFormed
  <2>3. ~Present(p, n)
    BY <1>1, <2>1 DEF Present, FromPeer, is_from_neighbor
  <2> QED
    BY <1>1, <1>2, <2>1, <2>2, <2>3 DEF Settled, Agrees
<1> QED
  BY <1>3, <1>4

\* WithdrawOne preserves Follows.
LEMMA WithdrawOneFollows ==
    ASSUME Safe, WithdrawOne, NEW p \in Peers, NEW n \in Nlris, Settled(p, n)
    PROVE  Settled(p, n)'
<1>1. PICK k \in todo :
         /\ todo' = todo \ {k}
         /\ \/ k \notin DOMAIN rib /\ UNCHANGED rib
            \/ k \in DOMAIN rib /\ rib' = Withdrawn(rib, k, ev.attr.peer_rid)
  BY DEF WithdrawOne
<1>2. UNCHANGED <<ev, adjrib, crossed, rpc>> /\ rpc = "withdraw" /\ ev # None
  BY DEF WithdrawOne, peervars, Safe, Places
<1>3. /\ \A a \in PathsOf(rib', k) : a.peer_rid # ev.attr.peer_rid
      /\ p # ev.attr.peer_rid => (Present(p, k)' <=> Present(p, k))
      /\ n # k => PathsOf(rib', n) = PathsOf(rib, n)
  <2>1. CASE k \notin DOMAIN rib
    <3>1. rib' = rib /\ PathsOf(rib, k) = {}
      BY <1>1, <2>1 DEF PathsOf
    <3> QED
      BY <3>1, PresentPaths
  <2>2. CASE k \in DOMAIN rib
    <3>1. /\ PathsOf(rib', k) = {a \in PathsOf(rib, k) : a.peer_rid # ev.attr.peer_rid}
          /\ \A m : m # k => PathsOf(rib', m) = PathsOf(rib, m)
      BY <1>1, <2>2, TableWithdrawn DEF Safe
    <3> QED
      BY <3>1, PresentPaths
  <2> QED
    BY <2>1, <2>2
<1>4. Decided(p, n, ev)' <=> Decided(p, n, ev)
  BY <1>2 DEF Decided, Outcome, Crosses
<1>5. CASE n # k \/ p # ev.attr.peer_rid
  <2>1. Present(p, n)' <=> Present(p, n)
    BY <1>3, <1>5, PresentPaths
  <2>2. InHand(p, n)' <=> InHand(p, n)
    BY <1>1, <1>2, <1>5 DEF InHand
  <2> QED
    BY <1>2, <1>4, <2>1, <2>2 DEF Settled, Agrees
<1>6. CASE n = k /\ p = ev.attr.peer_rid
  <2>1. InHand(p, n) /\ ~InHand(p, n)'
    BY <1>1, <1>2, <1>6 DEF InHand
  <2>2. ~Present(p, n)'
    BY <1>3, <1>6, PresentPaths
  <2>3. adjrib[p][n] # None => <<p, n>> \in crossed
    <3>1. n \in ev.added => n \in ev.withdrawn
      BY <1>1, <1>2, <1>6 DEF Safe, Places
    <3> QED
      BY <2>1, <3>1 DEF Settled, Decided, Outcome, Crosses
  <2> QED
    BY <1>2, <2>1, <2>2, <2>3 DEF Settled, Agrees
<1> QED
  BY <1>5, <1>6

\* RibMgr preserves Follows.
LEMMA RibMgrFollows ==
    ASSUME Safe, Follows, RibMgr
    PROVE  Follows'
<1>1. CASE RibRecv
  BY <1>1, RibRecvFollows
<1>2. CASE ~RibRecv
  <2>a. UNCHANGED <<adjrib, crossed, pending, ribq>>
    BY <1>2 DEF RibMgr, LockAdd, AddOne, AddReach, AddDone, LockWithdraw, WithdrawOne,
                WithdrawDone, Report, Tell, peervars
  <2> SUFFICES ASSUME NEW p \in Peers, NEW n \in Nlris, Settled(p, n)
               PROVE  Settled(p, n)'
    <3>1. \A p \in Peers, n \in Nlris : FollowsAt(p, n)'
      BY <2>a, OnlyTheEvent
    <3> QED
      BY <3>1 DEF Follows
  <2> USE DEF Settled, InHand, Agrees, Present, Purge, Decided, Outcome, Crosses, peervars
  <2>1. CASE LockAdd
    BY <2>1 DEF LockAdd, Touches
  <2>2. CASE AddOne
    <3> HIDE DEF Settled
    <3> QED
      BY <2>2, AddOneFollows DEF AddOne
  <2>3. CASE AddReach
    BY <2>3 DEF AddReach
  <2>4. CASE AddDone
    BY <2>4 DEF AddDone, AfterAdd
  <2>5. CASE LockWithdraw
    <3> HIDE DEF Settled
    <3> QED
      BY <2>5, LockWithdrawFollows DEF LockWithdraw
  <2>6. CASE WithdrawOne
    <3> HIDE DEF Settled
    <3> QED
      BY <2>6, WithdrawOneFollows DEF WithdrawOne
  <2>7. CASE WithdrawDone
    BY <2>7 DEF WithdrawDone
  <2>8. CASE Report
    BY <2>8 DEF Report
  <2>9. CASE Tell
    BY <2>9 DEF Tell
  <2> QED
    BY <1>2, <2>1, <2>2, <2>3, <2>4, <2>5, <2>6, <2>7, <2>8, <2>9 DEF RibMgr
<1> QED
  BY <1>1, <1>2

\* Every step preserves Follows.
LEMMA FollowsNext == Safe /\ Follows /\ [Next]_vars => Follows'
<1> SUFFICES ASSUME Safe, Follows, [Next]_vars PROVE Follows'
  OBVIOUS
<1>1. CASE \E p \in Peers : Learn(p) \/ Deliver(p)
  BY <1>1, LearnFollows, DeliverFollows
<1>2. CASE RibMgr
  BY <1>2, RibMgrFollows
<1>3. CASE FibMgr \/ KernelChange \/ UNCHANGED vars
  <2>1. UNCHANGED <<peervars, ribq, rib, ribvars>>
    BY <1>3 DEF FibMgr, FibRecv, FibLock, Refresh, RefreshPanics, SyncSkipped, SyncLock,
                Install, SyncDone, KernelChange, vars
  <2> SUFFICES ASSUME NEW p \in Peers, NEW n \in Nlris PROVE FollowsAt(p, n)'
    BY DEF Follows
  <2>2. Settled(p, n) => Settled(p, n)'
    BY <2>1 DEF Settled, InHand, Agrees, Present, Purge, Decided, Outcome, Crosses,
                 peervars, ribvars
  <2>3. UNCHANGED <<adjrib, crossed, pending, ribq>>
    BY <2>1 DEF peervars
  <2> QED
    BY <2>2, <2>3, OnlyTheEvent
<1> QED
  BY <1>1, <1>2, <1>3 DEF Next

\* The Loc-RIB, with the changes still on their way, is what each peer announced.
THEOREM FollowsAlways == Spec => []Follows
<1>1. Init => Safe /\ Follows
  BY SafeInit, FollowsInit
<1>2. Safe /\ Follows /\ [Next]_vars => (Safe /\ Follows)'
  BY SafeNext, FollowsNext
<1> QED
  BY <1>1, <1>2, PTL DEF Spec

\* Once nothing of a peer is on its way or half processed, the Loc-RIB holds
\* paths of it for exactly the prefixes its Adj-RIB-In has, but the rejected ones and
\* those its last UPDATE about them both withdrew and announced: for any number of
\* peers and messages, in any order of delivery.
THEOREM LocRibAgrees == Spec => []LocRibFollowsAdjRib
<1>1. ASSUME Follows PROVE LocRibFollowsAdjRib
  <2> SUFFICES ASSUME NEW p \in Peers, NEW n \in Nlris, Drained(p)
               PROVE  Agrees(p, n)
    BY DEF LocRibFollowsAdjRib, Agrees
  <2>1. FollowsAt(p, n)
    BY <1>1 DEF Follows
  <2>2. ~InPending(p, n) /\ (\A i \in DOMAIN ribq : ~InQueue(p, n, i)) /\ ~InHand(p, n)
    BY DEF Drained, InPending, InQueue, InHand
  <2> QED
    BY <2>1, <2>2 DEF FollowsAt, Settled
<1> QED
  BY <1>1, FollowsAlways, PTL

-----------------------------------------------------------------------------
(* What is told and installed while reachability does not change           *)

\* No prefix a peer announces contains a next hop: reachability is the business of
\* the kernel's other routes.
NextHopsOutside == \A n \in Nlris : Covers[n] = {}

\* As long as nothing else happens to the kernel, the snapshot lacks none of its
\* other routes and has none that it does not have.
Stable ==
    changes = 0 =>
        /\ fpc # "dead" /\ routes \subseteq kernel
        /\ \A r \in kernel : r.prefix \notin Nlris => r \in routes

Reachable(a) == has_route(a.next_hop)

\* The best path before the one that is being added.
PrevIsBest ==
    rpc = "reach" /\ changes = 0 =>
        IF prev = None THEN \A b \in PathsOf(rib, cur) : Reachable(b) => b = ev.attr
        ELSE /\ prev \in PathsOf(rib, cur) /\ Reachable(prev)
             /\ \A b \in PathsOf(rib, cur) :
                  Reachable(b) /\ b # ev.attr => ~Less(prev, b)

\* A report is of the best path, but for the one that is being added.
GoodReport(a, n) ==
    a # None =>
        /\ a \in PathsOf(rib, n) /\ Reachable(a)
        /\ \A b \in PathsOf(rib, n) :
             Reachable(b) /\ (rpc = "reach" /\ cur = n => b # ev.attr \/ b = prev)
               => ~Less(a, b)

LastAbout(i, n) ==
    modified[i][1] = n /\ \A j \in DOMAIN modified : j > i => modified[j][1] # n

ReportsAt(n) ==
    /\ \A i \in DOMAIN modified : LastAbout(i, n) => GoodReport(modified[i][2], n)
    /\ (\A i \in DOMAIN modified : modified[i][1] # n) => GoodReport(told[n], n)

ReportsAreGood == changes = 0 => \A n \in Nlris : ReportsAt(n)

Usable(n) == \E a \in PathsOf(rib, n) : Reachable(a)
Installed(n) == \E r \in kernel : r.prefix = n

\* A usable prefix that is not installed is on its way to the FIB manager, or in
\* its hands.
OnItsWay(n) ==
    \/ rpc = "reach" /\ cur = n /\ prev = None
    \/ modified # <<>> /\ rpc # "tell"
    \/ fibq > 0
    \/ fpc \in {"locksync", "refreshsync", "sync"}
    \/ fpc = "install" /\ n \in left

WillBeInstalled ==
    changes = 0 => \A n \in Nlris : Usable(n) /\ ~Installed(n) => OnItsWay(n)

Steady == Stable /\ PrevIsBest /\ ReportsAreGood /\ WillBeInstalled

\* The initial states satisfy Steady.
LEMMA SteadyInit == Init => Steady
<1> SUFFICES ASSUME Init PROVE Steady
  OBVIOUS
<1>1. /\ routes = kernel /\ fpc = "lock" /\ rpc = "recv" /\ modified = <<>>
      /\ \A n \in Nlris : told[n] = None /\ PathsOf(rib, n) = {}
  BY DEF Init, PathsOf
<1>2. Stable /\ PrevIsBest
  BY <1>1 DEF Stable, PrevIsBest
<1>3. ReportsAreGood
  BY <1>1 DEF ReportsAreGood, ReportsAt, GoodReport
<1>4. WillBeInstalled
  BY <1>1 DEF WillBeInstalled, Usable
<1> QED
  BY <1>2, <1>3, <1>4 DEF Steady

\* An error or a change that was counted stays counted.
LEMMA NoChangeYet ==
    ASSUME Safe, [Next]_vars, changes' = 0
    PROVE  /\ changes = 0 /\ UNCHANGED changes
           /\ ~KernelChange /\ ~RefreshPanics /\ ~SyncSkipped
           /\ Refresh => routes' = kernel
<1>1. changes \in Nat
  BY DEF Safe, TypeOK
<1>2. ~KernelChange /\ ~RefreshPanics /\ ~SyncSkipped /\ (Refresh => routes' = kernel)
  BY <1>1 DEF KernelChange, RefreshPanics, SyncSkipped, Refresh
<1>3. UNCHANGED changes
  <2>1. Refresh \/ Install => UNCHANGED changes
    BY <1>1 DEF Refresh, Install
  <2>2. FibMgr => UNCHANGED changes
    BY <1>2, <2>1 DEF FibMgr, FibRecv, FibLock, SyncLock, SyncDone, envvars
  <2>3. RibMgr => UNCHANGED changes
    BY DEF RibMgr, RibRecv, LockAdd, AddOne, AddReach, AddDone, LockWithdraw,
           WithdrawOne, WithdrawDone, Report, Tell, envvars
  <2>4. \A p \in Peers : Learn(p) \/ Deliver(p) => UNCHANGED changes
    BY DEF Learn, Deliver, envvars
  <2> QED
    BY <1>2, <2>2, <2>3, <2>4 DEF Next, vars, envvars
<1> QED
  BY <1>2, <1>3

\* Apart from changes, the kernel only gains routes of learnt prefixes, and the
\* snapshot is only replaced by a dump of the kernel.
LEMMA KernelGrows ==
    ASSUME Safe, [Next]_vars, changes' = 0
    PROVE  /\ kernel \subseteq kernel'
           /\ \A r \in kernel' : r \in kernel \/ r.prefix \in Nlris
           /\ routes' = routes \/ routes' = kernel
<1>1. Install => /\ kernel \subseteq kernel'
                 /\ \A r \in kernel' : r \in kernel \/ r.prefix \in Nlris
  BY DEF Install, add_route, Safe, TypeOK
<1>2. Install \/ UNCHANGED kernel
  <2>1. FibMgr => Install \/ UNCHANGED kernel
    BY DEF FibMgr, FibRecv, FibLock, Refresh, RefreshPanics, SyncSkipped, SyncLock,
           SyncDone, envvars
  <2>2. RibMgr => UNCHANGED kernel
    BY DEF RibMgr, RibRecv, LockAdd, AddOne, AddReach, AddDone, LockWithdraw,
           WithdrawOne, WithdrawDone, Report, Tell, envvars
  <2>3. \A p \in Peers : Learn(p) \/ Deliver(p) => UNCHANGED kernel
    BY DEF Learn, Deliver, envvars
  <2> QED
    BY <2>1, <2>2, <2>3, NoChangeYet DEF Next, vars, envvars
<1>3. routes' = routes \/ routes' = kernel
  <2>1. FibMgr => routes' = routes \/ routes' = kernel
    BY NoChangeYet DEF FibMgr, FibRecv, FibLock, SyncLock, Install, SyncDone
  <2>2. RibMgr => UNCHANGED routes
    BY DEF RibMgr, RibRecv, LockAdd, AddOne, AddReach, AddDone, LockWithdraw,
           WithdrawOne, WithdrawDone, Report, Tell
  <2>3. \A p \in Peers : Learn(p) \/ Deliver(p) => UNCHANGED routes
    BY DEF Learn, Deliver
  <2> QED
    BY <2>1, <2>2, <2>3, NoChangeYet DEF Next, vars
<1> QED
  BY <1>1, <1>2, <1>3

\* Every step keeps the snapshot in agreement with the kernel.
LEMMA StableNext ==
    ASSUME Safe, Stable, [Next]_vars
    PROVE  Stable'
<1> SUFFICES ASSUME changes' = 0
             PROVE  /\ fpc' # "dead" /\ routes' \subseteq kernel'
                    /\ \A r \in kernel' : r.prefix \notin Nlris => r \in routes'
  BY DEF Stable
<1>1. /\ kernel \subseteq kernel'
      /\ \A r \in kernel' : r \in kernel \/ r.prefix \in Nlris
      /\ routes' = routes \/ routes' = kernel
  BY KernelGrows
<1>2. /\ fpc # "dead" /\ routes \subseteq kernel
      /\ \A r \in kernel : r.prefix \notin Nlris => r \in routes
  BY NoChangeYet DEF Stable
<1>3. fpc' # "dead"
  <2>1. FibMgr => fpc' # "dead"
    BY NoChangeYet DEF FibMgr, FibRecv, FibLock, Refresh, SyncLock, Install, SyncDone
  <2>2. RibMgr => UNCHANGED fpc
    BY DEF RibMgr, RibRecv, LockAdd, AddOne, AddReach, AddDone, LockWithdraw,
           WithdrawOne, WithdrawDone, Report, Tell, fibvars
  <2>3. \A p \in Peers : Learn(p) \/ Deliver(p) => UNCHANGED fpc
    BY DEF Learn, Deliver, fibvars
  <2> QED
    BY <1>2, <2>1, <2>2, <2>3, NoChangeYet DEF Next, vars, fibvars
<1> QED
  BY <1>1, <1>2, <1>3

\* What is reachable stays so, and nothing else becomes reachable.
LEMMA ReachKept ==
    ASSUME NextHopsOutside, Safe, Stable, [Next]_vars, changes' = 0
    PROVE  \A a : Reachable(a)' <=> Reachable(a)
<1>1. \A r : r.prefix \notin Nlris => (r \in routes' <=> r \in routes)
  <2>1. \A r : r.prefix \notin Nlris => (r \in routes <=> r \in kernel)
    BY NoChangeYet DEF Stable
  <2> QED
    BY <2>1, KernelGrows
<1>2. \A x : /\ has_route(x) <=> \E r \in routes : r.prefix \notin Nlris /\ x \in Covers[r.prefix]
             /\ has_route(x)' <=>
                  \E r \in routes' : r.prefix \notin Nlris /\ x \in Covers[r.prefix]
  BY DEF has_route, NextHopsOutside
<1>3. \A x : has_route(x)' <=> has_route(x)
  BY <1>1, <1>2
<1> QED
  BY <1>3 DEF Reachable

\* Every step keeps the best path the manager remembers the one before its change.
LEMMA PrevIsBestNext ==
    ASSUME NextHopsOutside, Safe, Stable, PrevIsBest, [Next]_vars
    PROVE  PrevIsBest'
<1> SUFFICES ASSUME changes' = 0, rpc' = "reach" PROVE PrevIsBest'
  BY DEF PrevIsBest
<1>1. changes = 0 /\ \A a : Reachable(a)' <=> Reachable(a)
  BY NoChangeYet, ReachKept
<1>2. CASE UNCHANGED <<rib, rpc, ev, cur, prev>>
  <2>1. rpc = "reach" /\ UNCHANGED PathsOf(rib, cur)
    BY <1>2
  <2> QED
    BY <1>1, <1>2, <2>1 DEF PrevIsBest
<1>3. CASE AddOne
  <2>1. rpc = "add"
    BY <1>3 DEF AddOne
  <2>2. PICK n \in todo :
          /\ \/ n \notin DOMAIN rib /\ prev' = None
             \/ n \in DOMAIN rib /\ prev' = best_reachable(rib[n])
          /\ is_valid(ev.attr) /\ rib' = Inserted(rib, n, ev.attr) /\ cur' = n
    BY <1>3, <2>1 DEF AddOne
  <2>3. n \in Nlris /\ ev.attr \in Routes /\ UNCHANGED ev
    BY <1>3, <2>1, EventType DEF AddOne, Safe, TypeOK
  <2>4. PathsOf(rib', n) = PathsOf(rib, n) \cup {ev.attr}
    BY <2>2, <2>3, TableAdded DEF Safe
  <2>5. CASE n \notin DOMAIN rib
    <3>1. PathsOf(rib, n) = {} /\ prev' = None
      BY <2>2, <2>5 DEF PathsOf
    <3> QED
      BY <2>2, <2>3, <2>4, <3>1 DEF PrevIsBest
  <2>6. CASE n \in DOMAIN rib
    <3> DEFINE best == best_reachable(rib[n])
    <3>1. /\ best = None => \A a \in PathsOf(rib, n) : ~Reachable(a)
          /\ best # None => /\ best \in PathsOf(rib, n) /\ Reachable(best)
                            /\ \A a \in PathsOf(rib, n) : Reachable(a) => ~Less(best, a)
      BY <2>6, BestOfEntry DEF Safe, Reachable
    <3>2. prev' = best
      BY <2>2, <2>6
    <3> HIDE DEF best
    <3>3. CASE best = None
      BY <1>1, <2>2, <2>3, <2>4, <3>1, <3>2, <3>3 DEF PrevIsBest
    <3>4. CASE best # None
      <4>1. prev' \in PathsOf(rib', cur') /\ Reachable(prev')
        BY <2>2, <2>4, <3>1, <3>2, <3>4
      <4>2. \A b \in PathsOf(rib', cur') : Reachable(b) /\ b # ev.attr => ~Less(prev', b)
        BY <2>2, <2>4, <3>1, <3>2, <3>4
      <4>3. has_route(prev.next_hop)'
        BY ReachKept, <4>1 DEF Reachable
      <4>4. Reachable(prev)'
        BY <4>3 DEF Reachable
      <4> QED
        BY <1>1, <2>3, <3>2, <3>4, <4>1, <4>2, <4>4 DEF PrevIsBest
    <3> QED
      BY <3>3, <3>4
  <2> QED
    BY <2>5, <2>6
<1>4. UNCHANGED <<rib, rpc, ev, cur, prev>> \/ AddOne
  <2>1. RibMgr => AddOne
    BY DEF RibMgr, RibRecv, LockAdd, AddReach, AddDone, AfterAdd, LockWithdraw, WithdrawOne,
           WithdrawDone, Report, Tell
  <2>2. FibMgr \/ KernelChange \/ UNCHANGED vars => UNCHANGED <<rib, rpc, ev, cur, prev>>
    BY DEF FibMgr, FibRecv, FibLock, Refresh, RefreshPanics, SyncSkipped, SyncLock,
           Install, SyncDone, KernelChange, vars, ribvars
  <2>3. \A p \in Peers : Learn(p) \/ Deliver(p) => UNCHANGED <<rib, rpc, ev, cur, prev>>
    BY DEF Learn, Deliver, ribvars
  <2> QED
    BY <2>1, <2>2, <2>3 DEF Next
<1> QED
  BY <1>2, <1>3, <1>4

\* Paths that tie are of the same peer.
LEMMA TiedSamePeer ==
    ASSUME NEW a, NEW b, IsPath(a), IsPath(b), ~Less(a, b), ~Less(b, a)
    PROVE  a.peer_rid = b.peer_rid
<1>1. Part(a, 8) = Part(b, 8)
  BY TiedIsEqualParts DEF Tied, Keys
<1> QED
  BY <1>1 DEF Part

\* A report stays as good as it was where the paths and the exception do.
LEMMA ReportKept ==
    ASSUME NEW a, NEW n, GoodReport(a, n), \A b : Reachable(b)' <=> Reachable(b),
           PathsOf(rib', n) = PathsOf(rib, n), ~(rpc = "reach" /\ cur = n)
    PROVE  GoodReport(a, n)'
  BY DEF GoodReport

\* An entry for one prefix is the last for it, and leaves the others' alone.
LEMMA NewEntry ==
    ASSUME TypeOK, NEW n \in Nlris, NEW x \in Routes \cup {None},
           modified' = Append(modified, <<n, x>>), UNCHANGED told
    PROVE  /\ GoodReport(x, n)' => ReportsAt(n)'
           /\ \A m \in Nlris :
                /\ m # n /\ (\A a : GoodReport(a, m) => GoodReport(a, m)') /\ ReportsAt(m)
                => ReportsAt(m)'
<1> DEFINE S == Nlris \X (Routes \cup {None})
<1>1. modified \in Seq(S) /\ <<n, x>> \in S
  BY DEF TypeOK
<1> HIDE DEF S
<1>2. PICK k : k = Len(modified) + 1
  OBVIOUS
<1>3. /\ DOMAIN modified = 1..Len(modified) /\ Len(modified) \in Nat
      /\ DOMAIN modified' = 1..k /\ modified'[k] = <<n, x>>
      /\ \A i \in DOMAIN modified : i \in DOMAIN modified' /\ modified'[i] = modified[i]
      /\ \A i \in DOMAIN modified' : i = k \/ i \in DOMAIN modified
  BY <1>1, <1>2, Appended
<1>4. k \in DOMAIN modified' /\ \A i \in DOMAIN modified : k > i
  BY <1>2, <1>3
<1>5. modified'[k][1] = n /\ modified'[k][2] = x
  BY <1>3
<1>6. ASSUME NEW i \in DOMAIN modified', LastAbout(i, n)' PROVE i = k
  BY <1>3, <1>4, <1>5, <1>6 DEF LastAbout
<1>7. GoodReport(x, n)' => ReportsAt(n)'
  BY <1>4, <1>5, <1>6 DEF ReportsAt
<1>8. ASSUME NEW m \in Nlris, m # n, \A a : GoodReport(a, m) => GoodReport(a, m)',
             ReportsAt(m)
      PROVE  ReportsAt(m)'
  <2>1. ASSUME NEW i \in DOMAIN modified', LastAbout(i, m)'
        PROVE  i \in DOMAIN modified /\ LastAbout(i, m) /\ modified'[i] = modified[i]
    BY <1>3, <1>5, <1>8, <2>1 DEF LastAbout
  <2>2. \A i \in DOMAIN modified' : LastAbout(i, m)' => GoodReport(modified[i][2], m)
    BY <1>8, <2>1 DEF ReportsAt
  <2>3. \A i \in DOMAIN modified' : LastAbout(i, m)' => GoodReport(modified[i][2], m)'
    <3> SUFFICES ASSUME NEW i \in DOMAIN modified', LastAbout(i, m)'
                 PROVE  GoodReport(modified[i][2], m)'
      OBVIOUS
    <3>1. PICK a : a = modified[i][2]
      OBVIOUS
    <3>2. GoodReport(a, m)'
      BY <1>8, <2>2, <3>1
    <3>3. modified'[i][2] = a
      BY <2>1, <3>1
    <3> QED
      BY <3>2, <3>3
  <2>4. (\A i \in DOMAIN modified' : modified'[i][1] # m) => GoodReport(told[m], m)'
    <3>1. PICK a : a = told[m]
      OBVIOUS
    <3>2. (\A i \in DOMAIN modified' : modified'[i][1] # m) => GoodReport(a, m)
      BY <1>3, <1>8, <3>1 DEF ReportsAt
    <3>3. told'[m] = a
      BY <3>1
    <3> QED
      BY <1>8, <3>2, <3>3
  <2> QED
    BY <2>3, <2>4 DEF ReportsAt
<1> QED
  BY <1>7, <1>8

\* Without a new entry, reports only have to stay good.
LEMMA SameEntries ==
    ASSUME NEW n \in Nlris, ReportsAt(n), UNCHANGED <<modified, told>>,
           \A a : GoodReport(a, n) => GoodReport(a, n)'
    PROVE  ReportsAt(n)'
<1>1. \A i \in DOMAIN modified : LastAbout(i, n)' <=> LastAbout(i, n)
  BY DEF LastAbout
<1>2. ASSUME NEW i \in DOMAIN modified, LastAbout(i, n) PROVE GoodReport(modified[i][2], n)'
  <2>1. PICK a : a = modified[i][2]
    OBVIOUS
  <2>2. GoodReport(a, n)' /\ modified'[i][2] = a
    BY <1>2, <2>1 DEF ReportsAt
  <2> QED
    BY <2>2
<1>3. ASSUME \A i \in DOMAIN modified : modified[i][1] # n PROVE GoodReport(told[n], n)'
  <2>1. PICK a : a = told[n]
    OBVIOUS
  <2>2. GoodReport(a, n)' /\ told'[n] = a
    BY <1>3, <2>1 DEF ReportsAt
  <2> QED
    BY <2>2
<1> QED
  BY <1>1, <1>2, <1>3 DEF ReportsAt

\* AddOne preserves Reports.
LEMMA AddOneReports ==
    ASSUME Safe, AddOne, \A b : Reachable(b)' <=> Reachable(b), NEW n \in Nlris, ReportsAt(n)
    PROVE  ReportsAt(n)'
<1>1. rpc = "add" /\ UNCHANGED <<modified, told, ev>>
  BY DEF AddOne
<1> SUFFICES ASSUME NEW a, GoodReport(a, n) PROVE GoodReport(a, n)'
  BY <1>1, SameEntries
<1>2. CASE UNCHANGED rib
  <2>1. UNCHANGED PathsOf(rib, n)
    BY <1>2
  <2> QED
    BY <1>1, <2>1, ReportKept
<1>3. CASE ~UNCHANGED rib
  <2>1. PICK k \in todo :
          /\ \/ k \notin DOMAIN rib /\ prev' = None
             \/ k \in DOMAIN rib /\ prev' = best_reachable(rib[k])
          /\ is_valid(ev.attr) /\ rib' = Inserted(rib, k, ev.attr)
          /\ cur' = k /\ rpc' = "reach"
    BY <1>3 DEF AddOne
  <2>2. k \in Nlris /\ ev.attr \in Routes
    BY <1>1, EventType DEF Safe, TypeOK
  <2>3. /\ PathsOf(rib', k) = PathsOf(rib, k) \cup {ev.attr}
        /\ \A m : m # k => PathsOf(rib', m) = PathsOf(rib, m)
    BY <2>1, <2>2, TableAdded DEF Safe
  <2>4. CASE n # k
    BY <1>1, <2>3, <2>4, ReportKept
  <2>5. CASE n = k
    <3>1. prev' = None \/ prev' \in PathsOf(rib, n)
      BY <2>1, <2>5, BestOfEntry DEF Safe
    <3>2. \A b \in PathsOf(rib', n) : b # None
      BY <2>2, <2>3, <2>5, RouteIsPath DEF Safe, TablesOK
    <3>3. \A b \in PathsOf(rib', n) : b # ev.attr \/ b = prev' => b \in PathsOf(rib, n)
      BY <2>3, <2>5, <3>1, <3>2
    <3>4. \A b \in PathsOf(rib, n) : b \in PathsOf(rib', n)
      BY <2>3, <2>5
    <3>5. a # None => /\ a \in PathsOf(rib, n) /\ Reachable(a)
                      /\ \A b \in PathsOf(rib, n) : Reachable(b) => ~Less(a, b)
      BY <1>1 DEF GoodReport
    <3> QED
      BY <1>1, <2>1, <2>5, <3>3, <3>4, <3>5 DEF GoodReport
  <2> QED
    BY <2>4, <2>5
<1> QED
  BY <1>2, <1>3

\* AddReach preserves Reports.
LEMMA AddReachReports ==
    ASSUME Safe, AddReach, changes = 0, PrevIsBest, \A b : Reachable(b)' <=> Reachable(b),
           \A m \in Nlris : ReportsAt(m)
    PROVE  \A m \in Nlris : ReportsAt(m)'
<1>1. /\ rpc = "reach" /\ rpc' = "add" /\ UNCHANGED <<told, ev, rib>>
      /\ modified' = IF Reachable(ev.attr) /\ Improves(ev.attr, prev, None)
                     THEN Append(modified, <<cur, ev.attr>>) ELSE modified
  BY DEF AddReach, Reachable
<1>2. /\ cur \in Nlris /\ ev.attr \in Routes /\ ev.attr \in PathsOf(rib, cur)
      /\ \A b \in PathsOf(rib, cur) : IsPath(b) /\ b # None
  BY <1>1, EventType, RouteIsPath DEF Safe, Places, TypeOK, TablesOK
<1>3. PICK c : c = cur
  OBVIOUS
<1>4. PICK attr : attr = ev.attr
  OBVIOUS
<1>5. UNCHANGED PathsOf(rib, c)
  BY <1>1
<1>6. ASSUME NEW m \in Nlris, m # c PROVE \A a : GoodReport(a, m) => GoodReport(a, m)'
  <2>1. UNCHANGED PathsOf(rib, m)
    BY <1>1
  <2> QED
    BY <1>3, <1>6, <2>1, ReportKept
<1>7. /\ prev = None => \A b \in PathsOf(rib, c) : Reachable(b) => b = attr
      /\ prev # None => /\ prev \in PathsOf(rib, c) /\ Reachable(prev)
                        /\ \A b \in PathsOf(rib, c) :
                             Reachable(b) /\ b # attr => ~Less(prev, b)
  BY <1>1, <1>3, <1>4 DEF PrevIsBest
<1>8. CASE Reachable(attr) /\ Improves(attr, prev, None)
  <2>1. modified' = Append(modified, <<c, attr>>)
    BY <1>1, <1>3, <1>4, <1>8
  <2>2. ASSUME NEW b \in PathsOf(rib, c), Reachable(b) PROVE ~Less(attr, b)
    <3>1. CASE b = attr
      BY <1>2, <1>3, <3>1, LessIrreflexive
    <3>2. CASE b # attr
      <4>1. prev # None /\ ~Less(prev, b) /\ Less(prev, attr) /\ prev \in PathsOf(rib, c)
        BY <1>7, <1>8, <2>2, <3>2 DEF Improves
      <4>2. IsPath(prev) /\ IsPath(b) /\ IsPath(attr)
        BY <1>2, <1>3, <1>4, <4>1
      <4> QED
        BY <4>1, <4>2, LessTransitive
    <3> QED
      BY <3>1, <3>2
  <2>3. GoodReport(attr, c)'
    BY <1>1, <1>2, <1>3, <1>4, <1>5, <1>8, <2>2 DEF GoodReport
  <2>4. attr \in Routes \cup {None} /\ c \in Nlris
    BY <1>2, <1>3, <1>4
  <2>5. TypeOK /\ UNCHANGED told
    BY <1>1 DEF Safe
  <2>6. ReportsAt(c)'
    BY <2>1, <2>3, <2>4, <2>5, NewEntry
  <2>7. \A m \in Nlris : m # c => ReportsAt(m)'
    BY <1>6, <2>1, <2>4, <2>5, NewEntry
  <2> QED
    BY <2>6, <2>7
<1>9. CASE ~(Reachable(attr) /\ Improves(attr, prev, None))
  <2>1. UNCHANGED <<modified, told>>
    BY <1>1, <1>4, <1>9
  <2>2. ASSUME NEW a, GoodReport(a, c), a # None PROVE GoodReport(a, c)'
    <3>1. /\ a \in PathsOf(rib, c) /\ Reachable(a)
          /\ \A b \in PathsOf(rib, c) :
               Reachable(b) /\ (b # attr \/ b = prev) => ~Less(a, b)
      BY <1>1, <1>3, <1>4, <2>2 DEF GoodReport
    <3>2. ASSUME NEW b \in PathsOf(rib, c), Reachable(b) PROVE ~Less(a, b)
      <4>1. CASE b # attr
        BY <3>1, <3>2, <4>1
      <4>2. CASE b = attr
        <5>1. prev # None /\ ~Less(prev, attr)
          BY <1>9, <3>2, <4>2 DEF Improves
        <5>2. ~Less(a, prev) /\ prev \in PathsOf(rib, c)
          BY <1>7, <3>1, <5>1
        <5>3. IsPath(a) /\ IsPath(prev) /\ IsPath(attr)
          BY <1>2, <1>3, <1>4, <3>1, <5>2
        <5> QED
          BY <4>2, <5>1, <5>2, <5>3, NotLessTransitive
      <4> QED
        BY <4>1, <4>2
    <3> QED
      BY <1>1, <1>5, <3>1, <3>2 DEF GoodReport
  <2>3. \A a : GoodReport(a, c) => GoodReport(a, c)'
    BY <2>2 DEF GoodReport
  <2> QED
    BY <1>6, <2>1, <2>3, SameEntries
<1> QED
  BY <1>8, <1>9

\* WithdrawOne preserves Reports.
LEMMA WithdrawOneReports ==
    ASSUME Safe, WithdrawOne, \A b : Reachable(b)' <=> Reachable(b),
           \A m \in Nlris : ReportsAt(m)
    PROVE  \A m \in Nlris : ReportsAt(m)'
<1> DEFINE rid == ev.attr.peer_rid
<1>1. PICK k \in todo :
         \/ k \notin DOMAIN rib /\ UNCHANGED <<rib, modified>>
         \/ /\ k \in DOMAIN rib /\ rib' = Withdrawn(rib, k, rid)
            /\ modified' = IF best_reachable(rib[k]) # None
                              /\ best_reachable(rib[k]).peer_rid = rid
                           THEN Append(modified, <<k, None>>) ELSE modified
  BY DEF WithdrawOne
<1>2. rpc = "withdraw" /\ rpc' = rpc /\ UNCHANGED told /\ k \in Nlris /\ TypeOK
  BY DEF WithdrawOne, Safe, TypeOK
<1>3. CASE k \notin DOMAIN rib
  <2>1. UNCHANGED <<rib, modified>>
    BY <1>1, <1>3
  <2>2. \A m \in Nlris : UNCHANGED PathsOf(rib, m)
    BY <2>1
  <2>3. \A m \in Nlris : \A a : GoodReport(a, m) => GoodReport(a, m)'
    BY <1>2, <2>2, ReportKept
  <2> QED
    BY <1>2, <2>1, <2>3, SameEntries
<1>4. CASE k \in DOMAIN rib
  <2>1. PICK best : best = best_reachable(rib[k])
    OBVIOUS
  <2>2. /\ rib' = Withdrawn(rib, k, rid)
        /\ modified' = IF best # None /\ best.peer_rid = rid
                       THEN Append(modified, <<k, None>>) ELSE modified
    BY <1>1, <1>4, <2>1
  <2>3. /\ PathsOf(rib', k) = {a \in PathsOf(rib, k) : a.peer_rid # rid}
        /\ \A m : m # k => PathsOf(rib', m) = PathsOf(rib, m)
    BY <1>4, <2>2, TableWithdrawn DEF Safe
  <2>4. ASSUME NEW m \in Nlris, m # k PROVE \A a : GoodReport(a, m) => GoodReport(a, m)'
    <3>1. PathsOf(rib', m) = PathsOf(rib, m)
      BY <2>3, <2>4
    <3> QED
      BY <1>2, <3>1, ReportKept
  <2>5. CASE best # None /\ best.peer_rid = rid
    <3>1. modified' = Append(modified, <<k, None>>)
      BY <2>2, <2>5
    <3>2. GoodReport(None, k)'
      BY DEF GoodReport
    <3>3. ReportsAt(k)'
      BY <1>2, <3>1, <3>2, NewEntry
    <3>4. \A m \in Nlris : m # k => ReportsAt(m)'
      BY <1>2, <2>4, <3>1, NewEntry
    <3> QED
      BY <3>3, <3>4
  <2>6. CASE ~(best # None /\ best.peer_rid = rid)
    <3>1. UNCHANGED modified
      BY <2>2, <2>6
    <3>2. /\ best = None => \A a \in PathsOf(rib, k) : ~Reachable(a)
          /\ best # None => /\ best \in PathsOf(rib, k) /\ Reachable(best)
                            /\ \A a \in PathsOf(rib, k) : Reachable(a) => ~Less(best, a)
      BY <1>4, <2>1, BestOfEntry DEF Safe, Reachable
    <3>3. ASSUME NEW a, GoodReport(a, k), a # None PROVE GoodReport(a, k)'
      <4>1. /\ a \in PathsOf(rib, k) /\ Reachable(a)
            /\ \A b \in PathsOf(rib, k) : Reachable(b) => ~Less(a, b)
        BY <1>2, <3>3 DEF GoodReport
      <4>2. best # None /\ best.peer_rid # rid /\ ~Less(a, best) /\ ~Less(best, a)
        BY <2>6, <3>2, <4>1
      <4>3. IsPath(a) /\ IsPath(best)
        BY <1>2, <3>2, <4>1, <4>2, RouteIsPath DEF Safe, TablesOK
      <4>4. a \in PathsOf(rib', k)
        BY <2>3, <4>1, <4>2, <4>3, TiedSamePeer
      <4> QED
        BY <1>2, <2>3, <4>1, <4>4 DEF GoodReport
    <3>4. \A a : GoodReport(a, k) => GoodReport(a, k)'
      BY <3>3 DEF GoodReport
    <3> QED
      BY <1>2, <2>4, <3>1, <3>4, SameEntries
  <2> QED
    BY <2>5, <2>6
<1> QED
  BY <1>3, <1>4

\* Tell preserves Reports.
LEMMA TellReports ==
    ASSUME Safe, Tell, \A b : Reachable(b)' <=> Reachable(b),
           NEW n \in Nlris, ReportsAt(n)
    PROVE  ReportsAt(n)'
<1>1. rpc = "tell" /\ rpc' = "recv" /\ modified' = <<>> /\ UNCHANGED rib
  BY DEF Tell
<1>2. PICK a : a = told'[n]
  OBVIOUS
<1>3. GoodReport(a, n)
  <2> DEFINE about == {i \in DOMAIN modified : modified[i][1] = n}
             k == Nth(about, Cardinality(about))
  <2>1. a = IF about = {} THEN told[n] ELSE modified[k][2]
    BY <1>2 DEF Tell
  <2>2. CASE about = {}
    <3>1. \A i \in DOMAIN modified : modified[i][1] # n
      BY <2>2
    <3> QED
      BY <2>1, <2>2, <3>1 DEF ReportsAt
  <2>3. CASE about # {}
    <3>1. /\ k \in DOMAIN modified /\ modified[k][1] = n
          /\ \A j \in DOMAIN modified : j > k => modified[j][1] # n
      BY <2>3, LastEntry DEF Safe
    <3> HIDE DEF k, about
    <3> QED
      BY <2>1, <2>3, <3>1 DEF ReportsAt, LastAbout
  <2> QED
    BY <2>2, <2>3
<1>4. UNCHANGED PathsOf(rib, n)
  BY <1>1
<1>5. GoodReport(a, n)'
  BY <1>1, <1>3, <1>4, ReportKept
<1> QED
  BY <1>1, <1>2, <1>5 DEF ReportsAt

\* Every step keeps what neighbours know, with the reports to come, the best path.
LEMMA ReportsNext ==
    ASSUME NextHopsOutside, Safe, Stable, PrevIsBest, ReportsAreGood, [Next]_vars
    PROVE  ReportsAreGood'
<1> SUFFICES ASSUME changes' = 0 PROVE \A n \in Nlris : ReportsAt(n)'
  BY DEF ReportsAreGood
<1>1. changes = 0 /\ (\A a : Reachable(a)' <=> Reachable(a))
  BY NoChangeYet, ReachKept
<1>2. \A n \in Nlris : ReportsAt(n)
  BY <1>1 DEF ReportsAreGood
<1>3. CASE AddOne
  BY <1>1, <1>2, <1>3, AddOneReports
<1>4. CASE AddReach
  BY <1>1, <1>2, <1>4, AddReachReports
<1>5. CASE WithdrawOne
  BY <1>1, <1>2, <1>5, WithdrawOneReports
<1>6. CASE Tell
  BY <1>1, <1>2, <1>6, TellReports
<1>7. CASE RibRecv \/ LockAdd \/ AddDone \/ LockWithdraw \/ WithdrawDone \/ Report
  <2>1. UNCHANGED <<rib, told>> /\ rpc # "reach" /\ rpc' # "reach"
    BY <1>7 DEF RibRecv, LockAdd, AddDone, AfterAdd, LockWithdraw, WithdrawDone, Report
  <2>2. UNCHANGED modified
    BY <1>1, <1>7 DEF RibRecv, LockAdd, AddDone, LockWithdraw, WithdrawDone, Report,
                      Safe, Places, Stable
  <2>3. \A n \in Nlris : UNCHANGED PathsOf(rib, n)
    BY <2>1
  <2>4. \A n \in Nlris : \A a : GoodReport(a, n) => GoodReport(a, n)'
    BY <1>1, <2>1, <2>3, ReportKept
  <2> QED
    BY <1>2, <2>1, <2>2, <2>4, SameEntries
<1>8. CASE UNCHANGED <<rib, rpc, ev, cur, prev, modified, told>>
  <2>1. \A n \in Nlris : UNCHANGED PathsOf(rib, n)
    BY <1>8
  <2>2. \A n \in Nlris : \A a : GoodReport(a, n) => GoodReport(a, n)'
    BY <1>1, <1>8, <2>1 DEF GoodReport
  <2> QED
    BY <1>2, <1>8, <2>2, SameEntries
<1>9. (FibMgr \/ KernelChange \/ UNCHANGED vars \/ \E p \in Peers : Learn(p) \/ Deliver(p))
        => UNCHANGED <<rib, rpc, ev, cur, prev, modified, told>>
  BY DEF FibMgr, FibRecv, FibLock, Refresh, RefreshPanics, SyncSkipped, SyncLock,
         Install, SyncDone, KernelChange, Learn, Deliver, vars, ribvars
<1> QED
  BY <1>3, <1>4, <1>5, <1>6, <1>7, <1>8, <1>9 DEF Next, RibMgr

\* For a prefix that was usable and is not installed now, what was on its way still
\* is, whatever the RIB manager does.
LEMMA RibMgrInstalls ==
    ASSUME Safe, Stable, PrevIsBest, RibMgr, changes = 0,
           \A a : Reachable(a)' <=> Reachable(a),
           NEW n \in Nlris, Usable(n) => OnItsWay(n), Usable(n)'
    PROVE  OnItsWay(n)'
<1> USE DEF fibvars
<1>1. CASE RibRecv
  <2>1. UNCHANGED <<rib, fibq, fpc, left>> /\ rpc = "recv" /\ modified = <<>>
    BY <1>1 DEF RibRecv, Safe, Places
  <2> QED
    BY <2>1 DEF Usable, OnItsWay
<1>2. CASE LockAdd \/ AddDone \/ LockWithdraw \/ WithdrawDone
  <2>1. UNCHANGED <<rib, fibq, fpc, left, modified>>
        /\ rpc' # "tell" /\ rpc # "reach"
    BY <1>2 DEF LockAdd, AddDone, AfterAdd, LockWithdraw, WithdrawDone
  <2> QED
    BY <2>1 DEF Usable, OnItsWay
<1>3. CASE AddOne
  <2>1. UNCHANGED <<fibq, fpc, left, modified, ev>> /\ rpc = "add" /\ rpc' # "tell"
    BY <1>3 DEF AddOne
  <2>2. Usable(n) => OnItsWay(n)'
    BY <2>1 DEF OnItsWay
  <2>3. CASE UNCHANGED rib
    BY <2>2, <2>3 DEF Usable
  <2>4. CASE ~UNCHANGED rib
    <3>1. PICK k \in todo :
            /\ \/ k \notin DOMAIN rib /\ prev' = None
               \/ k \in DOMAIN rib /\ prev' = best_reachable(rib[k])
            /\ is_valid(ev.attr) /\ rib' = Inserted(rib, k, ev.attr)
            /\ cur' = k /\ rpc' = "reach"
      BY <1>3, <2>4 DEF AddOne
    <3>2. k \in Nlris /\ ev.attr \in Routes
      BY <2>1, EventType DEF Safe, TypeOK
    <3>3. CASE n # k
      <4>1. PathsOf(rib', n) = PathsOf(rib, n)
        BY <3>1, <3>2, <3>3, TableAdded DEF Safe
      <4> QED
        BY <2>2, <4>1 DEF Usable
    <3>4. CASE n = k /\ prev' = None
      BY <3>1, <3>4 DEF OnItsWay
    <3>5. CASE n = k /\ prev' # None
      <4>1. prev' \in PathsOf(rib, n) /\ has_route(prev'.next_hop)
        BY <3>1, <3>5, BestOfEntry DEF Safe
      <4>2. Usable(n)
        BY <4>1 DEF Usable, Reachable
      <4> QED
        BY <2>2, <4>2
    <3> QED
      BY <3>3, <3>4, <3>5
  <2> QED
    BY <2>3, <2>4
<1>4. CASE AddReach
  <2>1. /\ UNCHANGED <<fibq, fpc, left, ev, rib>> /\ rpc = "reach" /\ rpc' = "add"
        /\ modified' = IF Reachable(ev.attr) /\ Improves(ev.attr, prev, None)
                       THEN Append(modified, <<cur, ev.attr>>) ELSE modified
    BY <1>4 DEF AddReach, Reachable
  <2>2. Append(modified, <<cur, ev.attr>>) # <<>>
    <3> DEFINE S == Nlris \X (Routes \cup {None})
    <3>1. modified \in Seq(S) /\ <<cur, ev.attr>> \in S
      BY <2>1, EventType DEF Safe, TypeOK, Places
    <3> HIDE DEF S
    <3> QED
      BY <3>1, Appended
  <2>3. Usable(n)
    BY <2>1 DEF Usable
  <2>4. CASE cur = n /\ prev = None
    <3>1. Reachable(ev.attr)
      BY <2>1, <2>3, <2>4 DEF PrevIsBest, Usable
    <3>2. modified' # <<>>
      BY <2>1, <2>2, <2>4, <3>1 DEF Improves
    <3> QED
      BY <2>1, <3>2 DEF OnItsWay
  <2>5. CASE ~(cur = n /\ prev = None)
    BY <2>1, <2>2, <2>3, <2>5 DEF OnItsWay
  <2> QED
    BY <2>4, <2>5
<1>5. CASE WithdrawOne
  <2>1. UNCHANGED <<fibq, fpc, left, ev>> /\ rpc = "withdraw" /\ rpc' = rpc
    BY <1>5 DEF WithdrawOne
  <2>2. PICK k \in todo :
         \/ k \notin DOMAIN rib /\ UNCHANGED <<rib, modified>>
         \/ /\ k \in DOMAIN rib /\ rib' = Withdrawn(rib, k, ev.attr.peer_rid)
            /\ modified' = modified \/ modified' = Append(modified, <<k, None>>)
    BY <1>5 DEF WithdrawOne
  <2>3. PathsOf(rib', n) \subseteq PathsOf(rib, n)
    <3>1. CASE k \notin DOMAIN rib
      BY <2>2, <3>1
    <3>2. CASE k \in DOMAIN rib
      <4>1. /\ PathsOf(rib', k) = {a \in PathsOf(rib, k) : a.peer_rid # ev.attr.peer_rid}
            /\ \A m : m # k => PathsOf(rib', m) = PathsOf(rib, m)
        BY <2>2, <3>2, TableWithdrawn DEF Safe
      <4> QED
        BY <4>1
    <3> QED
      BY <3>1, <3>2
  <2>4. Usable(n)
    BY <2>3 DEF Usable
  <2>5. modified # <<>> => modified' # <<>>
    <3> DEFINE S == Nlris \X (Routes \cup {None})
    <3>1. modified \in Seq(S) /\ <<k, None>> \in S
      BY DEF Safe, TypeOK
    <3> HIDE DEF S
    <3>2. Append(modified, <<k, None>>) # <<>>
      BY <3>1, Appended
    <3> QED
      BY <2>2, <3>2
  <2> QED
    BY <2>1, <2>4, <2>5 DEF OnItsWay
<1>6. CASE Report
  <2>1. UNCHANGED <<rib, fpc, left>> /\ rpc = "report" /\ fpc # "dead" /\ fibq \in Nat
    BY <1>6 DEF Report, Safe, TypeOK, Stable
  <2>2. \/ modified = <<>> /\ modified' = <<>> /\ UNCHANGED fibq
        \/ fibq' = fibq + 1
    BY <1>6, <2>1 DEF Report
  <2>3. Usable(n)
    BY <2>1 DEF Usable
  <2> QED
    BY <2>1, <2>2, <2>3 DEF OnItsWay
<1>7. CASE Tell
  <2>1. UNCHANGED <<rib, fibq, fpc, left>> /\ rpc = "tell"
    BY <1>7 DEF Tell
  <2> QED
    BY <2>1 DEF Usable, OnItsWay
<1> QED
  BY <1>1, <1>2, <1>3, <1>4, <1>5, <1>6, <1>7 DEF RibMgr

\* The FIB manager leaves a usable prefix installed or on its way.
LEMMA FibMgrInstalls ==
    ASSUME Safe, Stable, FibMgr, [Next]_vars, changes' = 0,
           \A a : Reachable(a)' <=> Reachable(a),
           NEW n \in Nlris, Usable(n) /\ ~Installed(n) => OnItsWay(n), Usable(n)',
           ~Installed(n)'
    PROVE  OnItsWay(n)'
<1>1. UNCHANGED <<rib, rpc, cur, prev, modified>>
  BY DEF FibMgr, FibRecv, FibLock, Refresh, RefreshPanics, SyncSkipped, SyncLock,
         Install, SyncDone, ribvars
<1>2. Usable(n) /\ ~Installed(n) /\ OnItsWay(n)
  BY <1>1, KernelGrows DEF Usable, Installed
<1>3. CASE FibRecv
  BY <1>1, <1>2, <1>3 DEF FibRecv, OnItsWay
<1>4. CASE FibLock
  BY <1>1, <1>2, <1>4 DEF FibLock, OnItsWay
<1>5. CASE Refresh
  BY <1>1, <1>2, <1>5 DEF Refresh, OnItsWay
<1>6. CASE SyncLock
  <2>1. n \in DOMAIN rib
    BY <1>2 DEF Usable, PathsOf
  <2> QED
    BY <1>1, <1>2, <1>6, <2>1 DEF SyncLock, OnItsWay
<1>7. CASE Install
  <2>1. PICK k \in left :
          /\ left' = left \ {k}
          /\ kernel' = IF Selected(k) # None /\ ~find_route(k, Selected(k).next_hop)
                       THEN add_route(k, Selected(k).next_hop) ELSE kernel
    <3>1. ~(changes' = changes + 1)
      BY NoChangeYet DEF Safe, TypeOK
    <3> QED
      BY <1>7, <3>1 DEF Install
  <2>2. UNCHANGED <<fibq, fpc>> /\ fpc = "install"
    BY <1>7 DEF Install
  <2>3. CASE n # k
    BY <1>1, <1>2, <2>1, <2>2, <2>3 DEF OnItsWay
  <2>4. CASE n = k
    <3>1. n \in DOMAIN rib
      BY <1>2 DEF Usable, PathsOf
    <3>2. Selected(n) # None
      BY <1>2, <3>1, BestOfEntry DEF Usable, Reachable, Selected, Safe
    <3>3. ~find_route(n, Selected(n).next_hop)
      BY <1>2, NoChangeYet DEF find_route, Stable, Installed
    <3>4. kernel' = kernel \cup {[prefix |-> n, next_hop |-> Selected(n).next_hop]}
      BY <1>2, <2>1, <2>4, <3>2, <3>3 DEF add_route, Installed
    <3>5. Installed(n)'
      <4>1. PICK r : r = [prefix |-> n, next_hop |-> Selected(n).next_hop]
        OBVIOUS
      <4>2. r \in kernel' /\ r.prefix = n
        BY <3>4, <4>1
      <4> QED
        BY <4>2 DEF Installed
    <3> QED
      BY <3>5
  <2> QED
    BY <2>3, <2>4
<1>8. CASE SyncDone
  BY <1>1, <1>2, <1>8 DEF SyncDone, OnItsWay
<1> QED
  BY <1>3, <1>4, <1>5, <1>6, <1>7, <1>8, NoChangeYet DEF FibMgr

\* Every step keeps each usable prefix installed or about to be.
LEMMA InstalledNext ==
    ASSUME NextHopsOutside, Safe, Stable, PrevIsBest, WillBeInstalled, [Next]_vars
    PROVE  WillBeInstalled'
<1> SUFFICES ASSUME changes' = 0, NEW n \in Nlris, Usable(n)', ~Installed(n)'
             PROVE  OnItsWay(n)'
  BY DEF WillBeInstalled
<1>1. changes = 0 /\ (\A a : Reachable(a)' <=> Reachable(a))
  BY NoChangeYet, ReachKept
<1>2. ~Installed(n)
  BY KernelGrows DEF Installed
<1>3. Usable(n) => OnItsWay(n)
  BY <1>1, <1>2 DEF WillBeInstalled
<1>4. CASE RibMgr
  BY <1>1, <1>3, <1>4, RibMgrInstalls
<1>5. CASE FibMgr
  BY <1>1, <1>3, <1>5, FibMgrInstalls
<1>6. CASE UNCHANGED vars \/ \E p \in Peers : Learn(p) \/ Deliver(p)
  <2>1. UNCHANGED <<rib, rpc, cur, prev, modified, fibq, fpc, left>>
    BY <1>6 DEF Learn, Deliver, vars, ribvars, fibvars
  <2> QED
    BY <1>1, <1>3, <2>1 DEF Usable, OnItsWay
<1> QED
  BY <1>4, <1>5, <1>6, NoChangeYet DEF Next

\* While reachability does not change, reports and routes stay in step with the table.
THEOREM SteadyAlways ==
    ASSUME NextHopsOutside
    PROVE  Spec => []Steady
<1>1. Init => Safe /\ Steady
  BY SafeInit, SteadyInit
<1>2. Safe /\ Steady /\ [Next]_vars => (Safe /\ Steady)'
  BY SafeNext, StableNext, PrevIsBestNext, ReportsNext, InstalledNext DEF Steady
<1> QED
  BY <1>1, <1>2, PTL DEF Spec

\* As long as reachability does not change, what the neighbours were last told of a
\* prefix is a path of the table that no reachable one is preferred to.
THEOREM BestIsAdvertised ==
    ASSUME NextHopsOutside
    PROVE  Spec => []AdvertisedIsBest
<1>1. ASSUME Safe, Steady PROVE AdvertisedIsBest
  <2> SUFFICES ASSUME rpc = "recv", changes = 0, NEW n \in Nlris, told[n] # None
               PROVE  /\ n \in DOMAIN rib /\ told[n] \in {rib[n][i] : i \in DOMAIN rib[n]}
                      /\ \A i \in DOMAIN rib[n] :
                           has_route(rib[n][i].next_hop) => ~Less(told[n], rib[n][i])
    BY DEF AdvertisedIsBest
  <2>1. modified = <<>>
    BY <1>1 DEF Safe, Places
  <2>2. GoodReport(told[n], n)
    BY <1>1, <2>1 DEF Steady, ReportsAreGood, ReportsAt
  <2>3. told[n] \in PathsOf(rib, n)
        /\ \A b \in PathsOf(rib, n) : has_route(b.next_hop) => ~Less(told[n], b)
    BY <2>2 DEF GoodReport, Reachable
  <2> QED
    BY <2>3 DEF PathsOf, Elems
<1> QED
  BY <1>1, SafeAlways, SteadyAlways, PTL

\* As long as reachability does not change, a prefix with a reachable path has a
\* route in the kernel whenever both managers wait for work.
THEOREM UsableIsInstalled ==
    ASSUME NextHopsOutside
    PROVE  Spec => []QuiescentInstalled
<1>1. ASSUME Safe, Steady PROVE QuiescentInstalled
  <2> SUFFICES ASSUME rpc = "recv", fpc = "wait", fibq = 0, changes = 0,
                      NEW n \in DOMAIN rib, best_reachable(rib[n]) # None
               PROVE  Installed(n)
    BY DEF QuiescentInstalled, Installed
  <2>1. modified = <<>> /\ n \in Nlris
    BY <1>1 DEF Safe, Places, TypeOK
  <2>2. Usable(n)
    BY <1>1, BestOfEntry DEF Safe, Usable, Reachable
  <2> QED
    BY <1>1, <2>1, <2>2 DEF Steady, WillBeInstalled, OnItsWay
<1> QED
  BY <1>1, SafeAlways, SteadyAlways, PTL
=============================================================================
