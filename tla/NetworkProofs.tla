---------------------------- MODULE NetworkProofs ----------------------------
(***************************************************************************)
(* What holds in every network of speakers, for any topology, any ASes,    *)
(* any number of messages and lost connections: the types, that no speaker *)
(* keeps a prefix its peer has lost, and, for the routes of one prefix,    *)
(* that no path passes a speaker twice.                                    *)
(***************************************************************************)
EXTENDS Network, PathListProofs

-----------------------------------------------------------------------------
(* The network                                                             *)

Stages == {"Idle", "OpenConfirm", "Established"}

\* What is assumed of the network at hand.
LEMMA NetFacts ==
    ASSUME net \in Nets
    PROVE  /\ Routers \subseteq Nat /\ Origins \subseteq Nat /\ Routers \cap Origins = {}
           /\ \A x \in Origins : At[x] \in Routers /\ Asn[x] # Asn[At[x]]
           /\ \A r \in Routers \cup Origins : Asn[r] \in Nat
           /\ Tails \subseteq Seq(Nat)
           /\ \A l \in Links : l \subseteq Routers /\ Cardinality(l) = 2
  BY NetworkAssumption
  DEF NetworkAssumption, Routers, Origins, Links, At, Asn, Tails

\* A session has two ends, which differ.
LEMMA EndFacts ==
    ASSUME net \in Nets, NEW r, NEW s
    PROVE  /\ <<r, s>> \in Ends <=> r \in Routers /\ s \in Peers(r)
           /\ <<r, s>> \in Ends => <<s, r>> \in Ends /\ <<r, s>> \in Wires
           /\ <<r, s>> \in Ends => r # s /\ r \in Routers /\ s \in Routers
           /\ <<s, r>> \in Wires <=> r \in Routers /\ s \in PeersIn(r)
           /\ r \in Routers /\ s \in Peers(r) =>
                <<r, s>> \in Ends /\ <<s, r>> \in Wires /\ r \in Peers(s)
           /\ r \in Routers /\ s \in PeersIn(r) => s # r /\ s \in Nat
<1>1. {r, s} = {s, r}
  OBVIOUS
<1>2. s \in Peers(r) => r # s
  <2> SUFFICES ASSUME {r, s} \in Links, r = s PROVE FALSE
    BY DEF Peers
  <2>1. Cardinality({r}) = 2
    BY NetFacts
  <2>2. Cardinality({r}) = 1
    BY FS_Singleton, Zenon
  <2> QED
    BY <2>1, <2>2
<1>3. <<r, s>> \in Ends <=> r \in Routers /\ s \in Peers(r)
  BY DEF Ends, Peers
<1>4. <<s, r>> \in Wires <=> r \in Routers /\ s \in PeersIn(r)
  BY DEF Wires, PeersIn, Peers
<1>5. s \in Peers(r) => s \in Routers /\ s \in PeersIn(r)
  BY DEF Peers, PeersIn
<1>6. r \in Routers /\ s \in Peers(r) => r \in Peers(s) /\ r \in PeersIn(s)
  BY <1>1 DEF Peers, PeersIn
<1>7. <<r, s>> \in Wires <=> s \in Routers /\ r \in PeersIn(s)
  BY DEF Wires, PeersIn, Peers
<1>8. <<s, r>> \in Ends <=> s \in Routers /\ r \in Peers(s)
  BY DEF Ends, Peers
<1>9. r \in Routers /\ s \in PeersIn(r) => s # r /\ s \in Nat
  BY <1>2, NetFacts DEF PeersIn, Peers
<1> QED
  BY <1>2, <1>3, <1>4, <1>5, <1>6, <1>7, <1>8, <1>9

-----------------------------------------------------------------------------
(* Types                                                                   *)

\* What RouteAttributes::new leaves out of an UPDATE, and what it counts.
Plain(r, a) ==
    /\ a # None /\ a.local_pref = 0 /\ a.origin = 0 /\ a.multi_exit_disc = 0
    /\ a.path_type = (IF Ibgp(r, a.peer_rid) THEN 1 ELSE 0)
    /\ a.path_len = Len(a.as_path)

\* A path of r, an entry of what it has to report, and a table of it.
PathOK(r, a) ==
    /\ IsPath(a) /\ Plain(r, a) /\ a.peer_rid \in PeersIn(r)
    /\ a.peer_type = IF Ibgp(r, a.peer_rid) THEN 0 ELSE 1
    /\ a.as_path \in Seq(Nat) /\ a.via \in Seq(Nat)
EntryOK(r, e) ==
    e = <<e[1], e[2]>> /\ e[1] \in Nlris /\ (e[2] = None \/ PathOK(r, e[2]))
TableOK(r, t) ==
    /\ GoodTable(t) /\ DOMAIN t \subseteq Nlris
    /\ \A n \in Nlris : \A a \in PathsOf(t, n) : PathOK(r, a)

\* No UPDATE announces what it withdraws, and a report says one thing of a prefix.
CleanMessage(m) ==
    m.kind = "update" =>
        /\ m.all => DOMAIN m.routes = {}
        /\ m.withdrawn \cap DOMAIN m.routes = {}
CleanReport(c) == \A i, j \in DOMAIN c : c[i][1] = c[j][1] => c[i] = c[j]

\* A message, and what is on a wire.
IsUpdate(m) ==
    /\ m.kind = "update" /\ m.as_path \in Seq(Nat)
    /\ DOMAIN m.routes \subseteq Nlris /\ m.withdrawn \subseteq Nlris
    /\ \A n \in DOMAIN m.routes : m.routes[n].via \in Seq(Nat)
IsMessage(m) == m = Keepalive \/ IsUpdate(m)
IsQueue(q) == q \in Seq(Elems(q)) /\ \A i \in DOMAIN q : IsMessage(q[i])

StatesOK == state \in [Ends -> Stages]
WiresOK == wire = [w \in Wires |-> wire[w]] /\ \A w \in Wires : IsQueue(wire[w])
RibsOK == DOMAIN rib = Routers /\ \A r \in Routers : TableOK(r, rib[r])
ReportsOK ==
    /\ DOMAIN modified = Routers /\ DOMAIN left = Routers
    /\ \A r \in Routers :
         /\ left[r] \subseteq Peers(r) /\ (left[r] # {} => modified[r] # <<>>)
         /\ \A i \in DOMAIN modified[r] : EntryOK(r, modified[r][i])
OriginsOK == DOMAIN announced = Origins /\ \A x \in Origins : DOMAIN announced[x] = Nlris

Typed ==
    net \in Nets /\ StatesOK /\ WiresOK /\ RibsOK /\ ReportsOK /\ OriginsOK

-----------------------------------------------------------------------------
(* What a peer holds or is about to                                        *)

Announces(m, n) == m.kind = "update" /\ n \in DOMAIN m.routes
Retracts(m, n) == m.kind = "update" /\ (m.all \/ n \in m.withdrawn)

\* An announcement of n is on its way; a withdrawal of n is, and none after it.
Carried(q, n) == \E i \in DOMAIN q : Announces(q[i], n)
Cancelled(q, n) ==
    \E i \in DOMAIN q : Retracts(q[i], n) /\ \A j \in DOMAIN q : j > i => ~Announces(q[j], n)

\* r has the loss of n to report.
Losing(r, n) == \E i \in DOMAIN modified[r] : modified[r][i] = <<n, None>>

\* r reports what it has, or its loss.
Truthful(r) ==
    left[r] # {} => \A i \in DOMAIN modified[r] :
        modified[r][i][1] \in DOMAIN rib[r] \/ Losing(r, modified[r][i][1])

\* What s holds of r, or will: r has it too, or its loss is on its way or will be.
Backed(r, s, n) ==
    \/ n \in DOMAIN rib[r]
    \/ Cancelled(wire[<<r, s>>], n)
    \/ s \in left[r] /\ Losing(r, n)
Answered(r, s) ==
    state[<<r, s>>] = "Established" =>
        \A n \in Nlris : Has(s, r, n) \/ Carried(wire[<<r, s>>], n) => Backed(r, s, n)

\* Before r is established it has told s nothing, and before s is it has heard nothing.
Silent(r, s) ==
    /\ state[<<r, s>>] = "OpenConfirm" =>
         /\ \A n \in Nlris : ~Has(s, r, n)
         /\ \A i \in DOMAIN wire[<<r, s>>] : wire[<<r, s>>][i] = Keepalive
    /\ state[<<s, r>>] = "OpenConfirm" => \A n \in Nlris : ~Has(s, r, n)

\* The same of an origin.
OriginBacked(x, n) == announced[x][n] # None \/ Cancelled(wire[<<x, At[x]>>], n)
OriginAnswered(x) ==
    \A n \in Nlris :
        Has(At[x], x, n) \/ Carried(wire[<<x, At[x]>>], n) => OriginBacked(x, n)

Answering ==
    /\ \A r \in Routers : Truthful(r)
    /\ \A e \in Ends : Answered(e[1], e[2]) /\ Silent(e[1], e[2])
    /\ \A x \in Origins : OriginAnswered(x)

-----------------------------------------------------------------------------
(* The way of a route                                                      *)

\* A route on its way from s to r: every speaker it came through has its AS in the path
\* but s itself within its AS, and none is there twice.
WayOK(r, s, as_path, via) ==
    /\ via \in Seq(Nat) /\ as_path \in Seq(Nat) /\ via # <<>> /\ via[1] = s
    /\ \A i, j \in DOMAIN via : via[i] = via[j] => i = j
    /\ \A i \in DOMAIN via : Asn[via[i]] \in Elems(as_path) \/ (i = 1 /\ Ibgp(r, s))

\* A route r has accepted.
AcceptedOK(r, a) ==
    WayOK(r, a.peer_rid, a.as_path, a.via) /\ \A i \in DOMAIN a.via : a.via[i] # r

\* The routes of a message and of a queue from s to r, and the paths of a table of r.
SoundMessage(r, s, m) ==
    m.kind = "update" =>
        \A n \in DOMAIN m.routes : WayOK(r, s, m.as_path, m.routes[n].via)
SoundQueue(r, s, q) == \A i \in DOMAIN q : SoundMessage(r, s, q[i])
SoundTable(r, t) == \A n \in Nlris : \A a \in PathsOf(t, n) : AcceptedOK(r, a)

\* The paths of one report are accepted and have the same attributes.
SoundReport(r, nlris) ==
    /\ \A i \in DOMAIN nlris : nlris[i][2] # None => AcceptedOK(r, nlris[i][2])
    /\ \A i, j \in DOMAIN nlris : nlris[i][2] # None /\ nlris[j][2] # None =>
         /\ nlris[i][2].as_path = nlris[j][2].as_path
         /\ nlris[i][2].peer_type = nlris[j][2].peer_type

WaysOK ==
    /\ \A w \in Wires : SoundQueue(w[2], w[1], wire[w])
    /\ \A r \in Routers : SoundTable(r, rib[r]) /\ SoundReport(r, modified[r])

\* UPDATEs have the attributes of all their prefixes: there is one prefix, or every
\* session is up from the start, so that no table of several is ever sent.
OnePrefix == \E n \in Nlris : Nlris = {n}
Unmixed == OnePrefix \/ \A x \in Nets : x.fresh = {}
NoneLate == OnePrefix \/ \A e \in Ends : state[e] # "OpenConfirm"

-----------------------------------------------------------------------------
(* Queues and sets                                                         *)

\* A sequence, by its positions.
LEMMA Positioned ==
    ASSUME NEW q, q \in Seq(Elems(q))
    PROVE  Len(q) \in Nat /\ DOMAIN q = 1..Len(q) /\ (q # <<>> => Len(q) >= 1)
<1>1. Len(q) \in Nat /\ DOMAIN q = 1..Len(q)
  BY LenProperties
<1>2. q # <<>> => Len(q) \in Nat \ {0}
  BY EmptySeq
<1> QED
  BY <1>1, <1>2

\* Any sequence is one of its own elements.
LEMMA OwnElements ==
    ASSUME NEW S, NEW q \in Seq(S)
    PROVE  q \in Seq(Elems(q))
<1>1. Len(q) \in Nat /\ DOMAIN q = 1..Len(q) /\ q \in [1..Len(q) -> S]
  BY LenProperties
<1>2. q \in [1..Len(q) -> Elems(q)]
  BY <1>1 DEF Elems
<1> QED
  BY <1>1, <1>2, SeqDef

\* One element more.
LEMMA QueueAppend ==
    ASSUME NEW q, q \in Seq(Elems(q)), NEW m, NEW q2, q2 = Append(q, m) \/ q2 = q \o <<m>>
    PROVE  /\ q2 \in Seq(Elems(q2)) /\ DOMAIN q2 = 1..(Len(q) + 1) /\ q2[Len(q) + 1] = m
           /\ DOMAIN q = 1..Len(q) /\ Len(q) \in Nat /\ \A i \in DOMAIN q : q2[i] = q[i]
<1> DEFINE S == Elems(q) \cup {m}
<1>1. q \in Seq(S) /\ m \in S
  BY SeqMonotonic
<1>2. q2 = Append(q, m)
  BY <1>1, AppendIsConcat
<1> HIDE DEF S
<1>3. /\ q2 \in Seq(S) /\ Len(q2) = Len(q) + 1 /\ q2[Len(q) + 1] = m
      /\ \A i \in 1..Len(q) : q2[i] = q[i]
  BY <1>1, <1>2, AppendProperties
<1>4. DOMAIN q = 1..Len(q) /\ Len(q) \in Nat /\ DOMAIN q2 = 1..Len(q2)
  BY <1>1, <1>3, LenProperties
<1> QED
  BY <1>3, <1>4, OwnElements

\* The first element goes.
LEMMA QueueTail ==
    ASSUME NEW q, q \in Seq(Elems(q)), q # <<>>, NEW q2, q2 = Tail(q)
    PROVE  /\ q2 \in Seq(Elems(q2)) /\ Len(q) \in Nat /\ Len(q) >= 1 /\ DOMAIN q = 1..Len(q)
           /\ DOMAIN q2 = 1..(Len(q) - 1) /\ \A i \in DOMAIN q2 : q2[i] = q[i + 1]
           /\ 1 \in DOMAIN q /\ Head(q) = q[1]
<1> DEFINE S == Elems(q)
<1>1. q \in Seq(S)
  OBVIOUS
<1>2. Len(q) \in Nat /\ Len(q) >= 1 /\ DOMAIN q = 1..Len(q)
  BY Positioned
<1> HIDE DEF S
<1>3. /\ q2 \in Seq(S) /\ Len(q2) = Len(q) - 1
      /\ \A i \in 1..Len(q2) : q2[i] = q[i + 1]
  BY <1>1, HeadTailProperties
<1>4. DOMAIN q2 = 1..Len(q2)
  BY <1>3, LenProperties
<1>5. Head(q) = q[1]
  BY <1>1
<1>6. q2 \in Seq(Elems(q2))
  BY <1>3, OwnElements
<1>7. DOMAIN q2 = 1..(Len(q) - 1) /\ \A i \in DOMAIN q2 : q2[i] = q[i + 1]
  BY <1>3, <1>4
<1> QED
  BY <1>2, <1>5, <1>6, <1>7

\* Messages come and go.
LEMMA QueueGrows ==
    ASSUME NEW q, IsQueue(q), NEW m, IsMessage(m), NEW q2, q2 = Append(q, m) \/ q2 = q \o <<m>>
    PROVE  IsQueue(q2)
<1>1. /\ q2 \in Seq(Elems(q2)) /\ DOMAIN q2 = 1..(Len(q) + 1) /\ q2[Len(q) + 1] = m
      /\ DOMAIN q = 1..Len(q) /\ Len(q) \in Nat /\ \A i \in DOMAIN q : q2[i] = q[i]
  BY QueueAppend DEF IsQueue
<1>2. ASSUME NEW i \in DOMAIN q2 PROVE IsMessage(q2[i])
  <2>1. i = Len(q) + 1 \/ i \in DOMAIN q
    BY <1>1
  <2> QED
    BY <1>1, <2>1 DEF IsQueue
<1> QED
  BY <1>1, <1>2 DEF IsQueue

\* What is left of a queue was in it.
LEMMA QueueShrinks ==
    ASSUME NEW q, IsQueue(q), q # <<>>
    PROVE  IsQueue(Tail(q)) /\ IsMessage(Head(q)) /\ Head(q) = q[1] /\ 1 \in DOMAIN q
<1>1. PICK q2 : q2 = Tail(q)
  OBVIOUS
<1>2. /\ q2 \in Seq(Elems(q2)) /\ Len(q) \in Nat /\ Len(q) >= 1 /\ DOMAIN q = 1..Len(q)
      /\ DOMAIN q2 = 1..(Len(q) - 1) /\ \A i \in DOMAIN q2 : q2[i] = q[i + 1]
      /\ 1 \in DOMAIN q /\ Head(q) = q[1]
  BY <1>1, QueueTail DEF IsQueue
<1>3. \A i \in DOMAIN q2 : i + 1 \in DOMAIN q
  BY <1>2
<1> QED
  BY <1>1, <1>2, <1>3 DEF IsQueue

\* What survives the loss of a connection.
LEMMA QueueSurvives ==
    ASSUME NEW q, IsQueue(q), NEW k \in 0..Len(q)
    PROVE  /\ IsQueue(Updates(q, k))
           /\ \A j \in DOMAIN Updates(q, k) : \E i \in DOMAIN q : Updates(q, k)[j] = q[i]
<1>1. Len(q) \in Nat /\ DOMAIN q = 1..Len(q)
  BY Positioned DEF IsQueue
<1> DEFINE T == {i \in 1..k : q[i] # Keepalive}
<1>2. T \subseteq 1..k /\ T \subseteq Nat /\ T \subseteq DOMAIN q
  BY <1>1
<1>3. IsFiniteSet(T)
  <2>1. IsFiniteSet(1..k)
    BY <1>1, FirstNumbers
  <2> QED
    BY <2>1, <1>2, FS_Subset
<1>4. PICK q2 : q2 = [j \in 1..Cardinality(T) |-> q[Nth(T, j)]]
  OBVIOUS
<1>5. Updates(q, k) = q2
  BY <1>4 DEF Updates
<1> HIDE DEF T
<1>6. Cardinality(T) \in Nat
  BY <1>3, FS_CardinalityType
<1>7. \A j \in 1..Cardinality(T) : Nth(T, j) \in DOMAIN q
  BY <1>2, <1>3, NthType
<1>8. q2 \in [1..Cardinality(T) -> Elems(q)]
  BY <1>4, <1>7 DEF Elems
<1>9. q2 \in Seq(Elems(q))
  BY <1>6, <1>8, SeqDef
<1>10. q2 \in Seq(Elems(q2))
  BY <1>9, OwnElements
<1>11. \A j \in DOMAIN q2 : IsMessage(q2[j])
  BY <1>4, <1>7 DEF IsQueue
<1>12. \A j \in DOMAIN q2 : \E i \in DOMAIN q : q2[j] = q[i]
  BY <1>4, <1>7
<1> QED
  BY <1>5, <1>10, <1>11, <1>12 DEF IsQueue

\* The empty queue.
LEMMA QueueEmpty == IsQueue(<<>>)
<1>1. <<>> \in Seq(Elems(<<>>))
  BY EmptySeq
<1> QED
  BY <1>1 DEF IsQueue

\* SetToSeq lists a finite set, all of it and nothing else.
LEMMA Listed ==
    ASSUME NEW S, IsFiniteSet(S), NEW q, q = SetToSeq(S)
    PROVE  q \in Seq(S) /\ DOMAIN q = 1..Len(q) /\ Len(q) \in Nat /\ Elems(q) = S
<1> DEFINE c == Cardinality(S)
<1>1. c \in Nat
  BY FS_CardinalityType
<1>2. ExistsBijection(1..c, S)
  BY FS_CardinalityType
<1>3. PICK f : f \in Bijection(1..c, S)
  BY <1>2 DEF ExistsBijection
<1>4. f \in [1..c -> S] /\ IsInjective(f)
  BY <1>3 DEF Bijection, Injection
<1>5. q \in [1..c -> S] /\ IsInjective(q)
  BY <1>4 DEF SetToSeq
<1>6. q \in Seq(S)
  BY <1>1, <1>5, SeqDef
<1>7. q \in Injection(1..c, S)
  BY <1>5 DEF Injection
<1>8. IsFiniteSet(1..c) /\ Cardinality(1..c) = c
  BY <1>1, FirstNumbers
<1>9. q \in Surjection(1..c, S)
  BY <1>7, <1>8, FS_Injection
<1>10. Elems(q) = S
  BY <1>5, <1>9 DEF Surjection, Elems
<1> QED
  BY <1>6, <1>10, LenProperties

\* A list of two sets.
LEMMA ListedBoth ==
    ASSUME NEW S, IsFiniteSet(S), NEW T, IsFiniteSet(T), NEW q,
           q = SetToSeq(S) \o SetToSeq(T)
    PROVE  q \in Seq(S \cup T) /\ Elems(q) = S \cup T
<1>1. PICK s, t : s = SetToSeq(S) /\ t = SetToSeq(T)
  OBVIOUS
<1>2. /\ s \in Seq(S) /\ DOMAIN s = 1..Len(s) /\ Len(s) \in Nat /\ Elems(s) = S
      /\ t \in Seq(T) /\ DOMAIN t = 1..Len(t) /\ Len(t) \in Nat /\ Elems(t) = T
  BY <1>1, Listed
<1>3. s \in Seq(S \cup T) /\ t \in Seq(S \cup T)
  BY <1>2, SeqMonotonic
<1>4. q = s \o t
  BY <1>1
<1>5. /\ q \in Seq(S \cup T) /\ Len(q) = Len(s) + Len(t)
      /\ \A i \in 1..(Len(s) + Len(t)) :
           q[i] = IF i <= Len(s) THEN s[i] ELSE t[i - Len(s)]
  BY <1>3, <1>4, ConcatProperties
<1>6. DOMAIN q = 1..(Len(s) + Len(t))
  BY <1>5, LenProperties
<1>7. Elems(q) \subseteq S \cup T
  BY <1>5, <1>6, ElementOfSeq DEF Elems
<1>8. ASSUME NEW x \in S PROVE x \in Elems(q)
  <2>1. PICK i \in DOMAIN s : x = s[i]
    BY <1>2 DEF Elems
  <2>2. i \in DOMAIN q /\ q[i] = x
    BY <1>2, <1>5, <1>6, <2>1
  <2> QED
    BY <2>2 DEF Elems
<1>9. ASSUME NEW x \in T PROVE x \in Elems(q)
  <2>1. PICK i \in DOMAIN t : x = t[i]
    BY <1>2 DEF Elems
  <2>2. PICK k \in Nat : k = Len(s) + i
    BY <1>2
  <2>3. k \in DOMAIN q /\ ~(k <= Len(s)) /\ k - Len(s) = i
    BY <1>2, <1>6, <2>2
  <2>4. q[k] = x
    BY <1>5, <1>6, <2>1, <2>3
  <2> QED
    BY <2>3, <2>4 DEF Elems
<1> QED
  BY <1>5, <1>7, <1>8, <1>9

\* The greatest of some numbers.
LEMMA Greatest ==
    ASSUME NEW S, S \subseteq Nat, IsFiniteSet(S), S # {}
    PROVE  Max(S) \in Nat /\ \A x \in S : x <= Max(S)
<1>1. PICK k \in S : \A x \in S : x <= k
  BY NthEnds
<1>2. \A x \in S : k >= x
  BY <1>1
<1>3. Max(S) \in S /\ \A x \in S : Max(S) >= x
  BY <1>1, <1>2, Zenon DEF Max
<1> QED
  BY <1>3

-----------------------------------------------------------------------------
(* The tables                                                              *)

\* recv_time is a number, the list it is taken from being finite, and the greatest.
LEMMA Newest ==
    ASSUME NEW list, IsPathList(list), NEW k,
           k = Max({0} \cup {list[i].recv_time + 1 : i \in DOMAIN list})
    PROVE  k \in Nat /\ \A i \in DOMAIN list : list[i].recv_time < k
<1>1. Len(list) \in Nat /\ DOMAIN list = 1..Len(list)
  BY LenProperties DEF IsPathList
<1>2. IsFiniteSet(DOMAIN list)
  BY <1>1, FirstNumbers
<1> DEFINE T == {list[i].recv_time + 1 : i \in DOMAIN list}
           f == [i \in DOMAIN list |-> list[i].recv_time + 1]
<1>3. f \in Surjection(DOMAIN list, T)
  BY DEF Surjection
<1>4. \A i \in DOMAIN list : list[i].recv_time \in Nat
  BY DEF IsPathList, Elems, IsPath
<1>5. T \subseteq Nat /\ \A i \in DOMAIN list : list[i].recv_time + 1 \in T
  BY <1>4
<1>6. k = Max({0} \cup T)
  OBVIOUS
<1> HIDE DEF T, f
<1>7. IsFiniteSet(T)
  BY <1>2, <1>3, FS_Surjection
<1>8. IsFiniteSet({0}) /\ IsFiniteSet({0} \cup T)
  BY <1>7, FS_Singleton, FS_Union
<1>9. PICK S : S = {0} \cup T
  OBVIOUS
<1>10. S \subseteq Nat /\ IsFiniteSet(S) /\ S # {} /\ T \subseteq S
  BY <1>5, <1>8, <1>9
<1>11. k \in Nat /\ \A x \in S : x <= k
  BY <1>6, <1>9, <1>10, Greatest
<1>12. \A i \in DOMAIN list : list[i].recv_time + 1 <= k
  BY <1>5, <1>10, <1>11
<1> QED
  BY <1>4, <1>11, <1>12

\* RouteAttributes::new, for a prefix of an UPDATE of s to r.
LEMMA NewPath ==
    ASSUME net \in Nets, NEW r, NEW s, <<s, r>> \in Wires, TableOK(r, rib[r]),
           NEW m, IsUpdate(m), NEW n \in DOMAIN m.routes, NEW p, p = Path(r, s, m, n)
    PROVE  /\ PathOK(r, p) /\ p.peer_rid = s /\ p.as_path = m.as_path
           /\ p.via = m.routes[n].via /\ (is_valid(p) <=> Asn[r] \notin Elems(m.as_path))
           /\ \A a \in PathsOf(rib[r], n) : a.recv_time < p.recv_time
<1>1. r \in Routers /\ s \in PeersIn(r) /\ s \in Nat
  BY EndFacts
<1>2. PICK list : list = IF n \in DOMAIN rib[r] THEN rib[r][n] ELSE <<>>
  OBVIOUS
<1>3. IsPathList(list)
  <2>1. IsPathList(<<>>)
    BY EmptySeq DEF IsPathList, Elems
  <2> QED
    BY <1>2, <2>1 DEF TableOK, GoodTable
<1>4. PICK t \in Nat :
        /\ t = Max({0} \cup {list[i].recv_time + 1 : i \in DOMAIN list})
        /\ \A i \in DOMAIN list : list[i].recv_time < t
  BY <1>3, Newest
<1>5. Len(m.as_path) \in Nat
  BY LenProperties DEF IsUpdate
<1>6. p = [local_pref |-> 0, path_type |-> IF Ibgp(r, s) THEN 1 ELSE 0,
           path_len |-> Len(m.as_path), origin |-> 0, multi_exit_disc |-> 0,
           peer_type |-> IF Ibgp(r, s) THEN 0 ELSE 1, recv_time |-> t,
           peer_rid |-> s, peer_ip |-> s, looped |-> Asn[r] \in ToSet(m.as_path),
           as_path |-> m.as_path, own |-> m.routes[n].own, via |-> m.routes[n].via]
  BY <1>2, <1>4, Zenon DEF Path
<1>7. /\ p.local_pref = 0 /\ p.path_type \in {0, 1} /\ p.path_len = Len(m.as_path)
      /\ p.origin = 0 /\ p.multi_exit_disc = 0 /\ p.peer_type = (IF Ibgp(r, s) THEN 0 ELSE 1)
      /\ p.recv_time = t /\ p.peer_rid = s /\ p.peer_ip = s /\ p.as_path = m.as_path
      /\ p.via = m.routes[n].via
  BY <1>6
<1>8. p.looped = (Asn[r] \in ToSet(m.as_path))
  BY <1>6
<1>9. is_valid(p) <=> Asn[r] \notin Elems(m.as_path)
  BY <1>8 DEF is_valid, ToSet, Elems
<1>10. IsPath(p)
  BY <1>1, <1>5, <1>7 DEF IsPath
<1>11. PathOK(r, p)
  <2>1. p # None
    <3>1. "via" \in DOMAIN p /\ DOMAIN None = {}
      BY <1>6 DEF None
    <3> QED
      BY <3>1
  <2>2. p.path_type = (IF Ibgp(r, s) THEN 1 ELSE 0)
    BY <1>6
  <2>3. Plain(r, p)
    BY <1>7, <2>1, <2>2 DEF Plain
  <2> QED
    BY <1>1, <1>7, <1>10, <2>3 DEF PathOK, IsUpdate
<1>12. \A a \in PathsOf(rib[r], n) : a.recv_time < p.recv_time
  BY <1>2, <1>4, <1>7 DEF PathsOf, Elems
<1> QED
  BY <1>7, <1>9, <1>11, <1>12

\* The paths of an UPDATE that are accepted.
Accepted(r, s, m) == {k \in DOMAIN m.routes : is_valid(Path(r, s, m, k))}

\* What was there, and the accepted paths.
Extended(r, s, m, t) ==
    /\ TableOK(r, t) /\ DOMAIN t = DOMAIN rib[r] \cup Accepted(r, s, m)
    /\ \A n \in Accepted(r, s, m) :
         PathsOf(t, n) = PathsOf(rib[r], n) \cup {Path(r, s, m, n)}
    /\ \A n : n \notin Accepted(r, s, m) => PathsOf(t, n) = PathsOf(rib[r], n)
    /\ \A n \in DOMAIN t : n \notin Accepted(r, s, m) => t[n] = rib[r][n]

\* loc_rib_added leaves such a table.
LEMMA AddedTable ==
    ASSUME net \in Nets, NEW r, NEW s, <<s, r>> \in Wires, TableOK(r, rib[r]),
           NEW m, IsUpdate(m), NEW t, t = loc_rib_added(r, s, m)
    PROVE  Extended(r, s, m, t)
<1>1. PICK A : A = Accepted(r, s, m)
  OBVIOUS
<1>2. t = [n \in DOMAIN rib[r] \cup A |->
             IF n \in A THEN Inserted(rib[r], n, Path(r, s, m, n))[n] ELSE rib[r][n]]
  BY <1>1 DEF loc_rib_added, Accepted
<1>3. A \subseteq DOMAIN m.routes /\ A \subseteq Nlris
  BY <1>1 DEF Accepted, IsUpdate
<1>4. ASSUME NEW n \in A
      PROVE  /\ IsPathList(t[n]) /\ Descending(t[n]) /\ t[n] # <<>>
             /\ PathsOf(t, n) = PathsOf(rib[r], n) \cup {Path(r, s, m, n)}
             /\ PathOK(r, Path(r, s, m, n))
  <2>1. PICK p : p = Path(r, s, m, n)
    OBVIOUS
  <2>2. PathOK(r, p) /\ IsPath(p)
    BY <1>3, <2>1, NewPath DEF PathOK
  <2>3. PICK t2 : t2 = Inserted(rib[r], n, p)
    OBVIOUS
  <2>4. GoodTable(t2) /\ Adds(rib[r], t2, n, p)
    BY <2>2, <2>3, InsertedTable DEF TableOK
  <2>5. n \in DOMAIN t2 /\ PathsOf(t2, n) = PathsOf(rib[r], n) \cup {p}
    BY <2>4 DEF Adds
  <2>6. t[n] = t2[n] /\ n \in DOMAIN t
    BY <1>2, <2>1, <2>3
  <2> QED
    BY <2>1, <2>2, <2>4, <2>5, <2>6 DEF GoodTable, PathsOf
<1>5. ASSUME NEW n, n \notin A
      PROVE  /\ PathsOf(t, n) = PathsOf(rib[r], n)
             /\ n \in DOMAIN t => n \in DOMAIN rib[r] /\ t[n] = rib[r][n]
  BY <1>2, <1>5 DEF PathsOf
<1>6. DOMAIN t = DOMAIN rib[r] \cup A
  BY <1>2
<1>7. GoodTable(t)
  BY <1>4, <1>5 DEF GoodTable, TableOK
<1>8. \A n \in Nlris : \A a \in PathsOf(t, n) : PathOK(r, a)
  BY <1>4, <1>5 DEF TableOK
<1>9. TableOK(r, t)
  BY <1>3, <1>6, <1>7, <1>8 DEF TableOK
<1> QED
  BY <1>1, <1>4, <1>5, <1>6, <1>9 DEF Extended

\* The peer's paths of the candidates are gone, and an entry only with its last path,
\* which was the peer's and so the first.
Reduced(table, s, m, t) ==
    /\ GoodTable(t) /\ DOMAIN t \subseteq DOMAIN table
    /\ \A n \in Candidates(table, s, m) :
         PathsOf(t, n) = {a \in PathsOf(table, n) : a.peer_rid # s}
    /\ \A n : n \notin Candidates(table, s, m) => PathsOf(t, n) = PathsOf(table, n)
    /\ \A n \in DOMAIN table \ DOMAIN t :
         n \in Candidates(table, s, m) /\ table[n][1].peer_rid = s

\* loc_rib_withdraw leaves such a table.
LEMMA WithdrawTable ==
    ASSUME NEW table, GoodTable(table), NEW s, NEW m, NEW t, t = loc_rib_withdraw(table, s, m)
    PROVE  Reduced(table, s, m, t)
<1>1. PICK C : C = Candidates(table, s, m)
  OBVIOUS
<1>2. C \subseteq DOMAIN table
  BY <1>1 DEF Candidates
<1>3. t = [n \in {k \in DOMAIN table : k \in C => k \in DOMAIN Withdrawn(table, k, s)} |->
             IF n \in C THEN Withdrawn(table, n, s)[n] ELSE table[n]]
  BY <1>1 DEF loc_rib_withdraw
<1>4. ASSUME NEW n \in C
      PROVE  /\ n \in DOMAIN t => IsPathList(t[n]) /\ Descending(t[n]) /\ t[n] # <<>>
             /\ PathsOf(t, n) = {a \in PathsOf(table, n) : a.peer_rid # s}
             /\ n \notin DOMAIN t => table[n][1].peer_rid = s
  <2>1. PICK t2 : t2 = Withdrawn(table, n, s)
    OBVIOUS
  <2>2. GoodTable(t2) /\ Drops(table, t2, n, s)
    BY <1>2, <2>1, WithdrawnTable
  <2>3. PathsOf(t2, n) = {a \in PathsOf(table, n) : a.peer_rid # s}
    BY <2>2 DEF Drops
  <2>4. n \in DOMAIN t <=> n \in DOMAIN t2
    BY <1>2, <1>3, <2>1
  <2>5. n \in DOMAIN t => t[n] = t2[n]
    BY <1>3, <2>1
  <2>6. PathsOf(t, n) = PathsOf(t2, n)
    BY <2>4, <2>5 DEF PathsOf
  <2>7. ASSUME n \notin DOMAIN t PROVE table[n][1].peer_rid = s
    <3>1. PathsOf(t2, n) = {}
      BY <2>4, <2>7 DEF PathsOf
    <3>2. 1 \in DOMAIN table[n]
      <4>1. IsPathList(table[n]) /\ table[n] # <<>>
        BY <1>2 DEF GoodTable
      <4> QED
        BY <4>1, Positioned DEF IsPathList
    <3>3. table[n][1] \in PathsOf(table, n)
      BY <1>2, <3>2 DEF PathsOf, Elems
    <3> QED
      BY <2>3, <3>1, <3>3
  <2> QED
    BY <2>2, <2>3, <2>4, <2>5, <2>6, <2>7 DEF GoodTable
<1>5. ASSUME NEW n, n \notin C
      PROVE  /\ PathsOf(t, n) = PathsOf(table, n)
             /\ n \in DOMAIN t <=> n \in DOMAIN table
             /\ n \in DOMAIN t => t[n] = table[n]
  BY <1>3, <1>5 DEF PathsOf
<1>6. GoodTable(t)
  BY <1>4, <1>5 DEF GoodTable
<1>7. DOMAIN t \subseteq DOMAIN table
  BY <1>3
<1> QED
  BY <1>1, <1>4, <1>5, <1>6, <1>7 DEF Reduced

\* What Process has to report: entries of the table before the withdrawals, the accepted
\* paths that improve it, and the loss of every best path that is withdrawn.
Reports(r, s, m, t, c) ==
    /\ \A i \in DOMAIN c :
         /\ EntryOK(r, c[i]) /\ c[i][1] \in DOMAIN t
         /\ \/ /\ c[i] \in Added(r, s, m)
               /\ \E n \in Accepted(r, s, m) : c[i] = <<n, Path(r, s, m, n)>>
            \/ \E n \in Candidates(t, s, m) : c[i] = <<n, None>> /\ t[n][1].peer_rid = s
    /\ \A e \in Added(r, s, m) : \E i \in DOMAIN c : c[i] = e
    /\ \A n \in Candidates(t, s, m) : t[n][1].peer_rid = s =>
         \E i \in DOMAIN c : c[i] = <<n, None>>

\* Process reports that.
LEMMA Changed ==
    ASSUME net \in Nets, NEW r, NEW s, <<s, r>> \in Wires, TableOK(r, rib[r]),
           NEW m, IsUpdate(m), NEW t, t = loc_rib_added(r, s, m),
           NEW c, c = SetToSeq(Added(r, s, m)) \o SetToSeq(Lost(t, s, m))
    PROVE  Reports(r, s, m, t, c)
<1>0. Extended(r, s, m, t)
  BY AddedTable, Zenon
<1>1. /\ TableOK(r, t) /\ DOMAIN t = DOMAIN rib[r] \cup Accepted(r, s, m)
  BY <1>0 DEF Extended
<1>2. /\ DOMAIN t \subseteq Nlris /\ Accepted(r, s, m) \subseteq DOMAIN m.routes
      /\ Accepted(r, s, m) \subseteq Nlris
  BY <1>1 DEF TableOK, Accepted, IsUpdate
<1>3. Candidates(t, s, m) \subseteq DOMAIN t
  BY DEF Candidates
<1>4. PICK A : A = Added(r, s, m)
  OBVIOUS
<1>5. PICK L : L = Lost(t, s, m)
  OBVIOUS
<1>6. \A e \in A : \E n \in Accepted(r, s, m) : e = <<n, Path(r, s, m, n)>>
  BY <1>4 DEF Added, Accepted
<1>7. /\ \A e \in L : \E n \in Candidates(t, s, m) : e = <<n, None>> /\ t[n][1].peer_rid = s
      /\ \A n \in Candidates(t, s, m) : t[n][1].peer_rid = s => <<n, None>> \in L
  BY <1>5 DEF Lost
<1>8. IsFiniteSet(A)
  <2> DEFINE N == {n \in Accepted(r, s, m) : <<n, Path(r, s, m, n)>> \in A}
             f == [n \in N |-> <<n, Path(r, s, m, n)>>]
  <2>1. N \subseteq Nlris /\ IsFiniteSet(N) /\ f \in [N -> A]
    BY <1>2, NetworkAssumption, FS_Subset DEF NetworkAssumption
  <2>2. ASSUME NEW e \in A PROVE \E n \in N : f[n] = e
    <3>1. PICK n \in Accepted(r, s, m) : e = <<n, Path(r, s, m, n)>>
      BY <1>6
    <3> QED
      BY <3>1
  <2>3. f \in Surjection(N, A)
    BY <2>1, <2>2 DEF Surjection
  <2> HIDE DEF N, f
  <2> QED
    BY <2>1, <2>3, FS_Surjection
<1>9. IsFiniteSet(L)
  <2> DEFINE N == {n \in Candidates(t, s, m) : <<n, None>> \in L}
             f == [n \in N |-> <<n, None>>]
  <2>1. N \subseteq Nlris /\ IsFiniteSet(N) /\ f \in [N -> L]
    BY <1>2, <1>3, NetworkAssumption, FS_Subset DEF NetworkAssumption
  <2>2. ASSUME NEW e \in L PROVE \E n \in N : f[n] = e
    <3>1. PICK n \in Candidates(t, s, m) : e = <<n, None>>
      BY <1>7
    <3> QED
      BY <3>1
  <2>3. f \in Surjection(N, L)
    BY <2>1, <2>2 DEF Surjection
  <2> HIDE DEF N, f
  <2> QED
    BY <2>1, <2>3, FS_Surjection
<1>10. Elems(c) = A \cup L
  BY <1>4, <1>5, <1>8, <1>9, ListedBoth
<1>11. ASSUME NEW e \in A
       PROVE  /\ EntryOK(r, e) /\ e[1] \in DOMAIN t
              /\ \E n \in Accepted(r, s, m) : e = <<n, Path(r, s, m, n)>>
  <2>1. PICK n \in Accepted(r, s, m) : e = <<n, Path(r, s, m, n)>>
    BY <1>6
  <2>2. PICK p : p = Path(r, s, m, n)
    OBVIOUS
  <2>3. PathOK(r, p)
    BY <1>2, <2>2, NewPath
  <2> QED
    BY <1>1, <1>2, <2>1, <2>2, <2>3 DEF EntryOK
<1>12. ASSUME NEW e \in L
       PROVE  /\ EntryOK(r, e) /\ e[1] \in DOMAIN t
              /\ \E n \in Candidates(t, s, m) : e = <<n, None>> /\ t[n][1].peer_rid = s
  BY <1>2, <1>3, <1>7 DEF EntryOK
<1>13. ASSUME NEW i \in DOMAIN c PROVE c[i] \in A \/ c[i] \in L
  BY <1>10 DEF Elems
<1>14. ASSUME NEW e, e \in A \/ e \in L PROVE \E i \in DOMAIN c : c[i] = e
  BY <1>10, <1>14 DEF Elems
<1>15. ASSUME NEW i \in DOMAIN c
       PROVE  /\ EntryOK(r, c[i]) /\ c[i][1] \in DOMAIN t
              /\ \/ /\ c[i] \in A
                    /\ \E n \in Accepted(r, s, m) : c[i] = <<n, Path(r, s, m, n)>>
                 \/ \E n \in Candidates(t, s, m) : c[i] = <<n, None>> /\ t[n][1].peer_rid = s
  BY <1>11, <1>12, <1>13
<1> QED
  BY <1>4, <1>7, <1>14, <1>15 DEF Reports

-----------------------------------------------------------------------------
(* send_update                                                             *)

\* The entries that may go to s.
EntriesFor(s, nlris) ==
    {nlris[i] : i \in {j \in DOMAIN nlris :
        nlris[j][2] # None /\ ~is_from_neighbor(nlris[j][2], s)}}
LostIn(nlris) == {nlris[i][1] : i \in {j \in DOMAIN nlris : nlris[j][2] = None}}

\* They have one AS path, and are all internal or all external.
AlikeFor(s, nlris) ==
    \A d, e \in EntriesFor(s, nlris) :
        d[2].peer_type = e[2].peer_type /\ d[2].as_path = e[2].as_path

\* m withdraws what was lost, and announces prefixes of the report with the way of
\* their path and the attributes of one of them, all that may go there if they are alike.
Tells(r, s, nlris, m) ==
    /\ m.kind = "update" /\ m.all = FALSE /\ m.withdrawn = LostIn(nlris)
    /\ m.as_path = <<>> \/ \E d \in EntriesFor(s, nlris) : m.as_path = prepend(r, s, d[2])
    /\ \A n \in DOMAIN m.routes :
         /\ \E e \in EntriesFor(s, nlris) : e[1] = n /\ m.routes[n].via = <<r>> \o e[2].via
         /\ \E d \in EntriesFor(s, nlris) : m.as_path = prepend(r, s, d[2])
         /\ \E d \in EntriesFor(s, nlris) : should_send(r, s, d[2])
    /\ AlikeFor(s, nlris) => \A e \in EntriesFor(s, nlris) :
         should_send(r, s, e[2]) => e[1] \in DOMAIN m.routes

\* A report is one such message, or none if nothing was lost.
LEMMA MessageOf ==
    ASSUME NEW r, NEW s, NEW nlris, NEW ms \in Messages(r, s, nlris)
    PROVE  \/ ms = <<>> /\ LostIn(nlris) = {} /\ EntriesFor(s, nlris) = {}
           \/ \E m : ms = <<m>> /\ Tells(r, s, nlris, m)
<1> DEFINE wd == LostIn(nlris)
           entries == EntriesFor(s, nlris)
           firsts == {f \in [Groups(entries) -> entries] :
                        \A g \in Groups(entries) : f[g] \in g}
           Sent(f) == UNION {g \in Groups(entries) : should_send(r, s, f[g][2])}
           Route(f, n) == LET a == (CHOOSE e \in Sent(f) : e[1] = n)[2]
                          IN [own |-> prepend(r, s, a), via |-> <<r>> \o a.via]
           Body(f, last) ==
               Update([n \in {e[1] : e \in Sent(f)} |-> Route(f, n)],
                      IF last = {} THEN <<>> ELSE prepend(r, s, f[last][2]), wd, FALSE)
           Offers(f) ==
               IF Sent(f) = {} THEN {<<Body(f, {})>>}
               ELSE {<<Body(f, g)>> : g \in {h \in Groups(entries) : h \subseteq Sent(f)}}
<1>1. Messages(r, s, nlris) =
        IF wd = {} /\ entries = {} THEN {<<>>} ELSE UNION {Offers(f) : f \in firsts}
  BY Zenon DEF Messages, LostIn, EntriesFor
<1>2. CASE wd = {} /\ entries = {}
  BY <1>1, <1>2
<1> HIDE DEF wd, entries, firsts, Sent, Route, Body, Offers
<1>3. CASE ~(wd = {} /\ entries = {})
  <2>1. PICK f \in firsts : ms \in Offers(f)
    BY <1>1, <1>3
  <2>2. PICK last : /\ ms = <<Body(f, last)>>
                    /\ (last = {} /\ Sent(f) = {}) \/ last \in Groups(entries)
    BY <2>1 DEF Offers
  <2>3. \A g \in Groups(entries) : g \subseteq entries /\ f[g] \in g /\ f[g] \in entries
    BY DEF Groups, firsts
  <2>4. Sent(f) \subseteq entries
    BY <2>3 DEF Sent
  <2>5. ASSUME NEW n \in {d[1] : d \in Sent(f)}
        PROVE  /\ \E e \in entries : e[1] = n /\ Route(f, n).via = <<r>> \o e[2].via
               /\ \E d \in entries : should_send(r, s, d[2])
    <3>1. PICK e : e = CHOOSE d \in Sent(f) : d[1] = n
      OBVIOUS
    <3>2. e \in Sent(f) /\ e[1] = n
      BY <3>1
    <3>3. Route(f, n) = [own |-> prepend(r, s, e[2]), via |-> <<r>> \o e[2].via]
      BY <3>1 DEF Route
    <3>4. PICK g \in Groups(entries) : should_send(r, s, f[g][2])
      BY <3>2 DEF Sent
    <3> QED
      BY <2>3, <2>4, <3>2, <3>3, <3>4
  <2>6. PICK m : m = Body(f, last)
    OBVIOUS
  <2>7. /\ m.kind = "update" /\ m.all = FALSE /\ m.withdrawn = wd
        /\ m.as_path = (IF last = {} THEN <<>> ELSE prepend(r, s, f[last][2]))
        /\ m.routes = [n \in {e[1] : e \in Sent(f)} |-> Route(f, n)]
    BY <2>6 DEF Update, Body
  <2>8. last # {} => \E d \in entries : m.as_path = prepend(r, s, d[2])
    BY <2>2, <2>3, <2>7
  <2>9. m.as_path = <<>> \/ \E d \in entries : m.as_path = prepend(r, s, d[2])
    BY <2>7, <2>8
  <2>10. ASSUME NEW n \in DOMAIN m.routes
         PROVE  /\ \E e \in entries : e[1] = n /\ m.routes[n].via = <<r>> \o e[2].via
                /\ \E d \in entries : m.as_path = prepend(r, s, d[2])
                /\ \E d \in entries : should_send(r, s, d[2])
    <3>1. n \in {e[1] : e \in Sent(f)} /\ m.routes[n] = Route(f, n)
      BY <2>7
    <3>2. Sent(f) # {}
      BY <3>1
    <3>3. last # {}
      <4>1. last \in Groups(entries)
        BY <2>2, <3>2
      <4> QED
        BY <4>1, <2>3
    <3>4. /\ \E e \in entries : e[1] = n /\ Route(f, n).via = <<r>> \o e[2].via
          /\ \E d \in entries : should_send(r, s, d[2])
      BY <2>5, <3>1
    <3> QED
      BY <2>8, <3>1, <3>3, <3>4
  <2>11. ASSUME AlikeFor(s, nlris), NEW e \in entries, should_send(r, s, e[2])
         PROVE  e[1] \in DOMAIN m.routes
    <3>1. PICK g : g = {d \in entries : SameAttributes(d[2], e[2])}
      OBVIOUS
    <3>2. g \in Groups(entries) /\ e \in g
      BY <3>1 DEF Groups, SameAttributes
    <3>3. f[g][2].peer_type = e[2].peer_type
      BY <2>3, <2>11, <3>2 DEF AlikeFor, entries
    <3>4. should_send(r, s, f[g][2])
      BY <2>11, <3>3 DEF should_send
    <3>5. e \in Sent(f)
      BY <3>2, <3>4 DEF Sent
    <3> QED
      BY <2>7, <3>5
  <2>12. Tells(r, s, nlris, m)
    BY <2>7, <2>9, <2>10, <2>11 DEF Tells, wd, entries
  <2> QED
    BY <2>2, <2>6, <2>12
<1> QED
  BY <1>2, <1>3 DEF wd, entries

\* One hop more.
LEMMA Prefixed ==
    ASSUME NEW x \in Nat, NEW q \in Seq(Nat), NEW q2, q2 = <<x>> \o q
    PROVE  /\ q2 \in Seq(Nat) /\ Len(q) \in Nat /\ DOMAIN q = 1..Len(q)
           /\ DOMAIN q2 = 1..(Len(q) + 1) /\ q2[1] = x /\ q2 # <<>>
           /\ \A i \in DOMAIN q : q2[i + 1] = q[i]
           /\ Elems(q2) = {x} \cup Elems(q)
<1>1. <<x>> \in Seq(Nat) /\ Len(<<x>>) = 1 /\ <<x>>[1] = x
  OBVIOUS
<1>2. /\ q2 \in Seq(Nat) /\ Len(q2) = 1 + Len(q)
      /\ \A i \in 1..(1 + Len(q)) : q2[i] = IF i <= 1 THEN <<x>>[i] ELSE q[i - 1]
  BY <1>1, ConcatProperties
<1>3. /\ Len(q) \in Nat /\ DOMAIN q = 1..Len(q) /\ DOMAIN q2 = 1..Len(q2)
  BY <1>2, LenProperties
<1>4. DOMAIN q2 = 1..(Len(q) + 1) /\ q2[1] = x /\ 1 \in DOMAIN q2
  BY <1>1, <1>2, <1>3
<1>5. ASSUME NEW i \in DOMAIN q PROVE q2[i + 1] = q[i] /\ i + 1 \in DOMAIN q2
  <2>0. i \in Nat /\ i >= 1 /\ i <= Len(q)
    BY <1>3
  <2>1. i + 1 \in 1..(1 + Len(q)) /\ ~(i + 1 <= 1) /\ (i + 1) - 1 = i
    BY <1>3, <2>0
  <2> QED
    BY <1>2, <1>4, <2>1
<1>6. ASSUME NEW i \in DOMAIN q2, i # 1 PROVE q2[i] \in Elems(q)
  <2>1. i - 1 \in DOMAIN q /\ ~(i <= 1)
    BY <1>3, <1>4, <1>6
  <2>2. q2[i] = q[i - 1]
    BY <1>2, <1>3, <2>1
  <2> QED
    BY <2>1, <2>2 DEF Elems
<1>7. Elems(q2) \subseteq {x} \cup Elems(q)
  BY <1>4, <1>6 DEF Elems
<1>8. {x} \cup Elems(q) \subseteq Elems(q2)
  BY <1>4, <1>5 DEF Elems
<1>9. q2 # <<>>
  BY <1>4
<1> QED
  BY <1>2, <1>3, <1>4, <1>5, <1>7, <1>8, <1>9

\* What prepend makes of the AS path of a.
LEMMA Prepended ==
    ASSUME net \in Nets, NEW r \in Routers, NEW s, NEW a, PathOK(r, a)
    PROVE  /\ prepend(r, s, a) \in Seq(Nat) /\ Elems(a.as_path) \subseteq Elems(prepend(r, s, a))
           /\ ~Ibgp(r, s) => Asn[r] \in Elems(prepend(r, s, a))
<1>1. Asn[r] \in Nat /\ a.as_path \in Seq(Nat)
  BY NetFacts DEF PathOK
<1>2. PICK q : q = <<Asn[r]>> \o a.as_path
  OBVIOUS
<1>3. q \in Seq(Nat) /\ Elems(q) = {Asn[r]} \cup Elems(a.as_path)
  BY <1>1, <1>2, Prefixed
<1> QED
  BY <1>1, <1>2, <1>3 DEF prepend

\* The entries of a report that go to s.
LEMMA EntriesAre ==
    ASSUME NEW r, NEW s, NEW nlris, \A i \in DOMAIN nlris : EntryOK(r, nlris[i]),
           NEW e \in EntriesFor(s, nlris)
    PROVE  e[1] \in Nlris /\ PathOK(r, e[2]) /\ \E i \in DOMAIN nlris : nlris[i] = e
  BY DEF EntriesFor, EntryOK

\* A report of well formed entries is a well formed message.
LEMMA ToldIsUpdate ==
    ASSUME net \in Nets, NEW r \in Routers, NEW s, NEW nlris,
           \A i \in DOMAIN nlris : EntryOK(r, nlris[i]), NEW m, Tells(r, s, nlris, m)
    PROVE  IsUpdate(m)
<1>1. r \in Nat
  BY NetFacts
<1>2. m.as_path \in Seq(Nat)
  <2>1. \A d \in EntriesFor(s, nlris) : prepend(r, s, d[2]) \in Seq(Nat)
    BY EntriesAre, Prepended
  <2> QED
    BY <2>1, EmptySeq DEF Tells
<1>3. m.withdrawn \subseteq Nlris
  BY DEF Tells, LostIn, EntryOK
<1>4. ASSUME NEW n \in DOMAIN m.routes PROVE n \in Nlris /\ m.routes[n].via \in Seq(Nat)
  <2>1. PICK e \in EntriesFor(s, nlris) : e[1] = n /\ m.routes[n].via = <<r>> \o e[2].via
    BY DEF Tells
  <2>2. e[1] \in Nlris /\ e[2].via \in Seq(Nat)
    BY EntriesAre DEF PathOK
  <2>3. m.routes[n].via \in Seq(Nat)
    BY <1>1, <2>1, <2>2, Prefixed
  <2> QED
    BY <2>1, <2>2, <2>3
<1> QED
  BY <1>2, <1>3, <1>4 DEF Tells, IsUpdate

\* What a report does to the queue it is written to.
LEMMA QueueTold ==
    ASSUME net \in Nets, NEW r \in Routers, NEW s, NEW nlris,
           \A i \in DOMAIN nlris : EntryOK(r, nlris[i]),
           NEW ms \in Messages(r, s, nlris), NEW q, IsQueue(q)
    PROVE  /\ IsQueue(q \o ms)
           /\ \/ q \o ms = q /\ LostIn(nlris) = {} /\ EntriesFor(s, nlris) = {}
              \/ \E m : q \o ms = q \o <<m>> /\ Tells(r, s, nlris, m) /\ IsUpdate(m)
<1>1. CASE ms = <<>> /\ LostIn(nlris) = {} /\ EntriesFor(s, nlris) = {}
  <2>1. q \o <<>> = q
    BY ConcatEmptySeq DEF IsQueue
  <2> QED
    BY <1>1, <2>1
<1>2. CASE \E m : ms = <<m>> /\ Tells(r, s, nlris, m)
  <2>1. PICK m : ms = <<m>> /\ Tells(r, s, nlris, m)
    BY <1>2
  <2>2. IsUpdate(m)
    BY <2>1, ToldIsUpdate
  <2>3. IsQueue(q \o <<m>>)
    BY <2>2, QueueGrows DEF IsMessage
  <2> QED
    BY <2>1, <2>2, <2>3
<1> QED
  BY <1>1, <1>2, MessageOf

-----------------------------------------------------------------------------
(* Types are kept                                                          *)

\* The network stays as it is, and so does what it says of paths and tables.
LEMMA NetFixed ==
    ASSUME net' = net
    PROVE  /\ Routers' = Routers /\ Origins' = Origins /\ Wires' = Wires /\ Ends' = Ends
           /\ At' = At /\ Asn' = Asn
           /\ \A r : Peers(r)' = Peers(r) /\ PeersIn(r)' = PeersIn(r)
           /\ \A r, s : Ibgp(r, s)' <=> Ibgp(r, s)
<1>1. /\ Routers' = Routers /\ Origins' = Origins /\ At' = At /\ Asn' = Asn /\ Links' = Links
  BY DEF Routers, Origins, At, Asn, Links
<1>2. \A r : Peers(r)' = Peers(r)
  BY <1>1 DEF Peers
<1>3. \A r : PeersIn(r)' = PeersIn(r)
  BY <1>1, <1>2 DEF PeersIn
<1>4. Wires' = Wires
  BY <1>1, <1>3 DEF Wires
<1>5. Ends' = Ends
  BY <1>1, <1>2 DEF Ends
<1>6. \A r, s : Ibgp(r, s)' <=> Ibgp(r, s)
  BY <1>1 DEF Ibgp
<1> QED
  BY <1>1, <1>2, <1>3, <1>4, <1>5, <1>6

\* No step changes the topology.
LEMMA PathsFixed ==
    ASSUME net' = net
    PROVE  /\ \A r, a : PathOK(r, a)' <=> PathOK(r, a)
           /\ \A r, e : EntryOK(r, e)' <=> EntryOK(r, e)
           /\ \A r, t : TableOK(r, t)' <=> TableOK(r, t)
<1>1. \A r, a : PathOK(r, a)' <=> PathOK(r, a)
  <2>1. \A r, a : Plain(r, a)' <=> Plain(r, a)
    BY NetFixed DEF Plain
  <2> QED
    BY <2>1, NetFixed DEF PathOK
<1>2. \A r, e : EntryOK(r, e)' <=> EntryOK(r, e)
  BY <1>1 DEF EntryOK
<1>3. \A r, t : TableOK(r, t)' <=> TableOK(r, t)
  BY <1>1 DEF TableOK
<1> QED
  BY <1>1, <1>2, <1>3

\* The parts of a state that do not change keep their types.
LEMMA TypesStay ==
    ASSUME net' = net
    PROVE  /\ StatesOK /\ state' = state => StatesOK'
           /\ WiresOK /\ wire' = wire => WiresOK'
           /\ RibsOK /\ rib' = rib => RibsOK'
           /\ ReportsOK /\ modified' = modified /\ left' = left => ReportsOK'
           /\ OriginsOK /\ announced' = announced => OriginsOK'
<1>1. StatesOK /\ state' = state => StatesOK'
  BY NetFixed DEF StatesOK
<1>2. WiresOK /\ wire' = wire => WiresOK'
  BY NetFixed DEF WiresOK
<1>3. RibsOK /\ rib' = rib => RibsOK'
  BY NetFixed, PathsFixed DEF RibsOK
<1>4. ReportsOK /\ modified' = modified /\ left' = left => ReportsOK'
  BY NetFixed, PathsFixed DEF ReportsOK
<1>5. OriginsOK /\ announced' = announced => OriginsOK'
  BY NetFixed DEF OriginsOK
<1> QED
  BY <1>1, <1>2, <1>3, <1>4, <1>5

\* One queue changes.
LEMMA WireChanges ==
    ASSUME net' = net, WiresOK, NEW w \in Wires, NEW q, IsQueue(q),
           wire' = [wire EXCEPT ![w] = q]
    PROVE  WiresOK'
  BY NetFixed DEF WiresOK

\* A state that changes, changes for one end of one session.
LEMMA StateChanges ==
    ASSUME net' = net, StatesOK, NEW e \in Ends, NEW x \in Stages,
           state' = [state EXCEPT ![e] = x]
    PROVE  StatesOK'
  BY NetFixed DEF StatesOK

\* A message appended to one wire leaves the others alone.
LEMMA WiresChange ==
    ASSUME net' = net, WiresOK, NEW v \in Wires, NEW w \in Wires, v # w,
           NEW p, IsQueue(p), NEW q, IsQueue(q), wire' = [wire EXCEPT ![v] = p, ![w] = q]
    PROVE  WiresOK'
  BY NetFixed DEF WiresOK

\* What process_rib_event does to the state: m is the message, t the table with the
\* accepted paths, u the one without the withdrawn ones, c the report.
Handles(r, s, m, t, u, c) ==
    /\ wire[<<s, r>>] # <<>> /\ m = wire[<<s, r>>][1] /\ IsUpdate(m) /\ left[r] = {}
    /\ s \in Peers(r) => state[<<r, s>>] # "OpenConfirm"
    /\ Extended(r, s, m, t) /\ Reduced(t, s, m, u) /\ TableOK(r, u) /\ Reports(r, s, m, t, c)
    /\ rib' = [rib EXCEPT ![r] = u] /\ modified' = [modified EXCEPT ![r] = c]
    /\ left' = [left EXCEPT ![r] = IF c = <<>> THEN {} ELSE Peers(r)]
    /\ wire' = [wire EXCEPT ![<<s, r>>] = Tail(wire[<<s, r>>])]
    /\ untold' = {x \in untold : x[1] # r} \cup {r} \X Untold(r, u, Added(r, s, m))
    /\ UNCHANGED <<state, announced, lost, missed>>

\* Process does that.
LEMMA ProcessHandles ==
    ASSUME Typed, NEW r, NEW s, <<s, r>> \in Wires, Process(r, s)
    PROVE  \E m, t, u, c : Handles(r, s, m, t, u, c)
<1>1. net \in Nets /\ r \in Routers /\ s \in PeersIn(r)
  BY EndFacts DEF Typed
<1>2. TableOK(r, rib[r]) /\ GoodTable(rib[r])
  BY <1>1 DEF Typed, RibsOK, TableOK
<1>3. IsQueue(wire[<<s, r>>]) /\ wire[<<s, r>>] # <<>>
  BY DEF Typed, WiresOK, Process
<1>4. PICK m : m = Head(wire[<<s, r>>])
  OBVIOUS
<1>5. PICK t : t = loc_rib_added(r, s, m)
  OBVIOUS
<1>6. PICK c : c = SetToSeq(Added(r, s, m)) \o SetToSeq(Lost(t, s, m))
  OBVIOUS
<1>7. PICK u : u = loc_rib_withdraw(t, s, m)
  OBVIOUS
<1>8. /\ m.kind = "update" /\ rib' = [rib EXCEPT ![r] = u]
      /\ modified' = [modified EXCEPT ![r] = c]
      /\ left' = [left EXCEPT ![r] = IF c = <<>> THEN {} ELSE Peers(r)]
      /\ wire' = [wire EXCEPT ![<<s, r>>] = Tail(wire[<<s, r>>])]
      /\ untold' = {x \in untold : x[1] # r} \cup {r} \X Untold(r, u, Added(r, s, m))
      /\ UNCHANGED <<state, announced, lost, missed>> /\ left[r] = {}
      /\ s \in Peers(r) => state[<<r, s>>] # "OpenConfirm"
  BY <1>4, <1>5, <1>6, <1>7 DEF Process
<1>9. IsUpdate(m) /\ m = wire[<<s, r>>][1]
  <2>1. IsMessage(m) /\ m = wire[<<s, r>>][1]
    BY <1>3, <1>4, QueueShrinks
  <2> QED
    BY <1>8, <2>1 DEF IsMessage, Keepalive
<1>10. Extended(r, s, m, t)
  BY <1>1, <1>2, <1>5, <1>9, AddedTable
<1>11. TableOK(r, t) /\ GoodTable(t)
  BY <1>10 DEF Extended, TableOK
<1>12. Reduced(t, s, m, u)
  BY <1>7, <1>11, WithdrawTable
<1>13. TableOK(r, u)
  <2>1. \A n : PathsOf(u, n) \subseteq PathsOf(t, n)
    BY <1>12 DEF Reduced
  <2> QED
    BY <1>11, <1>12, <2>1 DEF Reduced, TableOK
<1>14. Reports(r, s, m, t, c)
  BY <1>1, <1>2, <1>5, <1>6, <1>9, Changed
<1> QED
  BY <1>3, <1>8, <1>9, <1>10, <1>12, <1>13, <1>14 DEF Handles

\* Process preserves Typed.
LEMMA TypedProcess ==
    ASSUME Typed, net' = net, NEW r, NEW s, <<s, r>> \in Wires, Process(r, s)
    PROVE  Typed'
<1>1. net \in Nets /\ r \in Routers /\ s \in PeersIn(r)
  BY EndFacts DEF Typed
<1>2. PICK m, t, u, c : Handles(r, s, m, t, u, c)
  BY ProcessHandles
<1>3. StatesOK' /\ OriginsOK'
  BY <1>2, TypesStay DEF Typed, Handles
<1>4. WiresOK'
  <2>1. IsQueue(Tail(wire[<<s, r>>]))
    BY <1>2, QueueShrinks DEF Typed, WiresOK, Handles
  <2> QED
    BY <1>2, <2>1, WireChanges DEF Typed, Handles
<1>5. RibsOK'
  BY <1>1, <1>2, NetFixed, PathsFixed DEF Typed, RibsOK, Handles
<1>6. \A i \in DOMAIN c : EntryOK(r, c[i])
  BY <1>2 DEF Handles, Reports
<1>7. ReportsOK'
  BY <1>1, <1>2, <1>6, NetFixed, PathsFixed DEF Typed, ReportsOK, Handles
<1> QED
  BY <1>1, <1>3, <1>4, <1>5, <1>7 DEF Typed

\* What Report does to the state: the wire is as it was or has a message more.
Relates(r, s, q) ==
    /\ s \in left[r] /\ left' = [left EXCEPT ![r] = @ \ {s}]
    /\ modified' = [modified EXCEPT ![r] = IF left[r] \ {s} = {} THEN <<>> ELSE @]
    /\ wire' = [wire EXCEPT ![<<r, s>>] = q] /\ IsQueue(q)
    /\ \/ state[<<r, s>>] # "Established" /\ q = wire[<<r, s>>]
       \/ /\ state[<<r, s>>] = "Established"
          /\ q = wire[<<r, s>>] /\ LostIn(modified[r]) = {} /\ EntriesFor(s, modified[r]) = {}
       \/ /\ state[<<r, s>>] = "Established"
          /\ \E m : /\ q = wire[<<r, s>>] \o <<m>> /\ IsUpdate(m)
                    /\ Tells(r, s, modified[r], m)
    /\ UNCHANGED <<state, rib, announced, lost, missed, untold>>

\* Report relates what is modified, whatever UPDATEs it is packed in.
LEMMA ReportRelates ==
    ASSUME Typed, NEW r, NEW s, <<r, s>> \in Ends, Report(r, s)
    PROVE  \E q : Relates(r, s, q)
<1>1. net \in Nets /\ r \in Routers /\ <<r, s>> \in Wires
  BY EndFacts DEF Typed
<1>2. IsQueue(wire[<<r, s>>]) /\ wire = [w \in Wires |-> wire[w]]
  BY <1>1 DEF Typed, WiresOK
<1>3. /\ s \in left[r] /\ left' = [left EXCEPT ![r] = @ \ {s}]
      /\ modified' = [modified EXCEPT ![r] = IF left[r] \ {s} = {} THEN <<>> ELSE @]
      /\ UNCHANGED <<state, rib, announced, lost, missed, untold>>
  BY <1>1 DEF Report, Typed, ReportsOK
<1>4. CASE state[<<r, s>>] # "Established"
  <2>1. wire' = wire
    BY <1>4 DEF Report
  <2>2. wire' = [wire EXCEPT ![<<r, s>>] = wire[<<r, s>>]]
    BY <1>2, <2>1
  <2> QED
    BY <1>2, <1>3, <1>4, <2>2 DEF Relates
<1>5. CASE state[<<r, s>>] = "Established"
  <2>1. PICK ms \in Messages(r, s, modified[r]) :
            wire' = [wire EXCEPT ![<<r, s>>] = wire[<<r, s>>] \o ms]
    BY <1>5, Zenon DEF Report
  <2>2. PICK q : q = wire[<<r, s>>] \o ms
    OBVIOUS
  <2>3. \A i \in DOMAIN modified[r] : EntryOK(r, modified[r][i])
    BY <1>1 DEF Typed, ReportsOK
  <2>4. /\ IsQueue(q)
        /\ \/ q = wire[<<r, s>>] /\ LostIn(modified[r]) = {} /\ EntriesFor(s, modified[r]) = {}
           \/ \E m : /\ q = wire[<<r, s>>] \o <<m>> /\ Tells(r, s, modified[r], m)
                     /\ IsUpdate(m)
    BY <1>1, <1>2, <2>1, <2>2, <2>3, QueueTold
  <2> QED
    BY <1>3, <1>5, <2>1, <2>2, <2>4 DEF Relates
<1> QED
  BY <1>4, <1>5

\* Report preserves Typed.
LEMMA TypedReport ==
    ASSUME Typed, net' = net, NEW r, NEW s, <<r, s>> \in Ends, Report(r, s)
    PROVE  Typed'
<1>1. net \in Nets /\ r \in Routers /\ <<r, s>> \in Wires
  BY EndFacts DEF Typed
<1>2. PICK q : Relates(r, s, q)
  BY ReportRelates
<1>3. StatesOK' /\ OriginsOK' /\ RibsOK'
  BY <1>2, TypesStay DEF Typed, Relates
<1>4. WiresOK'
  BY <1>1, <1>2, WireChanges DEF Typed, Relates
<1>5. ReportsOK'
  <2>1. /\ DOMAIN modified' = Routers /\ DOMAIN left' = Routers
        /\ left'[r] = left[r] \ {s} /\ modified[r] # <<>>
        /\ modified'[r] = IF left[r] \ {s} = {} THEN <<>> ELSE modified[r]
        /\ \A x \in Routers \ {r} : left'[x] = left[x] /\ modified'[x] = modified[x]
    BY <1>1, <1>2 DEF Typed, ReportsOK, Relates
  <2>2. ASSUME NEW x \in Routers
        PROVE  /\ left'[x] \subseteq Peers(x) /\ (left'[x] # {} => modified'[x] # <<>>)
               /\ \A i \in DOMAIN modified'[x] : EntryOK(x, modified'[x][i])
    BY <2>1 DEF Typed, ReportsOK
  <2> QED
    BY <2>1, <2>2, NetFixed, PathsFixed DEF ReportsOK
<1> QED
  BY <1>1, <1>3, <1>4, <1>5 DEF Typed

\* The first path of every prefix, as send_locrib sends it.
LEMMA TableEntries ==
    ASSUME Typed, NEW r \in Routers, NEW q, q = send_locrib(r)
    PROVE  /\ \A n \in DOMAIN rib[r] : \E i \in DOMAIN q : q[i] = <<n, rib[r][n][1]>>
           /\ \A i \in DOMAIN q :
               /\ EntryOK(r, q[i]) /\ q[i][1] \in DOMAIN rib[r]
               /\ q[i][2] \in PathsOf(rib[r], q[i][1]) /\ q[i][2] = rib[r][q[i][1]][1]
<1>1. TableOK(r, rib[r])
  BY DEF Typed, RibsOK
<1>2. DOMAIN rib[r] \subseteq Nlris /\ IsFiniteSet(DOMAIN rib[r])
  BY <1>1, NetworkAssumption, FS_Subset DEF TableOK, NetworkAssumption
<1> DEFINE S == {<<n, rib[r][n][1]>> : n \in DOMAIN rib[r]}
           f == [n \in DOMAIN rib[r] |-> <<n, rib[r][n][1]>>]
<1>3. f \in Surjection(DOMAIN rib[r], S)
  BY DEF Surjection
<1>4. ASSUME NEW e \in S
      PROVE  /\ EntryOK(r, e) /\ e[1] \in DOMAIN rib[r] /\ e[2] \in PathsOf(rib[r], e[1])
             /\ e[2] = rib[r][e[1]][1]
  <2>1. PICK n \in DOMAIN rib[r] : e = <<n, rib[r][n][1]>>
    OBVIOUS
  <2>2. IsPathList(rib[r][n]) /\ rib[r][n] # <<>>
    BY <1>1 DEF TableOK, GoodTable
  <2>3. 1 \in DOMAIN rib[r][n]
    BY <2>2, Positioned DEF IsPathList
  <2>4. rib[r][n][1] \in PathsOf(rib[r], n)
    BY <2>3 DEF PathsOf, Elems
  <2> QED
    BY <1>1, <1>2, <2>1, <2>4 DEF EntryOK, TableOK
<1>5. q = SetToSeq(S)
  BY DEF send_locrib
<1>0. \A n \in DOMAIN rib[r] : <<n, rib[r][n][1]>> \in S
  OBVIOUS
<1> HIDE DEF S, f
<1>6. IsFiniteSet(S)
  BY <1>2, <1>3, FS_Surjection
<1>7. Elems(q) = S
  BY <1>5, <1>6, Listed
<1>8. \A n \in DOMAIN rib[r] : \E i \in DOMAIN q : q[i] = <<n, rib[r][n][1]>>
  BY <1>0, <1>7 DEF Elems
<1> QED
  BY <1>4, <1>7, <1>8 DEF Elems

\* What HandleKeepalive does to the state in OpenConfirm: the table may be sent.
Greets(r, s, q) ==
    /\ state[<<r, s>>] = "OpenConfirm" /\ state' = [state EXCEPT ![<<r, s>>] = "Established"]
    /\ wire[<<s, r>>] # <<>> /\ wire[<<s, r>>][1] = Keepalive
    /\ wire' = [wire EXCEPT ![<<s, r>>] = Tail(wire[<<s, r>>]), ![<<r, s>>] = q]
    /\ IsQueue(q) /\ IsQueue(Tail(wire[<<s, r>>]))
    /\ \/ q = wire[<<r, s>>] /\ EntriesFor(s, send_locrib(r)) = {}
       \/ \E m : /\ q = wire[<<r, s>>] \o <<m>> /\ IsUpdate(m)
                 /\ Tells(r, s, send_locrib(r), m)
    /\ UNCHANGED <<rib, modified, left, announced, lost, missed, untold>>

\* The head of a wire is taken and nothing else happens.
Takes(r, s) ==
    /\ wire[<<s, r>>] # <<>>
    /\ wire[<<s, r>>][1] = Keepalive \/ state[<<r, s>>] = "OpenConfirm"
    /\ wire' = [wire EXCEPT ![<<s, r>>] = Tail(wire[<<s, r>>])]
    /\ IsQueue(Tail(wire[<<s, r>>]))
    /\ \/ wire[<<s, r>>][1] = Keepalive /\ missed' = missed
       \/ missed' = missed \cup {<<r, s>>}
    /\ UNCHANGED <<state, rib, modified, left, announced, lost, untold>>

\* A KEEPALIVE is greeted with the table, or only taken.
LEMMA KeepaliveGreets ==
    ASSUME Typed, NEW r, NEW s, <<r, s>> \in Ends, HandleKeepalive(r, s)
    PROVE  (\E q : Greets(r, s, q)) \/ Takes(r, s)
<1>1. /\ net \in Nets /\ r \in Routers /\ <<r, s>> \in Wires /\ <<s, r>> \in Wires
      /\ <<s, r>> # <<r, s>>
  BY EndFacts DEF Typed
<1>2. /\ IsQueue(wire[<<r, s>>]) /\ IsQueue(wire[<<s, r>>])
      /\ wire = [w \in Wires |-> wire[w]]
  BY <1>1 DEF Typed, WiresOK
<1>3. /\ wire[<<s, r>>] # <<>> /\ Head(wire[<<s, r>>]) = Keepalive
      /\ UNCHANGED <<rib, modified, left, announced, lost, missed, untold>>
  BY DEF HandleKeepalive
<1>4. IsQueue(Tail(wire[<<s, r>>])) /\ wire[<<s, r>>][1] = Keepalive
  BY <1>2, <1>3, QueueShrinks
<1>5. PICK rest : rest = [wire EXCEPT ![<<s, r>>] = Tail(@)]
  OBVIOUS
<1>6. \/ /\ state[<<r, s>>] = "OpenConfirm"
         /\ state' = [state EXCEPT ![<<r, s>>] = "Established"]
         /\ \E ms \in Messages(r, s, send_locrib(r)) :
              wire' = [rest EXCEPT ![<<r, s>>] = @ \o ms]
      \/ state[<<r, s>>] = "Established" /\ wire' = rest /\ UNCHANGED state
  BY <1>5, Zenon DEF HandleKeepalive
<1>7. CASE state[<<r, s>>] = "Established" /\ wire' = rest /\ UNCHANGED state
  BY <1>3, <1>4, <1>5, <1>7 DEF Takes
<1>8. CASE /\ state[<<r, s>>] = "OpenConfirm"
           /\ state' = [state EXCEPT ![<<r, s>>] = "Established"]
           /\ \E ms \in Messages(r, s, send_locrib(r)) :
                wire' = [rest EXCEPT ![<<r, s>>] = @ \o ms]
  <2>1. PICK ms \in Messages(r, s, send_locrib(r)) :
            wire' = [rest EXCEPT ![<<r, s>>] = @ \o ms]
    BY <1>8
  <2>2. PICK nlris : nlris = send_locrib(r)
    OBVIOUS
  <2>3. PICK q : q = wire[<<r, s>>] \o ms
    OBVIOUS
  <2>4. \A i \in DOMAIN nlris : EntryOK(r, nlris[i])
    BY <1>1, <2>2, TableEntries
  <2>5. /\ IsQueue(q)
        /\ \/ q = wire[<<r, s>>] /\ EntriesFor(s, nlris) = {}
           \/ \E m : q = wire[<<r, s>>] \o <<m>> /\ Tells(r, s, nlris, m) /\ IsUpdate(m)
    BY <1>1, <1>2, <2>1, <2>2, <2>3, <2>4, QueueTold
  <2>6. rest[<<r, s>>] = wire[<<r, s>>]
    BY <1>1, <1>2, <1>5
  <2>7. wire' = [rest EXCEPT ![<<r, s>>] = q]
    BY <2>1, <2>3, <2>6
  <2>8. wire' = [wire EXCEPT ![<<s, r>>] = Tail(wire[<<s, r>>]), ![<<r, s>>] = q]
    BY <1>5, <2>7
  <2> QED
    BY <1>3, <1>4, <1>8, <2>2, <2>5, <2>8 DEF Greets
<1> QED
  BY <1>6, <1>7, <1>8

\* A message dropped in OpenConfirm only leaves the wire.
LEMMA DropTakes ==
    ASSUME Typed, NEW r, NEW s, <<r, s>> \in Ends, DropUpdate(r, s)
    PROVE  Takes(r, s)
<1>1. IsQueue(wire[<<s, r>>]) /\ wire[<<s, r>>] # <<>>
  BY EndFacts DEF Typed, WiresOK, DropUpdate
<1> QED
  BY <1>1, QueueShrinks DEF DropUpdate, Takes

\* A KEEPALIVE is sent.
Nudges(r, s, q) ==
    /\ q = Append(wire[<<r, s>>], Keepalive) /\ IsQueue(q)
    /\ wire' = [wire EXCEPT ![<<r, s>>] = q]
    /\ UNCHANGED <<state, rib, modified, left, announced, lost, missed, untold>>

\* A keepalive timer only adds a KEEPALIVE.
LEMMA TimerNudges ==
    ASSUME Typed, NEW r, NEW s, <<r, s>> \in Ends, KeepaliveTimerExpires(r, s)
    PROVE  \E q : Nudges(r, s, q)
<1>1. IsQueue(wire[<<r, s>>])
  BY EndFacts DEF Typed, WiresOK
<1>2. IsMessage(Keepalive)
  BY DEF IsMessage
<1>3. PICK q : q = Append(wire[<<r, s>>], Keepalive)
  OBVIOUS
<1>4. IsQueue(q)
  BY <1>1, <1>2, <1>3, QueueGrows
<1> QED
  BY <1>3, <1>4 DEF KeepaliveTimerExpires, Nudges

\* Session preserves Typed.
LEMMA TypedSession ==
    ASSUME Typed, net' = net, NEW r, NEW s, <<r, s>> \in Ends, Session(r, s)
    PROVE  Typed'
<1>1. /\ net \in Nets /\ r \in Routers /\ <<r, s>> \in Wires /\ <<s, r>> \in Wires
      /\ <<s, r>> # <<r, s>>
  BY EndFacts DEF Typed
<1>2. ASSUME Takes(r, s) PROVE Typed'
  <2>1. StatesOK' /\ OriginsOK' /\ RibsOK' /\ ReportsOK'
    BY <1>2, TypesStay DEF Typed, Takes
  <2>2. WiresOK'
    BY <1>1, <1>2, WireChanges DEF Typed, Takes
  <2> QED
    BY <1>1, <2>1, <2>2 DEF Typed
<1>3. ASSUME NEW q, Greets(r, s, q) PROVE Typed'
  <2>1. OriginsOK' /\ RibsOK' /\ ReportsOK'
    BY <1>3, TypesStay DEF Typed, Greets
  <2>2. WiresOK'
    BY <1>1, <1>3, WiresChange DEF Typed, Greets
  <2>3. StatesOK'
    BY <1>3, StateChanges DEF Typed, Greets, Stages
  <2> QED
    BY <1>1, <2>1, <2>2, <2>3 DEF Typed
<1>4. ASSUME NEW q, Nudges(r, s, q) PROVE Typed'
  <2>1. StatesOK' /\ OriginsOK' /\ RibsOK' /\ ReportsOK'
    BY <1>4, TypesStay DEF Typed, Nudges
  <2>2. WiresOK'
    BY <1>1, <1>4, WireChanges DEF Typed, Nudges
  <2> QED
    BY <1>1, <2>1, <2>2 DEF Typed
<1> QED
  BY <1>2, <1>3, <1>4, KeepaliveGreets, DropTakes, TimerNudges DEF Session

\* What is left of the queues q of a broken connection.
Remains(p, q) == IsQueue(p) /\ \A j \in DOMAIN p : \E i \in DOMAIN q : p[j] = q[i]

\* What Break does to the state.
Breaks(r, s, p, q) ==
    /\ state' = [state EXCEPT ![<<r, s>>] = "Idle", ![<<s, r>>] = "Idle"]
    /\ wire' = [wire EXCEPT ![<<s, r>>] = p, ![<<r, s>>] = q]
    /\ Remains(p, wire[<<s, r>>]) /\ Remains(q, wire[<<r, s>>]) /\ lost' = lost + 1
    /\ UNCHANGED <<rib, modified, left, announced, missed, untold>>

\* What is not of the broken session remains.
LEMMA SurvivorsRemain ==
    ASSUME NEW r, NEW s, IsQueue(wire[<<s, r>>]), NEW p \in Survive(r, s)
    PROVE  Remains(p, wire[<<s, r>>])
<1>1. CASE state[<<r, s>>] = "OpenConfirm"
  <2>1. p = <<>>
    BY <1>1 DEF Survive
  <2>2. IsQueue(p) /\ DOMAIN p = {}
    BY <2>1, QueueEmpty
  <2> QED
    BY <2>2 DEF Remains
<1>2. CASE state[<<r, s>>] # "OpenConfirm"
  <2>1. PICK k \in 0..Len(wire[<<s, r>>]) : p = Updates(wire[<<s, r>>], k)
    BY <1>2 DEF Survive
  <2> QED
    BY <2>1, QueueSurvives DEF Remains
<1> QED
  BY <1>1, <1>2

\* A break clears both directions of one session.
LEMMA BreakBreaks ==
    ASSUME Typed, NEW r, NEW s, <<r, s>> \in Ends, Break(r, s)
    PROVE  \E p, q : Breaks(r, s, p, q)
<1>1. IsQueue(wire[<<r, s>>]) /\ IsQueue(wire[<<s, r>>])
  BY EndFacts DEF Typed, WiresOK
<1>2. PICK p \in Survive(r, s), q \in Survive(s, r) :
          wire' = [wire EXCEPT ![<<s, r>>] = p, ![<<r, s>>] = q]
  BY Zenon DEF Break
<1>3. Remains(p, wire[<<s, r>>]) /\ Remains(q, wire[<<r, s>>])
  BY <1>1, SurvivorsRemain
<1> QED
  BY <1>2, <1>3 DEF Break, Breaks

\* Break preserves Typed.
LEMMA TypedBreak ==
    ASSUME Typed, net' = net, NEW r, NEW s, <<r, s>> \in Ends, Break(r, s)
    PROVE  Typed'
<1>1. /\ net \in Nets /\ r \in Routers /\ <<r, s>> \in Wires /\ <<s, r>> \in Wires
      /\ <<s, r>> # <<r, s>> /\ <<s, r>> \in Ends
  BY EndFacts DEF Typed
<1>2. PICK p, q : Breaks(r, s, p, q)
  BY BreakBreaks
<1>3. OriginsOK' /\ RibsOK' /\ ReportsOK'
  BY <1>2, TypesStay DEF Typed, Breaks
<1>4. WiresOK'
  BY <1>1, <1>2, WiresChange DEF Typed, Breaks, Remains
<1>5. StatesOK'
  BY <1>1, <1>2, NetFixed DEF Typed, Breaks, StatesOK, Stages
<1> QED
  BY <1>1, <1>3, <1>4, <1>5 DEF Typed

\* What an origin does to the state: it sends m, and now is what it announces.  A
\* prefix of m is announced now, or withdrawn, or not touched.
Emits(x, m, now) ==
    /\ IsUpdate(m) /\ CleanMessage(m) /\ DOMAIN now = Nlris
    /\ \A n \in Nlris :
         \/ now[n] # None /\ Announces(m, n) /\ ~Retracts(m, n)
         \/ now[n] = None /\ Retracts(m, n) /\ ~Announces(m, n)
         \/ now[n] = announced[x][n] /\ ~Announces(m, n) /\ ~Retracts(m, n)
    /\ \A n \in DOMAIN m.routes :
         /\ \E tail \in Tails : Elems(m.as_path) = {Asn[x]} \cup Elems(tail)
         /\ m.routes[n].via = <<x>>
    /\ wire' = [wire EXCEPT ![<<x, At[x]>>] = Append(@, m)]
    /\ announced' = [announced EXCEPT ![x] = now]
    /\ UNCHANGED <<state, rib, modified, left, lost, missed, untold>>

\* An announcement of an origin is one message on its wire,
LEMMA AnnounceEmits ==
    ASSUME Typed, NEW x \in Origins, NEW N, N \subseteq Nlris, NEW tail \in Tails,
           Announce(x, N, tail)
    PROVE  \E m, now : Emits(x, m, now)
<1>1. x \in Nat /\ Asn[x] \in Nat /\ tail \in Seq(Nat)
  BY NetFacts DEF Typed
<1>2. PICK as_path : as_path = <<Asn[x]>> \o tail
  OBVIOUS
<1>3. /\ as_path \in Seq(Nat) /\ as_path # <<>>
      /\ Elems(as_path) = {Asn[x]} \cup Elems(tail)
  <2>1. PICK y \in Nat : y = Asn[x]
    BY <1>1
  <2>2. /\ as_path \in Seq(Nat) /\ as_path # <<>>
        /\ Elems(as_path) = {y} \cup Elems(tail)
    BY <1>1, <1>2, <2>1, Prefixed
  <2> QED
    BY <2>1, <2>2
<1>4. <<x>> \in Seq(Nat)
  BY <1>1
<1>5. PICK m : m = Update([n \in N |-> [own |-> as_path, via |-> <<x>>]], as_path, {}, FALSE)
  OBVIOUS
<1>6. PICK now : now = [n \in Nlris |-> IF n \in N THEN as_path ELSE announced[x][n]]
  OBVIOUS
<1>7. Sends(x, m, now)
  BY <1>2, <1>5, <1>6, Zenon DEF Announce
<1>8. /\ m.kind = "update" /\ m.as_path = as_path /\ m.withdrawn = {} /\ m.all = FALSE
      /\ m.routes = [n \in N |-> [own |-> as_path, via |-> <<x>>]]
  BY <1>5 DEF Update
<1>9. IsUpdate(m)
  <2>1. DOMAIN m.routes = N /\ \A n \in N : m.routes[n].via = <<x>>
    BY <1>8
  <2> QED
    BY <1>3, <1>4, <1>8, <2>1 DEF IsUpdate
<1>10. ASSUME NEW n \in Nlris
       PROVE  /\ ~Retracts(m, n)
              /\ \/ now[n] # None /\ Announces(m, n)
                 \/ now[n] = announced[x][n] /\ ~Announces(m, n)
  BY <1>3, <1>6, <1>8 DEF Announces, Retracts, None
<1>11. \A n \in DOMAIN m.routes :
         /\ \E z \in Tails : Elems(m.as_path) = {Asn[x]} \cup Elems(z)
         /\ m.routes[n].via = <<x>>
  BY <1>3, <1>8
<1>12. DOMAIN now = Nlris
  BY <1>6
<1>13. CleanMessage(m)
  BY <1>8 DEF CleanMessage
<1> QED
  BY <1>7, <1>9, <1>10, <1>11, <1>12, <1>13 DEF Sends, Emits

\* A message that only withdraws.
LEMMA WithdrawalIs ==
    ASSUME NEW W, W \subseteq Nlris, NEW all \in BOOLEAN, NEW m,
           m = Update(NoRoutes, <<>>, W, all)
    PROVE  /\ IsUpdate(m) /\ CleanMessage(m) /\ DOMAIN m.routes = {} /\ m.kind = "update"
           /\ m.withdrawn = W /\ m.all = all /\ \A n : ~Announces(m, n)
<1>1. /\ m.kind = "update" /\ m.as_path = <<>> /\ m.withdrawn = W /\ m.all = all
      /\ m.routes = NoRoutes
  BY DEF Update
<1>2. DOMAIN m.routes = {}
  BY <1>1 DEF NoRoutes
<1>3. <<>> \in Seq(Nat)
  OBVIOUS
<1> QED
  BY <1>1, <1>2, <1>3 DEF IsUpdate, CleanMessage, Announces

\* so is a withdrawal,
LEMMA WithdrawEmits ==
    ASSUME Typed, NEW x \in Origins, NEW N, N \subseteq Nlris, Withdraw(x, N)
    PROVE  \E m, now : Emits(x, m, now)
<1>1. PICK m : m = Update(NoRoutes, <<>>, N, FALSE)
  OBVIOUS
<1>2. PICK now : now = [n \in Nlris |-> IF n \in N THEN None ELSE announced[x][n]]
  OBVIOUS
<1>3. Sends(x, m, now)
  BY <1>1, <1>2, Zenon DEF Withdraw
<1>4. /\ IsUpdate(m) /\ CleanMessage(m) /\ DOMAIN m.routes = {} /\ m.kind = "update"
      /\ m.withdrawn = N /\ m.all = FALSE /\ \A n : ~Announces(m, n)
  BY <1>1, WithdrawalIs
<1>5. ASSUME NEW n \in Nlris
      PROVE  \/ now[n] = None /\ Retracts(m, n)
             \/ now[n] = announced[x][n] /\ ~Retracts(m, n)
  BY <1>2, <1>4 DEF Retracts
<1>6. DOMAIN now = Nlris
  BY <1>2
<1> QED
  BY <1>3, <1>4, <1>5, <1>6 DEF Sends, Emits

\* so is a NOTIFICATION,
LEMMA NotifyEmits ==
    ASSUME Typed, NEW x \in Origins, Notify(x)
    PROVE  \E m, now : Emits(x, m, now)
<1>1. PICK m : m = Update(NoRoutes, <<>>, {}, TRUE)
  OBVIOUS
<1>2. PICK now : now = [n \in Nlris |-> None]
  OBVIOUS
<1>3. /\ IsUpdate(m) /\ CleanMessage(m) /\ DOMAIN m.routes = {} /\ m.kind = "update"
      /\ m.all /\ \A n : ~Announces(m, n)
  BY <1>1, WithdrawalIs
<1>4. \A n \in Nlris : now[n] = None /\ Retracts(m, n) /\ ~Announces(m, n)
  BY <1>2, <1>3 DEF Retracts
<1>5. DOMAIN now = Nlris
  BY <1>2
<1> QED
  BY <1>1, <1>2, <1>3, <1>4, <1>5 DEF Notify, Emits

\* and an origin does nothing else.
LEMMA OriginateEmits ==
    ASSUME Typed, Originate
    PROVE  \E x \in Origins : \E m, now : Emits(x, m, now)
  BY AnnounceEmits, WithdrawEmits, NotifyEmits DEF Originate

\* An origin has a wire to its router.
LEMMA OriginWire ==
    ASSUME net \in Nets, NEW x \in Origins
    PROVE  <<x, At[x]>> \in Wires /\ At[x] \in Routers /\ x \notin Routers
<1>1. At[x] \in Routers /\ x \notin Routers
  BY NetFacts
<1>2. x \in PeersIn(At[x])
  BY DEF PeersIn
<1> QED
  BY <1>1, <1>2, EndFacts

\* Originate preserves Typed.
LEMMA TypedOriginate ==
    ASSUME Typed, net' = net, Originate
    PROVE  Typed'
<1>1. PICK x \in Origins : \E m, now : Emits(x, m, now)
  BY OriginateEmits
<1>2. PICK m, now : Emits(x, m, now)
  BY <1>1
<1>3. net \in Nets /\ <<x, At[x]>> \in Wires
  BY OriginWire DEF Typed
<1>4. StatesOK' /\ RibsOK' /\ ReportsOK'
  BY <1>2, TypesStay DEF Typed, Emits
<1>5. WiresOK'
  <2>1. PICK q : q = Append(wire[<<x, At[x]>>], m)
    OBVIOUS
  <2>2. IsQueue(q)
    BY <1>2, <1>3, <2>1, QueueGrows DEF Typed, WiresOK, Emits, IsMessage
  <2> QED
    BY <1>2, <1>3, <2>1, <2>2, WireChanges DEF Typed, Emits
<1>6. OriginsOK'
  BY <1>2, NetFixed DEF Typed, OriginsOK, Emits
<1> QED
  BY <1>3, <1>4, <1>5, <1>6 DEF Typed

\* The initial states satisfy Typed.
LEMMA TypedInit == Init => Typed
<1> SUFFICES ASSUME Init PROVE Typed
  OBVIOUS
<1>1. net \in Nets
  BY DEF Init
<1>2. StatesOK
  BY DEF Init, StatesOK, Stages
<1>3. WiresOK
  BY QueueEmpty DEF Init, WiresOK
<1>4. RibsOK
  <2>1. \A r \in Routers : rib[r] = NoRoutes
    BY DEF Init
  <2>2. DOMAIN NoRoutes = {} /\ \A n : PathsOf(NoRoutes, n) = {}
    BY DEF NoRoutes, PathsOf
  <2>3. \A r : TableOK(r, NoRoutes)
    BY <2>2 DEF TableOK, GoodTable
  <2> QED
    BY <2>1, <2>3 DEF Init, RibsOK
<1>5. ReportsOK
  BY DEF Init, ReportsOK
<1>6. OriginsOK
  BY DEF Init, OriginsOK
<1> QED
  BY <1>1, <1>2, <1>3, <1>4, <1>5, <1>6 DEF Typed

\* Typed survives where nothing it speaks of changes.
LEMMA TypedStays == Typed /\ UNCHANGED vars => Typed'
  BY TypesStay DEF Typed, vars

\* The steps of Next: the network is fixed, and one end, wire or origin acts.
LEMMA Steps ==
    ASSUME net \in Nets, Next
    PROVE  /\ net' = net
           /\ \/ \E r, s : <<s, r>> \in Wires /\ Process(r, s)
              \/ \E r, s : <<r, s>> \in Ends /\ Report(r, s)
              \/ \E r, s : <<r, s>> \in Ends /\ Session(r, s)
              \/ \E r, s : <<r, s>> \in Ends /\ Break(r, s)
              \/ Originate
<1>1. \A e \in Ends : e = <<e[1], e[2]>>
  BY DEF Ends
<1>2. \A w \in Wires : w = <<w[1], w[2]>>
  BY DEF Wires
<1>3. CASE \E w \in Wires : Process(w[2], w[1]) /\ net' = net
  BY <1>2, <1>3
<1>4. CASE \E e \in Ends : Report(e[1], e[2]) /\ net' = net
  BY <1>1, <1>4
<1>5. CASE \E e \in Ends : Session(e[1], e[2]) /\ net' = net
  BY <1>1, <1>5
<1>6. CASE \E e \in Ends : Break(e[1], e[2]) /\ net' = net
  BY <1>1, <1>6
<1>7. CASE Originate /\ net' = net
  BY <1>7
<1> QED
  BY <1>3, <1>4, <1>5, <1>6, <1>7 DEF Next, Run, Environment

\* Every step preserves Typed.
LEMMA TypedNext == Typed /\ [Next]_vars => Typed'
<1> SUFFICES ASSUME Typed, [Next]_vars PROVE Typed'
  OBVIOUS
<1>1. CASE UNCHANGED vars
  BY <1>1, TypedStays
<1>2. CASE Next
  BY <1>2, Steps, TypedProcess, TypedReport, TypedSession, TypedBreak, TypedOriginate DEF Typed
<1> QED
  BY <1>1, <1>2

\* The types hold in every reachable state of every network.
THEOREM AlwaysTyped == Spec => []Typed
  BY TypedInit, TypedNext, PTL DEF Spec

\* Typed says what TypeOK does.
LEMMA TypedIsType == Typed => TypeOK
<1> SUFFICES ASSUME Typed PROVE TypeOK
  OBVIOUS
<1>1. state \in [Ends -> {"Idle", "OpenConfirm", "Established"}]
  BY DEF Typed, StatesOK, Stages
<1>2. ASSUME NEW r \in Routers
      PROVE  /\ DOMAIN rib[r] \subseteq Nlris
             /\ \A n \in DOMAIN rib[r] : rib[r][n] # <<>> /\ Descending(rib[r][n])
             /\ \A a \in Paths(r) : IsPath(a) /\ a.peer_rid \in PeersIn(r)
             /\ left[r] \subseteq Peers(r) /\ (left[r] # {} => modified[r] # <<>>)
  <2>1. TableOK(r, rib[r])
    BY DEF Typed, RibsOK
  <2>2. \A a \in Paths(r) : \E n \in DOMAIN rib[r] : a \in PathsOf(rib[r], n)
    BY DEF Paths, PathsOf, ToSet, Elems
  <2>3. \A a \in Paths(r) : PathOK(r, a)
    BY <2>1, <2>2 DEF TableOK
  <2> QED
    BY <2>1, <2>3 DEF TableOK, GoodTable, PathOK, Typed, ReportsOK
<1>3. \A w \in Wires : \A i \in DOMAIN wire[w] : wire[w][i].kind \in {"update", "keepalive"}
  BY DEF Typed, WiresOK, IsQueue, IsMessage, IsUpdate, Keepalive
<1> QED
  BY <1>1, <1>2, <1>3 DEF TypeOK

\* TypeOK holds in every network: a table has a path for every prefix, best first, of a
\* peer of the router, and a manager that has neighbours to tell has something to say.
THEOREM TypesHoldInNetworks == Spec => []TypeOK
  BY AlwaysTyped, TypedIsType, PTL

-----------------------------------------------------------------------------
(* Lost prefixes are withdrawn                                             *)

\* A table has a path of s to n.
HeldIn(t, s, n) == \E a \in PathsOf(t, n) : a.peer_rid = s

\* Has, said of any table and of the next one.
LEMMA HasHeld ==
    /\ \A t, s, n : n \in DOMAIN t /\ FromPeer(t[n], s) <=> HeldIn(t, s, n)
    /\ \A r, s, n : Has(r, s, n) <=> HeldIn(rib[r], s, n)
    /\ \A r, s, n : Has(r, s, n)' <=> HeldIn(rib'[r], s, n)
<1>1. \A t, s, n : n \in DOMAIN t /\ FromPeer(t[n], s) <=> HeldIn(t, s, n)
  BY DEF FromPeer, HeldIn, PathsOf, Elems, is_from_neighbor
<1> QED
  BY <1>1 DEF Has

\* p says of n what q does behind its first message.
SaysLess(p, q, n) ==
    /\ Carried(p, n) => Carried(q, n)
    /\ Cancelled(q, n) => Cancelled(p, n) \/ (Retracts(q[1], n) /\ ~Carried(p, n))
    /\ \A i \in DOMAIN p : \E j \in DOMAIN q : p[i] = q[j]

\* A message is taken from a queue.
LEMMA TailSays ==
    ASSUME NEW q, IsQueue(q), q # <<>>, NEW p, p = Tail(q), NEW n
    PROVE  SaysLess(p, q, n)
<1>1. /\ Len(q) \in Nat /\ Len(q) >= 1 /\ DOMAIN q = 1..Len(q)
      /\ DOMAIN p = 1..(Len(q) - 1) /\ \A i \in DOMAIN p : p[i] = q[i + 1]
  BY QueueTail DEF IsQueue
<1>2. \A i \in DOMAIN p : i + 1 \in DOMAIN q /\ i + 1 > 1 /\ i \in Nat
  BY <1>1
<1>3. Carried(p, n) => Carried(q, n)
  BY <1>1, <1>2 DEF Carried
<1>4. ASSUME Cancelled(q, n)
      PROVE  Cancelled(p, n) \/ (Retracts(q[1], n) /\ ~Carried(p, n))
  <2>1. PICK i \in DOMAIN q :
            Retracts(q[i], n) /\ \A j \in DOMAIN q : j > i => ~Announces(q[j], n)
    BY <1>4 DEF Cancelled
  <2>2. CASE i = 1
    <3>1. \A j \in DOMAIN p : ~Announces(p[j], n)
      BY <1>1, <1>2, <2>1, <2>2
    <3> QED
      BY <2>1, <2>2, <3>1 DEF Carried
  <2>3. CASE i # 1
    <3>1. PICK k \in Nat : k + 1 = i
      BY <1>1, <2>3
    <3>2. k \in DOMAIN p /\ p[k] = q[i]
      BY <1>1, <2>3, <3>1
    <3>3. ASSUME NEW j \in DOMAIN p, j > k PROVE ~Announces(p[j], n)
      <4>1. j + 1 \in DOMAIN q /\ j + 1 > i
        BY <1>2, <3>1, <3>3
      <4> QED
        BY <1>1, <2>1, <3>3, <4>1
    <3> QED
      BY <2>1, <3>2, <3>3 DEF Cancelled
  <2> QED
    BY <2>2, <2>3
<1> QED
  BY <1>1, <1>2, <1>3, <1>4 DEF SaysLess

\* p says of n what q does, and then m.
SaysMore(p, q, m, n) ==
    /\ Carried(p, n) => Carried(q, n) \/ Announces(m, n)
    /\ Cancelled(q, n) /\ ~Announces(m, n) => Cancelled(p, n)
    /\ Retracts(m, n) => Cancelled(p, n)
    /\ \A i \in DOMAIN p : p[i] = m \/ \E j \in DOMAIN q : p[i] = q[j]

\* A message is put into a queue.
LEMMA AppendSays ==
    ASSUME NEW q, IsQueue(q), NEW m, NEW p, p = Append(q, m) \/ p = q \o <<m>>, NEW n
    PROVE  SaysMore(p, q, m, n)
<1>1. /\ DOMAIN p = 1..(Len(q) + 1) /\ p[Len(q) + 1] = m
      /\ DOMAIN q = 1..Len(q) /\ Len(q) \in Nat /\ \A i \in DOMAIN q : p[i] = q[i]
  BY QueueAppend DEF IsQueue
<1>2. /\ \A i \in DOMAIN p : i \in DOMAIN q \/ i = Len(q) + 1
      /\ DOMAIN q \subseteq DOMAIN p /\ Len(q) + 1 \in DOMAIN p
      /\ \A i \in DOMAIN p : ~(i > Len(q) + 1)
  BY <1>1
<1>3. Carried(p, n) => Carried(q, n) \/ Announces(m, n)
  BY <1>1, <1>2 DEF Carried
<1>4. ASSUME Cancelled(q, n), ~Announces(m, n) PROVE Cancelled(p, n)
  <2>1. PICK i \in DOMAIN q :
            Retracts(q[i], n) /\ \A j \in DOMAIN q : j > i => ~Announces(q[j], n)
    BY <1>4 DEF Cancelled
  <2>2. \A j \in DOMAIN p : j > i => ~Announces(p[j], n)
    BY <1>1, <1>2, <1>4, <2>1
  <2>3. i \in DOMAIN p /\ Retracts(p[i], n)
    BY <1>1, <1>2, <2>1
  <2> QED
    BY <2>2, <2>3 DEF Cancelled
<1>5. Retracts(m, n) => Cancelled(p, n)
  BY <1>1, <1>2 DEF Cancelled
<1>6. \A i \in DOMAIN p : p[i] = m \/ \E j \in DOMAIN q : p[i] = q[j]
  BY <1>1, <1>2
<1> QED
  BY <1>3, <1>4, <1>5, <1>6 DEF SaysMore

\* A KEEPALIVE says nothing about a prefix.
LEMMA KeepaliveSays == \A n : ~Announces(Keepalive, n) /\ ~Retracts(Keepalive, n)
  BY DEF Announces, Retracts, Keepalive

\* What Process does to the table of r: new paths are of s and announced, what m
\* withdraws is no longer held of s, and what is no longer there is reported lost.
LEMMA TableAfter ==
    ASSUME net \in Nets, NEW r, NEW s, <<s, r>> \in Wires, TableOK(r, rib[r]),
           NEW m, NEW t, NEW u, NEW c, Handles(r, s, m, t, u, c), NEW n
    PROVE  /\ \A p : HeldIn(u, p, n) => HeldIn(rib[r], p, n) \/ (p = s /\ Announces(m, n))
           /\ Retracts(m, n) => ~HeldIn(u, s, n)
           /\ n \in DOMAIN t \ DOMAIN u => \E i \in DOMAIN c : c[i] = <<n, None>>
           /\ DOMAIN rib[r] \subseteq DOMAIN t
<1>1. /\ IsUpdate(m) /\ Extended(r, s, m, t) /\ Reduced(t, s, m, u)
      /\ Reports(r, s, m, t, c)
  BY DEF Handles
<1>2. PathsOf(u, n) \subseteq PathsOf(t, n)
  BY <1>1 DEF Reduced
<1>3. ASSUME NEW p, HeldIn(u, p, n)
      PROVE  HeldIn(rib[r], p, n) \/ (p = s /\ Announces(m, n))
  <2>1. PICK a \in PathsOf(t, n) : a.peer_rid = p
    BY <1>2, <1>3 DEF HeldIn
  <2>2. CASE n \in Accepted(r, s, m)
    <3>1. n \in DOMAIN m.routes /\ m.kind = "update"
      BY <1>1, <2>2 DEF Accepted, IsUpdate
    <3>2. PathsOf(t, n) = PathsOf(rib[r], n) \cup {Path(r, s, m, n)}
      BY <1>1, <2>2 DEF Extended
    <3>3. PICK b : b = Path(r, s, m, n)
      OBVIOUS
    <3>4. b.peer_rid = s
      BY <1>1, <3>1, <3>3, NewPath
    <3> QED
      BY <2>1, <3>1, <3>2, <3>3, <3>4 DEF HeldIn, Announces
  <2>3. CASE n \notin Accepted(r, s, m)
    BY <1>1, <2>1, <2>3 DEF Extended, HeldIn
  <2> QED
    BY <2>2, <2>3
<1>4. ASSUME Retracts(m, n), HeldIn(u, s, n) PROVE FALSE
  <2>1. PICK a \in PathsOf(u, n) : a.peer_rid = s
    BY <1>4 DEF HeldIn
  <2>2. HeldIn(t, s, n)
    BY <1>2, <2>1 DEF HeldIn
  <2>3. n \in DOMAIN t /\ FromPeer(t[n], s)
    BY <2>2, HasHeld
  <2>4. n \in Candidates(t, s, m)
    BY <1>4, <2>3 DEF Candidates, Retracts
  <2> QED
    BY <1>1, <2>1, <2>4 DEF Reduced
<1>5. ASSUME n \in DOMAIN t \ DOMAIN u PROVE \E i \in DOMAIN c : c[i] = <<n, None>>
  BY <1>1, <1>5 DEF Reduced, Reports
<1>6. DOMAIN rib[r] \subseteq DOMAIN t
  BY <1>1 DEF Extended
<1> QED
  BY <1>3, <1>4, <1>5, <1>6

\* An end that nothing happens to.
LEMMA EndStays ==
    ASSUME NEW a, NEW b, Answered(a, b), Silent(a, b),
           state'[<<a, b>>] = state[<<a, b>>], state'[<<b, a>>] = state[<<b, a>>],
           wire'[<<a, b>>] = wire[<<a, b>>], rib'[a] = rib[a], rib'[b] = rib[b],
           left'[a] = left[a], modified'[a] = modified[a]
    PROVE  Answered(a, b)' /\ Silent(a, b)'
<1>1. \A n : Losing(a, n)' <=> Losing(a, n)
  BY DEF Losing
<1>2. \A n : Has(b, a, n)' <=> Has(b, a, n)
  BY DEF Has
<1>3. \A n : Backed(a, b, n)' <=> Backed(a, b, n)
  BY <1>1 DEF Backed
<1> QED
  BY <1>2, <1>3 DEF Answered, Silent

\* An origin of which nothing more is held, and nothing is said.
LEMMA OriginStays ==
    ASSUME net' = net, NEW x \in Origins, OriginAnswered(x),
           wire'[<<x, At[x]>>] = wire[<<x, At[x]>>], announced'[x] = announced[x],
           \A n : HeldIn(rib'[At[x]], x, n) => HeldIn(rib[At[x]], x, n)
    PROVE  OriginAnswered(x)'
<1>1. At' = At
  BY NetFixed
<1>2. PICK r : r = At[x]
  OBVIOUS
<1>3. ASSUME NEW n \in Nlris,
             (n \in DOMAIN rib'[r] /\ FromPeer(rib'[r][n], x)) \/ Carried(wire'[<<x, r>>], n)
      PROVE  announced'[x][n] # None \/ Cancelled(wire'[<<x, r>>], n)
  <2>1. Has(r, x, n) \/ Carried(wire[<<x, r>>], n)
    BY <1>2, <1>3, HasHeld
  <2> QED
    BY <1>2, <2>1 DEF OriginAnswered, OriginBacked
<1> QED
  BY <1>1, <1>2, <1>3 DEF OriginAnswered, OriginBacked, Has

\* Process preserves Answering.
LEMMA AnsweringProcess ==
    ASSUME Typed, Answering, net' = net, NEW r, NEW s, <<s, r>> \in Wires, Process(r, s)
    PROVE  Answering'
<1>1. net \in Nets /\ r \in Routers /\ s \in PeersIn(r) /\ s # r
  BY EndFacts DEF Typed
<1>2. TableOK(r, rib[r]) /\ IsQueue(wire[<<s, r>>])
  BY <1>1 DEF Typed, RibsOK, WiresOK
<1>3. PICK m, t, u, c : Handles(r, s, m, t, u, c)
  BY ProcessHandles
<1>4. PICK q : q = wire[<<s, r>>]
  OBVIOUS
<1>5. PICK p : p = Tail(q)
  OBVIOUS
<1>6. /\ rib'[r] = u /\ modified'[r] = c /\ left'[r] = IF c = <<>> THEN {} ELSE Peers(r)
      /\ wire'[<<s, r>>] = p /\ q # <<>> /\ m = q[1] /\ m.kind = "update"
      /\ \A x \in Routers \ {r} : rib'[x] = rib[x] /\ modified'[x] = modified[x]
                                  /\ left'[x] = left[x]
      /\ \A w \in Wires \ {<<s, r>>} : wire'[w] = wire[w]
      /\ state' = state /\ announced' = announced /\ left[r] = {}
      /\ s \in Peers(r) => state[<<r, s>>] # "OpenConfirm"
  BY <1>1, <1>3, <1>4, <1>5 DEF Handles, IsUpdate, Typed, RibsOK, WiresOK, ReportsOK
<1>7. \A n : /\ \A y : HeldIn(u, y, n) => HeldIn(rib[r], y, n) \/ (y = s /\ Announces(m, n))
             /\ Retracts(m, n) => ~HeldIn(u, s, n)
             /\ n \in DOMAIN t \ DOMAIN u => \E i \in DOMAIN c : c[i] = <<n, None>>
             /\ DOMAIN rib[r] \subseteq DOMAIN t
  BY <1>1, <1>2, <1>3, TableAfter
<1>8. ASSUME NEW n
      PROVE  /\ Carried(p, n) => Carried(q, n)
             /\ Cancelled(q, n) => Cancelled(p, n) \/ (Retracts(m, n) /\ ~Carried(p, n))
             /\ \A i \in DOMAIN p : \E j \in DOMAIN q : p[i] = q[j]
  <2>1. IsQueue(q) /\ q # <<>> /\ q[1] = m
    BY <1>2, <1>4, <1>6
  <2>2. SaysLess(p, q, n)
    BY <1>5, <2>1, TailSays, Zenon
  <2>3. Retracts(q[1], n) <=> Retracts(m, n)
    BY <2>1 DEF Retracts
  <2> QED
    BY <2>2, <2>3 DEF SaysLess
<1>9. \A n : Announces(m, n) => Carried(q, n)
  <2>1. 1 \in DOMAIN q
    BY <1>2, <1>4, <1>6, QueueShrinks
  <2> QED
    BY <1>6, <2>1 DEF Carried
<1>10. Truthful(r)'
  <2>1. ASSUME NEW i \in DOMAIN c
        PROVE  c[i][1] \in DOMAIN u \/ \E j \in DOMAIN c : c[j] = <<c[i][1], None>>
    BY <1>3, <1>7 DEF Handles, Reports
  <2> QED
    BY <1>6, <2>1 DEF Truthful, Losing
<1>11. ASSUME NEW x \in Routers \ {r} PROVE Truthful(x)'
  <2>1. Truthful(x)
    BY DEF Answering
  <2> QED
    BY <1>6, <2>1 DEF Truthful, Losing
<1>12. ASSUME NEW a, NEW b, <<a, b>> \in Ends PROVE Answered(a, b)' /\ Silent(a, b)'
  <2>1. /\ a \in Routers /\ b \in Routers /\ a # b /\ b \in Peers(a) /\ a \in Peers(b)
        /\ <<a, b>> \in Wires
    BY <1>1, <1>12, EndFacts
  <2>2. Answered(a, b) /\ Silent(a, b)
    BY <1>12 DEF Answering
  <2>3. CASE a # r /\ b # r
    BY <1>6, <2>1, <2>2, <2>3, EndStays
  <2>4. CASE a = r
    <3>1. wire'[<<a, b>>] = wire[<<a, b>>] /\ rib'[b] = rib[b] /\ b # r
      BY <1>6, <2>1, <2>4
    <3>2. ASSUME NEW n, Backed(a, b, n) PROVE Backed(a, b, n)'
      <4>1. CASE Cancelled(wire[<<a, b>>], n)
        BY <3>1, <4>1 DEF Backed
      <4>2. CASE n \in DOMAIN rib[a]
        <5>1. CASE n \in DOMAIN u
          BY <1>6, <2>4, <5>1 DEF Backed
        <5>2. CASE n \notin DOMAIN u
          <6>1. PICK i \in DOMAIN c : c[i] = <<n, None>>
            BY <1>7, <2>4, <4>2, <5>2
          <6>2. c # <<>>
            BY <6>1
          <6> QED
            BY <1>6, <2>1, <2>4, <6>1, <6>2 DEF Backed, Losing
        <5> QED
          BY <5>1, <5>2
      <4> QED
        BY <1>6, <2>4, <3>2, <4>1, <4>2 DEF Backed
    <3>3. \A n : Has(b, a, n)' <=> Has(b, a, n)
      BY <3>1 DEF Has
    <3> QED
      BY <1>6, <2>2, <3>1, <3>2, <3>3 DEF Answered, Silent
  <2>5. CASE b = r /\ a # s
    <3>1. /\ wire'[<<a, b>>] = wire[<<a, b>>] /\ rib'[a] = rib[a] /\ left'[a] = left[a]
          /\ modified'[a] = modified[a] /\ rib'[b] = u
      BY <1>6, <2>1, <2>5
    <3>2. \A n : Has(b, a, n)' => Has(b, a, n)
      BY <1>7, <2>5, <3>1, HasHeld
    <3>3. \A n : Backed(a, b, n)' <=> Backed(a, b, n)
      BY <3>1 DEF Backed, Losing
    <3> QED
      BY <1>6, <2>2, <3>1, <3>2, <3>3 DEF Answered, Silent
  <2>6. CASE b = r /\ a = s
    <3>1. /\ rib'[a] = rib[a] /\ left'[a] = left[a] /\ modified'[a] = modified[a]
          /\ rib'[b] = u /\ wire'[<<a, b>>] = p /\ wire[<<a, b>>] = q
      BY <1>4, <1>6, <2>1, <2>6
    <3>2. \A n : Has(b, a, n)' <=> HeldIn(u, a, n)
      BY <3>1, HasHeld
    <3>3. ASSUME NEW n \in Nlris, state[<<a, b>>] = "Established",
                 Has(b, a, n)' \/ Carried(p, n)
          PROVE  Backed(a, b, n)'
      <4>1. Has(b, a, n) \/ Carried(q, n)
        BY <1>7, <1>8, <1>9, <2>6, <3>2, <3>3, HasHeld
      <4>2. Backed(a, b, n)
        BY <2>2, <3>1, <3>3, <4>1 DEF Answered
      <4>3. ASSUME Cancelled(q, n) PROVE Cancelled(p, n)
        BY <1>7, <1>8, <2>6, <3>2, <3>3, <4>3
      <4> QED
        BY <3>1, <4>2, <4>3 DEF Backed, Losing
    <3>4. Answered(a, b)'
      BY <1>6, <3>1, <3>3 DEF Answered
    <3>5. state[<<a, b>>] # "OpenConfirm"
      <4>1. 1 \in DOMAIN q /\ q[1] # Keepalive
        BY <1>2, <1>4, <1>6, QueueShrinks DEF Keepalive
      <4>2. q[1] # Keepalive
        BY <4>1
      <4> QED
        BY <2>2, <3>1, <4>1, <4>2 DEF Silent
    <3>6. state[<<b, a>>] # "OpenConfirm"
      BY <1>6, <2>1, <2>6
    <3> QED
      BY <1>6, <3>4, <3>5, <3>6 DEF Silent
  <2> QED
    BY <2>3, <2>4, <2>5, <2>6
<1>13. ASSUME NEW x \in Origins PROVE OriginAnswered(x)'
  <2>1. <<x, At[x]>> \in Wires /\ At[x] \in Routers /\ OriginAnswered(x)
    BY <1>1, OriginWire DEF Answering
  <2>2. CASE x # s
    <3>1. wire'[<<x, At[x]>>] = wire[<<x, At[x]>>] /\ announced'[x] = announced[x]
      BY <1>6, <2>1, <2>2
    <3>2. \A n : HeldIn(rib'[At[x]], x, n) => HeldIn(rib[At[x]], x, n)
      BY <1>6, <1>7, <2>1, <2>2
    <3> QED
      BY <2>1, <3>1, <3>2, OriginStays
  <2>3. CASE x = s
    <3>1. At[x] = r
      BY <1>1, <2>3, NetFacts DEF PeersIn, Peers
    <3>2. At' = At
      BY NetFixed
    <3>3. ASSUME NEW n \in Nlris,
                 (n \in DOMAIN u /\ FromPeer(u[n], x)) \/ Carried(p, n)
          PROVE  announced[x][n] # None \/ Cancelled(p, n)
      <4>1. HeldIn(u, s, n) \/ Carried(p, n)
        BY <2>3, <3>3, HasHeld
      <4>2. Has(r, x, n) \/ Carried(q, n)
        BY <1>7, <1>8, <1>9, <2>3, <4>1, HasHeld
      <4>3. announced[x][n] # None \/ Cancelled(q, n)
        BY <1>4, <2>1, <2>3, <3>1, <4>2 DEF OriginAnswered, OriginBacked
      <4> QED
        BY <1>7, <1>8, <4>1, <4>3
    <3> QED
      BY <1>6, <2>3, <3>1, <3>2, <3>3 DEF OriginAnswered, OriginBacked, Has
  <2> QED
    BY <2>2, <2>3
<1>14. \A x \in Routers : Truthful(x)'
  BY <1>10, <1>11
<1>15. \A e \in Ends : e = <<e[1], e[2]>>
  BY DEF Ends
<1>16. \A e \in Ends : Answered(e[1], e[2])' /\ Silent(e[1], e[2])'
  BY <1>12, <1>15
<1> QED
  BY <1>13, <1>14, <1>16, NetFixed DEF Answering

\* Nobody has more to report or to know: the managers stay truthful.
LEMMA TruthStays ==
    ASSUME Answering, net' = net, rib' = rib, modified' = modified, left' = left
    PROVE  \A x \in Routers' : Truthful(x)'
<1>1. ASSUME NEW x \in Routers PROVE Truthful(x)'
  <2>1. Truthful(x)
    BY DEF Answering
  <2> QED
    BY <2>1 DEF Truthful, Losing
<1> QED
  BY <1>1, NetFixed

\* The wires between two speakers are not those of the origins.
LEMMA OriginsAside ==
    ASSUME Answering, net \in Nets, net' = net, rib' = rib, announced' = announced,
           \A w \in Wires : w[1] \in Origins => wire'[w] = wire[w]
    PROVE  \A x \in Origins' : OriginAnswered(x)'
<1>1. ASSUME NEW x \in Origins PROVE OriginAnswered(x)'
  <2>1. <<x, At[x]>> \in Wires /\ OriginAnswered(x)
    BY OriginWire DEF Answering
  <2>2. wire'[<<x, At[x]>>] = wire[<<x, At[x]>>]
    BY <2>1
  <2> QED
    BY <2>1, <2>2, OriginStays
<1> QED
  BY <1>1, NetFixed

\* The ends and what is said of them, all together.
LEMMA AllAnswering ==
    ASSUME net' = net, \A x \in Routers' : Truthful(x)', \A x \in Origins' : OriginAnswered(x)',
           \A a, b : <<a, b>> \in Ends => Answered(a, b)' /\ Silent(a, b)'
    PROVE  Answering'
<1>1. \A e \in Ends : e = <<e[1], e[2]>>
  BY DEF Ends
<1>2. \A e \in Ends : Answered(e[1], e[2])' /\ Silent(e[1], e[2])'
  BY <1>1
<1> QED
  BY <1>2, NetFixed DEF Answering

\* Report preserves Answering.
LEMMA AnsweringReport ==
    ASSUME Typed, Answering, net' = net, NEW r, NEW s, <<r, s>> \in Ends, Report(r, s)
    PROVE  Answering'
<1>1. /\ net \in Nets /\ r \in Routers /\ s \in Routers /\ <<r, s>> \in Wires /\ r # s
      /\ r \notin Origins
  BY EndFacts, NetFacts DEF Typed
<1>2. PICK q : Relates(r, s, q)
  BY ReportRelates
<1>3. /\ s \in left[r] /\ left'[r] = left[r] \ {s}
      /\ modified'[r] = IF left[r] \ {s} = {} THEN <<>> ELSE modified[r]
      /\ wire'[<<r, s>>] = q /\ state' = state /\ rib' = rib /\ announced' = announced
      /\ \A x \in Routers \ {r} : left'[x] = left[x] /\ modified'[x] = modified[x]
      /\ \A w \in Wires \ {<<r, s>>} : wire'[w] = wire[w]
  BY <1>1, <1>2 DEF Relates, Typed, ReportsOK, WiresOK
<1>4. ASSUME NEW x \in Routers PROVE Truthful(x)'
  <2>1. Truthful(x)
    BY DEF Answering
  <2>2. CASE left'[x] = {}
    BY <2>2 DEF Truthful
  <2>3. CASE left'[x] # {}
    <3>1. left[x] # {} /\ modified'[x] = modified[x] /\ rib' = rib
      BY <1>3, <2>3
    <3> QED
      BY <2>1, <3>1 DEF Truthful, Losing
  <2> QED
    BY <2>2, <2>3
<1>5. \A x \in Origins' : OriginAnswered(x)'
  BY <1>1, <1>3, OriginsAside
<1>6. ASSUME NEW a, NEW b, <<a, b>> \in Ends PROVE Answered(a, b)' /\ Silent(a, b)'
  <2>1. a \in Routers /\ b \in Routers /\ <<a, b>> \in Wires
    BY <1>1, <1>6, EndFacts
  <2>2. Answered(a, b) /\ Silent(a, b)
    BY <1>6 DEF Answering
  <2>3. CASE a # r
    BY <1>3, <2>1, <2>2, <2>3, EndStays
  <2>4. CASE a = r /\ b # s
    <3>1. wire'[<<a, b>>] = wire[<<a, b>>]
      BY <1>3, <2>1, <2>4
    <3>2. \A n : Backed(a, b, n) => Backed(a, b, n)'
      BY <1>3, <2>4, <3>1 DEF Backed, Losing
    <3> QED
      BY <1>3, <2>2, <3>1, <3>2 DEF Answered, Silent, Has
  <2>5. CASE a = r /\ b = s
    <3>1. IsQueue(wire[<<r, s>>])
      BY <1>1 DEF Typed, WiresOK
    <3>2. CASE state[<<r, s>>] # "Established"
      <4>1. q = wire[<<r, s>>]
        BY <1>2, <3>2 DEF Relates
      <4> QED
        BY <1>3, <2>2, <2>5, <3>2, <4>1 DEF Answered, Silent, Has
    <3>3. CASE state[<<r, s>>] = "Established"
      <4>1. Silent(r, s)'
        BY <1>3, <2>2, <2>5, <3>3 DEF Silent, Has
      <4>2. ASSUME NEW n \in Nlris, Has(s, r, n) \/ Carried(q, n)
            PROVE  n \in DOMAIN rib[r] \/ Cancelled(q, n)
        <5>1. CASE q = wire[<<r, s>>] /\ LostIn(modified[r]) = {}
          <6>1. ~Losing(r, n)
            BY <5>1 DEF Losing, LostIn
          <6> QED
            BY <2>2, <2>5, <3>3, <4>2, <5>1, <6>1 DEF Answered, Backed
        <5>2. CASE \E m : /\ q = wire[<<r, s>>] \o <<m>> /\ IsUpdate(m)
                          /\ Tells(r, s, modified[r], m)
          <6>1. PICK m : /\ q = wire[<<r, s>>] \o <<m>> /\ IsUpdate(m)
                         /\ Tells(r, s, modified[r], m)
            BY <5>2
          <6>2. SaysMore(q, wire[<<r, s>>], m, n)
            BY <3>1, <6>1, AppendSays, Zenon
          <6>3. Losing(r, n) => Retracts(m, n)
            BY <6>1 DEF Losing, Tells, LostIn, Retracts
          <6>4. CASE Losing(r, n)
            BY <6>2, <6>3, <6>4 DEF SaysMore
          <6>5. CASE Announces(m, n) /\ ~Losing(r, n)
            <7>1. PICK e \in EntriesFor(s, modified[r]) : e[1] = n
              BY <6>1, <6>5 DEF Tells, Announces
            <7>2. PICK i \in DOMAIN modified[r] : modified[r][i] = e
              BY DEF EntriesFor
            <7>3. Truthful(r)
              BY <1>1 DEF Answering
            <7> QED
              BY <1>3, <6>5, <7>1, <7>2, <7>3 DEF Truthful
          <6>6. CASE ~Announces(m, n) /\ ~Losing(r, n)
            <7>1. Has(s, r, n) \/ Carried(wire[<<r, s>>], n)
              BY <4>2, <6>2, <6>6 DEF SaysMore
            <7>2. n \in DOMAIN rib[r] \/ Cancelled(wire[<<r, s>>], n)
              BY <2>2, <2>5, <3>3, <6>6, <7>1 DEF Answered, Backed
            <7> QED
              BY <6>2, <6>6, <7>2 DEF SaysMore
          <6> QED
            BY <6>4, <6>5, <6>6
        <5> QED
          BY <1>2, <3>3, <5>1, <5>2 DEF Relates
      <4>3. Answered(r, s)'
        BY <1>3, <4>2 DEF Answered, Backed, Has
      <4> QED
        BY <2>5, <4>1, <4>3
    <3> QED
      BY <3>2, <3>3
  <2> QED
    BY <2>3, <2>4, <2>5
<1> QED
  BY <1>4, <1>5, <1>6, AllAnswering, NetFixed

\* The head of the wire from s to r is taken by r, which learns nothing.
LEMMA TakenAnswered ==
    ASSUME NEW r, NEW s, IsQueue(wire[<<s, r>>]), wire[<<s, r>>] # <<>>,
           Answered(s, r), Silent(s, r),
           wire[<<s, r>>][1] = Keepalive \/ state[<<r, s>>] = "OpenConfirm",
           wire'[<<s, r>>] = Tail(wire[<<s, r>>]),
           state'[<<s, r>>] = state[<<s, r>>],
           state'[<<r, s>>] = state[<<r, s>>] \/ state'[<<r, s>>] = "Established",
           UNCHANGED <<rib, modified, left>>
    PROVE  Answered(s, r)' /\ Silent(s, r)'
<1>1. PICK q : q = wire[<<s, r>>]
  OBVIOUS
<1>2. PICK p : p = Tail(q)
  OBVIOUS
<1>3. \A n : SaysLess(p, q, n)
  BY <1>1, <1>2, TailSays, Zenon
<1>4. \A n : Has(r, s, n)' <=> Has(r, s, n)
  BY DEF Has
<1>5. ASSUME NEW n \in Nlris, state[<<s, r>>] = "Established",
             Has(r, s, n) \/ Carried(p, n)
      PROVE  Backed(s, r, n)'
  <2>1. Carried(p, n) => Carried(q, n)
    BY <1>3 DEF SaysLess
  <2>2. Backed(s, r, n)
    BY <1>1, <1>5, <2>1 DEF Answered
  <2>3. ASSUME Cancelled(q, n) PROVE Cancelled(p, n)
    <3>1. Cancelled(p, n) \/ (Retracts(q[1], n) /\ ~Carried(p, n))
      BY <1>3, <2>3 DEF SaysLess
    <3>2. CASE q[1] = Keepalive
      <4>1. ~Retracts(q[1], n)
        BY <3>2 DEF Retracts, Keepalive
      <4> QED
        BY <3>1, <4>1
    <3>3. CASE state[<<r, s>>] = "OpenConfirm"
      BY <1>5, <3>1, <3>3 DEF Silent
    <3> QED
      BY <1>1, <3>2, <3>3
  <2> QED
    BY <1>1, <1>2, <2>2, <2>3 DEF Backed, Losing
<1>6. Answered(s, r)'
  BY <1>1, <1>2, <1>4, <1>5 DEF Answered
<1>7. \A i \in DOMAIN p : \E j \in DOMAIN q : p[i] = q[j]
  BY <1>3 DEF SaysLess
<1>8. Silent(s, r)'
  BY <1>1, <1>2, <1>4, <1>7 DEF Silent
<1> QED
  BY <1>6, <1>8

\* Takes preserves Answering.
LEMMA AnsweringTakes ==
    ASSUME Typed, Answering, net' = net, NEW r, NEW s, <<r, s>> \in Ends, Takes(r, s)
    PROVE  Answering'
<1>1. /\ net \in Nets /\ <<s, r>> \in Wires /\ <<s, r>> \in Ends /\ s \notin Origins
      /\ s # r
  BY EndFacts, NetFacts DEF Typed
<1>2. /\ wire'[<<s, r>>] = Tail(wire[<<s, r>>]) /\ IsQueue(wire[<<s, r>>])
      /\ \A w \in Wires \ {<<s, r>>} : wire'[w] = wire[w]
      /\ UNCHANGED <<state, rib, modified, left, announced>>
  BY <1>1 DEF Takes, Typed, WiresOK
<1>3. \A x \in Origins' : OriginAnswered(x)'
  BY <1>1, <1>2, OriginsAside
<1>4. ASSUME NEW a, NEW b, <<a, b>> \in Ends PROVE Answered(a, b)' /\ Silent(a, b)'
  <2>1. Answered(a, b) /\ Silent(a, b) /\ <<a, b>> \in Wires
    BY <1>1, <1>4, EndFacts DEF Answering
  <2>2. CASE <<a, b>> = <<s, r>>
    BY <1>2, <2>1, <2>2, TakenAnswered DEF Takes
  <2>3. CASE <<a, b>> # <<s, r>>
    BY <1>2, <2>1, <2>3, EndStays
  <2> QED
    BY <2>2, <2>3
<1> QED
  BY <1>2, <1>3, <1>4, AllAnswering, TruthStays

\* Nudges preserves Answering.
LEMMA AnsweringNudges ==
    ASSUME Typed, Answering, net' = net, NEW r, NEW s, <<r, s>> \in Ends, NEW q, Nudges(r, s, q)
    PROVE  Answering'
<1>1. net \in Nets /\ <<r, s>> \in Wires /\ r \notin Origins /\ s # r
  BY EndFacts, NetFacts DEF Typed
<1>2. /\ wire'[<<r, s>>] = q /\ q = Append(wire[<<r, s>>], Keepalive)
      /\ IsQueue(wire[<<r, s>>]) /\ \A w \in Wires \ {<<r, s>>} : wire'[w] = wire[w]
      /\ UNCHANGED <<state, rib, modified, left, announced>>
  BY <1>1 DEF Nudges, Typed, WiresOK
<1>3. \A x \in Origins' : OriginAnswered(x)'
  BY <1>1, <1>2, OriginsAside
<1>4. \A n : SaysMore(q, wire[<<r, s>>], Keepalive, n)
  BY <1>2, AppendSays, Zenon
<1>5. ASSUME NEW a, NEW b, <<a, b>> \in Ends PROVE Answered(a, b)' /\ Silent(a, b)'
  <2>1. Answered(a, b) /\ Silent(a, b) /\ <<a, b>> \in Wires
    BY <1>1, <1>5, EndFacts DEF Answering
  <2>2. CASE a = r /\ b = s
    <3>1. \A n : Carried(q, n) => Carried(wire[<<a, b>>], n)
      BY <1>4, <2>2, KeepaliveSays DEF SaysMore
    <3>2. \A n : Backed(a, b, n) => Backed(a, b, n)'
      BY <1>2, <1>4, <2>2, KeepaliveSays DEF Backed, Losing, SaysMore
    <3>3. Answered(a, b)'
      BY <1>2, <2>1, <2>2, <3>1, <3>2 DEF Answered, Has
    <3>4. \A i \in DOMAIN q :
            q[i] = Keepalive \/ \E j \in DOMAIN wire[<<r, s>>] : q[i] = wire[<<r, s>>][j]
      BY <1>4 DEF SaysMore
    <3>5. Silent(a, b)'
      BY <1>2, <2>1, <2>2, <3>4 DEF Silent, Has
    <3> QED
      BY <3>3, <3>5
  <2>3. CASE ~(a = r /\ b = s)
    BY <1>2, <2>1, <2>3, EndStays
  <2> QED
    BY <2>2, <2>3
<1> QED
  BY <1>2, <1>3, <1>5, AllAnswering, TruthStays

\* Greets preserves Answering.
LEMMA AnsweringGreets ==
    ASSUME Typed, Answering, net' = net, NEW r, NEW s, <<r, s>> \in Ends, NEW q, Greets(r, s, q)
    PROVE  Answering'
<1>1. /\ net \in Nets /\ <<r, s>> \in Wires /\ <<s, r>> \in Wires /\ <<s, r>> \in Ends
      /\ r \in Routers /\ r \notin Origins /\ s \notin Origins /\ s # r
  BY EndFacts, NetFacts DEF Typed
<1>2. /\ wire'[<<r, s>>] = q /\ wire'[<<s, r>>] = Tail(wire[<<s, r>>])
      /\ wire[<<s, r>>] # <<>> /\ wire[<<s, r>>][1] = Keepalive
      /\ IsQueue(wire[<<r, s>>]) /\ IsQueue(wire[<<s, r>>])
      /\ \A w \in Wires \ {<<r, s>>, <<s, r>>} : wire'[w] = wire[w]
      /\ UNCHANGED <<rib, modified, left, announced>>
  BY <1>1 DEF Greets, Typed, WiresOK
<1>3. /\ state'[<<r, s>>] = "Established" /\ state[<<r, s>>] = "OpenConfirm"
      /\ \A e \in Ends \ {<<r, s>>} : state'[e] = state[e]
  BY <1>1 DEF Greets, Typed, StatesOK
<1>4. \A x \in Origins' : OriginAnswered(x)'
  BY <1>1, <1>2, OriginsAside
<1>5. ASSUME NEW a, NEW b, <<a, b>> \in Ends PROVE Answered(a, b)' /\ Silent(a, b)'
  <2>1. Answered(a, b) /\ Silent(a, b) /\ <<a, b>> \in Wires /\ <<b, a>> \in Ends /\ a # b
    BY <1>1, <1>5, EndFacts DEF Answering
  <2>2. CASE a = r /\ b = s
    <3>1. ASSUME NEW n \in Nlris PROVE ~Has(s, r, n) /\ ~Carried(wire[<<r, s>>], n)
      BY <1>3, <2>1, <2>2, KeepaliveSays DEF Silent, Carried
    <3>2. ASSUME NEW n \in Nlris, Carried(q, n) PROVE n \in DOMAIN rib[r]
      <4>1. q # wire[<<r, s>>]
        BY <3>1, <3>2
      <4>2. PICK m : /\ q = wire[<<r, s>>] \o <<m>> /\ IsUpdate(m)
                     /\ Tells(r, s, send_locrib(r), m)
        BY <4>1 DEF Greets
      <4>3. SaysMore(q, wire[<<r, s>>], m, n)
        BY <1>2, <4>2, AppendSays, Zenon
      <4>4. Announces(m, n)
        BY <3>1, <3>2, <4>3 DEF SaysMore
      <4>5. PICK e \in EntriesFor(s, send_locrib(r)) : e[1] = n
        BY <4>2, <4>4 DEF Tells, Announces
      <4>6. PICK nlris : nlris = send_locrib(r)
        OBVIOUS
      <4>7. PICK i \in DOMAIN nlris : nlris[i] = e
        BY <4>5, <4>6 DEF EntriesFor
      <4> QED
        BY <1>1, <4>5, <4>6, <4>7, TableEntries
    <3>3. Answered(a, b)'
      BY <1>2, <2>2, <3>1, <3>2 DEF Answered, Has, Backed
    <3>4. Silent(a, b)'
      BY <1>1, <1>2, <1>3, <2>1, <2>2 DEF Silent, Has
    <3> QED
      BY <3>3, <3>4
  <2>3. CASE a = s /\ b = r
    BY <1>1, <1>2, <1>3, <2>1, <2>3, TakenAnswered
  <2>4. CASE ~(a = r /\ b = s) /\ ~(a = s /\ b = r)
    <3>1. /\ state'[<<a, b>>] = state[<<a, b>>] /\ state'[<<b, a>>] = state[<<b, a>>]
          /\ wire'[<<a, b>>] = wire[<<a, b>>]
      BY <1>2, <1>3, <1>5, <2>1, <2>4
    <3>2. /\ rib'[a] = rib[a] /\ rib'[b] = rib[b] /\ left'[a] = left[a]
          /\ modified'[a] = modified[a]
      BY <1>2
    <3> QED
      BY <2>1, <3>1, <3>2, EndStays
  <2> QED
    BY <2>2, <2>3, <2>4
<1> QED
  BY <1>2, <1>4, <1>5, AllAnswering, TruthStays

\* Session preserves Answering.
LEMMA AnsweringSession ==
    ASSUME Typed, Answering, net' = net, NEW r, NEW s, <<r, s>> \in Ends, Session(r, s)
    PROVE  Answering'
  BY KeepaliveGreets, DropTakes, TimerNudges, AnsweringGreets, AnsweringTakes,
     AnsweringNudges DEF Session

\* Break preserves Answering.
LEMMA AnsweringBreak ==
    ASSUME Typed, Answering, net' = net, NEW r, NEW s, <<r, s>> \in Ends, Break(r, s)
    PROVE  Answering'
<1>1. /\ net \in Nets /\ <<r, s>> \in Wires /\ <<s, r>> \in Wires /\ <<s, r>> \in Ends
      /\ r \notin Origins /\ s \notin Origins /\ s # r
  BY EndFacts, NetFacts DEF Typed
<1>2. PICK p, q : Breaks(r, s, p, q)
  BY BreakBreaks
<1>3. /\ \A w \in Wires \ {<<r, s>>, <<s, r>>} : wire'[w] = wire[w]
      /\ \A e \in Ends \ {<<r, s>>, <<s, r>>} : state'[e] = state[e]
      /\ state'[<<r, s>>] = "Idle" /\ state'[<<s, r>>] = "Idle"
      /\ UNCHANGED <<rib, modified, left, announced>>
  BY <1>1, <1>2 DEF Breaks, Typed, WiresOK, StatesOK
<1>4. \A x \in Origins' : OriginAnswered(x)'
  BY <1>1, <1>3, OriginsAside
<1>5. ASSUME NEW a, NEW b, <<a, b>> \in Ends PROVE Answered(a, b)' /\ Silent(a, b)'
  <2>1. Answered(a, b) /\ Silent(a, b) /\ <<a, b>> \in Wires /\ <<b, a>> \in Ends
    BY <1>1, <1>5, EndFacts DEF Answering
  <2>2. CASE (a = r /\ b = s) \/ (a = s /\ b = r)
    BY <1>3, <2>2 DEF Answered, Silent
  <2>3. CASE ~(a = r /\ b = s) /\ ~(a = s /\ b = r)
    <3>1. /\ state'[<<a, b>>] = state[<<a, b>>] /\ state'[<<b, a>>] = state[<<b, a>>]
          /\ wire'[<<a, b>>] = wire[<<a, b>>]
      BY <1>3, <1>5, <2>1, <2>3
    <3>2. /\ rib'[a] = rib[a] /\ rib'[b] = rib[b] /\ left'[a] = left[a]
          /\ modified'[a] = modified[a]
      BY <1>3
    <3> QED
      BY <2>1, <3>1, <3>2, EndStays
  <2> QED
    BY <2>2, <2>3
<1> QED
  BY <1>3, <1>4, <1>5, AllAnswering, TruthStays

\* Originate preserves Answering.
LEMMA AnsweringOriginate ==
    ASSUME Typed, Answering, net' = net, Originate
    PROVE  Answering'
<1>1. PICK x \in Origins : \E m, now : Emits(x, m, now)
  BY OriginateEmits
<1>2. PICK m, now : Emits(x, m, now)
  BY <1>1
<1>3. PICK r : r = At[x]
  OBVIOUS
<1>4. net \in Nets /\ <<x, r>> \in Wires /\ x \notin Routers
  BY <1>3, OriginWire DEF Typed
<1>5. PICK q : q = wire'[<<x, r>>]
  OBVIOUS
<1>6. /\ q = Append(wire[<<x, r>>], m) /\ IsQueue(wire[<<x, r>>])
      /\ \A w \in Wires \ {<<x, r>>} : wire'[w] = wire[w]
      /\ announced'[x] = now /\ \A y \in Origins \ {x} : announced'[y] = announced[y]
      /\ UNCHANGED <<state, rib, modified, left>>
  BY <1>2, <1>3, <1>4, <1>5 DEF Emits, Typed, WiresOK, OriginsOK
<1>7. \A n : SaysMore(q, wire[<<x, r>>], m, n)
  BY <1>6, AppendSays, Zenon
<1>8. OriginAnswered(x)'
  <2>1. ASSUME NEW n \in Nlris, Has(r, x, n) \/ Carried(q, n)
        PROVE  now[n] # None \/ Cancelled(q, n)
    <3>1. CASE Retracts(m, n)
      BY <1>7, <3>1 DEF SaysMore
    <3>2. CASE ~Announces(m, n) /\ now[n] = announced[x][n]
      <4>1. Has(r, x, n) \/ Carried(wire[<<x, r>>], n)
        BY <1>7, <2>1, <3>2 DEF SaysMore
      <4>2. OriginAnswered(x)
        BY DEF Answering
      <4>3. announced[x][n] # None \/ Cancelled(wire[<<x, r>>], n)
        BY <1>3, <4>1, <4>2 DEF OriginAnswered, OriginBacked
      <4> QED
        BY <1>7, <3>2, <4>3 DEF SaysMore
    <3> QED
      BY <1>2, <3>1, <3>2 DEF Emits
  <2>2. At' = At
    BY NetFixed
  <2> QED
    BY <1>3, <1>5, <1>6, <2>1, <2>2 DEF OriginAnswered, OriginBacked, Has
<1>9. ASSUME NEW y \in Origins, y # x PROVE OriginAnswered(y)'
  <2>1. <<y, At[y]>> \in Wires /\ OriginAnswered(y)
    BY <1>4, OriginWire DEF Answering
  <2>2. wire'[<<y, At[y]>>] = wire[<<y, At[y]>>]
    BY <1>6, <1>9, <2>1
  <2> QED
    BY <1>6, <1>9, <2>1, <2>2, OriginStays
<1>10. ASSUME NEW a, NEW b, <<a, b>> \in Ends PROVE Answered(a, b)' /\ Silent(a, b)'
  <2>1. Answered(a, b) /\ Silent(a, b) /\ <<a, b>> \in Wires /\ a # x
    BY <1>4, <1>10, EndFacts DEF Answering
  <2>2. wire'[<<a, b>>] = wire[<<a, b>>]
    BY <1>6, <2>1
  <2>3. /\ state'[<<a, b>>] = state[<<a, b>>] /\ state'[<<b, a>>] = state[<<b, a>>]
        /\ wire'[<<a, b>>] = wire[<<a, b>>] /\ rib'[a] = rib[a] /\ rib'[b] = rib[b]
        /\ left'[a] = left[a] /\ modified'[a] = modified[a]
    BY <1>6, <2>2
  <2> QED
    BY <2>1, <2>3, EndStays, Zenon
<1> QED
  BY <1>6, <1>8, <1>9, <1>10, AllAnswering, TruthStays, NetFixed

\* The initial states satisfy Answering.
LEMMA AnsweringInit == Init => Answering
<1> SUFFICES ASSUME Init PROVE Answering
  OBVIOUS
<1>1. net \in Nets
  BY DEF Init
<1>2. \A r \in Routers : left[r] = {} /\ rib[r] = NoRoutes
  BY DEF Init
<1>3. \A w \in Wires : wire[w] = <<>>
  BY DEF Init
<1>4. \A r \in Routers : \A s, n : ~Has(r, s, n)
  BY <1>2 DEF Has, NoRoutes
<1>5. \A n : ~Carried(<<>>, n)
  BY DEF Carried
<1>6. \A r \in Routers : Truthful(r)
  BY <1>2 DEF Truthful
<1>7. ASSUME NEW e \in Ends PROVE Answered(e[1], e[2]) /\ Silent(e[1], e[2])
  <2>1. PICK a, b : e = <<a, b>> /\ e[1] = a /\ e[2] = b
    BY DEF Ends
  <2>2. <<a, b>> \in Wires /\ a \in Routers /\ b \in Routers
    BY <1>1, <2>1, EndFacts
  <2>3. wire[<<a, b>>] = <<>> /\ DOMAIN wire[<<a, b>>] = {}
    BY <1>3, <2>2
  <2>4. \A n : ~Has(b, a, n) /\ ~Carried(wire[<<a, b>>], n)
    BY <1>4, <1>5, <2>2, <2>3
  <2> QED
    BY <2>1, <2>3, <2>4 DEF Answered, Silent
<1>8. ASSUME NEW x \in Origins PROVE OriginAnswered(x)
  <2>1. <<x, At[x]>> \in Wires /\ At[x] \in Routers
    BY <1>1, OriginWire
  <2> QED
    BY <1>3, <1>4, <1>5, <2>1 DEF OriginAnswered
<1> QED
  BY <1>6, <1>7, <1>8 DEF Answering

\* Answering survives where nothing it speaks of changes.
LEMMA AnsweringStays == Answering /\ UNCHANGED vars => Answering'
<1> SUFFICES ASSUME Answering, UNCHANGED vars PROVE Answering'
  OBVIOUS
<1>1. UNCHANGED <<net, state, wire, rib, modified, left, announced>>
  BY DEF vars
<1>2. ASSUME NEW a, NEW b, <<a, b>> \in Ends PROVE Answered(a, b)' /\ Silent(a, b)'
  <2>1. Answered(a, b) /\ Silent(a, b)
    BY <1>2 DEF Answering
  <2>2. /\ state'[<<a, b>>] = state[<<a, b>>] /\ state'[<<b, a>>] = state[<<b, a>>]
        /\ wire'[<<a, b>>] = wire[<<a, b>>] /\ rib'[a] = rib[a] /\ rib'[b] = rib[b]
        /\ left'[a] = left[a] /\ modified'[a] = modified[a]
    BY <1>1
  <2> QED
    BY <2>1, <2>2, EndStays, Zenon
<1>3. ASSUME NEW x \in Origins PROVE OriginAnswered(x)'
  <2>1. OriginAnswered(x)
    BY DEF Answering
  <2> QED
    BY <1>1, <2>1, OriginStays
<1> QED
  BY <1>1, <1>2, <1>3, AllAnswering, TruthStays, NetFixed

\* Every step preserves Answering.
LEMMA AnsweringNext == Typed /\ Answering /\ [Next]_vars => Answering'
<1> SUFFICES ASSUME Typed, Answering, [Next]_vars PROVE Answering'
  OBVIOUS
<1>1. CASE UNCHANGED vars
  BY <1>1, AnsweringStays
<1>2. CASE Next
  BY <1>2, Steps, AnsweringProcess, AnsweringReport, AnsweringSession, AnsweringBreak,
     AnsweringOriginate DEF Typed
<1> QED
  BY <1>1, <1>2

\* What a peer holds of a speaker is always backed by its table, by a withdrawal on its
\* way or by one that rib_mgr has yet to report.
THEOREM AlwaysAnswering == Spec => []Answering
  BY TypedInit, TypedNext, AnsweringInit, AnsweringNext, PTL DEF Spec

\* Once nothing is on its way, every path held is backed by its peer's table.
LEMMA AnsweringNoGhost == Typed /\ Answering => NoGhostRoutes
<1> SUFFICES ASSUME Typed, Answering, Quiet PROVE
        /\ \A e \in Ends, n \in Nlris :
             InSession(e[1], e[2]) /\ Has(e[1], e[2], n) => n \in DOMAIN rib[e[2]]
        /\ \A x \in Origins, n \in Nlris : Has(At[x], x, n) => announced[x][n] # None
  BY DEF NoGhostRoutes
<1>1. net \in Nets
  BY DEF Typed
<1>2. /\ \A w \in Wires : wire[w] = <<>>
      /\ \A r \in Routers : left[r] = {}
  BY DEF Quiet
<1>3. \A n : ~Cancelled(<<>>, n)
  BY DEF Cancelled
<1>4. ASSUME NEW e \in Ends, NEW n \in Nlris, InSession(e[1], e[2]), Has(e[1], e[2], n)
      PROVE  n \in DOMAIN rib[e[2]]
  <2>1. PICK a, b : e = <<a, b>> /\ e[1] = a /\ e[2] = b
    BY DEF Ends
  <2>2. <<b, a>> \in Ends /\ <<b, a>> \in Wires /\ b \in Routers
    BY <1>1, <2>1, EndFacts
  <2>3. Answered(b, a)
    BY <2>2 DEF Answering
  <2> QED
    BY <1>2, <1>3, <1>4, <2>1, <2>2, <2>3 DEF InSession, Answered, Backed
<1>5. ASSUME NEW x \in Origins, NEW n \in Nlris, Has(At[x], x, n) PROVE announced[x][n] # None
  <2>1. <<x, At[x]>> \in Wires /\ OriginAnswered(x)
    BY <1>1, OriginWire DEF Answering
  <2> QED
    BY <1>2, <1>3, <1>5, <2>1 DEF OriginAnswered, OriginBacked
<1> QED
  BY <1>4, <1>5

\* No speaker keeps a route its peer has lost, in any network, whatever is announced,
\* withdrawn or cut off: when nothing is on its way, a prefix that a speaker holds of a
\* peer it is in session with is in the table of the peer, or announced by the origin.
THEOREM GhostsVanish == Spec => []NoGhostRoutes
  BY AlwaysTyped, AlwaysAnswering, AnsweringNoGhost, PTL

-----------------------------------------------------------------------------
(* No path passes a speaker twice                                          *)

\* The network stays as it is, and so does what it says of ways.
LEMMA WaysFixed ==
    ASSUME net' = net
    PROVE  /\ \A r, s, m : SoundMessage(r, s, m)' <=> SoundMessage(r, s, m)
           /\ \A r, s, q : SoundQueue(r, s, q)' <=> SoundQueue(r, s, q)
           /\ \A r, t : SoundTable(r, t)' <=> SoundTable(r, t)
           /\ \A r, c : SoundReport(r, c)' <=> SoundReport(r, c)
<1>1. \A r, s, p, v : WayOK(r, s, p, v)' <=> WayOK(r, s, p, v)
  BY NetFixed DEF WayOK
<1>2. \A r, a : AcceptedOK(r, a)' <=> AcceptedOK(r, a)
  BY <1>1 DEF AcceptedOK
<1>3. \A r, s, m : SoundMessage(r, s, m)' <=> SoundMessage(r, s, m)
  BY <1>1 DEF SoundMessage
<1>4. \A r, s, q : SoundQueue(r, s, q)' <=> SoundQueue(r, s, q)
  BY <1>3 DEF SoundQueue
<1>5. \A r, t : SoundTable(r, t)' <=> SoundTable(r, t)
  BY <1>2 DEF SoundTable
<1>6. \A r, c : SoundReport(r, c)' <=> SoundReport(r, c)
  BY <1>2 DEF SoundReport
<1> QED
  BY <1>3, <1>4, <1>5, <1>6

\* WaysOK, wire by wire and table by table.
LEMMA AllSound ==
    ASSUME net' = net,
           \A a, b : <<a, b>> \in Wires => SoundQueue(b, a, wire'[<<a, b>>]),
           \A x \in Routers : SoundTable(x, rib'[x]) /\ SoundReport(x, modified'[x])
    PROVE  WaysOK'
<1>1. \A w \in Wires : w = <<w[1], w[2]>>
  BY DEF Wires
<1>2. \A w \in Wires : SoundQueue(w[2], w[1], wire'[w])
  BY <1>1
<1>3. \A w \in Wires' : SoundQueue(w[2], w[1], wire[w])'
  BY <1>2, NetFixed, WaysFixed
<1>4. \A x \in Routers' : SoundTable(x, rib[x])' /\ SoundReport(x, modified[x])'
  BY NetFixed, WaysFixed
<1> QED
  BY <1>3, <1>4 DEF WaysOK

\* A path handed on is sound if the sender's is.
LEMMA EachSound ==
    ASSUME WaysOK
    PROVE  /\ \A a, b : <<a, b>> \in Wires => SoundQueue(b, a, wire[<<a, b>>])
           /\ \A x \in Routers : SoundTable(x, rib[x]) /\ SoundReport(x, modified[x])
  BY DEF WaysOK

\* What a sound queue becomes.
LEMMA QueueSound ==
    ASSUME NEW r, NEW s, NEW q, SoundQueue(r, s, q), NEW p,
           \A i \in DOMAIN p : SoundMessage(r, s, p[i]) \/ \E j \in DOMAIN q : p[i] = q[j]
    PROVE  SoundQueue(r, s, p)
  BY DEF SoundQueue

\* A router that finds its own AS in no path accepts no way through itself.
LEMMA AcceptedIsSound ==
    ASSUME net \in Nets, NEW r, NEW s, <<s, r>> \in Wires, TableOK(r, rib[r]),
           NEW m, IsUpdate(m), SoundMessage(r, s, m), NEW n \in Accepted(r, s, m),
           NEW p, p = Path(r, s, m, n)
    PROVE  /\ AcceptedOK(r, p) /\ p.as_path = m.as_path
           /\ p.peer_type = IF Ibgp(r, s) THEN 0 ELSE 1
<1>1. n \in DOMAIN m.routes /\ is_valid(p) /\ m.kind = "update"
  BY DEF Accepted, IsUpdate
<1>2. /\ PathOK(r, p) /\ p.peer_rid = s /\ p.as_path = m.as_path
      /\ p.via = m.routes[n].via /\ Asn[r] \notin Elems(m.as_path)
  BY <1>1, NewPath
<1>3. WayOK(r, s, p.as_path, p.via)
  BY <1>1, <1>2 DEF SoundMessage
<1>4. s # r
  BY EndFacts
<1>5. \A i \in DOMAIN p.via : p.via[i] # r
  BY <1>2, <1>3, <1>4 DEF WayOK
<1>6. AcceptedOK(r, p)
  BY <1>2, <1>3, <1>5 DEF AcceptedOK
<1> QED
  BY <1>2, <1>6 DEF PathOK

\* A path that is sent on: the way is one longer, and the AS path says so unless both
\* ends are of one AS, in which case the path was not learnt within it.
LEMMA SentOnIsSound ==
    ASSUME net \in Nets, NEW r \in Routers, NEW s, NEW a, PathOK(r, a), AcceptedOK(r, a),
           should_send(r, s, a), NEW v, v = <<r>> \o a.via, NEW p, p = prepend(r, s, a)
    PROVE  WayOK(s, r, p, v)
<1>1. r \in Nat
  BY NetFacts
<1>2. /\ a.via \in Seq(Nat) /\ a.via # <<>> /\ a.via[1] = a.peer_rid
      /\ \A i, j \in DOMAIN a.via : a.via[i] = a.via[j] => i = j
      /\ \A i \in DOMAIN a.via : a.via[i] # r
      /\ \A i \in DOMAIN a.via :
           Asn[a.via[i]] \in Elems(a.as_path) \/ (i = 1 /\ Ibgp(r, a.peer_rid))
  BY DEF AcceptedOK, WayOK
<1>3. /\ p \in Seq(Nat) /\ Elems(a.as_path) \subseteq Elems(p)
      /\ ~Ibgp(r, s) => Asn[r] \in Elems(p)
  BY Prepended
<1>4. /\ v \in Seq(Nat) /\ Len(a.via) \in Nat /\ DOMAIN a.via = 1..Len(a.via)
      /\ DOMAIN v = 1..(Len(a.via) + 1) /\ v[1] = r /\ v # <<>>
      /\ \A i \in DOMAIN a.via : v[i + 1] = a.via[i]
  BY <1>1, <1>2, Prefixed
<1>5. \A i \in DOMAIN v : i # 1 => \E k \in DOMAIN a.via : i = k + 1 /\ v[i] = a.via[k]
  <2> SUFFICES ASSUME NEW i \in DOMAIN v, i # 1
               PROVE  \E k \in DOMAIN a.via : i = k + 1 /\ v[i] = a.via[k]
    OBVIOUS
  <2>1. PICK k \in Nat : k + 1 = i /\ k \in DOMAIN a.via
    <3>1. i - 1 \in Nat /\ (i - 1) + 1 = i /\ i - 1 \in DOMAIN a.via
      BY <1>4
    <3> QED
      BY <3>1
  <2> QED
    BY <1>4, <2>1
<1>6. ASSUME NEW i \in DOMAIN v, NEW j \in DOMAIN v, v[i] = v[j] PROVE i = j
  <2>1. CASE i = 1 /\ j = 1
    BY <2>1
  <2>2. CASE i = 1 /\ j # 1
    BY <1>2, <1>4, <1>5, <1>6, <2>2
  <2>3. CASE i # 1 /\ j = 1
    BY <1>2, <1>4, <1>5, <1>6, <2>3
  <2>4. CASE i # 1 /\ j # 1
    BY <1>2, <1>5, <1>6, <2>4
  <2> QED
    BY <2>1, <2>2, <2>3, <2>4
<1>7. ASSUME NEW i \in DOMAIN v PROVE Asn[v[i]] \in Elems(p) \/ (i = 1 /\ Ibgp(s, r))
  <2>1. CASE i = 1
    BY <1>3, <1>4, <2>1 DEF Ibgp
  <2>2. CASE i # 1
    <3>1. PICK k \in DOMAIN a.via : i = k + 1 /\ v[i] = a.via[k]
      BY <1>5, <2>2
    <3>2. CASE Asn[a.via[k]] \in Elems(a.as_path)
      BY <1>3, <3>1, <3>2
    <3>3. CASE k = 1 /\ Ibgp(r, a.peer_rid)
      <4>1. Asn[v[i]] = Asn[r] /\ a.peer_type = 0
        BY <1>2, <3>1, <3>3 DEF Ibgp, PathOK
      <4>2. ~Ibgp(r, s)
        BY <4>1 DEF should_send
      <4> QED
        BY <1>3, <4>1, <4>2
    <3> QED
      BY <1>2, <3>2, <3>3
  <2> QED
    BY <2>1, <2>2
<1> QED
  BY <1>3, <1>4, <1>6, <1>7 DEF WayOK

\* A report whose paths have the same attributes is a message of sound ways.
LEMMA ToldIsSound ==
    ASSUME net \in Nets, NEW r \in Routers, NEW s, NEW nlris,
           \A i \in DOMAIN nlris : EntryOK(r, nlris[i]), SoundReport(r, nlris),
           NEW m, Tells(r, s, nlris, m)
    PROVE  SoundMessage(s, r, m)
<1> SUFFICES ASSUME NEW n \in DOMAIN m.routes PROVE WayOK(s, r, m.as_path, m.routes[n].via)
  BY DEF SoundMessage
<1>1. PICK e \in EntriesFor(s, nlris) : m.routes[n].via = <<r>> \o e[2].via
  BY DEF Tells
<1>2. PICK d \in EntriesFor(s, nlris) : m.as_path = prepend(r, s, d[2])
  BY DEF Tells
<1>3. PICK f \in EntriesFor(s, nlris) : should_send(r, s, f[2])
  BY DEF Tells
<1>4. \A x \in EntriesFor(s, nlris) :
        /\ PathOK(r, x[2]) /\ AcceptedOK(r, x[2])
        /\ x[2].as_path = e[2].as_path /\ x[2].peer_type = e[2].peer_type
  <2>1. \A x \in EntriesFor(s, nlris) : \E i \in DOMAIN nlris : nlris[i] = x /\ x[2] # None
    BY DEF EntriesFor
  <2>2. \A x \in EntriesFor(s, nlris) : PathOK(r, x[2])
    BY EntriesAre
  <2>3. \A x \in EntriesFor(s, nlris) : AcceptedOK(r, x[2])
    BY <2>1 DEF SoundReport
  <2>4. ASSUME NEW x \in EntriesFor(s, nlris)
        PROVE  x[2].as_path = e[2].as_path /\ x[2].peer_type = e[2].peer_type
    <3>1. PICK i \in DOMAIN nlris : nlris[i] = x /\ x[2] # None
      BY <2>1
    <3>2. PICK j \in DOMAIN nlris : nlris[j] = e /\ e[2] # None
      BY <2>1
    <3> QED
      BY <3>1, <3>2 DEF SoundReport
  <2> QED
    BY <2>2, <2>3, <2>4
<1>5. should_send(r, s, e[2])
  BY <1>3, <1>4 DEF should_send
<1>6. m.as_path = prepend(r, s, e[2])
  BY <1>2, <1>4 DEF prepend
<1>7. PathOK(r, e[2]) /\ AcceptedOK(r, e[2])
  BY <1>4
<1> QED
  BY <1>1, <1>5, <1>6, <1>7, SentOnIsSound

\* A queue with sound messages appended, or with some of its messages gone.
LEMMA QueueMoreSound ==
    ASSUME NEW r, NEW s, NEW q, IsQueue(q), SoundQueue(r, s, q), NEW m, SoundMessage(r, s, m),
           NEW p, p = Append(q, m) \/ p = q \o <<m>>
    PROVE  SoundQueue(r, s, p)
<1>1. \A n : SaysMore(p, q, m, n)
  BY AppendSays, Zenon
<1>2. \A i \in DOMAIN p : p[i] = m \/ \E j \in DOMAIN q : p[i] = q[j]
  BY <1>1 DEF SaysMore
<1> QED
  BY <1>2, QueueSound

\* A queue stays sound when messages leave it.
LEMMA QueueLessSound ==
    ASSUME NEW r, NEW s, NEW q, IsQueue(q), q # <<>>, SoundQueue(r, s, q)
    PROVE  SoundQueue(r, s, Tail(q))
<1>1. PICK p : p = Tail(q)
  OBVIOUS
<1>2. \A n : SaysLess(p, q, n)
  BY <1>1, TailSays, Zenon
<1>3. \A i \in DOMAIN p : \E j \in DOMAIN q : p[i] = q[j]
  BY <1>2 DEF SaysLess
<1> QED
  BY <1>1, <1>3, QueueSound

\* Process preserves Ways.
LEMMA WaysProcess ==
    ASSUME Typed, WaysOK, net' = net, NEW r, NEW s, <<s, r>> \in Wires, Process(r, s)
    PROVE  WaysOK'
<1>1. net \in Nets /\ r \in Routers
  BY EndFacts DEF Typed
<1>2. TableOK(r, rib[r]) /\ IsQueue(wire[<<s, r>>])
  BY <1>1 DEF Typed, RibsOK, WiresOK
<1>3. PICK m, t, u, c : Handles(r, s, m, t, u, c)
  BY ProcessHandles
<1>4. /\ rib'[r] = u /\ modified'[r] = c /\ wire'[<<s, r>>] = Tail(wire[<<s, r>>])
      /\ wire[<<s, r>>] # <<>> /\ m = wire[<<s, r>>][1] /\ IsUpdate(m)
      /\ \A x \in Routers \ {r} : rib'[x] = rib[x] /\ modified'[x] = modified[x]
      /\ \A w \in Wires \ {<<s, r>>} : wire'[w] = wire[w]
  BY <1>1, <1>3 DEF Handles, Typed, RibsOK, WiresOK, ReportsOK
<1>5. SoundQueue(r, s, wire[<<s, r>>]) /\ SoundTable(r, rib[r])
  BY <1>1, EachSound
<1>6. SoundMessage(r, s, m)
  <2>1. 1 \in DOMAIN wire[<<s, r>>]
    BY <1>2, <1>4, QueueShrinks
  <2> QED
    BY <1>4, <1>5, <2>1 DEF SoundQueue
<1>7. \A n \in Accepted(r, s, m) :
        /\ AcceptedOK(r, Path(r, s, m, n)) /\ Path(r, s, m, n).as_path = m.as_path
        /\ Path(r, s, m, n).peer_type = IF Ibgp(r, s) THEN 0 ELSE 1
  BY <1>1, <1>2, <1>4, <1>6, AcceptedIsSound
<1>8. SoundTable(r, u)
  <2> SUFFICES ASSUME NEW n \in Nlris, NEW a \in PathsOf(u, n) PROVE AcceptedOK(r, a)
    BY DEF SoundTable
  <2>1. Extended(r, s, m, t) /\ Reduced(t, s, m, u)
    BY <1>3 DEF Handles
  <2>2. a \in PathsOf(t, n)
    BY <2>1 DEF Reduced
  <2>3. CASE n \in Accepted(r, s, m)
    BY <1>5, <1>7, <2>1, <2>2, <2>3 DEF Extended, SoundTable
  <2>4. CASE n \notin Accepted(r, s, m)
    BY <1>5, <2>1, <2>2, <2>4 DEF Extended, SoundTable
  <2> QED
    BY <2>3, <2>4
<1>9. SoundReport(r, c)
  <2>1. \A i \in DOMAIN c : c[i][2] # None =>
          \E n \in Accepted(r, s, m) : c[i][2] = Path(r, s, m, n)
    <3> SUFFICES ASSUME NEW i \in DOMAIN c, c[i][2] # None
                 PROVE  \E n \in Accepted(r, s, m) : c[i][2] = Path(r, s, m, n)
      OBVIOUS
    <3>1. ~ \E n \in Candidates(t, s, m) : c[i] = <<n, None>>
      OBVIOUS
    <3>2. PICK n \in Accepted(r, s, m) : c[i] = <<n, Path(r, s, m, n)>>
      BY <1>3, <3>1 DEF Handles, Reports
    <3> QED
      BY <3>2
  <2>2. \A i \in DOMAIN c : c[i][2] # None =>
          /\ AcceptedOK(r, c[i][2]) /\ c[i][2].as_path = m.as_path
          /\ c[i][2].peer_type = IF Ibgp(r, s) THEN 0 ELSE 1
    BY <1>7, <2>1
  <2> QED
    BY <2>2 DEF SoundReport
<1>10. SoundQueue(r, s, wire'[<<s, r>>])
  <2>1. SoundQueue(r, s, Tail(wire[<<s, r>>]))
    BY <1>2, <1>4, <1>5, QueueLessSound
  <2> QED
    BY <1>4, <2>1
<1>11. ASSUME NEW a, NEW b, <<a, b>> \in Wires PROVE SoundQueue(b, a, wire'[<<a, b>>])
  <2>1. SoundQueue(b, a, wire[<<a, b>>])
    BY <1>11, EachSound
  <2>2. CASE <<a, b>> = <<s, r>>
    <3>1. a = s /\ b = r
      BY <2>2
    <3> QED
      BY <1>10, <3>1
  <2>3. CASE <<a, b>> # <<s, r>>
    <3>1. wire'[<<a, b>>] = wire[<<a, b>>]
      BY <1>4, <1>11, <2>3
    <3> QED
      BY <2>1, <3>1
  <2> QED
    BY <2>2, <2>3
<1>12. ASSUME NEW x \in Routers PROVE SoundTable(x, rib'[x]) /\ SoundReport(x, modified'[x])
  <2>1. CASE x = r
    BY <1>4, <1>8, <1>9, <2>1
  <2>2. CASE x # r
    <3>1. rib'[x] = rib[x] /\ modified'[x] = modified[x]
      BY <1>4, <2>2
    <3> QED
      BY <3>1, EachSound
  <2> QED
    BY <2>1, <2>2
<1> QED
  BY <1>11, <1>12, AllSound

\* Two wires change, the tables and reports do not.
LEMMA WiresSound ==
    ASSUME WaysOK, net' = net, rib' = rib, modified' = modified, NEW r, NEW s,
           SoundQueue(s, r, wire'[<<r, s>>]), SoundQueue(r, s, wire'[<<s, r>>]),
           \A w \in Wires \ {<<r, s>>, <<s, r>>} : wire'[w] = wire[w]
    PROVE  WaysOK'
<1>1. ASSUME NEW a, NEW b, <<a, b>> \in Wires PROVE SoundQueue(b, a, wire'[<<a, b>>])
  <2>1. SoundQueue(b, a, wire[<<a, b>>])
    BY <1>1, EachSound
  <2>2. CASE a = r /\ b = s
    BY <2>2
  <2>3. CASE a = s /\ b = r
    BY <2>3
  <2>4. CASE ~(a = r /\ b = s) /\ ~(a = s /\ b = r)
    <3>1. wire'[<<a, b>>] = wire[<<a, b>>]
      BY <1>1, <2>4
    <3> QED
      BY <2>1, <3>1
  <2> QED
    BY <2>2, <2>3, <2>4
<1> QED
  BY <1>1, EachSound, AllSound

\* Report preserves Ways.
LEMMA WaysReport ==
    ASSUME Typed, WaysOK, net' = net, NEW r, NEW s, <<r, s>> \in Ends, Report(r, s)
    PROVE  WaysOK'
<1>1. /\ net \in Nets /\ r \in Routers /\ <<r, s>> \in Wires /\ <<s, r>> \in Wires
      /\ r # s
  BY EndFacts DEF Typed
<1>2. PICK q : Relates(r, s, q)
  BY ReportRelates
<1>3. /\ wire'[<<r, s>>] = q /\ rib' = rib /\ IsQueue(wire[<<r, s>>])
      /\ \A w \in Wires \ {<<r, s>>} : wire'[w] = wire[w]
      /\ modified'[r] = <<>> \/ modified'[r] = modified[r]
      /\ \A x \in Routers \ {r} : modified'[x] = modified[x]
  BY <1>1, <1>2 DEF Relates, Typed, WiresOK, ReportsOK
<1>4. SoundQueue(s, r, wire[<<r, s>>]) /\ SoundReport(r, modified[r])
  BY <1>1, EachSound
<1>5. SoundQueue(s, r, q)
  <2>1. CASE q = wire[<<r, s>>]
    BY <1>4, <2>1
  <2>2. CASE \E m : /\ q = wire[<<r, s>>] \o <<m>> /\ IsUpdate(m)
                    /\ Tells(r, s, modified[r], m)
    <3>1. PICK m : q = wire[<<r, s>>] \o <<m>> /\ Tells(r, s, modified[r], m)
      BY <2>2
    <3>2. \A i \in DOMAIN modified[r] : EntryOK(r, modified[r][i])
      BY <1>1 DEF Typed, ReportsOK
    <3>3. SoundMessage(s, r, m)
      BY <1>1, <1>4, <3>1, <3>2, ToldIsSound
    <3> QED
      BY <1>3, <1>4, <3>1, <3>3, QueueMoreSound
  <2> QED
    BY <1>2, <2>1, <2>2 DEF Relates
<1>6. ASSUME NEW a, NEW b, <<a, b>> \in Wires PROVE SoundQueue(b, a, wire'[<<a, b>>])
  <2>1. SoundQueue(b, a, wire[<<a, b>>])
    BY <1>6, EachSound
  <2>2. CASE a = r /\ b = s
    BY <1>3, <1>5, <2>2
  <2>3. CASE ~(a = r /\ b = s)
    <3>1. wire'[<<a, b>>] = wire[<<a, b>>]
      BY <1>3, <1>6, <2>3
    <3> QED
      BY <2>1, <3>1
  <2> QED
    BY <2>2, <2>3
<1>7. SoundReport(r, <<>>)
  BY DEF SoundReport
<1>8. ASSUME NEW x \in Routers PROVE SoundTable(x, rib'[x]) /\ SoundReport(x, modified'[x])
  <2>1. SoundTable(x, rib[x]) /\ SoundReport(x, modified[x])
    BY EachSound
  <2>2. modified'[x] = modified[x] \/ (x = r /\ modified'[x] = <<>>)
    BY <1>3
  <2> QED
    BY <1>3, <1>7, <2>1, <2>2
<1> QED
  BY <1>6, <1>8, AllSound

\* The whole table is one sound report if there is one prefix.
LEMMA TableIsSound ==
    ASSUME Typed, WaysOK, OnePrefix, NEW r \in Routers, NEW q, q = send_locrib(r)
    PROVE  SoundReport(r, q)
<1>1. SoundTable(r, rib[r])
  BY EachSound
<1>2. \A i \in DOMAIN q :
        /\ q[i][1] \in Nlris /\ q[i][2] \in PathsOf(rib[r], q[i][1])
        /\ q[i][2] = rib[r][q[i][1]][1]
  BY TableEntries DEF EntryOK
<1>3. PICK n : Nlris = {n}
  BY DEF OnePrefix
<1>4. \A i \in DOMAIN q : q[i][2] = rib[r][n][1] /\ AcceptedOK(r, q[i][2])
  BY <1>1, <1>2, <1>3 DEF SoundTable
<1> QED
  BY <1>4 DEF SoundReport

\* Session preserves Ways.
LEMMA WaysSession ==
    ASSUME Typed, WaysOK, NoneLate, net' = net, NEW r, NEW s, <<r, s>> \in Ends,
           Session(r, s)
    PROVE  WaysOK'
<1>1. /\ net \in Nets /\ r \in Routers /\ <<r, s>> \in Wires /\ <<s, r>> \in Wires
      /\ <<r, s>> # <<s, r>>
  BY EndFacts DEF Typed
<1>2. /\ IsQueue(wire[<<r, s>>]) /\ IsQueue(wire[<<s, r>>])
      /\ SoundQueue(s, r, wire[<<r, s>>]) /\ SoundQueue(r, s, wire[<<s, r>>])
  BY <1>1, EachSound DEF Typed, WiresOK
<1>3. ASSUME Takes(r, s) PROVE WaysOK'
  <2>1. /\ wire'[<<s, r>>] = Tail(wire[<<s, r>>]) /\ wire[<<s, r>>] # <<>>
        /\ wire'[<<r, s>>] = wire[<<r, s>>]
        /\ \A w \in Wires \ {<<r, s>>, <<s, r>>} : wire'[w] = wire[w]
        /\ rib' = rib /\ modified' = modified
    BY <1>1, <1>3 DEF Takes, Typed, WiresOK
  <2>2. SoundQueue(r, s, Tail(wire[<<s, r>>]))
    BY <1>2, <2>1, QueueLessSound
  <2> QED
    BY <1>2, <2>1, <2>2, WiresSound
<1>4. ASSUME NEW q, Nudges(r, s, q) PROVE WaysOK'
  <2>1. /\ wire'[<<r, s>>] = q /\ q = Append(wire[<<r, s>>], Keepalive)
        /\ wire'[<<s, r>>] = wire[<<s, r>>]
        /\ \A w \in Wires \ {<<r, s>>, <<s, r>>} : wire'[w] = wire[w]
        /\ rib' = rib /\ modified' = modified
    BY <1>1, <1>4 DEF Nudges, Typed, WiresOK
  <2>2. SoundMessage(s, r, Keepalive)
    BY DEF SoundMessage, Keepalive
  <2>3. SoundQueue(s, r, q)
    BY <1>2, <2>1, <2>2, QueueMoreSound
  <2> QED
    BY <1>2, <2>1, <2>3, WiresSound
<1>5. ASSUME NEW q, Greets(r, s, q) PROVE WaysOK'
  <2>1. /\ wire'[<<r, s>>] = q /\ wire'[<<s, r>>] = Tail(wire[<<s, r>>])
        /\ wire[<<s, r>>] # <<>>
        /\ \A w \in Wires \ {<<r, s>>, <<s, r>>} : wire'[w] = wire[w]
        /\ rib' = rib /\ modified' = modified
    BY <1>1, <1>5 DEF Greets, Typed, WiresOK
  <2>2. SoundQueue(r, s, Tail(wire[<<s, r>>]))
    BY <1>2, <2>1, QueueLessSound
  <2>3. SoundQueue(s, r, q)
    <3>1. CASE q = wire[<<r, s>>]
      BY <1>2, <3>1
    <3>2. CASE \E m : /\ q = wire[<<r, s>>] \o <<m>> /\ IsUpdate(m)
                      /\ Tells(r, s, send_locrib(r), m)
      <4>1. PICK nlris : nlris = send_locrib(r)
        OBVIOUS
      <4>2. PICK m : q = wire[<<r, s>>] \o <<m>> /\ Tells(r, s, nlris, m)
        BY <3>2, <4>1
      <4>3. OnePrefix
        BY <1>5 DEF Greets, NoneLate
      <4>4. SoundReport(r, nlris)
        BY <1>1, <4>1, <4>3, TableIsSound
      <4>5. \A i \in DOMAIN nlris : EntryOK(r, nlris[i])
        BY <1>1, <4>1, TableEntries
      <4>6. SoundMessage(s, r, m)
        BY <1>1, <4>2, <4>4, <4>5, ToldIsSound
      <4> QED
        BY <1>2, <4>2, <4>6, QueueMoreSound
    <3> QED
      BY <1>5, <3>1, <3>2 DEF Greets
  <2> QED
    BY <2>1, <2>2, <2>3, WiresSound
<1> QED
  BY <1>3, <1>4, <1>5, KeepaliveGreets, DropTakes, TimerNudges DEF Session

\* Break preserves Ways.
LEMMA WaysBreak ==
    ASSUME Typed, WaysOK, net' = net, NEW r, NEW s, <<r, s>> \in Ends, Break(r, s)
    PROVE  WaysOK'
<1>1. /\ net \in Nets /\ <<r, s>> \in Wires /\ <<s, r>> \in Wires /\ <<r, s>> # <<s, r>>
  BY EndFacts DEF Typed
<1>2. PICK p, q : Breaks(r, s, p, q)
  BY BreakBreaks
<1>3. /\ wire'[<<s, r>>] = p /\ wire'[<<r, s>>] = q
      /\ \A w \in Wires \ {<<r, s>>, <<s, r>>} : wire'[w] = wire[w]
      /\ rib' = rib /\ modified' = modified
      /\ Remains(p, wire[<<s, r>>]) /\ Remains(q, wire[<<r, s>>])
  BY <1>1, <1>2 DEF Breaks, Typed, WiresOK
<1>4. SoundQueue(s, r, wire[<<r, s>>]) /\ SoundQueue(r, s, wire[<<s, r>>])
  BY <1>1, EachSound
<1>5. SoundQueue(r, s, p) /\ SoundQueue(s, r, q)
  BY <1>3, <1>4, QueueSound DEF Remains
<1> QED
  BY <1>3, <1>5, WiresSound

\* Originate preserves Ways.
LEMMA WaysOriginate ==
    ASSUME Typed, WaysOK, net' = net, Originate
    PROVE  WaysOK'
<1>1. PICK x \in Origins : \E m, now : Emits(x, m, now)
  BY OriginateEmits
<1>2. PICK m, now : Emits(x, m, now)
  BY <1>1
<1>3. PICK r : r = At[x]
  OBVIOUS
<1>4. net \in Nets /\ <<x, r>> \in Wires /\ x \notin Routers /\ r \in Routers /\ x \in Nat
  BY <1>3, OriginWire, NetFacts DEF Typed
<1>5. /\ wire'[<<x, r>>] = Append(wire[<<x, r>>], m) /\ IsQueue(wire[<<x, r>>])
      /\ \A w \in Wires \ {<<x, r>>} : wire'[w] = wire[w]
      /\ rib' = rib /\ modified' = modified /\ IsUpdate(m)
  BY <1>2, <1>3, <1>4 DEF Emits, Typed, WiresOK
<1>6. SoundMessage(r, x, m)
  <2> SUFFICES ASSUME NEW n \in DOMAIN m.routes
               PROVE  WayOK(r, x, m.as_path, m.routes[n].via)
    BY DEF SoundMessage
  <2>1. PICK v : v = <<x>>
    OBVIOUS
  <2>2. /\ m.routes[n].via = v /\ Asn[x] \in Elems(m.as_path) /\ m.as_path \in Seq(Nat)
    BY <1>2, <2>1 DEF Emits, IsUpdate
  <2>3. v \in Seq(Nat) /\ v # <<>> /\ v[1] = x /\ DOMAIN v = {1}
    BY <1>4, <2>1
  <2> QED
    BY <2>2, <2>3 DEF WayOK
<1>7. ASSUME NEW a, NEW b, <<a, b>> \in Wires PROVE SoundQueue(b, a, wire'[<<a, b>>])
  <2>1. SoundQueue(b, a, wire[<<a, b>>])
    BY <1>7, EachSound
  <2>2. CASE a = x /\ b = r
    BY <1>5, <1>6, <2>1, <2>2, QueueMoreSound
  <2>3. CASE ~(a = x /\ b = r)
    <3>1. wire'[<<a, b>>] = wire[<<a, b>>]
      BY <1>5, <1>7, <2>3
    <3> QED
      BY <2>1, <3>1
  <2> QED
    BY <2>2, <2>3
<1> QED
  BY <1>5, <1>7, EachSound, AllSound

\* Ways stay sound when nothing they speak of changes.
LEMMA WaysStay == WaysOK /\ UNCHANGED vars => WaysOK'
  BY EachSound, AllSound DEF vars

\* The initial states satisfy Ways.
LEMMA WaysInit == Init => WaysOK
<1> SUFFICES ASSUME Init PROVE WaysOK
  OBVIOUS
<1>1. \A w \in Wires : SoundQueue(w[2], w[1], wire[w])
  BY DEF Init, SoundQueue
<1>2. \A r \in Routers : SoundTable(r, rib[r])
  BY DEF Init, SoundTable, NoRoutes, PathsOf
<1>3. \A r \in Routers : SoundReport(r, modified[r])
  BY DEF Init, SoundReport
<1> QED
  BY <1>1, <1>2, <1>3 DEF WaysOK

\* No session of a network without late ones becomes late.
LEMMA NoneLateInit == Unmixed /\ Init => NoneLate
  BY DEF Unmixed, Init, NoneLate, Fresh

\* No session becomes late where sessions do not change.
LEMMA NoneLateStays ==
    ASSUME net' = net, NoneLate, \A e \in Ends : state'[e] # state[e] => state'[e] # "OpenConfirm"
    PROVE  NoneLate'
  BY NetFixed DEF NoneLate, OnePrefix

\* No step makes a session late.
LEMMA NoneLateNext == Typed /\ NoneLate /\ [Next]_vars => NoneLate'
<1> SUFFICES ASSUME Typed, NoneLate, [Next]_vars PROVE NoneLate'
  OBVIOUS
<1>1. ASSUME net' = net, state' = state PROVE NoneLate'
  BY <1>1, NoneLateStays
<1>2. CASE UNCHANGED vars
  BY <1>1, <1>2 DEF vars
<1>3. CASE Next
  <2>1. net \in Nets /\ net' = net
    BY <1>3, Steps DEF Typed
  <2>2. ASSUME NEW r, NEW s, Process(r, s) \/ Report(r, s) PROVE NoneLate'
    BY <1>1, <2>1, <2>2 DEF Process, Report
  <2>3. ASSUME NEW r, NEW s, <<r, s>> \in Ends, Session(r, s) PROVE NoneLate'
    <3>1. state' = state \/ state' = [state EXCEPT ![<<r, s>>] = "Established"]
      BY <2>3 DEF Session, KeepaliveTimerExpires, HandleKeepalive, DropUpdate
    <3>2. \A e \in Ends : state'[e] # state[e] => state'[e] # "OpenConfirm"
      BY <3>1 DEF Typed, StatesOK
    <3> QED
      BY <2>1, <3>2, NoneLateStays
  <2>4. ASSUME NEW r, NEW s, <<r, s>> \in Ends, Break(r, s) PROVE NoneLate'
    <3>1. state' = [state EXCEPT ![<<r, s>>] = "Idle", ![<<s, r>>] = "Idle"]
      BY <2>4 DEF Break
    <3>2. \A e \in Ends : state'[e] # state[e] => state'[e] # "OpenConfirm"
      BY <3>1 DEF Typed, StatesOK
    <3> QED
      BY <2>1, <3>2, NoneLateStays
  <2>5. ASSUME Originate PROVE NoneLate'
    BY <1>1, <2>1, <2>5, OriginateEmits DEF Emits
  <2> QED
    BY <1>3, <2>1, <2>2, <2>3, <2>4, <2>5, Steps
<1> QED
  BY <1>2, <1>3

\* Every step preserves Ways.
LEMMA WaysNext == Typed /\ NoneLate /\ WaysOK /\ [Next]_vars => WaysOK'
<1> SUFFICES ASSUME Typed, NoneLate, WaysOK, [Next]_vars PROVE WaysOK'
  OBVIOUS
<1>1. CASE UNCHANGED vars
  BY <1>1, WaysStay
<1>2. CASE Next
  BY <1>2, Steps, WaysProcess, WaysReport, WaysSession, WaysBreak, WaysOriginate DEF Typed
<1> QED
  BY <1>1, <1>2

\* A sound way passes no speaker twice.
LEMMA WaysDoNotRevisit == Typed /\ WaysOK => NoPathRevisits
<1> SUFFICES ASSUME Typed, WaysOK PROVE NoPathRevisits
  OBVIOUS
<1> SUFFICES ASSUME NEW r \in Routers, NEW a \in Paths(r)
             PROVE  LET way == <<r>> \o a.via
                    IN  \A i, j \in DOMAIN way : way[i] = way[j] => i = j
  BY DEF NoPathRevisits
<1>0. PICK way : way = <<r>> \o a.via
  OBVIOUS
<1>1. r \in Nat
  BY NetFacts DEF Typed
<1>2. PICK n \in DOMAIN rib[r] : a \in PathsOf(rib[r], n)
  BY DEF Paths, PathsOf, ToSet, Elems
<1>3. AcceptedOK(r, a)
  BY <1>2, EachSound DEF SoundTable, Typed, RibsOK, TableOK
<1>4. PICK v : v = a.via
  OBVIOUS
<1>5. /\ v \in Seq(Nat) /\ \A k \in DOMAIN v : v[k] # r
      /\ \A k, l \in DOMAIN v : v[k] = v[l] => k = l
  BY <1>3, <1>4 DEF AcceptedOK, WayOK
<1>6. way = <<r>> \o v
  BY <1>0, <1>4
<1>7. /\ Len(v) \in Nat /\ DOMAIN v = 1..Len(v) /\ DOMAIN way = 1..(Len(v) + 1)
      /\ way[1] = r /\ \A k \in DOMAIN v : way[k + 1] = v[k]
  BY <1>1, <1>5, <1>6, Prefixed
<1>8. ASSUME NEW l \in DOMAIN way, l # 1 PROVE \E k \in DOMAIN v : l = k + 1 /\ way[l] = v[k]
  <2>1. l - 1 \in DOMAIN v /\ (l - 1) + 1 = l
    BY <1>7, <1>8
  <2> QED
    BY <1>7, <2>1
<1>9. ASSUME NEW i \in DOMAIN way, NEW j \in DOMAIN way, way[i] = way[j] PROVE i = j
  <2>1. CASE i = 1 /\ j = 1
    BY <2>1
  <2>2. CASE i = 1 /\ j # 1
    BY <1>5, <1>7, <1>8, <1>9, <2>2
  <2>3. CASE i # 1 /\ j = 1
    BY <1>5, <1>7, <1>8, <1>9, <2>3
  <2>4. CASE i # 1 /\ j # 1
    BY <1>5, <1>8, <1>9, <2>4
  <2> QED
    BY <2>1, <2>2, <2>3, <2>4
<1>10. \A i, j \in DOMAIN way : way[i] = way[j] => i = j
  BY <1>9
<1> QED
  BY <1>0, <1>10

\* No path passes a speaker twice, in any topology of internal and external sessions, as
\* long as no UPDATE mixes the attributes of several prefixes of a table: own ASes are
\* rejected, and what is learnt within an AS is not sent on within it.
THEOREM PathsDoNotRevisit ==
    ASSUME Unmixed
    PROVE  Spec => []NoPathRevisits
<1>1. Unmixed
  OBVIOUS
<1>2. Init => Typed /\ NoneLate /\ WaysOK
  BY <1>1, TypedInit, NoneLateInit, WaysInit
<1>3. (Typed /\ NoneLate /\ WaysOK) /\ [Next]_vars => (Typed /\ NoneLate /\ WaysOK)'
  BY TypedNext, NoneLateNext, WaysNext
<1>4. Typed /\ NoneLate /\ WaysOK => NoPathRevisits
  BY WaysDoNotRevisit
<1> QED
  BY <1>2, <1>3, <1>4, PTL DEF Spec
=============================================================================
