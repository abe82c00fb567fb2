--------------------------- MODULE DeliveryProofs ---------------------------
(***************************************************************************)
(* What a speaker will hold of a peer once it has read what is on its way, *)
(* and what follows of it for any network: the best paths arrive, and      *)
(* packets between ASes do not circle.                                     *)
(***************************************************************************)
EXTENDS NetworkProofs

-----------------------------------------------------------------------------
(* What will be held                                                       *)

\* An announcement of n with AS path p is in the queue and no withdrawal of n after it.
Stands(q, n, p) ==
    \E i \in DOMAIN q :
        /\ Announces(q[i], n) /\ q[i].as_path = p
        /\ \A j \in DOMAIN q : i <= j => ~Retracts(q[j], n)
Revoked(q, n) == \E j \in DOMAIN q : Retracts(q[j], n)

\* A table has a path of r with AS path p.
HeldWith(t, r, n, p) == \E a \in PathsOf(t, n) : a.peer_rid = r /\ a.as_path = p

\* s holds such a path of r, or will, when it has read its messages.
Lasts(r, s, n, p) ==
    \/ HeldWith(rib[s], r, n, p) /\ ~Revoked(wire[<<r, s>>], n)
    \/ Stands(wire[<<r, s>>], n, p)

\* The same said of a table and a queue.
LastsIn(t, q, r, n, p) == (HeldWith(t, r, n, p) /\ ~Revoked(q, n)) \/ Stands(q, n, p)

\* A message says something of n; none of a queue does.
Speaks(m, n) == Announces(m, n) \/ Retracts(m, n)
Unspoken(q, n) == \A j \in DOMAIN q : ~Speaks(q[j], n)

\* The last message about n announces it with AS path p; so did the last one r sent that
\* is in the table.
SaidLast(q, n, p) ==
    \E i \in DOMAIN q :
        /\ Announces(q[i], n) /\ q[i].as_path = p /\ ~Retracts(q[i], n)
        /\ \A j \in DOMAIN q : i < j => ~Speaks(q[j], n)
HeldLast(t, r, n, p) ==
    \E a \in PathsOf(t, n) :
        /\ a.peer_rid = r /\ a.as_path = p
        /\ \A b \in PathsOf(t, n) : b.peer_rid = r => b = a \/ b.recv_time < a.recv_time

\* The last that s hears of r on n is a path with AS path p.
LatestIn(t, q, r, n, p) == (HeldLast(t, r, n, p) /\ Unspoken(q, n)) \/ SaidLast(q, n, p)
Latest(r, s, n, p) ==
    \/ HeldLast(rib[s], r, n, p) /\ Unspoken(wire[<<r, s>>], n)
    \/ SaidLast(wire[<<r, s>>], n, p)

\* Lasts and Latest now and in the next state.
LEMMA LastsIs ==
    /\ \A r, s, n, p : Lasts(r, s, n, p) <=> LastsIn(rib[s], wire[<<r, s>>], r, n, p)
    /\ \A r, s, n, p : Lasts(r, s, n, p)' <=> LastsIn(rib'[s], wire'[<<r, s>>], r, n, p)
  BY DEF Lasts, LastsIn

\* and the same of what is latest.
LEMMA LatestIs ==
    /\ \A r, s, n, p : Latest(r, s, n, p) <=> LatestIn(rib[s], wire[<<r, s>>], r, n, p)
    /\ \A r, s, n, p : Latest(r, s, n, p)' <=> LatestIn(rib'[s], wire'[<<r, s>>], r, n, p)
  BY DEF Latest, LatestIn

\* The head of a queue stands or revokes, or the rest does.
LEMMA TailStands ==
    ASSUME NEW q, IsQueue(q), q # <<>>, NEW q2, q2 = Tail(q), NEW n, NEW p
    PROVE  /\ Revoked(q, n) <=> Retracts(q[1], n) \/ Revoked(q2, n)
           /\ Stands(q, n, p) <=>
                \/ Stands(q2, n, p)
                \/ Announces(q[1], n) /\ q[1].as_path = p /\ ~Revoked(q, n)
<1>1. /\ Len(q) \in Nat /\ Len(q) >= 1 /\ DOMAIN q = 1..Len(q)
      /\ DOMAIN q2 = 1..(Len(q) - 1) /\ \A i \in DOMAIN q2 : q2[i] = q[i + 1]
  BY QueueTail DEF IsQueue
<1>2. \A i \in DOMAIN q2 : i + 1 \in DOMAIN q /\ i \in Nat
  BY <1>1
<1>3. \A i \in DOMAIN q : i = 1 \/ (i - 1 \in DOMAIN q2 /\ q2[i - 1] = q[i] /\ i \in Nat)
  <2> SUFFICES ASSUME NEW i \in DOMAIN q, i # 1
               PROVE  i - 1 \in DOMAIN q2 /\ q2[i - 1] = q[i] /\ i \in Nat
    OBVIOUS
  <2>1. i \in Nat /\ i - 1 \in DOMAIN q2 /\ (i - 1) + 1 = i
    BY <1>1
  <2> QED
    BY <1>1, <2>1
<1>4. 1 \in DOMAIN q
  BY <1>1
<1>5. Revoked(q, n) <=> Retracts(q[1], n) \/ Revoked(q2, n)
  <2>1. Revoked(q, n) => Retracts(q[1], n) \/ Revoked(q2, n)
    BY <1>3 DEF Revoked
  <2>2. Revoked(q2, n) => Revoked(q, n)
    BY <1>1, <1>2 DEF Revoked
  <2> QED
    BY <1>4, <2>1, <2>2 DEF Revoked
<1>6. ASSUME Stands(q2, n, p) PROVE Stands(q, n, p)
  <2>1. PICK i \in DOMAIN q2 : /\ Announces(q2[i], n) /\ q2[i].as_path = p
                               /\ \A j \in DOMAIN q2 : i <= j => ~Retracts(q2[j], n)
    BY <1>6 DEF Stands
  <2>2. i + 1 \in DOMAIN q /\ q[i + 1] = q2[i] /\ i \in Nat /\ i >= 1
    BY <1>1, <1>2
  <2>3. ASSUME NEW j \in DOMAIN q, i + 1 <= j PROVE ~Retracts(q[j], n)
    <3>1. j # 1 /\ j \in Nat
      BY <1>1, <2>2, <2>3
    <3>2. j - 1 \in DOMAIN q2 /\ q2[j - 1] = q[j] /\ i <= j - 1
      BY <1>3, <2>2, <2>3, <3>1
    <3> QED
      BY <2>1, <3>2
  <2> QED
    BY <2>1, <2>2, <2>3 DEF Stands
<1>7. ASSUME Announces(q[1], n), q[1].as_path = p, ~Revoked(q, n) PROVE Stands(q, n, p)
  BY <1>4, <1>7 DEF Stands, Revoked
<1>8. ASSUME Stands(q, n, p)
      PROVE  \/ Stands(q2, n, p)
             \/ Announces(q[1], n) /\ q[1].as_path = p /\ ~Revoked(q, n)
  <2>1. PICK i \in DOMAIN q : /\ Announces(q[i], n) /\ q[i].as_path = p
                              /\ \A j \in DOMAIN q : i <= j => ~Retracts(q[j], n)
    BY <1>8 DEF Stands
  <2>2. CASE i = 1
    <3>1. \A j \in DOMAIN q : i <= j
      BY <1>1, <2>2
    <3> QED
      BY <2>1, <2>2, <3>1 DEF Revoked
  <2>3. CASE i # 1
    <3>1. i - 1 \in DOMAIN q2 /\ q2[i - 1] = q[i] /\ i \in Nat
      BY <1>3, <2>3
    <3>2. ASSUME NEW j \in DOMAIN q2, i - 1 <= j PROVE ~Retracts(q2[j], n)
      <4>1. j + 1 \in DOMAIN q /\ q[j + 1] = q2[j] /\ i <= j + 1
        BY <1>1, <1>2, <3>1, <3>2
      <4> QED
        BY <2>1, <4>1
    <3> QED
      BY <2>1, <3>1, <3>2 DEF Stands
  <2> QED
    BY <2>2, <2>3
<1> QED
  BY <1>5, <1>6, <1>7, <1>8

\* A message put into a queue revokes all before it, or stands, or neither.
LEMMA AppendStands ==
    ASSUME NEW q, IsQueue(q), NEW m, NEW q2, q2 = Append(q, m) \/ q2 = q \o <<m>>,
           NEW n, NEW p
    PROVE  /\ Revoked(q2, n) <=> Retracts(m, n) \/ Revoked(q, n)
           /\ Stands(q2, n, p) <=>
                /\ ~Retracts(m, n)
                /\ Stands(q, n, p) \/ (Announces(m, n) /\ m.as_path = p)
<1>1. /\ DOMAIN q2 = 1..(Len(q) + 1) /\ q2[Len(q) + 1] = m
      /\ DOMAIN q = 1..Len(q) /\ Len(q) \in Nat /\ \A i \in DOMAIN q : q2[i] = q[i]
  BY QueueAppend DEF IsQueue
<1>2. PICK k \in Nat : k = Len(q) + 1
  BY <1>1
<1>3. /\ \A i \in DOMAIN q2 : i \in DOMAIN q \/ i = k
      /\ DOMAIN q \subseteq DOMAIN q2 /\ k \in DOMAIN q2 /\ q2[k] = m
      /\ \A i \in DOMAIN q2 : i <= k
      /\ \A i \in DOMAIN q : ~(k <= i)
  BY <1>1, <1>2
<1>4. Revoked(q2, n) <=> Retracts(m, n) \/ Revoked(q, n)
  BY <1>1, <1>3 DEF Revoked
<1>5. ASSUME Stands(q2, n, p)
      PROVE  ~Retracts(m, n) /\ (Stands(q, n, p) \/ (Announces(m, n) /\ m.as_path = p))
  <2>1. PICK i \in DOMAIN q2 : /\ Announces(q2[i], n) /\ q2[i].as_path = p
                               /\ \A j \in DOMAIN q2 : i <= j => ~Retracts(q2[j], n)
    BY <1>5 DEF Stands
  <2>2. ~Retracts(m, n)
    BY <1>3, <2>1
  <2>3. CASE i = k
    BY <1>3, <2>1, <2>2, <2>3
  <2>4. CASE i \in DOMAIN q
    <3>1. \A j \in DOMAIN q : i <= j => ~Retracts(q[j], n)
      BY <1>1, <1>3, <2>1
    <3> QED
      BY <1>1, <2>1, <2>2, <2>4, <3>1 DEF Stands
  <2> QED
    BY <1>3, <2>3, <2>4
<1>6. ASSUME ~Retracts(m, n), Stands(q, n, p) PROVE Stands(q2, n, p)
  <2>1. PICK i \in DOMAIN q : /\ Announces(q[i], n) /\ q[i].as_path = p
                              /\ \A j \in DOMAIN q : i <= j => ~Retracts(q[j], n)
    BY <1>6 DEF Stands
  <2>2. \A j \in DOMAIN q2 : i <= j => ~Retracts(q2[j], n)
    BY <1>1, <1>3, <1>6, <2>1
  <2> QED
    BY <1>1, <1>3, <2>1, <2>2 DEF Stands
<1>7. ASSUME ~Retracts(m, n), Announces(m, n), m.as_path = p PROVE Stands(q2, n, p)
  <2>1. \A j \in DOMAIN q2 : k <= j => ~Retracts(q2[j], n)
    BY <1>3, <1>7
  <2> QED
    BY <1>3, <1>7, <2>1 DEF Stands
<1> QED
  BY <1>4, <1>5, <1>6, <1>7

\* The last word on n is in the rest of a queue, or it is the head.
LEMMA TailSaid ==
    ASSUME NEW q, IsQueue(q), q # <<>>, NEW q2, q2 = Tail(q), NEW n, NEW p
    PROVE  /\ Unspoken(q, n) <=> ~Speaks(q[1], n) /\ Unspoken(q2, n)
           /\ SaidLast(q, n, p) =>
                \/ SaidLast(q2, n, p)
                \/ /\ Announces(q[1], n) /\ q[1].as_path = p /\ ~Retracts(q[1], n)
                   /\ Unspoken(q2, n)
<1>1. /\ Len(q) \in Nat /\ Len(q) >= 1 /\ DOMAIN q = 1..Len(q)
      /\ DOMAIN q2 = 1..(Len(q) - 1) /\ \A i \in DOMAIN q2 : q2[i] = q[i + 1]
  BY QueueTail DEF IsQueue
<1>2. 1 \in DOMAIN q /\ \A i \in DOMAIN q2 : i + 1 \in DOMAIN q /\ i \in Nat /\ 1 < i + 1
  BY <1>1
<1>3. \A i \in DOMAIN q : i = 1 \/ (i - 1 \in DOMAIN q2 /\ q2[i - 1] = q[i] /\ i \in Nat)
  <2> SUFFICES ASSUME NEW i \in DOMAIN q, i # 1
               PROVE  i - 1 \in DOMAIN q2 /\ q2[i - 1] = q[i] /\ i \in Nat
    OBVIOUS
  <2>1. i \in Nat /\ i - 1 \in DOMAIN q2 /\ (i - 1) + 1 = i
    BY <1>1
  <2> QED
    BY <1>1, <2>1
<1>4. Unspoken(q, n) <=> ~Speaks(q[1], n) /\ Unspoken(q2, n)
  <2>1. Unspoken(q, n) => ~Speaks(q[1], n)
    BY <1>2 DEF Unspoken
  <2>2. Unspoken(q, n) => Unspoken(q2, n)
    BY <1>1, <1>2 DEF Unspoken
  <2>3. ~Speaks(q[1], n) /\ Unspoken(q2, n) => Unspoken(q, n)
    BY <1>3 DEF Unspoken
  <2> QED
    BY <2>1, <2>2, <2>3
<1>5. ASSUME SaidLast(q, n, p)
      PROVE  \/ SaidLast(q2, n, p)
             \/ /\ Announces(q[1], n) /\ q[1].as_path = p /\ ~Retracts(q[1], n)
                /\ Unspoken(q2, n)
  <2>1. PICK i \in DOMAIN q :
           /\ Announces(q[i], n) /\ q[i].as_path = p /\ ~Retracts(q[i], n)
           /\ \A j \in DOMAIN q : i < j => ~Speaks(q[j], n)
    BY <1>5 DEF SaidLast
  <2>2. CASE i = 1
    <3>1. Unspoken(q2, n)
      BY <1>1, <1>2, <2>1, <2>2 DEF Unspoken
    <3> QED
      BY <2>1, <2>2, <3>1
  <2>3. CASE i # 1
    <3>1. i - 1 \in DOMAIN q2 /\ q2[i - 1] = q[i] /\ i \in Nat
      BY <1>3, <2>3
    <3>2. ASSUME NEW j \in DOMAIN q2, i - 1 < j PROVE ~Speaks(q2[j], n)
      <4>1. j + 1 \in DOMAIN q /\ q[j + 1] = q2[j] /\ i < j + 1
        BY <1>1, <1>2, <3>1, <3>2
      <4> QED
        BY <2>1, <4>1
    <3> QED
      BY <2>1, <3>1, <3>2 DEF SaidLast
  <2> QED
    BY <2>2, <2>3
<1> QED
  BY <1>4, <1>5

\* A message put into a queue leaves the last word on n, or is it.
LEMMA AppendSaid ==
    ASSUME NEW q, IsQueue(q), NEW m, NEW q2, q2 = Append(q, m) \/ q2 = q \o <<m>>,
           NEW n, NEW p
    PROVE  /\ ~Speaks(m, n) => /\ Unspoken(q, n) => Unspoken(q2, n)
                               /\ SaidLast(q, n, p) => SaidLast(q2, n, p)
           /\ Announces(m, n) /\ m.as_path = p /\ ~Retracts(m, n) => SaidLast(q2, n, p)
<1>1. /\ DOMAIN q2 = 1..(Len(q) + 1) /\ q2[Len(q) + 1] = m
      /\ DOMAIN q = 1..Len(q) /\ Len(q) \in Nat /\ \A i \in DOMAIN q : q2[i] = q[i]
  BY QueueAppend DEF IsQueue
<1>2. PICK k \in Nat : k = Len(q) + 1
  BY <1>1
<1>3. /\ \A i \in DOMAIN q2 : i \in DOMAIN q \/ i = k
      /\ DOMAIN q \subseteq DOMAIN q2 /\ k \in DOMAIN q2 /\ q2[k] = m
      /\ \A i \in DOMAIN q2 : ~(k < i)
  BY <1>1, <1>2
<1>4. ASSUME ~Speaks(m, n), Unspoken(q, n) PROVE Unspoken(q2, n)
  BY <1>1, <1>3, <1>4 DEF Unspoken
<1>5. ASSUME ~Speaks(m, n), SaidLast(q, n, p) PROVE SaidLast(q2, n, p)
  <2>1. PICK i \in DOMAIN q :
           /\ Announces(q[i], n) /\ q[i].as_path = p /\ ~Retracts(q[i], n)
           /\ \A j \in DOMAIN q : i < j => ~Speaks(q[j], n)
    BY <1>5 DEF SaidLast
  <2>2. \A j \in DOMAIN q2 : i < j => ~Speaks(q2[j], n)
    BY <1>1, <1>3, <1>5, <2>1
  <2> QED
    BY <1>1, <1>3, <2>1, <2>2 DEF SaidLast
<1>6. ASSUME Announces(m, n), m.as_path = p, ~Retracts(m, n) PROVE SaidLast(q2, n, p)
  BY <1>3, <1>6 DEF SaidLast
<1> QED
  BY <1>4, <1>5, <1>6

\* A KEEPALIVE at the head or at the end changes nothing of what will be held.
LEMMA KeepaliveStands ==
    ASSUME NEW q, IsQueue(q), NEW q2,
           \/ q # <<>> /\ q[1] = Keepalive /\ q2 = Tail(q)
           \/ q2 = Append(q, Keepalive),
           NEW n, NEW p
    PROVE  (Revoked(q2, n) <=> Revoked(q, n)) /\ (Stands(q2, n, p) <=> Stands(q, n, p))
<1>1. CASE q # <<>> /\ q[1] = Keepalive /\ q2 = Tail(q)
  <2>1. ~Announces(q[1], n) /\ ~Retracts(q[1], n)
    BY <1>1, KeepaliveSays
  <2> QED
    BY <1>1, <2>1, TailStands
<1>2. CASE q2 = Append(q, Keepalive)
  BY <1>2, AppendStands, KeepaliveSays
<1> QED
  BY <1>1, <1>2

-----------------------------------------------------------------------------
(* One message says one thing of a prefix                                  *)

CleanQueue(q) == \A i \in DOMAIN q : CleanMessage(q[i])
Clean ==
    /\ \A w \in Wires : CleanQueue(wire[w])
    /\ \A r \in Routers : CleanReport(modified[r])

\* Of a clean message no prefix is both accepted and withdrawn.
LEMMA Apart ==
    ASSUME NEW r, NEW s, NEW m, IsUpdate(m), CleanMessage(m), NEW t,
           NEW n \in Accepted(r, s, m)
    PROVE  n \notin Candidates(t, s, m) /\ ~Retracts(m, n)
<1>1. n \in DOMAIN m.routes /\ m.kind = "update"
  BY DEF Accepted, IsUpdate
<1>2. ~m.all /\ n \notin m.withdrawn
  BY <1>1 DEF CleanMessage
<1> QED
  BY <1>2 DEF Candidates, Retracts

\* What is taken from or left of a clean queue is clean.
LEMMA TailClean ==
    ASSUME NEW q, IsQueue(q), q # <<>>, CleanQueue(q)
    PROVE  CleanQueue(Tail(q)) /\ CleanMessage(q[1])
<1>1. PICK p : p = Tail(q)
  OBVIOUS
<1>2. /\ DOMAIN p = 1..(Len(q) - 1) /\ \A i \in DOMAIN p : p[i] = q[i + 1]
      /\ DOMAIN q = 1..Len(q) /\ Len(q) \in Nat /\ Len(q) >= 1
  BY <1>1, QueueTail DEF IsQueue
<1>3. 1 \in DOMAIN q /\ \A i \in DOMAIN p : i + 1 \in DOMAIN q
  BY <1>2
<1> QED
  BY <1>1, <1>2, <1>3 DEF CleanQueue

\* So does a queue to which a clean message is added.
LEMMA AppendClean ==
    ASSUME NEW q, IsQueue(q), CleanQueue(q), NEW m, CleanMessage(m), NEW p,
           p = Append(q, m) \/ p = q \o <<m>>
    PROVE  CleanQueue(p)
<1>1. /\ DOMAIN p = 1..(Len(q) + 1) /\ p[Len(q) + 1] = m
      /\ DOMAIN q = 1..Len(q) /\ Len(q) \in Nat /\ \A i \in DOMAIN q : p[i] = q[i]
  BY QueueAppend DEF IsQueue
<1>2. \A i \in DOMAIN p : i \in DOMAIN q \/ i = Len(q) + 1
  BY <1>1
<1> QED
  BY <1>1, <1>2 DEF CleanQueue

\* A report that says one thing of a prefix makes such a message.
LEMMA ToldIsClean ==
    ASSUME NEW r, NEW s, NEW nlris, CleanReport(nlris), NEW m, Tells(r, s, nlris, m)
    PROVE  CleanMessage(m)
<1>1. ASSUME NEW n \in DOMAIN m.routes, n \in m.withdrawn PROVE FALSE
  <2>1. PICK e \in EntriesFor(s, nlris) : e[1] = n
    BY DEF Tells
  <2>2. PICK i \in DOMAIN nlris : nlris[i] = e /\ nlris[i][2] # None
    BY DEF EntriesFor
  <2>3. PICK j \in DOMAIN nlris : nlris[j][1] = n /\ nlris[j][2] = None
    BY <1>1 DEF Tells, LostIn
  <2> QED
    BY <2>1, <2>2, <2>3 DEF CleanReport
<1>2. m.all = FALSE
  BY DEF Tells
<1> QED
  BY <1>1, <1>2 DEF CleanMessage

-----------------------------------------------------------------------------
(* What changes in a step, wire by wire and table by table                 *)

\* Of the wires those between r and s may change, of the tables and reports none.
Talk(r, s) ==
    /\ rib' = rib /\ modified' = modified /\ left' = left /\ untold' = untold
    /\ \A a, b : <<a, b>> \in Wires /\ {a, b} # {r, s} =>
         wire'[<<a, b>>] = wire[<<a, b>>]
    /\ \A e \in Ends : state'[e] # state[e] => e \in {<<r, s>>, <<s, r>>}

\* After Process: the wire it read, the table, the report and the best paths it did
\* not report are other ones, those of r.
LEMMA ProcessChanges ==
    ASSUME Typed, NEW r, NEW s, <<s, r>> \in Wires,
           NEW m, NEW t, NEW u, NEW c, Handles(r, s, m, t, u, c)
    PROVE  /\ net \in Nets /\ r \in Routers /\ s # r /\ TableOK(r, rib[r])
           /\ IsQueue(wire[<<s, r>>]) /\ left[r] = {}
           /\ rib'[r] = u /\ modified'[r] = c
           /\ left'[r] = IF c = <<>> THEN {} ELSE Peers(r)
           /\ wire'[<<s, r>>] = Tail(wire[<<s, r>>])
           /\ \A x \in Routers \ {r} :
                rib'[x] = rib[x] /\ modified'[x] = modified[x] /\ left'[x] = left[x]
           /\ \A a, b : <<a, b>> \in Wires /\ ~(a = s /\ b = r) =>
                wire'[<<a, b>>] = wire[<<a, b>>]
           /\ \A x, n : x # r => (<<x, n>> \in untold' <=> <<x, n>> \in untold)
           /\ \A n : <<r, n>> \in untold' <=> n \in Untold(r, u, Added(r, s, m))
<1>1. net \in Nets /\ r \in Routers /\ s # r
  BY EndFacts DEF Typed
<1>2. TableOK(r, rib[r]) /\ IsQueue(wire[<<s, r>>]) /\ left[r] = {}
  BY <1>1 DEF Typed, RibsOK, WiresOK, Handles
<1>3. /\ rib'[r] = u /\ modified'[r] = c
      /\ left'[r] = IF c = <<>> THEN {} ELSE Peers(r)
      /\ \A x \in Routers \ {r} :
           rib'[x] = rib[x] /\ modified'[x] = modified[x] /\ left'[x] = left[x]
  BY <1>1 DEF Handles, Typed, RibsOK, ReportsOK
<1>4. /\ wire'[<<s, r>>] = Tail(wire[<<s, r>>])
      /\ \A w \in Wires \ {<<s, r>>} : wire'[w] = wire[w]
  BY DEF Handles, Typed, WiresOK
<1>5. \A a, b : ~(a = s /\ b = r) => <<a, b>> # <<s, r>>
  OBVIOUS
<1>6. PICK U : U = Untold(r, u, Added(r, s, m))
  OBVIOUS
<1>7. untold' = {x \in untold : x[1] # r} \cup {r} \X U
  BY <1>6 DEF Handles
<1>8. \A x, n : <<x, n>> \in untold' <=> (<<x, n>> \in untold /\ x # r) \/ (x = r /\ n \in U)
  BY <1>7
<1> QED
  BY <1>1, <1>2, <1>3, <1>4, <1>5, <1>6, <1>8

\* After Report: one wire and what is left to do.
LEMMA ReportChanges ==
    ASSUME Typed, NEW r, NEW s, <<r, s>> \in Ends, NEW q, Relates(r, s, q)
    PROVE  /\ net \in Nets /\ r \in Routers /\ s \in Routers /\ s # r
           /\ IsQueue(wire[<<r, s>>]) /\ wire'[<<r, s>>] = q /\ rib' = rib
           /\ s \in left[r] /\ left'[r] = left[r] \ {s}
           /\ left'[r] # {} => modified'[r] = modified[r]
           /\ modified'[r] = <<>> \/ modified'[r] = modified[r]
           /\ \A x \in Routers \ {r} : modified'[x] = modified[x] /\ left'[x] = left[x]
           /\ \A a, b : <<a, b>> \in Wires /\ ~(a = r /\ b = s) =>
                wire'[<<a, b>>] = wire[<<a, b>>]
           /\ \A i \in DOMAIN modified[r] : EntryOK(r, modified[r][i])
<1>1. net \in Nets /\ r \in Routers /\ s \in Routers /\ s # r /\ <<r, s>> \in Wires
  BY EndFacts DEF Typed
<1>2. /\ s \in left[r] /\ left'[r] = left[r] \ {s} /\ rib' = rib
      /\ modified'[r] = IF left[r] \ {s} = {} THEN <<>> ELSE modified[r]
      /\ \A x \in Routers \ {r} : modified'[x] = modified[x] /\ left'[x] = left[x]
      /\ \A i \in DOMAIN modified[r] : EntryOK(r, modified[r][i])
  BY <1>1 DEF Relates, Typed, ReportsOK
<1>3. /\ wire'[<<r, s>>] = q /\ \A w \in Wires \ {<<r, s>>} : wire'[w] = wire[w]
      /\ IsQueue(wire[<<r, s>>])
  BY <1>1 DEF Relates, Typed, WiresOK
<1>4. \A a, b : ~(a = r /\ b = s) => <<a, b>> # <<r, s>>
  OBVIOUS
<1> QED
  BY <1>1, <1>2, <1>3, <1>4

\* After a KEEPALIVE, an UPDATE in OpenConfirm or a break the two ends talk.
LEMMA SessionChanges ==
    ASSUME Typed, NEW r, NEW s, <<r, s>> \in Ends, NEW p, NEW q,
           Greets(r, s, q) \/ Takes(r, s) \/ Nudges(r, s, q) \/ Breaks(r, s, p, q)
    PROVE  /\ net \in Nets /\ r \in Routers /\ s \in Routers /\ s # r /\ <<s, r>> \in Ends
           /\ IsQueue(wire[<<r, s>>]) /\ IsQueue(wire[<<s, r>>]) /\ Talk(r, s)
<1>1. /\ net \in Nets /\ r \in Routers /\ s \in Routers /\ s # r
      /\ <<r, s>> \in Wires /\ <<s, r>> \in Wires /\ <<s, r>> \in Ends
  BY EndFacts DEF Typed
<1>2. IsQueue(wire[<<r, s>>]) /\ IsQueue(wire[<<s, r>>])
  BY <1>1 DEF Typed, WiresOK
<1>3. rib' = rib /\ modified' = modified /\ left' = left /\ untold' = untold
  BY DEF Greets, Takes, Nudges, Breaks
<1>4. \A w \in Wires : w \notin {<<r, s>>, <<s, r>>} => wire'[w] = wire[w]
  BY <1>1 DEF Greets, Takes, Nudges, Breaks, Typed, WiresOK
<1>5. \A a, b : {a, b} # {r, s} => <<a, b>> \notin {<<r, s>>, <<s, r>>}
  OBVIOUS
<1>6. \A e \in Ends : state'[e] # state[e] => e \in {<<r, s>>, <<s, r>>}
  BY <1>1 DEF Greets, Takes, Nudges, Breaks, Typed, StatesOK
<1> QED
  BY <1>1, <1>2, <1>3, <1>4, <1>5, <1>6 DEF Talk

\* After Originate: a wire that ends at a router but does not begin at one.
LEMMA OriginateChanges ==
    ASSUME Typed, NEW x \in Origins, NEW m, NEW now, Emits(x, m, now)
    PROVE  /\ net \in Nets /\ x \notin Routers /\ <<x, At[x]>> \in Wires
           /\ IsQueue(wire[<<x, At[x]>>])
           /\ wire'[<<x, At[x]>>] = Append(wire[<<x, At[x]>>], m)
           /\ \A a, b : <<a, b>> \in Wires /\ a # x => wire'[<<a, b>>] = wire[<<a, b>>]
           /\ \A b : <<x, b>> \in Wires => b = At[x]
<1>1. net \in Nets /\ x \notin Routers /\ <<x, At[x]>> \in Wires
  BY OriginWire DEF Typed
<1>2. /\ wire'[<<x, At[x]>>] = Append(wire[<<x, At[x]>>], m)
      /\ \A w \in Wires \ {<<x, At[x]>>} : wire'[w] = wire[w]
      /\ IsQueue(wire[<<x, At[x]>>])
  BY <1>1 DEF Emits, Typed, WiresOK
<1>3. \A b : <<x, b>> \in Wires => b = At[x]
  BY <1>1 DEF Wires, PeersIn, Peers
<1>4. \A a, b : a # x => <<a, b>> # <<x, At[x]>>
  OBVIOUS
<1> QED
  BY <1>1, <1>2, <1>3, <1>4

-----------------------------------------------------------------------------
(* Messages and reports stay clean                                         *)

\* Clean, wire by wire and report by report.
LEMMA AllClean ==
    ASSUME net' = net,
           \A a, b : <<a, b>> \in Wires => CleanQueue(wire'[<<a, b>>]),
           \A x \in Routers : CleanReport(modified'[x])
    PROVE  Clean'
<1>1. \A w \in Wires : w = <<w[1], w[2]>>
  BY DEF Wires
<1>2. \A w \in Wires : CleanQueue(wire'[w])
  BY <1>1
<1> QED
  BY <1>2, NetFixed DEF Clean, CleanQueue, CleanReport, CleanMessage

\* The wires between two ends change, and no report does.
LEMMA TalkClean ==
    ASSUME Clean, net' = net, NEW r, NEW s, Talk(r, s),
           CleanQueue(wire'[<<r, s>>]), CleanQueue(wire'[<<s, r>>])
    PROVE  Clean'
<1>1. ASSUME NEW a, NEW b, <<a, b>> \in Wires PROVE CleanQueue(wire'[<<a, b>>])
  <2>1. CASE {a, b} = {r, s}
    <3>1. (a = r /\ b = s) \/ (a = s /\ b = r) \/ (a = r /\ b = r /\ r = s)
      BY <2>1
    <3> QED
      BY <3>1
  <2>2. CASE {a, b} # {r, s}
    BY <1>1, <2>2 DEF Talk, Clean
  <2> QED
    BY <2>1, <2>2
<1> QED
  BY <1>1, AllClean DEF Talk, Clean

\* What survives of a clean queue is clean.
LEMMA RemainsClean ==
    ASSUME NEW p, NEW q, Remains(p, q), CleanQueue(q)
    PROVE  CleanQueue(p)
  BY DEF Remains, CleanQueue

\* Process reports a path of an accepted prefix or the loss of a withdrawn one.
LEMMA CleanProcess ==
    ASSUME Typed, Clean, net' = net, NEW r, NEW s, <<s, r>> \in Wires, Process(r, s)
    PROVE  Clean'
<1>1. PICK m, t, u, c : Handles(r, s, m, t, u, c)
  BY ProcessHandles
<1>2. /\ r \in Routers /\ IsQueue(wire[<<s, r>>])
      /\ wire'[<<s, r>>] = Tail(wire[<<s, r>>]) /\ modified'[r] = c
      /\ \A x \in Routers \ {r} : modified'[x] = modified[x]
      /\ \A a, b : <<a, b>> \in Wires /\ ~(a = s /\ b = r) =>
           wire'[<<a, b>>] = wire[<<a, b>>]
  BY <1>1, ProcessChanges
<1>3. /\ IsUpdate(m) /\ m = wire[<<s, r>>][1] /\ wire[<<s, r>>] # <<>>
      /\ Reports(r, s, m, t, c)
  BY <1>1 DEF Handles
<1>4. CleanQueue(wire'[<<s, r>>]) /\ CleanMessage(m)
  BY <1>2, <1>3, TailClean DEF Clean
<1>5. CleanReport(c)
  <2> SUFFICES ASSUME NEW i \in DOMAIN c, NEW j \in DOMAIN c, c[i][1] = c[j][1]
               PROVE  c[i] = c[j]
    BY DEF CleanReport
  <2>1. \A k \in DOMAIN c :
          \/ \E n \in Accepted(r, s, m) : c[k] = <<n, Path(r, s, m, n)>>
          \/ \E n \in Candidates(t, s, m) : c[k] = <<n, None>>
    BY <1>3 DEF Reports
  <2>2. \A n \in Accepted(r, s, m) : n \notin Candidates(t, s, m)
    BY <1>3, <1>4, Apart
  <2>3. CASE \E n \in Accepted(r, s, m) : c[i] = <<n, Path(r, s, m, n)>>
    <3>1. PICK n \in Accepted(r, s, m) : c[i] = <<n, Path(r, s, m, n)>>
      BY <2>3
    <3>2. c[j][1] = n
      BY <3>1
    <3> QED
      BY <2>1, <2>2, <3>1, <3>2
  <2>4. CASE \E n \in Candidates(t, s, m) : c[i] = <<n, None>>
    <3>1. PICK n \in Candidates(t, s, m) : c[i] = <<n, None>>
      BY <2>4
    <3>2. c[j][1] = n
      BY <3>1
    <3> QED
      BY <2>1, <2>2, <3>1, <3>2
  <2> QED
    BY <2>1, <2>3, <2>4
<1>6. \A a, b : <<a, b>> \in Wires => CleanQueue(wire'[<<a, b>>])
  BY <1>2, <1>4 DEF Clean
<1>7. \A x \in Routers : CleanReport(modified'[x])
  BY <1>2, <1>5 DEF Clean
<1> QED
  BY <1>6, <1>7, AllClean

\* Report makes a clean message of a clean report.
LEMMA CleanRelates ==
    ASSUME Typed, Clean, net' = net, NEW r, NEW s, <<r, s>> \in Ends, Report(r, s)
    PROVE  Clean'
<1>1. PICK q : Relates(r, s, q)
  BY ReportRelates
<1>2. /\ r \in Routers /\ IsQueue(wire[<<r, s>>]) /\ wire'[<<r, s>>] = q
      /\ modified'[r] = <<>> \/ modified'[r] = modified[r]
      /\ \A x \in Routers \ {r} : modified'[x] = modified[x]
      /\ \A a, b : <<a, b>> \in Wires /\ ~(a = r /\ b = s) =>
           wire'[<<a, b>>] = wire[<<a, b>>]
  BY <1>1, ReportChanges
<1>3. CleanReport(modified[r]) /\ CleanQueue(wire[<<r, s>>]) /\ CleanReport(<<>>)
  <2>1. <<r, s>> \in Wires
    BY EndFacts DEF Typed
  <2>2. CleanReport(<<>>)
    BY DEF CleanReport
  <2> QED
    BY <1>2, <2>1, <2>2 DEF Clean
<1>4. CleanQueue(q)
  <2>1. CASE q = wire[<<r, s>>]
    BY <1>3, <2>1
  <2>2. CASE \E m : q = wire[<<r, s>>] \o <<m>> /\ Tells(r, s, modified[r], m)
    BY <1>2, <1>3, <2>2, ToldIsClean, AppendClean
  <2> QED
    BY <1>1, <2>1, <2>2 DEF Relates
<1>5. \A a, b : <<a, b>> \in Wires => CleanQueue(wire'[<<a, b>>])
  BY <1>2, <1>4 DEF Clean
<1>6. \A x \in Routers : CleanReport(modified'[x])
  BY <1>2, <1>3 DEF Clean
<1> QED
  BY <1>5, <1>6, AllClean

\* A table says one thing of a prefix.
LEMMA TableIsClean ==
    ASSUME Typed, NEW r \in Routers, NEW q, q = send_locrib(r)
    PROVE  CleanReport(q) /\ LostIn(q) = {}
<1>1. \A i \in DOMAIN q :
        /\ q[i][1] \in Nlris /\ q[i][2] \in PathsOf(rib[r], q[i][1])
        /\ q[i] = <<q[i][1], rib[r][q[i][1]][1]>>
  BY TableEntries DEF EntryOK
<1>2. \A i \in DOMAIN q : q[i][2] # None
  BY <1>1 DEF Typed, RibsOK, TableOK, PathOK, Plain
<1> QED
  BY <1>1, <1>2 DEF CleanReport, LostIn

\* Session keeps messages clean.
LEMMA CleanSession ==
    ASSUME Typed, Clean, net' = net, NEW r, NEW s, <<r, s>> \in Ends, Session(r, s)
    PROVE  Clean'
<1>1. /\ r \in Routers /\ <<r, s>> \in Wires /\ <<s, r>> \in Wires /\ <<r, s>> # <<s, r>>
      /\ IsQueue(wire[<<r, s>>]) /\ IsQueue(wire[<<s, r>>])
      /\ CleanQueue(wire[<<r, s>>]) /\ CleanQueue(wire[<<s, r>>])
  BY EndFacts DEF Typed, WiresOK, Clean
<1>2. CASE Takes(r, s)
  <2>1. /\ wire'[<<s, r>>] = Tail(wire[<<s, r>>]) /\ wire[<<s, r>>] # <<>>
        /\ wire'[<<r, s>>] = wire[<<r, s>>]
    BY <1>1, <1>2 DEF Takes, Typed, WiresOK
  <2>2. CleanQueue(wire'[<<s, r>>])
    BY <1>1, <2>1, TailClean
  <2>3. Talk(r, s)
    BY <1>2, SessionChanges
  <2> QED
    BY <1>1, <2>1, <2>2, <2>3, TalkClean
<1>3. ASSUME NEW q, Nudges(r, s, q) PROVE Clean'
  <2>1. /\ wire'[<<r, s>>] = q /\ q = Append(wire[<<r, s>>], Keepalive)
        /\ wire'[<<s, r>>] = wire[<<s, r>>]
    BY <1>1, <1>3 DEF Nudges, Typed, WiresOK
  <2>2. CleanMessage(Keepalive)
    BY DEF CleanMessage, Keepalive
  <2>3. CleanQueue(wire'[<<r, s>>])
    BY <1>1, <2>1, <2>2, AppendClean
  <2>4. Talk(r, s)
    BY <1>3, SessionChanges
  <2> QED
    BY <1>1, <2>1, <2>3, <2>4, TalkClean
<1>4. ASSUME NEW q, Greets(r, s, q) PROVE Clean'
  <2>1. /\ wire'[<<r, s>>] = q /\ wire'[<<s, r>>] = Tail(wire[<<s, r>>])
        /\ wire[<<s, r>>] # <<>>
    BY <1>1, <1>4 DEF Greets, Typed, WiresOK
  <2>2. PICK nlris : nlris = send_locrib(r)
    OBVIOUS
  <2>3. CleanReport(nlris)
    BY <1>1, <2>2, TableIsClean
  <2>4. CleanQueue(q)
    <3>1. CASE q = wire[<<r, s>>]
      BY <1>1, <3>1
    <3>2. CASE \E m : q = wire[<<r, s>>] \o <<m>> /\ Tells(r, s, nlris, m)
      BY <1>1, <2>3, <3>2, ToldIsClean, AppendClean
    <3> QED
      BY <1>4, <2>2, <3>1, <3>2 DEF Greets
  <2>5. CleanQueue(wire'[<<s, r>>])
    BY <1>1, <2>1, TailClean
  <2>6. Talk(r, s)
    BY <1>4, SessionChanges
  <2> QED
    BY <2>1, <2>4, <2>5, <2>6, TalkClean
<1> QED
  BY <1>2, <1>3, <1>4, KeepaliveGreets, DropTakes, TimerNudges DEF Session

\* Every step keeps messages and reports clean.
LEMMA CleanNext == Typed /\ Clean /\ [Next]_vars => Clean'
<1> SUFFICES ASSUME Typed, Clean, [Next]_vars PROVE Clean'
  OBVIOUS
<1>1. CASE UNCHANGED vars
  <2>1. /\ net' = net /\ wire' = wire /\ modified' = modified
    BY <1>1 DEF vars
  <2> QED
    BY <2>1, AllClean DEF Clean
<1>2. ASSUME net' = net, NEW r, NEW s, <<r, s>> \in Ends, Break(r, s) PROVE Clean'
  <2>1. PICK p, q : Breaks(r, s, p, q)
    BY <1>2, BreakBreaks
  <2>2. /\ <<r, s>> \in Wires /\ <<s, r>> \in Wires /\ <<r, s>> # <<s, r>>
    BY <1>2, EndFacts DEF Typed
  <2>3. /\ wire'[<<s, r>>] = p /\ wire'[<<r, s>>] = q
        /\ Remains(p, wire[<<s, r>>]) /\ Remains(q, wire[<<r, s>>])
    BY <2>1, <2>2 DEF Breaks, Typed, WiresOK
  <2>4. CleanQueue(p) /\ CleanQueue(q)
    BY <2>2, <2>3, RemainsClean DEF Clean
  <2>5. Talk(r, s)
    BY <1>2, <2>1, SessionChanges
  <2> QED
    BY <1>2, <2>3, <2>4, <2>5, TalkClean
<1>3. ASSUME net' = net, Originate PROVE Clean'
  <2>1. PICK x \in Origins : \E m, now : Emits(x, m, now)
    BY <1>3, OriginateEmits
  <2>2. PICK m, now : Emits(x, m, now)
    BY <2>1
  <2>3. PICK w : w = <<x, At[x]>>
    OBVIOUS
  <2>4. /\ w \in Wires /\ IsQueue(wire[w]) /\ wire'[w] = Append(wire[w], m)
        /\ \A v \in Wires \ {w} : wire'[v] = wire[v]
        /\ modified' = modified /\ CleanMessage(m)
    BY <2>2, <2>3, OriginWire DEF Emits, Typed, WiresOK
  <2>5. CleanQueue(wire'[w])
    BY <2>4, AppendClean DEF Clean
  <2>6. \A a, b : <<a, b>> \in Wires => CleanQueue(wire'[<<a, b>>])
    BY <2>4, <2>5 DEF Clean
  <2> QED
    BY <1>3, <2>4, <2>6, AllClean DEF Clean
<1>4. CASE Next
  BY <1>2, <1>3, <1>4, Steps, CleanProcess, CleanRelates, CleanSession DEF Typed
<1> QED
  BY <1>1, <1>4

\* Initially nothing is said.
LEMMA CleanInit == Init => Clean
  BY DEF Init, Clean, CleanQueue, CleanReport

-----------------------------------------------------------------------------
(* What a step does to what will be held                                   *)

\* Nothing, where neither the wire nor the table at its end changes.
LEMMA LastsStays ==
    ASSUME NEW a, NEW b, wire'[<<a, b>>] = wire[<<a, b>>], rib'[b] = rib[b]
    PROVE  \A n, p : Lasts(a, b, n, p)' <=> Lasts(a, b, n, p)
  BY LastsIs

\* What is latest stays so there.
LEMMA LatestStays ==
    ASSUME NEW a, NEW b, wire'[<<a, b>>] = wire[<<a, b>>], rib'[b] = rib[b]
    PROVE  \A n, p : Latest(a, b, n, p) => Latest(a, b, n, p)'
  BY LatestIs

\* A KEEPALIVE comes or goes.
LEMMA LastsThrough ==
    ASSUME NEW a, NEW b, IsQueue(wire[<<a, b>>]), rib'[b] = rib[b],
           \/ wire[<<a, b>>] # <<>> /\ wire[<<a, b>>][1] = Keepalive
                /\ wire'[<<a, b>>] = Tail(wire[<<a, b>>])
           \/ wire'[<<a, b>>] = Append(wire[<<a, b>>], Keepalive)
    PROVE  \A n, p : Lasts(a, b, n, p)' <=> Lasts(a, b, n, p)
<1> SUFFICES ASSUME NEW n, NEW p PROVE Lasts(a, b, n, p)' <=> Lasts(a, b, n, p)
  OBVIOUS
<1>1. PICK q : q = wire[<<a, b>>]
  OBVIOUS
<1>2. PICK q2 : q2 = wire'[<<a, b>>]
  OBVIOUS
<1>3. (Revoked(q2, n) <=> Revoked(q, n)) /\ (Stands(q2, n, p) <=> Stands(q, n, p))
  BY <1>1, <1>2, KeepaliveStands
<1>4. LastsIn(rib[b], q2, a, n, p) <=> LastsIn(rib[b], q, a, n, p)
  BY <1>3 DEF LastsIn
<1> QED
  BY <1>1, <1>2, <1>4, LastsIs

\* and says nothing later.
LEMMA LatestThrough ==
    ASSUME NEW a, NEW b, IsQueue(wire[<<a, b>>]), rib'[b] = rib[b],
           \/ wire[<<a, b>>] # <<>> /\ wire[<<a, b>>][1] = Keepalive
                /\ wire'[<<a, b>>] = Tail(wire[<<a, b>>])
           \/ wire'[<<a, b>>] = Append(wire[<<a, b>>], Keepalive)
    PROVE  \A n, p : Latest(a, b, n, p) => Latest(a, b, n, p)'
<1> SUFFICES ASSUME NEW n, NEW p, Latest(a, b, n, p) PROVE Latest(a, b, n, p)'
  OBVIOUS
<1>1. PICK q : q = wire[<<a, b>>]
  OBVIOUS
<1>2. PICK q2 : q2 = wire'[<<a, b>>]
  OBVIOUS
<1>3. ~Announces(Keepalive, n) /\ ~Speaks(Keepalive, n)
  BY KeepaliveSays DEF Speaks
<1>4. (Unspoken(q, n) => Unspoken(q2, n)) /\ (SaidLast(q, n, p) => SaidLast(q2, n, p))
  <2>1. CASE q # <<>> /\ q[1] = Keepalive /\ q2 = Tail(q)
    BY <1>1, <1>3, <2>1, TailSaid
  <2>2. CASE q2 = Append(q, Keepalive)
    BY <1>1, <1>3, <2>2, AppendSaid
  <2> QED
    BY <1>1, <1>2, <2>1, <2>2
<1>5. LatestIn(rib[b], q, a, n, p) => LatestIn(rib[b], q2, a, n, p)
  BY <1>4 DEF LatestIn
<1> QED
  BY <1>1, <1>2, <1>5, LatestIs

\* An UPDATE is written: what it withdraws does not last, what it announces does.
LEMMA LastsTold ==
    ASSUME NEW a, NEW b, IsQueue(wire[<<a, b>>]), rib'[b] = rib[b], NEW m,
           \/ wire'[<<a, b>>] = wire[<<a, b>>] \o <<m>>
           \/ wire'[<<a, b>>] = Append(wire[<<a, b>>], m), NEW n, NEW p
    PROVE  Lasts(a, b, n, p)' <=>
             /\ ~Retracts(m, n)
             /\ Lasts(a, b, n, p) \/ (Announces(m, n) /\ m.as_path = p)
<1>1. PICK q : q = wire[<<a, b>>]
  OBVIOUS
<1>2. PICK q2 : q2 = wire'[<<a, b>>]
  OBVIOUS
<1>3. /\ Revoked(q2, n) <=> Retracts(m, n) \/ Revoked(q, n)
      /\ Stands(q2, n, p) <=>
           /\ ~Retracts(m, n)
           /\ Stands(q, n, p) \/ (Announces(m, n) /\ m.as_path = p)
  <2>1. IsQueue(q) /\ (q2 = Append(q, m) \/ q2 = q \o <<m>>)
    BY <1>1, <1>2
  <2> QED
    BY <2>1, AppendStands
<1>4. LastsIn(rib[b], q2, a, n, p) <=>
        /\ ~Retracts(m, n)
        /\ LastsIn(rib[b], q, a, n, p) \/ (Announces(m, n) /\ m.as_path = p)
  BY <1>3 DEF LastsIn
<1> QED
  BY <1>1, <1>2, <1>4, LastsIs

\* An UPDATE is written that does not change what is latest, or makes it so.
LEMMA LatestTold ==
    ASSUME NEW a, NEW b, IsQueue(wire[<<a, b>>]), rib'[b] = rib[b], NEW m,
           wire'[<<a, b>>] = wire[<<a, b>>] \o <<m>>, NEW n, NEW p,
           ~Retracts(m, n), Announces(m, n) => m.as_path = p,
           Latest(a, b, n, p) \/ Announces(m, n)
    PROVE  Latest(a, b, n, p)'
<1>1. PICK q : q = wire[<<a, b>>]
  OBVIOUS
<1>2. PICK q2 : q2 = wire'[<<a, b>>]
  OBVIOUS
<1>3. IsQueue(q) /\ q2 = q \o <<m>>
  BY <1>1, <1>2
<1>4. CASE Announces(m, n)
  <2>1. SaidLast(q2, n, p)
    BY <1>3, <1>4, AppendSaid
  <2> QED
    BY <1>2, <2>1, LatestIs DEF LatestIn
<1>5. CASE ~Announces(m, n)
  <2>1. (Unspoken(q, n) => Unspoken(q2, n)) /\ (SaidLast(q, n, p) => SaidLast(q2, n, p))
    BY <1>3, <1>5, AppendSaid DEF Speaks
  <2>2. LatestIn(rib[b], q, a, n, p) => LatestIn(rib[b], q2, a, n, p)
    BY <2>1 DEF LatestIn
  <2> QED
    BY <1>1, <1>2, <1>5, <2>2, LatestIs
<1> QED
  BY <1>4, <1>5

\* A message is dropped by an end that holds nothing of the peer.
LEMMA LastsDropped ==
    ASSUME NEW a, NEW b, IsQueue(wire[<<a, b>>]), rib'[b] = rib[b],
           wire[<<a, b>>] # <<>>, wire'[<<a, b>>] = Tail(wire[<<a, b>>]),
           NEW n, ~Has(b, a, n), NEW p, Lasts(a, b, n, p)'
    PROVE  Lasts(a, b, n, p)
<1>1. PICK q : q = wire[<<a, b>>]
  OBVIOUS
<1>2. PICK q2 : q2 = wire'[<<a, b>>]
  OBVIOUS
<1>3. ~HeldWith(rib[b], a, n, p)
  BY HasHeld DEF HeldWith, HeldIn
<1>4. Stands(q2, n, p)
  BY <1>2, <1>3, LastsIs DEF LastsIn
<1>5. Stands(q, n, p)
  BY <1>1, <1>2, <1>4, TailStands
<1> QED
  BY <1>1, <1>5, LastsIs DEF LastsIn

\* What Process does to the paths of one prefix: it adds the newest, or removes those of
\* the peer, or neither.
LEMMA PathsAfter ==
    ASSUME Typed, Clean, NEW r, NEW s, <<s, r>> \in Wires,
           NEW m, NEW t, NEW u, NEW c, Handles(r, s, m, t, u, c), NEW n
    PROVE  /\ n \in Accepted(r, s, m) =>
                /\ \E a : /\ PathsOf(u, n) = PathsOf(rib[r], n) \cup {a}
                          /\ a.peer_rid = s /\ a.as_path = m.as_path
                          /\ \A b \in PathsOf(rib[r], n) : b.recv_time < a.recv_time
                /\ Announces(m, n) /\ ~Retracts(m, n)
           /\ n \notin Accepted(r, s, m) =>
                \/ PathsOf(u, n) = PathsOf(rib[r], n)
                \/ /\ PathsOf(u, n) = {a \in PathsOf(rib[r], n) : a.peer_rid # s}
                   /\ Retracts(m, n)
           /\ Announces(m, n) /\ Asn[r] \notin Elems(m.as_path) => n \in Accepted(r, s, m)
<1>1. /\ IsUpdate(m) /\ Extended(r, s, m, t) /\ Reduced(t, s, m, u)
      /\ m = wire[<<s, r>>][1] /\ wire[<<s, r>>] # <<>>
  BY DEF Handles
<1>2. net \in Nets /\ TableOK(r, rib[r]) /\ IsQueue(wire[<<s, r>>])
  BY ProcessChanges
<1>3. CleanMessage(m)
  BY <1>1, <1>2, TailClean DEF Clean
<1>4. /\ n \notin Accepted(r, s, m) => PathsOf(t, n) = PathsOf(rib[r], n)
      /\ n \notin Candidates(t, s, m) => PathsOf(u, n) = PathsOf(t, n)
      /\ n \in Candidates(t, s, m) =>
           PathsOf(u, n) = {a \in PathsOf(t, n) : a.peer_rid # s}
  BY <1>1 DEF Extended, Reduced
<1>5. ASSUME n \in Accepted(r, s, m)
      PROVE  /\ \E a : /\ PathsOf(u, n) = PathsOf(rib[r], n) \cup {a}
                       /\ a.peer_rid = s /\ a.as_path = m.as_path
                       /\ \A b \in PathsOf(rib[r], n) : b.recv_time < a.recv_time
             /\ Announces(m, n) /\ ~Retracts(m, n)
  <2>1. n \notin Candidates(t, s, m) /\ ~Retracts(m, n)
    BY <1>1, <1>3, <1>5, Apart
  <2>2. n \in DOMAIN m.routes /\ m.kind = "update"
    BY <1>1, <1>5 DEF Accepted, IsUpdate
  <2>3. PICK a : a = Path(r, s, m, n)
    OBVIOUS
  <2>4. /\ a.peer_rid = s /\ a.as_path = m.as_path
        /\ \A b \in PathsOf(rib[r], n) : b.recv_time < a.recv_time
    BY <1>1, <1>2, <2>2, <2>3, NewPath
  <2>5. PathsOf(u, n) = PathsOf(rib[r], n) \cup {a}
    BY <1>1, <1>4, <1>5, <2>1, <2>3 DEF Extended
  <2> QED
    BY <2>1, <2>2, <2>4, <2>5 DEF Announces
<1>6. n \in Candidates(t, s, m) => Retracts(m, n)
  BY <1>1 DEF Candidates, Retracts, IsUpdate
<1>7. ASSUME Announces(m, n), Asn[r] \notin Elems(m.as_path) PROVE n \in Accepted(r, s, m)
  <2>1. n \in DOMAIN m.routes
    BY <1>7 DEF Announces
  <2> QED
    BY <1>1, <1>2, <1>7, <2>1, NewPath DEF Accepted
<1> QED
  BY <1>4, <1>5, <1>6, <1>7

\* Those of other peers stay, a new one is announced, and a path that is announced and not
\* of our own AS is accepted.
LEMMA HeldAfter ==
    ASSUME Typed, Clean, NEW r, NEW s, <<s, r>> \in Wires,
           NEW m, NEW t, NEW u, NEW c, Handles(r, s, m, t, u, c), NEW n, NEW p
    PROVE  /\ \A a : a # s => (HeldWith(u, a, n, p) <=> HeldWith(rib[r], a, n, p))
           /\ HeldWith(u, s, n, p) => /\ ~Retracts(m, n)
                                      /\ \/ HeldWith(rib[r], s, n, p)
                                         \/ Announces(m, n) /\ m.as_path = p
           /\ HeldWith(rib[r], s, n, p) /\ ~Retracts(m, n) => HeldWith(u, s, n, p)
           /\ Announces(m, n) /\ m.as_path = p /\ Asn[r] \notin Elems(p)
                => HeldWith(u, s, n, p)
<1>1. net \in Nets /\ TableOK(r, rib[r])
  BY ProcessChanges
<1>2. Retracts(m, n) => ~HeldWith(u, s, n, p)
  <2>1. Retracts(m, n) => ~HeldIn(u, s, n)
    BY <1>1, TableAfter
  <2> QED
    BY <2>1 DEF HeldIn, HeldWith
<1>3. CASE n \in Accepted(r, s, m)
  <2>1. PICK a : /\ PathsOf(u, n) = PathsOf(rib[r], n) \cup {a}
                 /\ a.peer_rid = s /\ a.as_path = m.as_path
    BY <1>3, PathsAfter
  <2>2. Announces(m, n) /\ ~Retracts(m, n)
    BY <1>3, PathsAfter
  <2> QED
    BY <2>1, <2>2 DEF HeldWith
<1>4. CASE n \notin Accepted(r, s, m)
  <2>1. ~(Announces(m, n) /\ Asn[r] \notin Elems(m.as_path))
    BY <1>4, PathsAfter
  <2>2. CASE PathsOf(u, n) = PathsOf(rib[r], n)
    BY <1>2, <2>1, <2>2 DEF HeldWith
  <2>3. CASE PathsOf(u, n) = {a \in PathsOf(rib[r], n) : a.peer_rid # s} /\ Retracts(m, n)
    BY <1>2, <2>1, <2>3 DEF HeldWith
  <2> QED
    BY <1>4, <2>2, <2>3, PathsAfter
<1> QED
  BY <1>3, <1>4

\* Process makes nothing last that did not, and what a speaker does not have to reject
\* lasts.
LEMMA LastsProcessed ==
    ASSUME Typed, Clean, NEW r, NEW s, <<s, r>> \in Wires,
           NEW m, NEW t, NEW u, NEW c, Handles(r, s, m, t, u, c),
           NEW a, NEW b, <<a, b>> \in Wires, NEW n, NEW p
    PROVE  /\ Lasts(a, b, n, p)' => Lasts(a, b, n, p)
           /\ Lasts(a, b, n, p) /\ Asn[b] \notin Elems(p) => Lasts(a, b, n, p)'
<1>1. /\ net \in Nets /\ r \in Routers /\ IsQueue(wire[<<s, r>>]) /\ rib'[r] = u
      /\ wire'[<<s, r>>] = Tail(wire[<<s, r>>])
      /\ \A x \in Routers \ {r} : rib'[x] = rib[x]
      /\ ~(a = s /\ b = r) => wire'[<<a, b>>] = wire[<<a, b>>]
      /\ b \in Routers
  <2>1. <<a, b>> \in Wires /\ b \in Routers /\ net \in Nets
    BY EndFacts DEF Typed
  <2> QED
    BY <2>1, ProcessChanges
<1>2. wire[<<s, r>>] # <<>> /\ m = wire[<<s, r>>][1]
  BY DEF Handles
<1>3. CASE b # r
  <2>1. wire'[<<a, b>>] = wire[<<a, b>>] /\ rib'[b] = rib[b]
    BY <1>1, <1>3
  <2> QED
    BY <2>1, LastsStays
<1>4. CASE b = r /\ a # s
  <2>1. HeldWith(u, a, n, p) <=> HeldWith(rib[r], a, n, p)
    BY <1>4, HeldAfter
  <2>2. LastsIn(u, wire[<<a, r>>], a, n, p) <=> LastsIn(rib[r], wire[<<a, r>>], a, n, p)
    BY <2>1 DEF LastsIn
  <2> QED
    BY <1>1, <1>4, <2>2, LastsIs
<1>5. CASE b = r /\ a = s
  <2>1. PICK q : q = wire[<<s, r>>]
    OBVIOUS
  <2>2. PICK q2 : q2 = wire'[<<s, r>>]
    OBVIOUS
  <2>3. /\ Revoked(q, n) <=> Retracts(m, n) \/ Revoked(q2, n)
        /\ Stands(q, n, p) <=>
             Stands(q2, n, p) \/ (Announces(m, n) /\ m.as_path = p /\ ~Revoked(q, n))
    <3>1. IsQueue(q) /\ q # <<>> /\ q2 = Tail(q) /\ m = q[1]
      BY <1>1, <1>2, <2>1, <2>2
    <3>2. /\ Revoked(q, n) <=> Retracts(q[1], n) \/ Revoked(q2, n)
          /\ Stands(q, n, p) <=>
               \/ Stands(q2, n, p)
               \/ Announces(q[1], n) /\ q[1].as_path = p /\ ~Revoked(q, n)
      BY <3>1, TailStands
    <3> QED
      BY <3>1, <3>2
  <2>4. /\ HeldWith(u, s, n, p) => /\ ~Retracts(m, n)
                                   /\ \/ HeldWith(rib[r], s, n, p)
                                      \/ Announces(m, n) /\ m.as_path = p
        /\ HeldWith(rib[r], s, n, p) /\ ~Retracts(m, n) => HeldWith(u, s, n, p)
        /\ Announces(m, n) /\ m.as_path = p /\ Asn[r] \notin Elems(p)
             => HeldWith(u, s, n, p)
    BY HeldAfter
  <2>5. LastsIn(u, q2, s, n, p) => LastsIn(rib[r], q, s, n, p)
    BY <2>3, <2>4 DEF LastsIn
  <2>6. LastsIn(rib[r], q, s, n, p) /\ Asn[r] \notin Elems(p) => LastsIn(u, q2, s, n, p)
    BY <2>3, <2>4 DEF LastsIn
  <2> QED
    BY <1>1, <1>5, <2>1, <2>2, <2>5, <2>6, LastsIs
<1> QED
  BY <1>3, <1>4, <1>5

\* What is latest, and need not be rejected, stays so.
LEMMA LatestProcessed ==
    ASSUME Typed, Clean, NEW r, NEW s, <<s, r>> \in Wires,
           NEW m, NEW t, NEW u, NEW c, Handles(r, s, m, t, u, c),
           NEW a, NEW b, <<a, b>> \in Wires, NEW n, NEW p,
           Latest(a, b, n, p), Asn[b] \notin Elems(p)
    PROVE  Latest(a, b, n, p)'
<1>1. /\ net \in Nets /\ r \in Routers /\ IsQueue(wire[<<s, r>>]) /\ rib'[r] = u
      /\ wire'[<<s, r>>] = Tail(wire[<<s, r>>])
      /\ \A x \in Routers \ {r} : rib'[x] = rib[x]
      /\ ~(a = s /\ b = r) => wire'[<<a, b>>] = wire[<<a, b>>]
      /\ b \in Routers
  <2>1. <<a, b>> \in Wires /\ b \in Routers /\ net \in Nets
    BY EndFacts DEF Typed
  <2> QED
    BY <2>1, ProcessChanges
<1>2. wire[<<s, r>>] # <<>> /\ m = wire[<<s, r>>][1]
  BY DEF Handles
<1>3. CASE b # r
  <2>1. wire'[<<a, b>>] = wire[<<a, b>>] /\ rib'[b] = rib[b]
    BY <1>1, <1>3
  <2> QED
    BY <2>1, LatestStays
<1>4. CASE b = r /\ a # s
  <2>1. {x \in PathsOf(u, n) : x.peer_rid = a} = {x \in PathsOf(rib[r], n) : x.peer_rid = a}
    BY <1>4, PathsAfter
  <2>2. HeldLast(rib[r], a, n, p) => HeldLast(u, a, n, p)
    BY <2>1 DEF HeldLast
  <2>3. LatestIn(rib[r], wire[<<a, r>>], a, n, p) => LatestIn(u, wire[<<a, r>>], a, n, p)
    BY <2>2 DEF LatestIn
  <2> QED
    BY <1>1, <1>4, <2>3, LatestIs
<1>5. CASE b = r /\ a = s
  <2>1. PICK q : q = wire[<<s, r>>]
    OBVIOUS
  <2>2. PICK q2 : q2 = wire'[<<s, r>>]
    OBVIOUS
  <2>3. /\ Unspoken(q, n) => ~Speaks(m, n) /\ Unspoken(q2, n)
        /\ SaidLast(q, n, p) =>
             \/ SaidLast(q2, n, p)
             \/ /\ Announces(m, n) /\ m.as_path = p /\ ~Retracts(m, n)
                /\ Unspoken(q2, n)
    <3>1. IsQueue(q) /\ q # <<>> /\ q2 = Tail(q) /\ m = q[1]
      BY <1>1, <1>2, <2>1, <2>2
    <3> QED
      BY <3>1, TailSaid
  <2>4. ASSUME ~Speaks(m, n) PROVE HeldLast(rib[r], s, n, p) => HeldLast(u, s, n, p)
    <3>1. PathsOf(u, n) = PathsOf(rib[r], n)
      BY <2>4, PathsAfter DEF Speaks
    <3> QED
      BY <3>1 DEF HeldLast
  <2>5. ASSUME Announces(m, n), m.as_path = p PROVE HeldLast(u, s, n, p)
    <3>1. n \in Accepted(r, s, m)
      BY <1>5, <2>5, PathsAfter
    <3>2. PICK x : /\ PathsOf(u, n) = PathsOf(rib[r], n) \cup {x}
                   /\ x.peer_rid = s /\ x.as_path = m.as_path
                   /\ \A y \in PathsOf(rib[r], n) : y.recv_time < x.recv_time
      BY <3>1, PathsAfter
    <3> QED
      BY <2>5, <3>2 DEF HeldLast
  <2>6. LatestIn(rib[r], q, s, n, p) => LatestIn(u, q2, s, n, p)
    BY <2>3, <2>4, <2>5 DEF LatestIn
  <2> QED
    BY <1>1, <1>5, <2>1, <2>2, <2>6, LatestIs
<1> QED
  BY <1>3, <1>4, <1>5

-----------------------------------------------------------------------------
(* The best paths arrive                                                   *)

\* b goes from r to s: it is not from there, may be sent there and is not rejected there.
Goes(r, s, b) ==
    b.peer_rid # s /\ should_send(r, s, b) /\ Asn[s] \notin Elems(prepend(r, s, b))

\* r has yet to tell s that its best path for n is b.
Pending(r, s, n, b) ==
    s \in left[r] /\ \E i \in DOMAIN modified[r] : modified[r][i] = <<n, b>>

\* A best path that was reported is the last s hears of r on its prefix, or will be told.
Owed(r, s) ==
    state[<<r, s>>] = "Established" /\ <<s, r>> \notin missed =>
        \A n \in DOMAIN rib[r] :
            <<r, n>> \notin untold /\ Goes(r, s, rib[r][n][1]) =>
                \/ Latest(r, s, n, prepend(r, s, rib[r][n][1]))
                \/ Pending(r, s, n, rib[r][n][1])

\* What r reports lost and still has was not reported.
LossesUntold(r) ==
    left[r] # {} => \A n \in DOMAIN rib[r] : Losing(r, n) => <<r, n>> \in untold

\* A path r reports is its best one.
ReportsBest(r) ==
    left[r] # {} => \A i \in DOMAIN modified[r] :
        modified[r][i][2] # None =>
            /\ modified[r][i][1] \in DOMAIN rib[r]
            /\ modified[r][i][2] = rib[r][modified[r][i][1]][1]

Delivered ==
    /\ \A r \in Routers : LossesUntold(r) /\ ReportsBest(r)
    /\ \A e \in Ends : Owed(e[1], e[2])

\* The network stays as it is, and so does what it says of where a path goes.
LEMMA GoesFixed ==
    ASSUME net' = net
    PROVE  /\ \A r, s, b : prepend(r, s, b)' = prepend(r, s, b)
           /\ \A r, s, b : Goes(r, s, b)' <=> Goes(r, s, b)
<1>1. \A r, s, b : prepend(r, s, b)' = prepend(r, s, b)
  BY NetFixed DEF prepend
<1>2. \A r, s, b : should_send(r, s, b)' <=> should_send(r, s, b)
  BY NetFixed DEF should_send
<1> QED
  BY <1>1, <1>2, NetFixed DEF Goes

\* Owed in the next state, path by path.
LEMMA OwedNext ==
    ASSUME net' = net, NEW r, NEW s,
           state'[<<r, s>>] = "Established" /\ <<s, r>> \notin missed' =>
               \A n, b, p :
                   /\ n \in DOMAIN rib'[r] /\ b = rib'[r][n][1] /\ <<r, n>> \notin untold'
                   /\ Goes(r, s, b) /\ p = prepend(r, s, b)
                   => Latest(r, s, n, p)' \/ Pending(r, s, n, b)'
    PROVE  Owed(r, s)'
<1> SUFFICES ASSUME state'[<<r, s>>] = "Established", <<s, r>> \notin missed',
                    NEW n \in DOMAIN rib'[r], <<r, n>> \notin untold',
                    Goes(r, s, rib[r][n][1])'
             PROVE  \/ Latest(r, s, n, prepend(r, s, rib[r][n][1]))'
                    \/ Pending(r, s, n, rib[r][n][1])'
  BY DEF Owed
<1>1. PICK b : b = rib'[r][n][1]
  OBVIOUS
<1>2. PICK p : p = prepend(r, s, b)
  OBVIOUS
<1>3. Goes(r, s, b)
  <2>1. Goes(r, s, b)'
    BY <1>1
  <2> QED
    BY <2>1, GoesFixed
<1>4. prepend(r, s, rib[r][n][1])' = p
  <2>1. prepend(r, s, rib[r][n][1])' = prepend(r, s, b)'
    BY <1>1
  <2> QED
    BY <1>2, <2>1, GoesFixed
<1>5. Latest(r, s, n, p)' \/ Pending(r, s, n, b)'
  BY <1>1, <1>2, <1>3
<1> QED
  BY <1>1, <1>4, <1>5

\* Owed stays true where the table of r does not change, what lasts goes on to, and
\* what is pending too.
LEMMA OwedStays ==
    ASSUME net' = net, NEW r, NEW s, Owed(r, s), rib'[r] = rib[r],
           state'[<<r, s>>] = "Established" => state[<<r, s>>] = "Established",
           <<s, r>> \in missed => <<s, r>> \in missed',
           \A n : <<r, n>> \in untold' <=> <<r, n>> \in untold,
           \A n, p : Latest(r, s, n, p) /\ Asn[s] \notin Elems(p) => Latest(r, s, n, p)',
           s \in left[r] => s \in left'[r] /\ modified'[r] = modified[r]
    PROVE  Owed(r, s)'
<1> SUFFICES ASSUME state'[<<r, s>>] = "Established", <<s, r>> \notin missed',
                    NEW n, NEW b, NEW p,
                    n \in DOMAIN rib'[r], b = rib'[r][n][1], <<r, n>> \notin untold',
                    Goes(r, s, b), p = prepend(r, s, b)
             PROVE  Latest(r, s, n, p)' \/ Pending(r, s, n, b)'
  BY OwedNext
<1>1. Latest(r, s, n, p) \/ Pending(r, s, n, b)
  BY DEF Owed
<1>2. Asn[s] \notin Elems(p)
  BY DEF Goes
<1>3. Pending(r, s, n, b) => Pending(r, s, n, b)'
  BY DEF Pending
<1> QED
  BY <1>1, <1>2, <1>3

\* What reports say stays true with the table, the report and what is not reported.
LEMMA ReportsStay ==
    ASSUME NEW r, LossesUntold(r), ReportsBest(r), rib'[r] = rib[r],
           left'[r] \subseteq left[r], left'[r] # {} => modified'[r] = modified[r],
           \A n : <<r, n>> \in untold' <=> <<r, n>> \in untold
    PROVE  LossesUntold(r)' /\ ReportsBest(r)'
<1>1. LossesUntold(r)'
  BY DEF LossesUntold, Losing
<1>2. ReportsBest(r)'
  BY DEF ReportsBest
<1> QED
  BY <1>1, <1>2

\* Delivered, end by end.
LEMMA AllDelivered ==
    ASSUME net' = net, \A x \in Routers : LossesUntold(x)' /\ ReportsBest(x)',
           \A a, b : <<a, b>> \in Ends => Owed(a, b)'
    PROVE  Delivered'
<1>1. \A e \in Ends : e = <<e[1], e[2]>>
  BY DEF Ends
<1>2. \A e \in Ends : Owed(e[1], e[2])'
  BY <1>1
<1> QED
  BY <1>2, NetFixed DEF Delivered

\* Every end is owed what Delivered says.
LEMMA EachDelivered ==
    ASSUME Delivered
    PROVE  /\ \A x \in Routers : LossesUntold(x) /\ ReportsBest(x)
           /\ \A a, b : <<a, b>> \in Ends => Owed(a, b)
  BY DEF Delivered

\* The first path of a list is one of its paths.
LEMMA FirstHeld ==
    ASSUME NEW t, GoodTable(t), NEW n \in DOMAIN t
    PROVE  t[n][1] \in PathsOf(t, n)
<1>1. IsPathList(t[n]) /\ t[n] # <<>>
  BY DEF GoodTable
<1>2. 1 \in DOMAIN t[n]
  BY <1>1, Positioned DEF IsPathList
<1> QED
  BY <1>2 DEF PathsOf, Elems

\* and none of them is greater.
LEMMA FirstGreatest ==
    ASSUME NEW t, GoodTable(t), NEW n \in DOMAIN t, NEW a \in PathsOf(t, n)
    PROVE  t[n][1] \in PathsOf(t, n) /\ ~Less(t[n][1], a)
<1>1. PICK list : list = t[n]
  OBVIOUS
<1>2. IsPathList(list) /\ Descending(list) /\ list # <<>>
  BY <1>1 DEF GoodTable
<1>3. DOMAIN list = 1..Len(list) /\ Len(list) \in Nat /\ 1 \in DOMAIN list
  BY <1>2, Positioned DEF IsPathList
<1>4. PICK j \in DOMAIN list : a = list[j]
  BY <1>1 DEF PathsOf, Elems
<1>5. CASE j = 1
  BY <1>1, <1>2, <1>3, <1>4, <1>5, FirstHeld, LessIrreflexive DEF IsPathList, Elems
<1>6. CASE j # 1
  BY <1>1, <1>2, <1>3, <1>4, <1>6, FirstHeld DEF Descending
<1> QED
  BY <1>5, <1>6

\* What Process reports lost and the table still has is not reported: the path that
\* takes over is another one, of another peer.
LEMMA ProcessLosses ==
    ASSUME Typed, Clean, NEW r, NEW s, <<s, r>> \in Wires,
           NEW m, NEW t, NEW u, NEW c, Handles(r, s, m, t, u, c)
    PROVE  LossesUntold(r)'
<1>1. /\ rib'[r] = u /\ modified'[r] = c /\ IsQueue(wire[<<s, r>>])
      /\ \A n : <<r, n>> \in untold' <=> n \in Untold(r, u, Added(r, s, m))
  BY ProcessChanges
<1>2. /\ IsUpdate(m) /\ Extended(r, s, m, t) /\ Reduced(t, s, m, u) /\ Reports(r, s, m, t, c)
      /\ m = wire[<<s, r>>][1] /\ wire[<<s, r>>] # <<>>
  BY DEF Handles
<1>3. CleanMessage(m)
  BY <1>1, <1>2, TailClean DEF Clean
<1> SUFFICES ASSUME NEW n \in DOMAIN u, NEW i \in DOMAIN c, c[i] = <<n, None>>
             PROVE  n \in Untold(r, u, Added(r, s, m))
  BY <1>1 DEF LossesUntold, Losing
<1>4. n \in Candidates(t, s, m) /\ t[n][1].peer_rid = s
  <2>1. ~ \E k \in Accepted(r, s, m) : c[i] = <<k, Path(r, s, m, k)>>
    <3> SUFFICES ASSUME NEW k \in Accepted(r, s, m), c[i] = <<k, Path(r, s, m, k)>>
                 PROVE  FALSE
      OBVIOUS
    <3>1. k \in DOMAIN m.routes
      BY DEF Accepted
    <3>2. PICK a : a = Path(r, s, m, k)
      OBVIOUS
    <3>3. PathOK(r, a)
      BY <1>2, <3>1, <3>2, NewPath, ProcessChanges
    <3>4. a = None
      BY <3>2
    <3> QED
      BY <3>3, <3>4 DEF PathOK, Plain
  <2> QED
    BY <1>2, <2>1 DEF Reports
<1>5. n \notin Accepted(r, s, m)
  BY <1>2, <1>3, <1>4, Apart
<1>6. <<n, u[n][1]>> \notin Added(r, s, m)
  BY <1>5 DEF Added, Accepted
<1>7. n \in DOMAIN rib[r] /\ t[n] = rib[r][n]
  BY <1>2, <1>4, <1>5 DEF Extended, Candidates
<1>8. u[n][1].peer_rid # s
  <2>1. u[n][1] \in PathsOf(u, n)
    BY <1>2, FirstHeld DEF Reduced
  <2> QED
    BY <1>2, <1>4, <2>1 DEF Reduced
<1> QED
  BY <1>4, <1>6, <1>7, <1>8 DEF Untold

\* The new paths that Process reports are greater than the best one was, and come first.
LEMMA ProcessBest ==
    ASSUME Typed, Clean, NEW r, NEW s, <<s, r>> \in Wires,
           NEW m, NEW t, NEW u, NEW c, Handles(r, s, m, t, u, c)
    PROVE  ReportsBest(r)'
<1>1. /\ net \in Nets /\ r \in Routers /\ TableOK(r, rib[r]) /\ IsQueue(wire[<<s, r>>])
      /\ rib'[r] = u /\ modified'[r] = c
  BY ProcessChanges
<1>2. /\ Extended(r, s, m, t) /\ Reduced(t, s, m, u) /\ TableOK(r, u)
      /\ IsUpdate(m) /\ m = wire[<<s, r>>][1] /\ wire[<<s, r>>] # <<>>
  BY DEF Handles
<1>3. CleanMessage(m)
  BY <1>1, <1>2, TailClean DEF Clean
<1> SUFFICES ASSUME NEW i \in DOMAIN c, c[i][2] # None
             PROVE  c[i][1] \in DOMAIN u /\ c[i][2] = u[c[i][1]][1]
  BY <1>1 DEF ReportsBest
<1>4. PICK n \in Accepted(r, s, m) : c[i] \in Added(r, s, m) /\ c[i] = <<n, Path(r, s, m, n)>>
  BY DEF Handles, Reports
<1>5. PICK a : a = Path(r, s, m, n)
  OBVIOUS
<1>6. n \in DOMAIN rib[r] => Less(rib[r][n][1], a)
  <2>1. rib[r][n][1] # None => Less(rib[r][n][1], a) \/ n \notin DOMAIN rib[r]
    BY <1>4, <1>5 DEF Added, Improves
  <2>2. n \in DOMAIN rib[r] => rib[r][n][1] # None
    <3> SUFFICES ASSUME n \in DOMAIN rib[r] PROVE rib[r][n][1] # None
      OBVIOUS
    <3>1. n \in Nlris /\ rib[r][n][1] \in PathsOf(rib[r], n)
      BY <1>1, FirstHeld DEF TableOK
    <3> QED
      BY <1>1, <3>1 DEF TableOK, PathOK, Plain
  <2> QED
    BY <2>1, <2>2
<1>7. PathsOf(u, n) = PathsOf(rib[r], n) \cup {a}
  <2>1. n \notin Candidates(t, s, m)
    BY <1>2, <1>3, Apart
  <2> QED
    BY <1>2, <1>5, <2>1 DEF Extended, Reduced
<1>8. n \in DOMAIN u /\ n \in Nlris
  <2>1. n \in DOMAIN u
    BY <1>7 DEF PathsOf
  <2> QED
    BY <1>2, <2>1 DEF TableOK
<1>9. \A x \in PathsOf(u, n) : IsPath(x)
  BY <1>2, <1>8 DEF TableOK, PathOK
<1>10. u[n][1] = a
  <2> SUFFICES ASSUME u[n][1] # a PROVE FALSE
    OBVIOUS
  <2>1. u[n][1] \in PathsOf(u, n) /\ ~Less(u[n][1], a)
    BY <1>2, <1>7, <1>8, FirstGreatest DEF TableOK
  <2>2. u[n][1] \in PathsOf(rib[r], n) /\ n \in DOMAIN rib[r]
    BY <1>7, <2>1 DEF PathsOf
  <2>3. rib[r][n][1] \in PathsOf(rib[r], n) /\ ~Less(rib[r][n][1], u[n][1])
    BY <1>1, <2>2, FirstGreatest DEF TableOK
  <2>4. IsPath(rib[r][n][1]) /\ IsPath(u[n][1]) /\ IsPath(a)
    BY <1>7, <1>9, <2>1, <2>3
  <2>5. ~Less(rib[r][n][1], a)
    BY <2>1, <2>3, <2>4, NotLessTransitive
  <2> QED
    BY <1>6, <2>2, <2>5
<1> QED
  BY <1>4, <1>5, <1>8, <1>10

\* Process delivers, or has to report, the best path of r, and what others sent r.
LEMMA DeliveredProcess ==
    ASSUME Typed, Clean, Delivered, net' = net,
           NEW r, NEW s, <<s, r>> \in Wires, Process(r, s)
    PROVE  Delivered'
<1>1. PICK m, t, u, c : Handles(r, s, m, t, u, c)
  BY ProcessHandles
<1>2. /\ net \in Nets /\ r \in Routers /\ left[r] = {}
      /\ rib'[r] = u /\ modified'[r] = c
      /\ left'[r] = IF c = <<>> THEN {} ELSE Peers(r)
      /\ \A x \in Routers \ {r} :
           rib'[x] = rib[x] /\ modified'[x] = modified[x] /\ left'[x] = left[x]
      /\ \A x, n : x # r => (<<x, n>> \in untold' <=> <<x, n>> \in untold)
      /\ \A n : <<r, n>> \in untold' <=> n \in Untold(r, u, Added(r, s, m))
  BY <1>1, ProcessChanges
<1>3. state' = state /\ missed' = missed /\ Reports(r, s, m, t, c)
  BY <1>1 DEF Handles
<1>4. ASSUME NEW x \in Routers PROVE LossesUntold(x)' /\ ReportsBest(x)'
  <2>1. CASE x = r
    BY <1>1, <2>1, ProcessLosses, ProcessBest
  <2>2. CASE x # r
    BY <1>2, <2>2, EachDelivered, ReportsStay
  <2> QED
    BY <2>1, <2>2
<1>5. ASSUME NEW a, NEW b, <<a, b>> \in Ends PROVE Owed(a, b)'
  <2>1. /\ a \in Routers /\ b \in Peers(a) /\ Owed(a, b)
        /\ \A n, p : Latest(a, b, n, p) /\ Asn[b] \notin Elems(p) => Latest(a, b, n, p)'
    <3>1. <<a, b>> \in Wires /\ a \in Routers /\ b \in Peers(a)
      BY <1>2, <1>5, EndFacts
    <3> QED
      BY <1>1, <1>5, <3>1, EachDelivered, LatestProcessed
  <2>2. CASE a # r
    BY <1>2, <1>3, <2>1, <2>2, OwedStays
  <2>3. CASE a = r
    <3> SUFFICES ASSUME state'[<<r, b>>] = "Established", <<b, r>> \notin missed',
                        NEW n, NEW z, NEW p,
                        n \in DOMAIN rib'[r], z = rib'[r][n][1], <<r, n>> \notin untold',
                        Goes(r, b, z), p = prepend(r, b, z)
                 PROVE  Latest(r, b, n, p)' \/ Pending(r, b, n, z)'
      BY <2>3, OwedNext
    <3>1. n \in DOMAIN u /\ z = u[n][1] /\ n \notin Untold(r, u, Added(r, s, m))
      BY <1>2
    <3>2. CASE <<n, z>> \in Added(r, s, m)
      <4>1. PICK i \in DOMAIN c : c[i] = <<n, z>>
        BY <1>3, <3>2 DEF Reports
      <4>2. c # <<>>
        BY <4>1
      <4> QED
        BY <1>2, <2>1, <2>3, <4>1, <4>2 DEF Pending
    <3>3. CASE <<n, z>> \notin Added(r, s, m)
      <4>1. <<r, n>> \notin untold /\ n \in DOMAIN rib[r] /\ z = rib[r][n][1]
        BY <3>1, <3>3 DEF Untold
      <4>2. Latest(r, b, n, p) \/ Pending(r, b, n, z)
        BY <1>3, <2>1, <2>3, <4>1 DEF Owed
      <4>3. ~Pending(r, b, n, z)
        BY <1>2 DEF Pending
      <4>4. Asn[b] \notin Elems(p)
        BY DEF Goes
      <4> QED
        BY <2>1, <2>3, <4>2, <4>3, <4>4
    <3> QED
      BY <3>2, <3>3
  <2> QED
    BY <2>2, <2>3
<1> QED
  BY <1>4, <1>5, AllDelivered

\* A message whose entries have one AS path announces each that may go.
LEMMA ToldArrives ==
    ASSUME NEW r, NEW s, NEW nlris, NEW m, Tells(r, s, nlris, m), AlikeFor(s, nlris),
           NEW i \in DOMAIN nlris, NEW n, NEW b, nlris[i] = <<n, b>>, b # None,
           Goes(r, s, b)
    PROVE  Announces(m, n) /\ m.as_path = prepend(r, s, b)
<1>1. nlris[i] \in EntriesFor(s, nlris)
  BY DEF EntriesFor, Goes, is_from_neighbor
<1>2. n \in DOMAIN m.routes
  <2>1. nlris[i][2] = b /\ nlris[i][1] = n
    OBVIOUS
  <2> QED
    BY <1>1, <2>1 DEF Tells, Goes
<1>3. PICK d \in EntriesFor(s, nlris) : m.as_path = prepend(r, s, d[2])
  BY <1>2 DEF Tells
<1>4. d[2].as_path = b.as_path
  BY <1>1, <1>3 DEF AlikeFor
<1> QED
  BY <1>2, <1>3, <1>4 DEF Announces, Tells, prepend

\* The paths of a sound report are alike.
LEMMA SoundIsAlike ==
    ASSUME NEW r, NEW s, NEW nlris, SoundReport(r, nlris)
    PROVE  AlikeFor(s, nlris)
<1>1. \A d \in EntriesFor(s, nlris) : \E i \in DOMAIN nlris : nlris[i] = d /\ d[2] # None
  BY DEF EntriesFor
<1>2. ASSUME NEW d \in EntriesFor(s, nlris), NEW e \in EntriesFor(s, nlris)
      PROVE  d[2].as_path = e[2].as_path /\ d[2].peer_type = e[2].peer_type
  <2>1. PICK i \in DOMAIN nlris : nlris[i] = d /\ d[2] # None
    BY <1>1
  <2>2. PICK j \in DOMAIN nlris : nlris[j] = e /\ e[2] # None
    BY <1>1
  <2> QED
    BY <2>1, <2>2 DEF SoundReport
<1> QED
  BY <1>2 DEF AlikeFor

\* Report delivers what was pending for s.
LEMMA DeliveredReport ==
    ASSUME Typed, WaysOK, Delivered, net' = net,
           NEW r, NEW s, <<r, s>> \in Ends, Report(r, s)
    PROVE  Delivered'
<1>1. PICK q : Relates(r, s, q)
  BY ReportRelates
<1>2. /\ net \in Nets /\ r \in Routers /\ s \in Routers /\ s # r
      /\ IsQueue(wire[<<r, s>>]) /\ wire'[<<r, s>>] = q /\ rib' = rib
      /\ s \in left[r] /\ left'[r] = left[r] \ {s}
      /\ left'[r] # {} => modified'[r] = modified[r]
      /\ modified'[r] = <<>> \/ modified'[r] = modified[r]
      /\ \A x \in Routers \ {r} : modified'[x] = modified[x] /\ left'[x] = left[x]
      /\ \A a, b : <<a, b>> \in Wires /\ ~(a = r /\ b = s) =>
           wire'[<<a, b>>] = wire[<<a, b>>]
      /\ \A i \in DOMAIN modified[r] : EntryOK(r, modified[r][i])
  BY <1>1, ReportChanges
<1>3. state' = state /\ missed' = missed /\ untold' = untold
  BY <1>1 DEF Relates
<1>4. ASSUME NEW x \in Routers PROVE LossesUntold(x)' /\ ReportsBest(x)'
  <2>1. rib'[x] = rib[x] /\ left'[x] \subseteq left[x]
        /\ (left'[x] # {} => modified'[x] = modified[x]) /\ LossesUntold(x) /\ ReportsBest(x)
    BY <1>2, EachDelivered
  <2> QED
    BY <1>3, <2>1, ReportsStay
<1>5. ASSUME NEW a, NEW b, <<a, b>> \in Ends, ~(a = r /\ b = s) PROVE Owed(a, b)'
  <2>1. <<a, b>> \in Wires /\ a \in Routers /\ Owed(a, b)
    BY <1>2, <1>5, EndFacts, EachDelivered
  <2>2. wire'[<<a, b>>] = wire[<<a, b>>] /\ rib'[b] = rib[b] /\ rib'[a] = rib[a]
    BY <1>2, <1>5, <2>1
  <2>3. \A n, p : Latest(a, b, n, p) => Latest(a, b, n, p)'
    BY <2>2, LatestStays
  <2>4. b \in left[a] => b \in left'[a] /\ modified'[a] = modified[a]
    BY <1>2, <1>5, <2>1
  <2> QED
    BY <1>3, <2>1, <2>2, <2>3, <2>4, OwedStays
<1>6. Owed(r, s)'
  <2> SUFFICES ASSUME state'[<<r, s>>] = "Established", <<s, r>> \notin missed',
                      NEW n, NEW b, NEW p,
                      n \in DOMAIN rib'[r], b = rib'[r][n][1], <<r, n>> \notin untold',
                      Goes(r, s, b), p = prepend(r, s, b)
               PROVE  Latest(r, s, n, p)' \/ Pending(r, s, n, b)'
    BY OwedNext
  <2>1. state[<<r, s>>] = "Established" /\ n \in DOMAIN rib[r] /\ b = rib[r][n][1]
        /\ <<r, n>> \notin untold
    BY <1>2, <1>3
  <2>2. Latest(r, s, n, p) \/ Pending(r, s, n, b)
    BY <1>3, <2>1, EachDelivered DEF Owed
  <2>3. b # None
    <3>1. b \in PathsOf(rib[r], n) /\ n \in Nlris
      BY <1>2, <2>1, FirstHeld DEF Typed, RibsOK, TableOK
    <3> QED
      BY <1>2, <3>1 DEF Typed, RibsOK, TableOK, PathOK, Plain
  <2>4. CASE q = wire[<<r, s>>] /\ EntriesFor(s, modified[r]) = {}
    <3>1. ~Pending(r, s, n, b)
      BY <2>3, <2>4 DEF Pending, EntriesFor, Goes, is_from_neighbor
    <3>2. Latest(r, s, n, p)'
      BY <1>2, <2>2, <2>4, <3>1, LatestStays
    <3> QED
      BY <3>2
  <2>5. ASSUME NEW m, q = wire[<<r, s>>] \o <<m>>, Tells(r, s, modified[r], m)
        PROVE  Latest(r, s, n, p)'
    <3>1. ~Retracts(m, n)
      <4>1. LossesUntold(r)
        BY <1>2, EachDelivered
      <4>2. ~Losing(r, n)
        BY <1>2, <2>1, <4>1 DEF LossesUntold
      <4>3. \A i \in DOMAIN modified[r] :
              modified[r][i][1] = n /\ modified[r][i][2] = None => modified[r][i] = <<n, None>>
        BY <1>2 DEF EntryOK
      <4>4. n \notin LostIn(modified[r])
        BY <4>2, <4>3 DEF LostIn, Losing
      <4> QED
        BY <2>5, <4>4 DEF Retracts, Tells
    <3>2. AlikeFor(s, modified[r])
      <4>1. SoundReport(r, modified[r])
        BY <1>2, EachSound
      <4> QED
        BY <4>1, SoundIsAlike
    <3>3. CASE Pending(r, s, n, b)
      <4>1. PICK i \in DOMAIN modified[r] : modified[r][i] = <<n, b>>
        BY <3>3 DEF Pending
      <4>2. Announces(m, n) /\ m.as_path = prepend(r, s, b)
        BY <2>3, <2>5, <3>2, <4>1, ToldArrives
      <4> QED
        BY <1>2, <2>5, <3>1, <4>2, LatestTold
    <3>4. CASE Latest(r, s, n, p) /\ ~Pending(r, s, n, b)
      <4>1. ~Announces(m, n)
        <5> SUFFICES ASSUME Announces(m, n) PROVE FALSE
          OBVIOUS
        <5>1. PICK e \in EntriesFor(s, modified[r]) : e[1] = n
          BY <2>5 DEF Announces, Tells
        <5>2. PICK i \in DOMAIN modified[r] : modified[r][i] = e /\ e[2] # None
          BY <5>1 DEF EntriesFor
        <5>3. ReportsBest(r)
          BY <1>2, EachDelivered
        <5>4. e[2] = b
          BY <1>2, <2>1, <5>1, <5>2, <5>3 DEF ReportsBest
        <5>5. modified[r][i] = <<n, b>>
          BY <1>2, <5>1, <5>2, <5>4 DEF EntryOK
        <5> QED
          BY <1>2, <3>4, <5>5 DEF Pending
      <4> QED
        BY <1>2, <2>5, <3>1, <3>4, <4>1, LatestTold
    <3> QED
      BY <2>2, <3>3, <3>4
  <2> QED
    BY <1>1, <2>1, <2>4, <2>5 DEF Relates
<1>7. \A a, b : <<a, b>> \in Ends => Owed(a, b)'
  BY <1>5, <1>6
<1> QED
  BY <1>4, <1>7, AllDelivered

\* What two ends say to each other concerns no other end.
LEMMA DeliveredTalk ==
    ASSUME Typed, Delivered, net' = net, NEW r, NEW s, Talk(r, s),
           \A x : x \in missed => x \in missed', Owed(r, s)', Owed(s, r)'
    PROVE  Delivered'
<1>1. /\ rib' = rib /\ modified' = modified /\ left' = left /\ untold' = untold
      /\ \A a, b : <<a, b>> \in Wires /\ {a, b} # {r, s} =>
           wire'[<<a, b>>] = wire[<<a, b>>]
      /\ \A e \in Ends : state'[e] # state[e] => e \in {<<r, s>>, <<s, r>>}
  BY DEF Talk
<1>2. ASSUME NEW x \in Routers PROVE LossesUntold(x)' /\ ReportsBest(x)'
  BY <1>1, EachDelivered, ReportsStay
<1>3. ASSUME NEW a, NEW b, <<a, b>> \in Ends PROVE Owed(a, b)'
  <2>1. CASE {a, b} = {r, s}
    <3>1. (a = r /\ b = s) \/ (a = s /\ b = r) \/ (a = r /\ b = r /\ r = s)
      BY <2>1
    <3> QED
      BY <3>1
  <2>2. CASE {a, b} # {r, s}
    <3>1. <<a, b>> \in Wires /\ Owed(a, b)
      BY <1>3, EndFacts, EachDelivered DEF Typed
    <3>2. wire'[<<a, b>>] = wire[<<a, b>>] /\ rib'[b] = rib[b] /\ rib'[a] = rib[a]
      BY <1>1, <2>2, <3>1
    <3>3. \A n, p : Latest(a, b, n, p) => Latest(a, b, n, p)'
      BY <3>2, LatestStays
    <3>4. state'[<<a, b>>] = state[<<a, b>>]
      <4>1. <<a, b>> \notin {<<r, s>>, <<s, r>>}
        BY <2>2
      <4> QED
        BY <1>1, <1>3, <4>1
    <3>5. <<b, a>> \in missed => <<b, a>> \in missed'
      OBVIOUS
    <3>6. \A n : <<a, n>> \in untold' <=> <<a, n>> \in untold
      BY <1>1
    <3> QED
      BY <1>1, <3>1, <3>2, <3>3, <3>4, <3>5, <3>6, OwedStays
  <2> QED
    BY <2>1, <2>2
<1> QED
  BY <1>2, <1>3, AllDelivered

\* An end that is greeted by a table with one prefix is owed nothing.
LEMMA OwedGreeting ==
    ASSUME Typed, OnePrefix, net' = net, NEW r, NEW s, <<r, s>> \in Ends, NEW q,
           Greets(r, s, q)
    PROVE  Owed(r, s)'
<1>1. /\ net \in Nets /\ r \in Routers /\ IsQueue(wire[<<r, s>>]) /\ Talk(r, s)
  BY SessionChanges
<1>2. rib' = rib /\ untold' = untold /\ wire'[<<r, s>>] = q
  <2>1. <<r, s>> \in Wires /\ <<s, r>> \in Wires /\ <<r, s>> # <<s, r>>
    BY EndFacts DEF Typed
  <2> QED
    BY <2>1 DEF Greets, Typed, WiresOK
<1> SUFFICES ASSUME state'[<<r, s>>] = "Established", <<s, r>> \notin missed',
                    NEW n, NEW b, NEW p,
                    n \in DOMAIN rib'[r], b = rib'[r][n][1], <<r, n>> \notin untold',
                    Goes(r, s, b), p = prepend(r, s, b)
             PROVE  Latest(r, s, n, p)' \/ Pending(r, s, n, b)'
  BY OwedNext
<1>3. PICK nlris : nlris = send_locrib(r)
  OBVIOUS
<1>4. n \in DOMAIN rib[r] /\ b = rib[r][n][1]
  BY <1>2
<1>5. PICK i \in DOMAIN nlris : nlris[i] = <<n, b>>
  BY <1>1, <1>3, <1>4, TableEntries
<1>6. LostIn(nlris) = {}
  BY <1>1, <1>3, TableIsClean
<1>7. b # None
  <2>1. nlris[i][2] = b /\ nlris[i][1] = n
    BY <1>5
  <2> QED
    BY <1>5, <1>6, <2>1 DEF LostIn
<1>8. AlikeFor(s, nlris)
  <2>1. PICK k : Nlris = {k}
    BY DEF OnePrefix
  <2>2. \A j \in DOMAIN nlris : nlris[j][1] \in Nlris /\ nlris[j][2] = rib[r][nlris[j][1]][1]
    BY <1>1, <1>3, TableEntries DEF EntryOK
  <2>3. \A j \in DOMAIN nlris : nlris[j][2] = rib[r][k][1]
    BY <2>1, <2>2
  <2> QED
    BY <2>3 DEF AlikeFor, EntriesFor
<1>9. nlris[i] \in EntriesFor(s, nlris)
  BY <1>5, <1>7 DEF EntriesFor, Goes, is_from_neighbor
<1>10. PICK m : q = wire[<<r, s>>] \o <<m>> /\ Tells(r, s, nlris, m)
  BY <1>3, <1>9 DEF Greets
<1>11. Announces(m, n) /\ m.as_path = prepend(r, s, b)
  BY <1>5, <1>7, <1>8, <1>10, ToldArrives
<1>12. ~Retracts(m, n)
  BY <1>6, <1>10 DEF Tells, Retracts
<1>13. rib'[s] = rib[s] /\ wire'[<<r, s>>] = wire[<<r, s>>] \o <<m>>
  BY <1>2, <1>10
<1> QED
  BY <1>1, <1>11, <1>12, <1>13, LatestTold

\* What lasts and what is owed across a KEEPALIVE.
LEMMA OwedThrough ==
    ASSUME net' = net, NEW r, NEW s, NEW a, NEW b, Owed(a, b), Talk(r, s),
           state'[<<a, b>>] = state[<<a, b>>], missed' = missed,
           IsQueue(wire[<<a, b>>]),
           \/ wire'[<<a, b>>] = wire[<<a, b>>]
           \/ wire[<<a, b>>] # <<>> /\ wire[<<a, b>>][1] = Keepalive
                /\ wire'[<<a, b>>] = Tail(wire[<<a, b>>])
           \/ wire'[<<a, b>>] = Append(wire[<<a, b>>], Keepalive)
    PROVE  Owed(a, b)'
<1>1. /\ rib' = rib /\ modified' = modified /\ left' = left /\ untold' = untold
  BY DEF Talk
<1>2. \A n, p : Latest(a, b, n, p) => Latest(a, b, n, p)'
  BY <1>1, LatestStays, LatestThrough
<1> QED
  BY <1>1, <1>2, OwedStays

\* Session delivers the table, and drops nothing unmarked.
LEMMA DeliveredSession ==
    ASSUME Typed, NoneLate, Delivered, net' = net,
           NEW r, NEW s, <<r, s>> \in Ends, Session(r, s)
    PROVE  Delivered'
<1>1. /\ <<r, s>> \in Wires /\ <<s, r>> \in Wires /\ <<r, s>> # <<s, r>>
      /\ <<s, r>> \in Ends /\ Owed(r, s) /\ Owed(s, r)
      /\ IsQueue(wire[<<r, s>>]) /\ IsQueue(wire[<<s, r>>])
  BY EndFacts, EachDelivered DEF Typed, WiresOK
<1>2. CASE Takes(r, s)
  <2>1. /\ wire'[<<s, r>>] = Tail(wire[<<s, r>>]) /\ wire[<<s, r>>] # <<>>
        /\ wire'[<<r, s>>] = wire[<<r, s>>] /\ state' = state
    BY <1>1, <1>2 DEF Takes, Typed, WiresOK
  <2>2. Talk(r, s)
    BY <1>2, SessionChanges
  <2>3. CASE wire[<<s, r>>][1] = Keepalive /\ missed' = missed
    <3>1. Owed(r, s)' /\ Owed(s, r)'
      BY <1>1, <2>1, <2>2, <2>3, OwedThrough
    <3> QED
      BY <2>2, <2>3, <3>1, DeliveredTalk
  <2>4. CASE missed' = missed \cup {<<r, s>>}
    <3>1. Owed(s, r)'
      <4>1. <<r, s>> \in missed'
        BY <2>4
      <4> QED
        BY <4>1, OwedNext
    <3>2. Owed(r, s)'
      <4>1. /\ rib' = rib /\ modified' = modified /\ left' = left /\ untold' = untold
        BY <2>2 DEF Talk
      <4>2. \A n, p : Latest(r, s, n, p) => Latest(r, s, n, p)'
        BY <2>1, <4>1, LatestStays
      <4> QED
        BY <1>1, <2>1, <2>4, <4>1, <4>2, OwedStays
    <3>3. \A x : x \in missed => x \in missed'
      BY <2>4
    <3> QED
      BY <2>2, <3>1, <3>2, <3>3, DeliveredTalk
  <2> QED
    BY <1>2, <2>3, <2>4 DEF Takes
<1>3. ASSUME NEW q, Nudges(r, s, q) PROVE Delivered'
  <2>1. /\ wire'[<<r, s>>] = Append(wire[<<r, s>>], Keepalive)
        /\ wire'[<<s, r>>] = wire[<<s, r>>] /\ state' = state /\ missed' = missed
    BY <1>1, <1>3 DEF Nudges, Typed, WiresOK
  <2>2. Talk(r, s)
    BY <1>3, SessionChanges
  <2>3. Owed(r, s)' /\ Owed(s, r)'
    BY <1>1, <2>1, <2>2, OwedThrough
  <2> QED
    BY <2>1, <2>2, <2>3, DeliveredTalk
<1>4. ASSUME NEW q, Greets(r, s, q) PROVE Delivered'
  <2>1. /\ wire'[<<s, r>>] = Tail(wire[<<s, r>>]) /\ wire[<<s, r>>] # <<>>
        /\ wire[<<s, r>>][1] = Keepalive /\ missed' = missed
        /\ state'[<<s, r>>] = state[<<s, r>>]
    BY <1>1, <1>4 DEF Greets, Typed, WiresOK, StatesOK
  <2>2. Talk(r, s)
    BY <1>4, SessionChanges
  <2>3. OnePrefix
    BY <1>4 DEF NoneLate, Greets
  <2>4. Owed(r, s)'
    BY <1>4, <2>3, OwedGreeting
  <2>5. Owed(s, r)'
    BY <1>1, <2>1, <2>2, OwedThrough
  <2> QED
    BY <2>1, <2>2, <2>4, <2>5, DeliveredTalk
<1> QED
  BY <1>2, <1>3, <1>4, KeepaliveGreets, DropTakes, TimerNudges DEF Session

\* A session that breaks owes nothing any more.
LEMMA DeliveredBreak ==
    ASSUME Typed, Delivered, net' = net, NEW r, NEW s, <<r, s>> \in Ends, Break(r, s)
    PROVE  Delivered'
<1>1. PICK p, q : Breaks(r, s, p, q)
  BY BreakBreaks
<1>2. <<s, r>> \in Ends /\ <<r, s>> # <<s, r>> /\ Talk(r, s) /\ missed' = missed
  BY <1>1, EndFacts, SessionChanges DEF Typed, Breaks
<1>3. state'[<<r, s>>] = "Idle" /\ state'[<<s, r>>] = "Idle"
  BY <1>1, <1>2 DEF Breaks, Typed, StatesOK
<1>4. Owed(r, s)' /\ Owed(s, r)'
  BY <1>3, OwedNext
<1> QED
  BY <1>2, <1>4, DeliveredTalk

\* An origin is no router, and a router is owed nothing by it here.
LEMMA DeliveredOriginate ==
    ASSUME Typed, Delivered, net' = net, Originate
    PROVE  Delivered'
<1>1. PICK x \in Origins : \E m, now : Emits(x, m, now)
  BY OriginateEmits
<1>2. PICK m, now : Emits(x, m, now)
  BY <1>1
<1>3. /\ net \in Nets /\ x \notin Routers
      /\ \A a, b : <<a, b>> \in Wires /\ a # x => wire'[<<a, b>>] = wire[<<a, b>>]
  BY <1>2, OriginateChanges
<1>4. /\ rib' = rib /\ modified' = modified /\ left' = left /\ untold' = untold
      /\ state' = state /\ missed' = missed
  BY <1>2 DEF Emits
<1>5. ASSUME NEW a, NEW b, <<a, b>> \in Ends PROVE Owed(a, b)'
  <2>1. <<a, b>> \in Wires /\ a # x /\ Owed(a, b)
    BY <1>3, <1>5, EndFacts, EachDelivered
  <2>2. \A n, p : Latest(a, b, n, p) => Latest(a, b, n, p)'
    BY <1>3, <1>4, <2>1, LatestStays
  <2> QED
    BY <1>4, <2>1, <2>2, OwedStays
<1>6. \A y \in Routers : LossesUntold(y)' /\ ReportsBest(y)'
  BY <1>4, EachDelivered, ReportsStay
<1> QED
  BY <1>5, <1>6, AllDelivered

\* Every step keeps Delivered.
LEMMA DeliveredNext ==
    Typed /\ NoneLate /\ WaysOK /\ Clean /\ Delivered /\ [Next]_vars => Delivered'
<1> SUFFICES ASSUME Typed, NoneLate, WaysOK, Clean, Delivered, [Next]_vars PROVE Delivered'
  OBVIOUS
<1>1. CASE UNCHANGED vars
  <2>1. /\ net' = net /\ rib' = rib /\ modified' = modified /\ left' = left
        /\ untold' = untold /\ state' = state /\ missed' = missed /\ wire' = wire
    BY <1>1 DEF vars
  <2>2. ASSUME NEW a, NEW b, <<a, b>> \in Ends PROVE Owed(a, b)'
    <3>1. \A n, p : Latest(a, b, n, p) => Latest(a, b, n, p)'
      BY <2>1, LatestStays
    <3> QED
      BY <2>1, <2>2, <3>1, EachDelivered, OwedStays
  <2>3. \A y \in Routers : LossesUntold(y)' /\ ReportsBest(y)'
    BY <2>1, EachDelivered, ReportsStay
  <2> QED
    BY <2>1, <2>2, <2>3, AllDelivered
<1>2. CASE Next
  BY <1>2, Steps, DeliveredProcess, DeliveredReport, DeliveredSession, DeliveredBreak,
     DeliveredOriginate DEF Typed
<1> QED
  BY <1>1, <1>2

\* Initially there is nothing to deliver.
LEMMA DeliveredInit == Init => Delivered
<1> SUFFICES ASSUME Init PROVE Delivered
  OBVIOUS
<1>1. \A r \in Routers : rib[r] = NoRoutes /\ left[r] = {}
  BY DEF Init
<1>2. \A r \in Routers : DOMAIN rib[r] = {}
  BY <1>1 DEF NoRoutes
<1>3. \A e \in Ends : e[1] \in Routers
  BY DEF Ends
<1> QED
  BY <1>1, <1>2, <1>3 DEF Delivered, LossesUntold, ReportsBest, Owed

\* When nothing is on its way and nothing is to be told, the best path of r is the newest
\* one s holds of r.
LEMMA QuietHolds ==
    ASSUME Typed, Delivered, Quiet, NEW r, NEW s, <<r, s>> \in Ends,
           InSession(r, s), <<s, r>> \notin missed,
           NEW n \in DOMAIN rib[r], <<r, n>> \notin untold, Goes(r, s, rib[r][n][1])
    PROVE  HeldLast(rib[s], r, n, prepend(r, s, rib[r][n][1]))
<1>1. <<r, s>> \in Wires /\ r \in Routers /\ Owed(r, s)
  BY EndFacts, EachDelivered DEF Typed
<1>2. wire[<<r, s>>] = <<>> /\ left[r] = {} /\ state[<<r, s>>] = "Established"
  BY <1>1 DEF Quiet, InSession
<1>3. PICK p : p = prepend(r, s, rib[r][n][1])
  OBVIOUS
<1>4. Latest(r, s, n, p)
  BY <1>1, <1>2, <1>3 DEF Owed, Pending
<1>5. DOMAIN wire[<<r, s>>] = {}
  BY <1>2
<1> QED
  BY <1>3, <1>4, <1>5 DEF Latest, SaidLast

\* So it is there.
LEMMA QuietIsDelivered == Typed /\ Delivered => PeersHaveBest
<1> SUFFICES ASSUME Typed, Delivered, Quiet,
                    NEW e \in Ends, InSession(e[1], e[2]), <<e[2], e[1]>> \notin missed,
                    NEW n \in DOMAIN rib[e[1]], <<e[1], n>> \notin untold
             PROVE  Arrived(e[1], e[2], n)
  BY DEF PeersHaveBest
<1>1. PICK r, s : r = e[1] /\ s = e[2] /\ e = <<r, s>>
  BY DEF Ends
<1>2. PICK b : b = rib[r][n][1]
  OBVIOUS
<1>3. \A q : ToSet(q) = Elems(q)
  BY DEF ToSet, Elems
<1> SUFFICES ASSUME Goes(r, s, b)
             PROVE  Has(s, r, n) /\ \E a \in Elems(rib[s][n]) : a.as_path = prepend(r, s, b)
  BY <1>1, <1>2, <1>3 DEF Arrived, Goes
<1>4. PICK p : p = prepend(r, s, b)
  OBVIOUS
<1>5. HeldLast(rib[s], r, n, p)
  BY <1>1, <1>2, <1>4, QuietHolds
<1>6. HeldWith(rib[s], r, n, p)
  BY <1>5 DEF HeldLast, HeldWith
<1>7. Has(s, r, n)
  BY <1>6, HasHeld DEF HeldWith, HeldIn
<1> QED
  BY <1>4, <1>6, <1>7 DEF HeldWith, PathsOf, Has

\* In any network and after any breaks, once it is quiet every established peer that
\* missed nothing in OpenConfirm holds the best path of each prefix that was reported,
\* unless UPDATEs mix the attributes of several prefixes of a table.
THEOREM BestPathsArrive ==
    ASSUME Unmixed
    PROVE  Spec => []PeersHaveBest
<1>1. Unmixed
  OBVIOUS
<1>2. Init => Typed /\ NoneLate /\ WaysOK /\ Clean /\ Delivered
  BY <1>1, TypedInit, NoneLateInit, WaysInit, CleanInit, DeliveredInit
<1>3. (Typed /\ NoneLate /\ WaysOK /\ Clean /\ Delivered) /\ [Next]_vars
        => (Typed /\ NoneLate /\ WaysOK /\ Clean /\ Delivered)'
  BY TypedNext, NoneLateNext, WaysNext, CleanNext, DeliveredNext
<1>4. Typed /\ NoneLate /\ WaysOK /\ Clean /\ Delivered => PeersHaveBest
  BY QuietIsDelivered
<1> QED
  BY <1>2, <1>3, <1>4, PTL DEF Spec

-----------------------------------------------------------------------------
(* Between ASes packets do not circle                                      *)

\* Every session is between two ASes.
External == \A x \in Nets : \A r, s : {r, s} \in x.links /\ r # s => x.asn[r] # x.asn[s]

\* r has a path for n with an AS path shorter than l.
Nearer(r, n, l) == n \in DOMAIN rib[r] /\ rib[r][n][1].path_len < l

\* r has yet to tell s that it lost n.
Unlearns(r, s, n) == s \in left[r] /\ Losing(r, n)

\* What s holds or will hold of r is longer than what r has, unless r takes it back.
Descends(r, s) ==
    \A n, p : Lasts(r, s, n, p) => Nearer(r, n, Len(p)) \/ Unlearns(r, s, n)

\* What r reports, it has, or a shorter path.
ReportsNear(r) ==
    left[r] # {} => \A i \in DOMAIN modified[r] :
        modified[r][i][2] # None =>
            Nearer(r, modified[r][i][1], modified[r][i][2].path_len + 1)

Downhill ==
    /\ lost \in Nat
    /\ lost = 0 =>
         /\ \A e \in Ends : state[e] # "Idle" /\ Descends(e[1], e[2])
         /\ \A r \in Routers : ReportsNear(r)

\* All paths of r are external.
LEMMA AllExternal ==
    ASSUME External, net \in Nets, NEW r \in Routers, NEW s \in PeersIn(r)
    PROVE  ~Ibgp(r, s)
<1>1. CASE s \in Peers(r)
  <2>1. {r, s} \in Links /\ r # s
    BY <1>1, EndFacts DEF Peers
  <2> QED
    BY <2>1 DEF External, Links, Ibgp, Asn
<1>2. CASE s \in Origins /\ At[s] = r
  BY <1>2, NetFacts DEF Ibgp
<1> QED
  BY <1>1, <1>2 DEF PeersIn

\* The first path of a table has the shortest AS path.
LEMMA ShortestFirst ==
    ASSUME External, net \in Nets, NEW r \in Routers, NEW t, TableOK(r, t),
           NEW n \in DOMAIN t, NEW a \in PathsOf(t, n)
    PROVE  /\ t[n][1] \in PathsOf(t, n) /\ t[n][1].path_len <= a.path_len
           /\ t[n][1].path_len \in Nat /\ a.path_len \in Nat
<1>1. n \in Nlris /\ GoodTable(t)
  BY DEF TableOK
<1>2. PICK b : b = t[n][1]
  OBVIOUS
<1>3. b \in PathsOf(t, n)
  BY <1>1, <1>2, FirstHeld
<1>4. \A z \in PathsOf(t, n) : IsPath(z) /\ z.local_pref = 0 /\ z.path_type = 0
  <2> SUFFICES ASSUME NEW z \in PathsOf(t, n)
               PROVE  IsPath(z) /\ z.local_pref = 0 /\ z.path_type = 0
    OBVIOUS
  <2>1. PathOK(r, z)
    BY <1>1 DEF TableOK
  <2>2. ~Ibgp(r, z.peer_rid)
    BY <2>1, AllExternal DEF PathOK
  <2> QED
    BY <2>1, <2>2 DEF PathOK, Plain
<1>5. PICK list : list = t[n]
  OBVIOUS
<1>6. PICK j \in DOMAIN list : a = list[j]
  BY <1>5 DEF PathsOf, Elems
<1>7. IsPathList(list) /\ Descending(list) /\ list # <<>>
  BY <1>1, <1>5 DEF GoodTable
<1>8. DOMAIN list = 1..Len(list) /\ Len(list) \in Nat /\ 1 \in DOMAIN list
  BY <1>7, Positioned DEF IsPathList
<1>9. a.path_len \in Nat /\ b.path_len \in Nat
  BY <1>3, <1>4 DEF IsPath
<1>10. CASE j = 1
  BY <1>2, <1>3, <1>5, <1>6, <1>9, <1>10
<1>11. CASE j # 1
  <2>1. ~Less(b, a)
    BY <1>2, <1>5, <1>6, <1>7, <1>8, <1>11 DEF Descending
  <2>2. ASSUME a.path_len < b.path_len PROVE Less(b, a)
    <3>1. PartLess(b, a, 3)
      BY <1>9, <2>2 DEF PartLess, Part
    <3>2. Part(b, 1) = Part(a, 1) /\ Part(b, 2) = Part(a, 2)
      BY <1>3, <1>4 DEF Part
    <3>3. \A i \in 1..(3 - 1) : i = 1 \/ i = 2
      OBVIOUS
    <3>4. 3 \in Keys
      BY DEF Keys
    <3> QED
      BY <3>1, <3>2, <3>3, <3>4 DEF Less
  <2>3. ~(a.path_len < b.path_len)
    BY <2>1, <2>2
  <2> QED
    BY <1>2, <1>3, <1>9, <2>3
<1> QED
  BY <1>10, <1>11

\* Process keeps a path as short as the best one was, or reports the loss.
LEMMA NearerAfter ==
    ASSUME Typed, External, NEW r, NEW s, <<s, r>> \in Wires,
           NEW m, NEW t, NEW u, NEW c, Handles(r, s, m, t, u, c),
           NEW n \in DOMAIN rib[r], n \notin DOMAIN u \/ rib[r][n][1].path_len < u[n][1].path_len
    PROVE  \E i \in DOMAIN c : c[i] = <<n, None>>
<1>1. net \in Nets /\ r \in Routers /\ TableOK(r, rib[r])
  BY ProcessChanges
<1>2. /\ Extended(r, s, m, t) /\ Reduced(t, s, m, u) /\ Reports(r, s, m, t, c) /\ TableOK(r, u)
  BY DEF Handles
<1>3. TableOK(r, t) /\ GoodTable(t) /\ n \in DOMAIN t
  BY <1>2 DEF Extended, TableOK
<1>4. PICK b : b = t[n][1]
  OBVIOUS
<1>5. PICK a : a = rib[r][n][1]
  OBVIOUS
<1>6. a \in PathsOf(t, n)
  <2>1. a \in PathsOf(rib[r], n)
    BY <1>1, <1>5, FirstHeld DEF TableOK
  <2>2. PathsOf(rib[r], n) \subseteq PathsOf(t, n)
    BY <1>2 DEF Extended
  <2> QED
    BY <2>1, <2>2
<1>7. b \in PathsOf(t, n) /\ b.path_len <= a.path_len /\ b.path_len \in Nat /\ a.path_len \in Nat
  BY <1>1, <1>3, <1>4, <1>6, ShortestFirst
<1>8. b \notin PathsOf(u, n)
  <2> SUFFICES ASSUME b \in PathsOf(u, n) PROVE FALSE
    OBVIOUS
  <2>1. n \in DOMAIN u
    BY DEF PathsOf
  <2>2. u[n][1].path_len <= b.path_len /\ u[n][1].path_len \in Nat
    BY <1>1, <1>2, <2>1, ShortestFirst
  <2> QED
    BY <1>5, <1>7, <2>1, <2>2
<1>9. n \in Candidates(t, s, m) /\ b.peer_rid = s
  BY <1>2, <1>7, <1>8 DEF Reduced
<1> QED
  BY <1>2, <1>4, <1>9 DEF Reports

\* What Process reports it has, or a shorter path.
LEMMA ProcessNear ==
    ASSUME Typed, Clean, External, NEW r, NEW s, <<s, r>> \in Wires,
           NEW m, NEW t, NEW u, NEW c, Handles(r, s, m, t, u, c)
    PROVE  ReportsNear(r)'
<1>1. /\ net \in Nets /\ r \in Routers /\ TableOK(r, rib[r]) /\ IsQueue(wire[<<s, r>>])
      /\ rib'[r] = u /\ modified'[r] = c
  BY ProcessChanges
<1>2. /\ Extended(r, s, m, t) /\ Reduced(t, s, m, u) /\ Reports(r, s, m, t, c) /\ TableOK(r, u)
      /\ IsUpdate(m) /\ m = wire[<<s, r>>][1] /\ wire[<<s, r>>] # <<>>
  BY DEF Handles
<1>3. CleanMessage(m)
  BY <1>1, <1>2, TailClean DEF Clean
<1> SUFFICES ASSUME NEW i \in DOMAIN c, c[i][2] # None
             PROVE  c[i][1] \in DOMAIN u /\ u[c[i][1]][1].path_len < c[i][2].path_len + 1
  BY <1>1 DEF ReportsNear, Nearer
<1>4. PICK n \in Accepted(r, s, m) : c[i] = <<n, Path(r, s, m, n)>>
  BY <1>2 DEF Reports
<1>5. PICK a : a = Path(r, s, m, n)
  OBVIOUS
<1>6. a \in PathsOf(u, n)
  <2>1. n \notin Candidates(t, s, m)
    BY <1>2, <1>3, Apart
  <2> QED
    BY <1>2, <1>5, <2>1 DEF Extended, Reduced
<1>7. n \in DOMAIN u
  BY <1>6 DEF PathsOf
<1>8. u[n][1].path_len <= a.path_len /\ u[n][1].path_len \in Nat /\ a.path_len \in Nat
  BY <1>1, <1>2, <1>6, <1>7, ShortestFirst
<1>9. c[i][1] = n /\ c[i][2] = a
  BY <1>4, <1>5
<1> QED
  BY <1>7, <1>8, <1>9

\* An AS path grows by one on its way between two ASes.
LEMMA PrependedLen ==
    ASSUME External, net \in Nets, NEW r \in Routers, NEW s \in Peers(r),
           NEW b, PathOK(r, b)
    PROVE  /\ Len(prepend(r, s, b)) = b.path_len + 1 /\ b.path_len = Len(b.as_path)
           /\ b.path_len \in Nat
<1>1. ~Ibgp(r, s)
  BY AllExternal DEF PeersIn
<1>2. Asn[r] \in Nat /\ b.as_path \in Seq(Nat) /\ b.path_len = Len(b.as_path)
  BY NetFacts DEF PathOK, Plain
<1>3. PICK q : q = <<Asn[r]>> \o b.as_path
  OBVIOUS
<1>4. q \in Seq(Nat) /\ DOMAIN q = 1..(Len(b.as_path) + 1) /\ Len(b.as_path) \in Nat
  BY <1>2, <1>3, Prefixed
<1>5. Len(q) = Len(b.as_path) + 1
  BY <1>4, LenProperties
<1> QED
  BY <1>1, <1>2, <1>3, <1>4, <1>5 DEF prepend

\* Before a session is up nothing lasts at its other end.
LEMMA NothingLasts ==
    ASSUME Typed, Answering, NEW r, NEW s, <<r, s>> \in Ends,
           state[<<r, s>>] = "OpenConfirm"
    PROVE  \A n, p : ~Lasts(r, s, n, p)
<1>1. <<r, s>> \in Wires /\ s \in Routers /\ Silent(r, s)
  BY EndFacts DEF Typed, Answering
<1>2. \A n : n \notin Nlris => ~Has(s, r, n)
  BY <1>1 DEF Typed, RibsOK, TableOK, Has
<1>3. \A n : ~Has(s, r, n)
  BY <1>1, <1>2 DEF Silent
<1>4. \A n, p : ~HeldWith(rib[s], r, n, p)
  BY <1>3, HasHeld DEF HeldWith, HeldIn
<1>5. \A i \in DOMAIN wire[<<r, s>>] : wire[<<r, s>>][i] = Keepalive
  BY <1>1 DEF Silent
<1>6. \A n, p : ~Stands(wire[<<r, s>>], n, p)
  BY <1>5, KeepaliveSays DEF Stands
<1> QED
  BY <1>4, <1>6 DEF Lasts

\* Descends stays true where nothing comes to last and the table does not change.
LEMMA DescendsStays ==
    ASSUME NEW r, NEW s, Descends(r, s), rib'[r] = rib[r],
           \A n, p : Lasts(r, s, n, p)' => Lasts(r, s, n, p),
           s \in left[r] => s \in left'[r] /\ modified'[r] = modified[r]
    PROVE  Descends(r, s)'
<1> SUFFICES ASSUME NEW n, NEW p, Lasts(r, s, n, p)'
             PROVE  Nearer(r, n, Len(p))' \/ Unlearns(r, s, n)'
  BY DEF Descends
<1>1. Nearer(r, n, Len(p)) \/ Unlearns(r, s, n)
  BY DEF Descends
<1>2. Nearer(r, n, Len(p)) => Nearer(r, n, Len(p))'
  BY DEF Nearer
<1>3. Unlearns(r, s, n) => Unlearns(r, s, n)'
  BY DEF Unlearns, Losing
<1> QED
  BY <1>1, <1>2, <1>3

\* ReportsNear stays true with the table and the report.
LEMMA NearStays ==
    ASSUME NEW r, ReportsNear(r), rib'[r] = rib[r], left'[r] \subseteq left[r],
           left'[r] # {} => modified'[r] = modified[r]
    PROVE  ReportsNear(r)'
  BY DEF ReportsNear, Nearer

\* Downhill, end by end.
LEMMA AllDownhill ==
    ASSUME net' = net, lost' \in Nat,
           lost' = 0 => /\ \A a, b : <<a, b>> \in Ends =>
                             state'[<<a, b>>] # "Idle" /\ Descends(a, b)'
                        /\ \A x \in Routers : ReportsNear(x)'
    PROVE  Downhill'
<1>1. \A e \in Ends : e = <<e[1], e[2]>>
  BY DEF Ends
<1>2. lost' = 0 => \A e \in Ends : state'[e] # "Idle" /\ Descends(e[1], e[2])'
  BY <1>1
<1> QED
  BY <1>2, NetFixed DEF Downhill

\* What Downhill says of two ends of a session and of one speaker.
LEMMA EachDownhill ==
    ASSUME Downhill
    PROVE  /\ lost \in Nat
           /\ lost = 0 => /\ \A a, b : <<a, b>> \in Ends =>
                               state[<<a, b>>] # "Idle" /\ Descends(a, b)
                          /\ \A x \in Routers : ReportsNear(x)
  BY DEF Downhill

\* Process goes downhill.
LEMMA DownhillProcess ==
    ASSUME Typed, Clean, External, Downhill, net' = net,
           NEW r, NEW s, <<s, r>> \in Wires, Process(r, s)
    PROVE  Downhill'
<1>1. PICK m, t, u, c : Handles(r, s, m, t, u, c)
  BY ProcessHandles
<1>2. /\ net \in Nets /\ r \in Routers /\ left[r] = {} /\ TableOK(r, rib[r])
      /\ rib'[r] = u /\ modified'[r] = c
      /\ left'[r] = IF c = <<>> THEN {} ELSE Peers(r)
      /\ \A x \in Routers \ {r} :
           rib'[x] = rib[x] /\ modified'[x] = modified[x] /\ left'[x] = left[x]
  BY <1>1, ProcessChanges
<1>3. state' = state /\ lost' = lost /\ TableOK(r, u)
  BY <1>1 DEF Handles
<1> SUFFICES ASSUME lost = 0,
                    \A a, b : <<a, b>> \in Ends => state[<<a, b>>] # "Idle" /\ Descends(a, b),
                    \A x \in Routers : ReportsNear(x)
             PROVE  /\ \A a, b : <<a, b>> \in Ends => Descends(a, b)'
                    /\ \A x \in Routers : ReportsNear(x)'
  BY <1>3, EachDownhill, AllDownhill
<1>4. ASSUME NEW x \in Routers PROVE ReportsNear(x)'
  <2>1. CASE x = r
    BY <1>1, <2>1, ProcessNear
  <2>2. CASE x # r
    BY <1>2, <2>2, NearStays
  <2> QED
    BY <2>1, <2>2
<1>5. ASSUME NEW a, NEW b, <<a, b>> \in Ends PROVE Descends(a, b)'
  <2>1. /\ a \in Routers /\ b \in Peers(a) /\ Descends(a, b)
        /\ \A n, p : Lasts(a, b, n, p)' => Lasts(a, b, n, p)
    BY <1>1, <1>2, <1>5, EndFacts, LastsProcessed
  <2>2. CASE a # r
    BY <1>2, <2>1, <2>2, DescendsStays
  <2>3. CASE a = r
    <3> SUFFICES ASSUME NEW n, NEW p, Lasts(a, b, n, p)'
                 PROVE  Nearer(a, n, Len(p))' \/ Unlearns(a, b, n)'
      BY DEF Descends
    <3>1. Nearer(r, n, Len(p))
      BY <1>2, <2>1, <2>3 DEF Descends, Unlearns
    <3>2. n \in DOMAIN rib[r] /\ rib[r][n][1].path_len < Len(p)
      BY <3>1 DEF Nearer
    <3>3. CASE n \in DOMAIN u /\ ~(rib[r][n][1].path_len < u[n][1].path_len)
      <4>1. rib[r][n][1].path_len \in Nat
        BY <1>2, <3>2, FirstHeld, ShortestFirst DEF TableOK
      <4>2. u[n][1].path_len \in Nat
        BY <1>2, <1>3, <3>3, FirstHeld, ShortestFirst DEF TableOK
      <4>3. PICK l : l = Len(p)
        OBVIOUS
      <4>4. u[n][1].path_len < l
        BY <3>2, <3>3, <4>1, <4>2, <4>3
      <4> QED
        BY <1>2, <2>3, <3>3, <4>3, <4>4 DEF Nearer
    <3>4. CASE n \notin DOMAIN u \/ rib[r][n][1].path_len < u[n][1].path_len
      <4>1. PICK i \in DOMAIN c : c[i] = <<n, None>>
        BY <1>1, <3>2, <3>4, NearerAfter
      <4>2. c # <<>>
        BY <4>1
      <4> QED
        BY <1>2, <2>1, <2>3, <4>1, <4>2 DEF Unlearns, Losing
    <3> QED
      BY <3>3, <3>4
  <2> QED
    BY <2>2, <2>3
<1> QED
  BY <1>4, <1>5

\* What a sound report announces, r has, or a shorter path.
LEMMA ToldIsNear ==
    ASSUME External, net \in Nets, NEW r \in Routers, NEW s \in Peers(r), NEW nlris,
           \A i \in DOMAIN nlris : EntryOK(r, nlris[i]), AlikeFor(s, nlris),
           \A i \in DOMAIN nlris :
               nlris[i][2] # None => Nearer(r, nlris[i][1], nlris[i][2].path_len + 1),
           NEW m, Tells(r, s, nlris, m), NEW n, Announces(m, n)
    PROVE  Nearer(r, n, Len(m.as_path))
<1>1. n \in DOMAIN m.routes
  BY DEF Announces
<1>2. PICK e \in EntriesFor(s, nlris) : e[1] = n
  BY <1>1 DEF Tells
<1>3. PICK d \in EntriesFor(s, nlris) : m.as_path = prepend(r, s, d[2])
  BY <1>1 DEF Tells
<1>4. PathOK(r, d[2]) /\ PathOK(r, e[2])
  BY EntriesAre
<1>5. d[2].as_path = e[2].as_path
  BY DEF AlikeFor
<1>6. /\ Len(m.as_path) = d[2].path_len + 1
      /\ d[2].path_len = Len(d[2].as_path) /\ e[2].path_len = Len(e[2].as_path)
  BY <1>3, <1>4, PrependedLen
<1>7. Nearer(r, n, e[2].path_len + 1)
  BY <1>2 DEF EntriesFor
<1> QED
  BY <1>5, <1>6, <1>7

\* Report goes downhill: it withdraws what is lost and announces what r has.
LEMMA DownhillReport ==
    ASSUME Typed, Answering, WaysOK, External, Downhill, net' = net,
           NEW r, NEW s, <<r, s>> \in Ends, Report(r, s)
    PROVE  Downhill'
<1>1. PICK q : Relates(r, s, q)
  BY ReportRelates
<1>2. /\ net \in Nets /\ r \in Routers /\ s \in Routers /\ s # r
      /\ IsQueue(wire[<<r, s>>]) /\ wire'[<<r, s>>] = q /\ rib' = rib
      /\ s \in left[r] /\ left'[r] = left[r] \ {s}
      /\ left'[r] # {} => modified'[r] = modified[r]
      /\ modified'[r] = <<>> \/ modified'[r] = modified[r]
      /\ \A x \in Routers \ {r} : modified'[x] = modified[x] /\ left'[x] = left[x]
      /\ \A a, b : <<a, b>> \in Wires /\ ~(a = r /\ b = s) =>
           wire'[<<a, b>>] = wire[<<a, b>>]
      /\ \A i \in DOMAIN modified[r] : EntryOK(r, modified[r][i])
  BY <1>1, ReportChanges
<1>3. state' = state /\ lost' = lost
  BY <1>1 DEF Relates
<1> SUFFICES ASSUME lost = 0,
                    \A a, b : <<a, b>> \in Ends => state[<<a, b>>] # "Idle" /\ Descends(a, b),
                    \A x \in Routers : ReportsNear(x)
             PROVE  /\ \A a, b : <<a, b>> \in Ends => Descends(a, b)'
                    /\ \A x \in Routers : ReportsNear(x)'
  BY <1>3, EachDownhill, AllDownhill
<1>4. ASSUME NEW x \in Routers PROVE ReportsNear(x)'
  <2>1. rib'[x] = rib[x] /\ left'[x] \subseteq left[x]
        /\ (left'[x] # {} => modified'[x] = modified[x])
    BY <1>2
  <2> QED
    BY <2>1, NearStays
<1>5. ASSUME NEW a, NEW b, <<a, b>> \in Ends, ~(a = r /\ b = s) PROVE Descends(a, b)'
  <2>1. <<a, b>> \in Wires /\ a \in Routers /\ Descends(a, b)
    BY <1>2, <1>5, EndFacts
  <2>2. wire'[<<a, b>>] = wire[<<a, b>>] /\ rib'[b] = rib[b] /\ rib'[a] = rib[a]
    BY <1>2, <1>5, <2>1
  <2>3. \A n, p : Lasts(a, b, n, p)' <=> Lasts(a, b, n, p)
    BY <2>2, LastsStays
  <2>4. b \in left[a] => b \in left'[a] /\ modified'[a] = modified[a]
    BY <1>2, <1>5, <2>1
  <2> QED
    BY <2>1, <2>2, <2>3, <2>4, DescendsStays
<1>6. Descends(r, s)'
  <2> SUFFICES ASSUME NEW n, NEW p, Lasts(r, s, n, p)' PROVE Nearer(r, n, Len(p))
    BY <1>2 DEF Descends, Nearer
  <2>1. Descends(r, s) /\ s \in Peers(r) /\ state[<<r, s>>] # "Idle"
    BY EndFacts DEF Typed
  <2>2. n \notin LostIn(modified[r]) => ~Losing(r, n)
    BY DEF LostIn, Losing
  <2>3. CASE state[<<r, s>>] # "Established" /\ q = wire[<<r, s>>]
    <3>1. state[<<r, s>>] = "OpenConfirm"
      BY <2>1, <2>3 DEF Typed, StatesOK, Stages
    <3>2. Lasts(r, s, n, p)
      BY <1>2, <2>3, LastsStays
    <3> QED
      BY <3>1, <3>2, NothingLasts
  <2>4. CASE q = wire[<<r, s>>] /\ LostIn(modified[r]) = {}
    <3>1. Lasts(r, s, n, p)
      BY <1>2, <2>4, LastsStays
    <3> QED
      BY <2>1, <2>2, <2>4, <3>1 DEF Descends, Unlearns
  <2>5. ASSUME NEW m, q = wire[<<r, s>>] \o <<m>>, Tells(r, s, modified[r], m)
        PROVE  Nearer(r, n, Len(p))
    <3>1. /\ ~Retracts(m, n)
          /\ Lasts(r, s, n, p) \/ (Announces(m, n) /\ m.as_path = p)
      <4>1. /\ IsQueue(wire[<<r, s>>]) /\ rib'[s] = rib[s]
            /\ wire'[<<r, s>>] = wire[<<r, s>>] \o <<m>>
        BY <1>2, <2>5
      <4> QED
        BY <4>1, LastsTold
    <3>2. CASE Lasts(r, s, n, p)
      <4>1. n \notin LostIn(modified[r])
        BY <2>5, <3>1 DEF Tells, Retracts
      <4> QED
        BY <2>1, <2>2, <3>2, <4>1 DEF Descends, Unlearns
    <3>3. CASE Announces(m, n) /\ m.as_path = p
      <4>1. AlikeFor(s, modified[r])
        BY <1>2, EachSound, SoundIsAlike
      <4>2. \A i \in DOMAIN modified[r] : modified[r][i][2] # None =>
              Nearer(r, modified[r][i][1], modified[r][i][2].path_len + 1)
        BY <1>2 DEF ReportsNear
      <4>3. Nearer(r, n, Len(m.as_path))
        BY <1>2, <2>1, <2>5, <3>3, <4>1, <4>2, ToldIsNear
      <4> QED
        BY <3>3, <4>3
    <3> QED
      BY <3>1, <3>2, <3>3
  <2> QED
    BY <1>1, <2>3, <2>4, <2>5 DEF Relates
<1> QED
  BY <1>4, <1>5, <1>6

\* What two ends say to each other changes nothing elsewhere.
LEMMA DownhillTalk ==
    ASSUME Typed, Downhill, net' = net, NEW r, NEW s, Talk(r, s), lost' = lost,
           state'[<<r, s>>] = state[<<r, s>>] \/ state'[<<r, s>>] = "Established",
           state'[<<s, r>>] = state[<<s, r>>] \/ state'[<<s, r>>] = "Established",
           lost = 0 /\ Descends(r, s) => Descends(r, s)',
           lost = 0 /\ Descends(s, r) => Descends(s, r)'
    PROVE  Downhill'
<1> SUFFICES ASSUME lost = 0,
                    \A a, b : <<a, b>> \in Ends => state[<<a, b>>] # "Idle" /\ Descends(a, b),
                    \A x \in Routers : ReportsNear(x)
             PROVE  /\ \A a, b : <<a, b>> \in Ends =>
                         state'[<<a, b>>] # "Idle" /\ Descends(a, b)'
                    /\ \A x \in Routers : ReportsNear(x)'
  BY EachDownhill, AllDownhill
<1>1. /\ rib' = rib /\ modified' = modified /\ left' = left
      /\ \A a, b : <<a, b>> \in Wires /\ {a, b} # {r, s} =>
           wire'[<<a, b>>] = wire[<<a, b>>]
      /\ \A e \in Ends : state'[e] # state[e] => e \in {<<r, s>>, <<s, r>>}
  BY DEF Talk
<1>2. \A x \in Routers : ReportsNear(x)'
  BY <1>1, NearStays
<1>3. ASSUME NEW a, NEW b, <<a, b>> \in Ends
      PROVE  state'[<<a, b>>] # "Idle" /\ Descends(a, b)'
  <2>1. CASE {a, b} = {r, s}
    <3>1. (a = r /\ b = s) \/ (a = s /\ b = r) \/ (a = r /\ b = r /\ r = s)
      BY <2>1
    <3>2. state[<<a, b>>] # "Idle" /\ Descends(a, b)
      BY <1>3
    <3> QED
      BY <3>1, <3>2
  <2>2. CASE {a, b} # {r, s}
    <3>1. <<a, b>> \in Wires /\ state[<<a, b>>] # "Idle" /\ Descends(a, b)
      BY <1>3, EndFacts DEF Typed
    <3>2. wire'[<<a, b>>] = wire[<<a, b>>] /\ rib'[b] = rib[b] /\ rib'[a] = rib[a]
      BY <1>1, <2>2, <3>1
    <3>3. \A n, p : Lasts(a, b, n, p)' <=> Lasts(a, b, n, p)
      BY <3>2, LastsStays
    <3>4. state'[<<a, b>>] = state[<<a, b>>]
      <4>1. <<a, b>> \notin {<<r, s>>, <<s, r>>}
        BY <2>2
      <4> QED
        BY <1>1, <1>3, <4>1
    <3> QED
      BY <1>1, <3>1, <3>2, <3>3, <3>4, DescendsStays
  <2> QED
    BY <2>1, <2>2
<1> QED
  BY <1>2, <1>3

\* A table with one prefix, sent where nothing was, is near.
LEMMA GreetsNear ==
    ASSUME Typed, Answering, OnePrefix, External, net' = net,
           NEW r, NEW s, <<r, s>> \in Ends, NEW q, Greets(r, s, q)
    PROVE  Descends(r, s)'
<1>1. /\ net \in Nets /\ r \in Routers /\ s \in Peers(r) /\ IsQueue(wire[<<r, s>>])
  BY SessionChanges, EndFacts DEF Typed
<1>2. rib' = rib /\ wire'[<<r, s>>] = q /\ state[<<r, s>>] = "OpenConfirm"
  <2>1. <<r, s>> \in Wires /\ <<s, r>> \in Wires /\ <<r, s>> # <<s, r>>
    BY EndFacts DEF Typed
  <2> QED
    BY <2>1 DEF Greets, Typed, WiresOK
<1> SUFFICES ASSUME NEW n, NEW p, Lasts(r, s, n, p)' PROVE Nearer(r, n, Len(p))
  BY <1>2 DEF Descends, Nearer
<1>3. ~Lasts(r, s, n, p)
  BY <1>2, NothingLasts
<1>4. PICK nlris : nlris = send_locrib(r)
  OBVIOUS
<1>5. q # wire[<<r, s>>]
  <2>1. q = wire[<<r, s>>] => Lasts(r, s, n, p)
    BY <1>2, LastsStays
  <2> QED
    BY <1>3, <2>1
<1>6. PICK m : q = wire[<<r, s>>] \o <<m>> /\ Tells(r, s, nlris, m)
  BY <1>4, <1>5 DEF Greets
<1>7. Announces(m, n) /\ m.as_path = p
  <2>1. rib'[s] = rib[s] /\ wire'[<<r, s>>] = wire[<<r, s>>] \o <<m>>
    BY <1>2, <1>6
  <2> QED
    BY <1>1, <1>3, <2>1, LastsTold
<1>8. PICK k : Nlris = {k}
  BY DEF OnePrefix
<1>9. \A i \in DOMAIN nlris :
        /\ EntryOK(r, nlris[i]) /\ nlris[i][1] \in DOMAIN rib[r]
        /\ nlris[i][2] = rib[r][nlris[i][1]][1] /\ nlris[i][1] = k
  BY <1>1, <1>4, <1>8, TableEntries DEF EntryOK
<1>10. AlikeFor(s, nlris)
  BY <1>9 DEF AlikeFor, EntriesFor
<1>11. \A i \in DOMAIN nlris : nlris[i][2] # None =>
         Nearer(r, nlris[i][1], nlris[i][2].path_len + 1)
  <2> SUFFICES ASSUME NEW i \in DOMAIN nlris, nlris[i][2] # None
               PROVE  Nearer(r, nlris[i][1], nlris[i][2].path_len + 1)
    OBVIOUS
  <2>1. nlris[i][2].path_len \in Nat
    BY <1>1, <1>9, PrependedLen DEF EntryOK
  <2> QED
    BY <1>9, <2>1 DEF Nearer
<1>12. Nearer(r, n, Len(m.as_path))
  BY <1>1, <1>6, <1>7, <1>9, <1>10, <1>11, ToldIsNear
<1> QED
  BY <1>7, <1>12

\* Session goes downhill.
LEMMA DownhillSession ==
    ASSUME Typed, Answering, NoneLate, External, Downhill, net' = net,
           NEW r, NEW s, <<r, s>> \in Ends, Session(r, s)
    PROVE  Downhill'
<1>1. /\ <<r, s>> \in Wires /\ <<s, r>> \in Wires /\ <<r, s>> # <<s, r>>
      /\ <<s, r>> \in Ends /\ IsQueue(wire[<<r, s>>]) /\ IsQueue(wire[<<s, r>>])
  BY EndFacts DEF Typed, WiresOK
<1>2. CASE Takes(r, s)
  <2>1. /\ wire'[<<s, r>>] = Tail(wire[<<s, r>>]) /\ wire[<<s, r>>] # <<>>
        /\ wire'[<<r, s>>] = wire[<<r, s>>] /\ state' = state /\ lost' = lost
    BY <1>1, <1>2 DEF Takes, Typed, WiresOK
  <2>2. Talk(r, s) /\ rib' = rib /\ modified' = modified /\ left' = left
    <3>1. Talk(r, s)
      BY <1>2, SessionChanges
    <3> QED
      BY <3>1 DEF Talk
  <2>3. Descends(r, s) => Descends(r, s)'
    <3>1. \A n, p : Lasts(r, s, n, p)' <=> Lasts(r, s, n, p)
      BY <2>1, <2>2, LastsStays
    <3> QED
      BY <2>2, <3>1, DescendsStays
  <2>4. \A n, p : Lasts(s, r, n, p)' => Lasts(s, r, n, p)
    <3>1. CASE wire[<<s, r>>][1] = Keepalive
      BY <1>1, <2>1, <2>2, <3>1, LastsThrough
    <3>2. CASE state[<<r, s>>] = "OpenConfirm"
      <4>1. Silent(s, r) /\ r \in Routers
        BY <1>1, EndFacts DEF Answering, Typed
      <4>2. \A n : n \notin Nlris => ~Has(r, s, n)
        BY <4>1 DEF Typed, RibsOK, TableOK, Has
      <4>3. \A n : ~Has(r, s, n)
        BY <3>2, <4>1, <4>2 DEF Silent
      <4> QED
        BY <1>1, <2>1, <2>2, <4>3, LastsDropped
    <3> QED
      BY <1>2, <3>1, <3>2 DEF Takes
  <2>5. Descends(s, r) => Descends(s, r)'
    BY <2>2, <2>4, DescendsStays
  <2> QED
    BY <2>1, <2>2, <2>3, <2>5, DownhillTalk
<1>3. ASSUME NEW q, Nudges(r, s, q) PROVE Downhill'
  <2>1. /\ wire'[<<r, s>>] = Append(wire[<<r, s>>], Keepalive)
        /\ wire'[<<s, r>>] = wire[<<s, r>>] /\ state' = state /\ lost' = lost
    BY <1>1, <1>3 DEF Nudges, Typed, WiresOK
  <2>2. Talk(r, s) /\ rib' = rib /\ modified' = modified /\ left' = left
    <3>1. Talk(r, s)
      BY <1>3, SessionChanges
    <3> QED
      BY <3>1 DEF Talk
  <2>3. \A n, p : Lasts(r, s, n, p)' <=> Lasts(r, s, n, p)
    BY <1>1, <2>1, <2>2, LastsThrough
  <2>4. \A n, p : Lasts(s, r, n, p)' <=> Lasts(s, r, n, p)
    BY <2>1, <2>2, LastsStays
  <2>5. Descends(r, s) => Descends(r, s)'
    BY <2>2, <2>3, DescendsStays
  <2>6. Descends(s, r) => Descends(s, r)'
    BY <2>2, <2>4, DescendsStays
  <2> QED
    BY <2>1, <2>2, <2>5, <2>6, DownhillTalk
<1>4. ASSUME NEW q, Greets(r, s, q) PROVE Downhill'
  <2>1. /\ wire'[<<s, r>>] = Tail(wire[<<s, r>>]) /\ wire[<<s, r>>] # <<>>
        /\ wire[<<s, r>>][1] = Keepalive /\ lost' = lost
        /\ state'[<<s, r>>] = state[<<s, r>>] /\ state'[<<r, s>>] = "Established"
    BY <1>1, <1>4 DEF Greets, Typed, WiresOK, StatesOK
  <2>2. Talk(r, s) /\ rib' = rib /\ modified' = modified /\ left' = left
    <3>1. Talk(r, s)
      BY <1>4, SessionChanges
    <3> QED
      BY <3>1 DEF Talk
  <2>3. OnePrefix
    BY <1>4 DEF NoneLate, Greets
  <2>4. Descends(r, s)'
    BY <1>4, <2>3, GreetsNear
  <2>5. \A n, p : Lasts(s, r, n, p)' <=> Lasts(s, r, n, p)
    BY <1>1, <2>1, <2>2, LastsThrough
  <2>6. Descends(s, r) => Descends(s, r)'
    BY <2>2, <2>5, DescendsStays
  <2> QED
    BY <2>1, <2>2, <2>4, <2>6, DownhillTalk
<1> QED
  BY <1>2, <1>3, <1>4, KeepaliveGreets, DropTakes, TimerNudges DEF Session

\* Every step goes downhill, or breaks a connection.
LEMMA DownhillNext ==
    ASSUME External
    PROVE  Typed /\ Answering /\ NoneLate /\ WaysOK /\ Clean /\ Downhill /\ [Next]_vars
             => Downhill'
<1> SUFFICES ASSUME Typed, Answering, NoneLate, WaysOK, Clean, Downhill, [Next]_vars
             PROVE  Downhill'
  OBVIOUS
<1>1. ASSUME net' = net, rib' = rib, modified' = modified, left' = left, state' = state,
             lost' = lost,
             \A a, b : <<a, b>> \in Ends => wire'[<<a, b>>] = wire[<<a, b>>]
      PROVE  Downhill'
  <2>1. ASSUME NEW a, NEW b, <<a, b>> \in Ends, Descends(a, b) PROVE Descends(a, b)'
    <3>1. \A n, p : Lasts(a, b, n, p)' <=> Lasts(a, b, n, p)
      BY <1>1, <2>1, LastsStays
    <3> QED
      BY <1>1, <2>1, <3>1, DescendsStays
  <2>2. \A x \in Routers : ReportsNear(x) => ReportsNear(x)'
    BY <1>1, NearStays
  <2> QED
    BY <1>1, <2>1, <2>2, EachDownhill, AllDownhill
<1>2. CASE UNCHANGED vars
  <2>1. /\ net' = net /\ rib' = rib /\ modified' = modified /\ left' = left
        /\ state' = state /\ lost' = lost /\ wire' = wire
    BY <1>2 DEF vars
  <2> QED
    BY <1>1, <2>1
<1>3. ASSUME net' = net, NEW r, NEW s, <<r, s>> \in Ends, Break(r, s) PROVE Downhill'
  <2>1. lost' = lost + 1
    BY <1>3, BreakBreaks DEF Breaks
  <2>2. lost' \in Nat /\ lost' # 0
    BY <2>1, EachDownhill
  <2> QED
    BY <1>3, <2>2, AllDownhill
<1>4. ASSUME net' = net, Originate PROVE Downhill'
  <2>1. PICK x \in Origins : \E m, now : Emits(x, m, now)
    BY <1>4, OriginateEmits
  <2>2. PICK m, now : Emits(x, m, now)
    BY <2>1
  <2>3. /\ net \in Nets /\ x \notin Routers
        /\ \A a, b : <<a, b>> \in Wires /\ a # x => wire'[<<a, b>>] = wire[<<a, b>>]
    BY <2>2, OriginateChanges
  <2>4. /\ rib' = rib /\ modified' = modified /\ left' = left /\ state' = state
        /\ lost' = lost
    BY <2>2 DEF Emits
  <2>5. \A a, b : <<a, b>> \in Ends => wire'[<<a, b>>] = wire[<<a, b>>]
    BY <2>3, EndFacts
  <2> QED
    BY <1>1, <1>4, <2>4, <2>5
<1>5. CASE Next
  BY <1>3, <1>4, <1>5, Steps, DownhillProcess, DownhillReport, DownhillSession DEF Typed
<1> QED
  BY <1>2, <1>5

\* Initially nobody has a path.
LEMMA DownhillInit == Init => Downhill
<1> SUFFICES ASSUME Init PROVE Downhill
  OBVIOUS
<1>1. lost = 0 /\ \A e \in Ends : state[e] # "Idle"
  BY DEF Init
<1>2. ASSUME NEW e \in Ends PROVE Descends(e[1], e[2])
  <2>1. PICK r, s : r = e[1] /\ s = e[2] /\ e = <<r, s>>
    BY DEF Ends
  <2>2. net \in Nets
    BY DEF Init
  <2>3. <<r, s>> \in Wires /\ s \in Routers
    BY <2>1, <2>2, EndFacts
  <2>4. wire[<<r, s>>] = <<>> /\ rib[s] = NoRoutes
    BY <2>3 DEF Init
  <2>5. DOMAIN wire[<<r, s>>] = {} /\ DOMAIN rib[s] = {}
    BY <2>4 DEF NoRoutes
  <2>6. \A n, p : ~Lasts(r, s, n, p)
    BY <2>5 DEF Lasts, HeldWith, PathsOf, Stands
  <2> QED
    BY <2>1, <2>6 DEF Descends
<1>3. \A r \in Routers : ReportsNear(r)
  BY DEF Init, ReportsNear
<1> QED
  BY <1>1, <1>2, <1>3 DEF Downhill

\* The best path of r is one of its paths, and as long as its AS path.
LEMMA BestIs ==
    ASSUME Typed, NEW r \in Routers, NEW n \in DOMAIN rib[r]
    PROVE  /\ n \in Nlris /\ rib[r][n][1] \in PathsOf(rib[r], n) /\ PathOK(r, rib[r][n][1])
           /\ rib[r][n][1].path_len = Len(rib[r][n][1].as_path)
           /\ rib[r][n][1].path_len \in Nat
<1>1. TableOK(r, rib[r])
  BY DEF Typed, RibsOK
<1>2. n \in Nlris /\ rib[r][n][1] \in PathsOf(rib[r], n)
  BY <1>1, FirstHeld DEF TableOK
<1>3. PathOK(r, rib[r][n][1])
  BY <1>1, <1>2 DEF TableOK
<1> QED
  BY <1>2, <1>3 DEF PathOK, Plain, IsPath

\* Of some speakers that have n one has a shortest AS path.
LEMMA ShortestOf ==
    ASSUME Typed, NEW n, NEW C \in SUBSET Routers, C # {}, \A r \in C : n \in DOMAIN rib[r]
    PROVE  \E r \in C : \A s \in C : rib[r][n][1].path_len <= rib[s][n][1].path_len
<1> DEFINE len(r) == rib[r][n][1].path_len
<1>1. \A r \in C : len(r) \in Nat
  BY BestIs
<1>2. PICK x \in C : TRUE
  OBVIOUS
<1> DEFINE T == {i \in 0..len(x) : \E s \in C : len(s) = i}
<1>3. T \subseteq Nat /\ len(x) \in T
  BY <1>1, <1>2
<1>4. IsFiniteSet(T)
  <2>1. IsFiniteSet(0..len(x))
    BY <1>1, <1>2, FS_Interval
  <2> QED
    BY <2>1, FS_Subset
<1> HIDE DEF T
<1>5. Nth(T, 1) \in T /\ \A i \in T : Nth(T, 1) <= i
  <2>1. T # {}
    BY <1>3
  <2> QED
    BY <1>3, <1>4, <2>1, NthEnds
<1>6. PICK r \in C : len(r) = Nth(T, 1)
  BY <1>5 DEF T
<1>7. ASSUME NEW s \in C PROVE len(r) <= len(s)
  <2>1. len(s) \in Nat /\ len(x) \in Nat /\ len(r) \in Nat /\ len(r) <= len(x)
    BY <1>1, <1>2, <1>3, <1>5, <1>6
  <2>2. len(s) <= len(x) => len(s) \in T
    BY <2>1 DEF T
  <2> QED
    BY <1>5, <1>6, <2>1, <2>2
<1> QED
  BY <1>7

\* When the network is quiet, where a path came from there is one with a shorter AS path.
LEMMA QuietNearer ==
    ASSUME Typed, Downhill, Quiet, lost = 0, NEW r, NEW s, <<s, r>> \in Ends,
           NEW n, NEW a \in PathsOf(rib[r], n), a.peer_rid = s
    PROVE  Nearer(s, n, Len(a.as_path))
<1>1. <<s, r>> \in Wires /\ s \in Routers /\ Descends(s, r)
  BY EndFacts, EachDownhill DEF Typed
<1>2. wire[<<s, r>>] = <<>> /\ left[s] = {}
  BY <1>1 DEF Quiet
<1>3. Lasts(s, r, n, a.as_path)
  <2>1. HeldWith(rib[r], s, n, a.as_path)
    BY DEF HeldWith
  <2>2. DOMAIN wire[<<s, r>>] = {}
    BY <1>2
  <2> QED
    BY <2>1, <2>2 DEF Lasts, Revoked
<1> QED
  BY <1>1, <1>2, <1>3 DEF Descends, Unlearns

\* The peer of a path is an origin or the other end of a session.
LEMMA PeerIs ==
    ASSUME net \in Nets, NEW r \in Routers, NEW s \in PeersIn(r)
    PROVE  \/ s \in Routers /\ <<s, r>> \in Ends /\ <<r, s>> \in Ends
           \/ s \in Origins /\ At[s] = r /\ s \notin Routers
<1>1. CASE s \in Peers(r)
  <2>1. s \in Routers
    BY <1>1 DEF Peers
  <2> QED
    BY <1>1, <2>1, EndFacts
<1>2. CASE s \in Origins /\ At[s] = r
  BY <1>2, NetFacts
<1> QED
  BY <1>1, <1>2 DEF PeersIn

\* Of any set of routers with a route, one has a shortest AS path, and sends packets on
\* to a router whose path is shorter still, so not to one of the set.
LEMMA DownhillDoesNotLoop == Typed /\ Downhill => NoForwardingLoop
<1> SUFFICES ASSUME Typed, Downhill, Quiet, lost = 0,
                    NEW n \in Nlris, NEW C \in SUBSET Routers, C # {},
                    \A r \in C : n \in DOMAIN rib[r]
             PROVE  \E r \in C : NextRouter(r, n) \notin C
  BY DEF NoForwardingLoop
<1>1. PICK r \in C : \A s \in C : rib[r][n][1].path_len <= rib[s][n][1].path_len
  BY ShortestOf
<1>2. PICK a : a = rib[r][n][1]
  OBVIOUS
<1>3. PICK s : s = a.peer_rid
  OBVIOUS
<1> SUFFICES ASSUME s \in C PROVE FALSE
  BY <1>2, <1>3 DEF NextRouter
<1>4. /\ a \in PathsOf(rib[r], n) /\ PathOK(r, a) /\ a.path_len = Len(a.as_path)
      /\ a.path_len \in Nat /\ rib[s][n][1].path_len \in Nat
  BY <1>2, BestIs
<1>5. <<s, r>> \in Ends
  BY <1>3, <1>4, PeerIs DEF PathOK, Typed
<1>6. Nearer(s, n, a.path_len)
  BY <1>3, <1>4, <1>5, QuietNearer
<1> QED
  BY <1>1, <1>2, <1>4, <1>6 DEF Nearer

\* Between ASes, once the network is quiet and as long as no connection broke, the
\* first paths of the speakers' tables lead a packet out of any set of them: no packet
\* circles.
THEOREM PacketsDoNotCircle ==
    ASSUME Unmixed, External
    PROVE  Spec => []NoForwardingLoop
<1>1. Unmixed /\ External
  OBVIOUS
<1> DEFINE IInv == Typed /\ Answering /\ NoneLate /\ WaysOK /\ Clean /\ Downhill
<1>2. Init => IInv
  BY <1>1, TypedInit, AnsweringInit, NoneLateInit, WaysInit, CleanInit, DownhillInit
<1>3. IInv /\ [Next]_vars => IInv'
  BY <1>1, TypedNext, AnsweringNext, NoneLateNext, WaysNext, CleanNext, DownhillNext
<1>4. IInv => NoForwardingLoop
  BY <1>1, DownhillDoesNotLoop
<1> QED
  BY <1>2, <1>3, <1>4, PTL DEF Spec

-----------------------------------------------------------------------------
(* What a quiet network has is what is announced                           *)

\* No two speakers share an AS, and no origin's paths name the AS of one.
OneSpeakerPerAs ==
    \A x \in Nets : \A r, s \in x.routers : r # s => x.asn[r] # x.asn[s]
ForeignTails ==
    \A x \in Nets : \A o \in x.origins, r \in x.routers :
        x.asn[o] # x.asn[r] /\ \A tail \in x.tails : x.asn[r] \notin Elems(tail)

\* A session leads out of any set of speakers but that of all.
Connected ==
    \A x \in Nets : \A C \in SUBSET x.routers :
        C # {} /\ C # x.routers => \E r \in C, s \in x.routers \ C : {r, s} \in x.links

\* A connection that broke stays down.
BreaksShow == lost = 0 \/ \E e \in Ends : state[e] = "Idle"

\* No speaker is in the AS path.
Foreign(p) == \A r \in Routers : Asn[r] \notin Elems(p)

\* What the router of x hears of it comes from elsewhere, and what x announces it hears.
OriginHeard(x) ==
    \A n \in Nlris :
        /\ \A p : Lasts(x, At[x], n, p) => Foreign(p)
        /\ announced[x][n] # None => \E p : Lasts(x, At[x], n, p)
OriginsHeard == \A x \in Origins : OriginHeard(x)

\* Speakers of different ASes have external sessions.
LEMMA SpeakersDiffer == OneSpeakerPerAs => External
<1> SUFFICES ASSUME OneSpeakerPerAs, NEW x \in Nets, NEW r, NEW s,
                    {r, s} \in x.links, r # s
             PROVE  x.asn[r] # x.asn[s]
  BY DEF External
<1>1. {r, s} \subseteq x.routers
  BY NetworkAssumption DEF NetworkAssumption
<1> QED
  BY <1>1 DEF OneSpeakerPerAs

\* A step that breaks nothing wakes no end that was broken.
LEMMA BreaksShowNext == Typed /\ Downhill /\ BreaksShow /\ [Next]_vars => BreaksShow'
<1> SUFFICES ASSUME Typed, Downhill, BreaksShow, [Next]_vars PROVE BreaksShow'
  OBVIOUS
<1>1. ASSUME net' = net, lost' = lost, \A e \in Ends : state[e] = "Idle" => state'[e] = "Idle"
      PROVE  BreaksShow'
  BY <1>1, NetFixed DEF BreaksShow
<1>2. CASE UNCHANGED vars
  BY <1>1, <1>2 DEF vars
<1>3. ASSUME net' = net, NEW r, NEW s, <<s, r>> \in Wires, Process(r, s) PROVE BreaksShow'
  BY <1>1, <1>3, ProcessHandles DEF Handles
<1>4. ASSUME net' = net, NEW r, NEW s, <<r, s>> \in Ends, Report(r, s) PROVE BreaksShow'
  BY <1>1, <1>4, ReportRelates DEF Relates
<1>5. ASSUME net' = net, NEW r, NEW s, <<r, s>> \in Ends, Session(r, s) PROVE BreaksShow'
  <2>1. Takes(r, s) \/ (\E q : Nudges(r, s, q)) \/ \E q : Greets(r, s, q)
    BY <1>5, KeepaliveGreets, DropTakes, TimerNudges DEF Session
  <2>2. CASE Takes(r, s) \/ \E q : Nudges(r, s, q)
    BY <1>1, <1>5, <2>2 DEF Takes, Nudges
  <2>3. ASSUME NEW q, Greets(r, s, q) PROVE BreaksShow'
    <3>1. \A e \in Ends : state[e] = "Idle" => state'[e] = "Idle"
      BY <2>3 DEF Greets, Typed, StatesOK
    <3> QED
      BY <1>1, <1>5, <2>3, <3>1 DEF Greets
  <2> QED
    BY <2>1, <2>2, <2>3
<1>6. ASSUME net' = net, NEW r, NEW s, <<r, s>> \in Ends, Break(r, s) PROVE BreaksShow'
  <2>1. PICK p, q : Breaks(r, s, p, q)
    BY <1>6, BreakBreaks
  <2>2. <<s, r>> \in Ends
    BY <1>6, EndFacts DEF Typed
  <2>3. state'[<<r, s>>] = "Idle"
    BY <1>6, <2>1, <2>2 DEF Breaks, Typed, StatesOK
  <2> QED
    BY <1>6, <2>3, NetFixed DEF BreaksShow
<1>7. ASSUME net' = net, Originate PROVE BreaksShow'
  BY <1>1, <1>7, OriginateEmits DEF Emits
<1>8. CASE Next
  BY <1>3, <1>4, <1>5, <1>6, <1>7, <1>8, Steps DEF Typed
<1> QED
  BY <1>2, <1>8

\* OriginHeard in the next state, path by path.
LEMMA HeardNext ==
    ASSUME net' = net, NEW x \in Origins, NEW b, b = At[x],
           \A n \in Nlris :
               /\ \A p : Lasts(x, b, n, p)' => Foreign(p)
               /\ announced'[x][n] # None => \E p : Lasts(x, b, n, p)'
    PROVE  OriginHeard(x)'
<1>1. At'[x] = b
  BY NetFixed
<1>2. \A n, p : Lasts(x, At[x], n, p)' <=> Lasts(x, b, n, p)'
  BY <1>1 DEF Lasts
<1>3. \A p : Foreign(p)' <=> Foreign(p)
  BY NetFixed DEF Foreign
<1> QED
  BY <1>2, <1>3 DEF OriginHeard

\* It stays true where nothing comes or goes.
LEMMA HeardStays ==
    ASSUME net' = net, NEW x \in Origins, OriginHeard(x), announced'[x] = announced[x],
           NEW b, b = At[x], wire'[<<x, b>>] = wire[<<x, b>>], rib'[b] = rib[b]
    PROVE  OriginHeard(x)'
<1>1. \A n, p : Lasts(x, b, n, p)' <=> Lasts(x, b, n, p)
  BY LastsStays
<1>2. \A n \in Nlris :
        /\ \A p : Lasts(x, b, n, p) => Foreign(p)
        /\ announced[x][n] # None => \E p : Lasts(x, b, n, p)
  BY DEF OriginHeard
<1> QED
  BY <1>1, <1>2, HeardNext

\* A speaker accepts what comes from elsewhere.
LEMMA HeardProcess ==
    ASSUME Typed, Clean, net' = net, NEW r, NEW s, <<s, r>> \in Wires, Process(r, s),
           NEW x \in Origins, OriginHeard(x)
    PROVE  OriginHeard(x)'
<1>1. PICK m, t, u, c : Handles(r, s, m, t, u, c)
  BY ProcessHandles
<1>2. PICK b : b = At[x]
  OBVIOUS
<1>3. <<x, b>> \in Wires /\ b \in Routers
  BY <1>2, OriginWire DEF Typed
<1>4. ASSUME NEW n \in Nlris
      PROVE  /\ \A p : Lasts(x, b, n, p)' => Foreign(p)
             /\ announced'[x][n] # None => \E p : Lasts(x, b, n, p)'
  <2>1. /\ \A p : Lasts(x, b, n, p) => Foreign(p)
        /\ announced[x][n] # None => \E p : Lasts(x, b, n, p)
    BY <1>2 DEF OriginHeard
  <2>2. \A p : /\ Lasts(x, b, n, p)' => Lasts(x, b, n, p)
               /\ Lasts(x, b, n, p) /\ Asn[b] \notin Elems(p) => Lasts(x, b, n, p)'
    BY <1>1, <1>3, LastsProcessed
  <2>3. \A p : Lasts(x, b, n, p) => Asn[b] \notin Elems(p)
    BY <1>3, <2>1 DEF Foreign
  <2>4. announced' = announced
    BY <1>1 DEF Handles
  <2> QED
    BY <2>1, <2>2, <2>3, <2>4
<1> QED
  BY <1>2, <1>4, HeardNext

\* What an origin sends comes from elsewhere.
LEMMA HeardOriginate ==
    ASSUME ForeignTails, Typed, net' = net, Originate, NEW x \in Origins, OriginHeard(x)
    PROVE  OriginHeard(x)'
<1>1. PICK y \in Origins : \E m, now : Emits(y, m, now)
  BY OriginateEmits
<1>2. PICK m, now : Emits(y, m, now)
  BY <1>1
<1>3. PICK b : b = At[x]
  OBVIOUS
<1>4. <<x, b>> \in Wires /\ net \in Nets /\ rib' = rib
  BY <1>2, <1>3, OriginWire DEF Typed, Emits
<1>5. CASE x # y
  <2>1. wire'[<<x, b>>] = wire[<<x, b>>] /\ announced'[x] = announced[x]
    BY <1>2, <1>4, <1>5, OriginateChanges DEF Emits, Typed, OriginsOK
  <2> QED
    BY <1>3, <1>4, <2>1, HeardStays
<1>6. CASE x = y
  <2>1. /\ IsQueue(wire[<<x, b>>]) /\ wire'[<<x, b>>] = Append(wire[<<x, b>>], m)
        /\ announced'[x] = now
    <3>1. announced'[x] = now
      BY <1>2, <1>6 DEF Emits, Typed, OriginsOK
    <3>2. Emits(x, m, now)
      BY <1>2, <1>6
    <3> QED
      BY <1>3, <3>1, <3>2, OriginateChanges
  <2>2. \A n, p : Lasts(x, b, n, p)' <=>
                    /\ ~Retracts(m, n)
                    /\ Lasts(x, b, n, p) \/ (Announces(m, n) /\ m.as_path = p)
    BY <1>4, <2>1, LastsTold
  <2>3. ASSUME NEW n, Announces(m, n) PROVE Foreign(m.as_path)
    <3>1. PICK tail \in Tails : Elems(m.as_path) = {Asn[x]} \cup Elems(tail)
      BY <1>2, <1>6, <2>3 DEF Emits, Announces
    <3>2. \A r \in Routers : Asn[x] # Asn[r] /\ Asn[r] \notin Elems(tail)
      BY <1>4 DEF ForeignTails, Origins, Routers, Asn, Tails
    <3> QED
      BY <3>1, <3>2 DEF Foreign
  <2>4. ASSUME NEW n \in Nlris
        PROVE  /\ \A p : Lasts(x, b, n, p)' => Foreign(p)
               /\ announced'[x][n] # None => \E p : Lasts(x, b, n, p)'
    <3>1. /\ \A p : Lasts(x, b, n, p) => Foreign(p)
          /\ announced[x][n] # None => \E p : Lasts(x, b, n, p)
      BY <1>3 DEF OriginHeard
    <3>2. \/ now[n] # None /\ Announces(m, n) /\ ~Retracts(m, n)
          \/ now[n] = None
          \/ now[n] = announced[x][n] /\ ~Retracts(m, n)
      BY <1>2, <1>6 DEF Emits
    <3> QED
      BY <2>1, <2>2, <2>3, <3>1, <3>2
  <2> QED
    BY <1>3, <2>4, HeardNext
<1> QED
  BY <1>5, <1>6

\* Every step keeps what the origins' routers hear.
LEMMA HeardByAll ==
    ASSUME ForeignTails
    PROVE  Typed /\ Clean /\ OriginsHeard /\ [Next]_vars => OriginsHeard'
<1> SUFFICES ASSUME Typed, Clean, OriginsHeard, [Next]_vars PROVE OriginsHeard'
  OBVIOUS
<1>1. ASSUME net' = net, rib' = rib, announced' = announced,
             \A x, b : x \in Origins /\ <<x, b>> \in Wires =>
                 wire'[<<x, b>>] = wire[<<x, b>>]
      PROVE  OriginsHeard'
  <2>1. ASSUME NEW x \in Origins PROVE OriginHeard(x)'
    <3>1. PICK b : b = At[x]
      OBVIOUS
    <3>2. <<x, b>> \in Wires /\ OriginHeard(x)
      BY <3>1, OriginWire DEF Typed, OriginsHeard
    <3>3. wire'[<<x, b>>] = wire[<<x, b>>]
      BY <1>1, <3>2
    <3> QED
      BY <1>1, <3>1, <3>2, <3>3, HeardStays
  <2> QED
    BY <1>1, <2>1, NetFixed DEF OriginsHeard
<1>2. CASE UNCHANGED vars
  BY <1>1, <1>2 DEF vars
<1>3. ASSUME net' = net, NEW r, NEW s, <<s, r>> \in Wires, Process(r, s) PROVE OriginsHeard'
  <2>1. \A x \in Origins : OriginHeard(x)'
    BY <1>3, HeardProcess DEF OriginsHeard
  <2> QED
    BY <1>3, <2>1, NetFixed DEF OriginsHeard
<1>4. ASSUME NEW r, NEW s, <<r, s>> \in Ends
      PROVE  \A x \in Origins : x # r /\ x # s
  BY <1>4, EndFacts, OriginWire DEF Typed
<1>5. ASSUME net' = net, NEW r, NEW s, <<r, s>> \in Ends, Report(r, s) PROVE OriginsHeard'
  <2>1. PICK q : Relates(r, s, q)
    BY <1>5, ReportRelates
  <2>2. /\ rib' = rib
        /\ \A a, b : <<a, b>> \in Wires /\ ~(a = r /\ b = s) =>
             wire'[<<a, b>>] = wire[<<a, b>>]
    BY <1>5, <2>1, ReportChanges
  <2>3. announced' = announced
    BY <2>1 DEF Relates
  <2> QED
    BY <1>1, <1>4, <1>5, <2>2, <2>3
<1>6. ASSUME net' = net, NEW r, NEW s, <<r, s>> \in Ends,
             NEW p, NEW q, Greets(r, s, q) \/ Takes(r, s) \/ Nudges(r, s, q) \/ Breaks(r, s, p, q)
      PROVE  OriginsHeard'
  <2>1. Talk(r, s)
    BY <1>6, SessionChanges
  <2>2. \A x, b : x \in Origins => {x, b} # {r, s}
    BY <1>4, <1>6
  <2>3. announced' = announced
    BY <1>6 DEF Greets, Takes, Nudges, Breaks
  <2> QED
    BY <1>1, <1>6, <2>1, <2>2, <2>3 DEF Talk
<1>7. ASSUME net' = net, Originate PROVE OriginsHeard'
  <2>1. \A x \in Origins : OriginHeard(x)'
    BY <1>7, HeardOriginate DEF OriginsHeard
  <2> QED
    BY <1>7, <2>1, NetFixed DEF OriginsHeard
<1>8. CASE Next
  BY <1>3, <1>5, <1>6, <1>7, <1>8, Steps, KeepaliveGreets, DropTakes, TimerNudges,
     BreakBreaks DEF Session, Typed
<1> QED
  BY <1>2, <1>8

\* Initially nothing is announced.
LEMMA HeardInit == Init => OriginsHeard /\ BreaksShow
<1> SUFFICES ASSUME Init PROVE OriginsHeard /\ BreaksShow
  OBVIOUS
<1>1. lost = 0 /\ net \in Nets
  BY DEF Init
<1>2. ASSUME NEW x \in Origins, NEW n \in Nlris
      PROVE  announced[x][n] = None /\ \A p : ~Lasts(x, At[x], n, p)
  <2>1. <<x, At[x]>> \in Wires /\ At[x] \in Routers
    BY <1>1, OriginWire
  <2>2. wire[<<x, At[x]>>] = <<>> /\ rib[At[x]] = NoRoutes /\ announced[x][n] = None
    BY <2>1 DEF Init
  <2>3. DOMAIN wire[<<x, At[x]>>] = {} /\ DOMAIN rib[At[x]] = {}
    BY <2>2 DEF NoRoutes
  <2> QED
    BY <2>2, <2>3 DEF Lasts, HeldWith, PathsOf, Stands
<1> QED
  BY <1>1, <1>2 DEF OriginsHeard, OriginHeard, BreaksShow

\* The network is quiet, whole and up, and everything was said.
Settled ==
    /\ Typed /\ Delivered /\ Downhill /\ OriginsHeard
    /\ Quiet /\ AllUp /\ AllTold /\ lost = 0

\* a is the newest path of p in the table of r, and the best one of p with one AS more.
Follows(a, p, r, n) ==
    /\ a \in PathsOf(rib[r], n) /\ a.peer_rid = p
    /\ Len(a.as_path) = rib[p][n][1].path_len + 1
    /\ Elems(a.as_path) = {Asn[p]} \cup Elems(rib[p][n][1].as_path)
    /\ \A b \in PathsOf(rib[r], n) : b.peer_rid = p => b = a \/ b.recv_time < a.recv_time

\* The best path of p is in the table of a neighbour, the newest of p there, unless it
\* came from that neighbour or through its AS.
LEMMA SettledGoes ==
    ASSUME Settled, External, NEW p, NEW r, <<p, r>> \in Ends, NEW n \in DOMAIN rib[p],
           rib[p][n][1].peer_rid # r, Asn[r] \notin Elems(rib[p][n][1].as_path)
    PROVE  \E a : Follows(a, p, r, n)
<1>1. /\ Typed /\ net \in Nets /\ p \in Routers /\ r \in Routers /\ r \in Peers(p)
      /\ Delivered /\ Quiet /\ InSession(p, r) /\ missed = {} /\ untold = {}
  <2>1. p \in Routers /\ r \in Routers /\ r \in Peers(p)
    BY EndFacts DEF Settled, Typed
  <2> QED
    BY <2>1 DEF Settled, Typed, AllUp, AllTold
<1>2. PICK b : b = rib[p][n][1]
  OBVIOUS
<1>3. PathOK(p, b)
  BY <1>1, <1>2, BestIs
<1>4. ~Ibgp(p, r)
  BY <1>1, AllExternal DEF PeersIn
<1>5. PICK q : q = prepend(p, r, b)
  OBVIOUS
<1>6. Elems(q) = {Asn[p]} \cup Elems(b.as_path)
  <2>1. Asn[p] \in Nat /\ b.as_path \in Seq(Nat)
    BY <1>1, <1>3, NetFacts DEF PathOK
  <2>2. PICK y \in Nat, z \in Seq(Nat) : y = Asn[p] /\ z = b.as_path
    BY <2>1
  <2>3. q = <<y>> \o z
    BY <1>4, <1>5, <2>2 DEF prepend
  <2>4. Elems(q) = {y} \cup Elems(z)
    BY <2>3, Prefixed
  <2> QED
    BY <2>2, <2>4
<1>7. Len(q) = b.path_len + 1
  BY <1>1, <1>3, <1>5, PrependedLen
<1>8. Goes(p, r, b)
  <2>1. Asn[r] # Asn[p]
    BY <1>4 DEF Ibgp
  <2> QED
    BY <1>2, <1>4, <1>5, <1>6, <2>1 DEF Goes, should_send
<1>9. HeldLast(rib[r], p, n, q)
  BY <1>1, <1>2, <1>5, <1>8, QuietHolds
<1> QED
  BY <1>2, <1>6, <1>7, <1>9 DEF HeldLast, Follows

\* Between two paths of the same length from ASes outside the newer one is greater.
LEMMA NewerIsGreater ==
    ASSUME NEW r, NEW a, NEW b, PathOK(r, a), PathOK(r, b),
           ~Ibgp(r, a.peer_rid), ~Ibgp(r, b.peer_rid),
           a.path_len = b.path_len, a.recv_time < b.recv_time
    PROVE  Less(a, b)
<1>1. /\ a.local_pref = 0 /\ a.path_type = 0 /\ a.origin = 0 /\ a.multi_exit_disc = 0
      /\ a.peer_type = 1
      /\ b.local_pref = 0 /\ b.path_type = 0 /\ b.origin = 0 /\ b.multi_exit_disc = 0
      /\ b.peer_type = 1
  BY DEF PathOK, Plain
<1>2. \A i \in 1..6 : Part(a, i) = Part(b, i)
  <2> SUFFICES ASSUME NEW i \in 1..6 PROVE Part(a, i) = Part(b, i)
    OBVIOUS
  <2>1. i = 1 \/ i = 2 \/ i = 3 \/ i = 4 \/ i = 5 \/ i = 6
    OBVIOUS
  <2> QED
    BY <1>1, <2>1 DEF Part
<1>3. Part(a, 7) = a.recv_time /\ Part(b, 7) = b.recv_time
  BY <1>1 DEF Part
<1>4. PartLess(a, b, 7)
  BY <1>3 DEF PartLess
<1>5. 7 \in Keys /\ 1..(7 - 1) = 1..6
  BY DEF Keys
<1> QED
  BY <1>2, <1>4, <1>5 DEF Less

\* The best path of r is that of the speaker p it came from, and one AS longer, unless
\* the path of p led through the AS of r.
LEMMA SettledFollows ==
    ASSUME Settled, External, NEW r \in Routers, NEW n \in DOMAIN rib[r],
           NEW p, p = rib[r][n][1].peer_rid, p \in Routers,
           Nearer(p, n, rib[r][n][1].path_len) => Asn[r] \notin Elems(rib[p][n][1].as_path)
    PROVE  /\ Nearer(p, n, rib[r][n][1].path_len)
           /\ Elems(rib[r][n][1].as_path) = {Asn[p]} \cup Elems(rib[p][n][1].as_path)
<1>1. Typed /\ net \in Nets /\ TableOK(r, rib[r]) /\ Downhill /\ Quiet /\ lost = 0
  BY DEF Settled, Typed, RibsOK
<1>2. PICK b : b = rib[r][n][1]
  OBVIOUS
<1>3. /\ n \in Nlris /\ b \in PathsOf(rib[r], n) /\ PathOK(r, b)
      /\ b.path_len = Len(b.as_path) /\ b.path_len \in Nat
  BY <1>1, <1>2, BestIs
<1>4. <<p, r>> \in Ends /\ <<r, p>> \in Ends /\ p \in PeersIn(r)
  BY <1>1, <1>2, <1>3, PeerIs DEF PathOK
<1>5. Nearer(p, n, b.path_len)
  BY <1>1, <1>2, <1>3, <1>4, QuietNearer
<1>6. PICK c : c = rib[p][n][1]
  OBVIOUS
<1>7. /\ n \in DOMAIN rib[p] /\ c.path_len < b.path_len
      /\ c \in PathsOf(rib[p], n) /\ PathOK(p, c)
      /\ c.path_len = Len(c.as_path) /\ c.path_len \in Nat
  BY <1>1, <1>5, <1>6, BestIs DEF Nearer
<1>8. c.peer_rid # r
  <2> SUFFICES ASSUME c.peer_rid = r PROVE FALSE
    OBVIOUS
  <2>1. Nearer(r, n, c.path_len)
    BY <1>1, <1>4, <1>7, QuietNearer
  <2> QED
    BY <1>2, <1>3, <1>7, <2>1 DEF Nearer
<1>9. Asn[r] \notin Elems(c.as_path)
  BY <1>2, <1>5, <1>6
<1>10. \E a : Follows(a, p, r, n)
  BY <1>4, <1>6, <1>7, <1>8, <1>9, SettledGoes
<1>11. PICK a \in PathsOf(rib[r], n) :
         /\ a.peer_rid = p /\ Len(a.as_path) = c.path_len + 1
         /\ Elems(a.as_path) = {Asn[p]} \cup Elems(c.as_path)
         /\ \A d \in PathsOf(rib[r], n) :
              d.peer_rid = p => d = a \/ d.recv_time < a.recv_time
  BY <1>6, <1>10 DEF Follows
<1>12. PathOK(r, a) /\ a.path_len = c.path_len + 1
  <2>1. PathOK(r, a)
    BY <1>1, <1>3, <1>11 DEF TableOK
  <2> QED
    BY <1>11, <2>1 DEF PathOK, Plain
<1>13. b.path_len = a.path_len
  <2>1. b.path_len <= a.path_len
    BY <1>1, <1>2, <1>11, ShortestFirst
  <2> QED
    BY <1>3, <1>7, <1>12, <2>1
<1>14. ~Less(b, a)
  BY <1>1, <1>2, <1>11, FirstGreatest DEF TableOK
<1>15. b = a
  <2> SUFFICES ASSUME b # a PROVE FALSE
    OBVIOUS
  <2>1. b.recv_time < a.recv_time
    BY <1>2, <1>3, <1>11
  <2>2. ~Ibgp(r, p)
    BY <1>1, <1>4, AllExternal
  <2> QED
    BY <1>2, <1>3, <1>11, <1>12, <1>13, <1>14, <2>1, <2>2, NewerIsGreater
<1> QED
  BY <1>2, <1>5, <1>6, <1>11, <1>15

\* A path from an origin is foreign, and its router has what it announces.
LEMMA SettledOrigins ==
    ASSUME Settled, NEW x \in Origins, NEW r, r = At[x], NEW n \in Nlris
    PROVE  /\ \A a \in PathsOf(rib[r], n) : a.peer_rid = x => Foreign(a.as_path)
           /\ announced[x][n] # None => n \in DOMAIN rib[r]
<1>1. <<x, r>> \in Wires /\ OriginHeard(x)
  BY OriginWire DEF Settled, Typed, OriginsHeard
<1>2. wire[<<x, r>>] = <<>>
  BY <1>1 DEF Settled, Quiet
<1>3. DOMAIN wire[<<x, r>>] = {}
  BY <1>2
<1>4. \A p : Lasts(x, r, n, p) <=> HeldWith(rib[r], x, n, p)
  BY <1>3 DEF Lasts, Revoked, Stands
<1>5. /\ \A p : Lasts(x, r, n, p) => Foreign(p)
      /\ announced[x][n] # None => \E p : Lasts(x, r, n, p)
  BY <1>1 DEF OriginHeard
<1>6. \A p : HeldWith(rib[r], x, n, p) => n \in DOMAIN rib[r]
  BY DEF HeldWith, PathsOf
<1>7. \A a \in PathsOf(rib[r], n) : a.peer_rid = x => HeldWith(rib[r], x, n, a.as_path)
  BY DEF HeldWith
<1> QED
  BY <1>4, <1>5, <1>6, <1>7

\* The speakers whose AS is in the best path of r have the prefix too, and nearer: of the
\* speakers of which that is not so one has a shortest path, and it has that path from one
\* of which it is so.
LEMMA SettledNearer ==
    ASSUME Settled, OneSpeakerPerAs, NEW r \in Routers, NEW n \in DOMAIN rib[r],
           NEW q \in Routers, Asn[q] \in Elems(rib[r][n][1].as_path)
    PROVE  Nearer(q, n, rib[r][n][1].path_len)
<1>0. Typed /\ net \in Nets /\ External
  BY SpeakersDiffer DEF Settled, Typed
<1> DEFINE Good(x) == \A y \in Routers :
               Asn[y] \in Elems(rib[x][n][1].as_path) => Nearer(y, n, rib[x][n][1].path_len)
           Bad == {x \in Routers : n \in DOMAIN rib[x] /\ ~Good(x)}
<1> SUFFICES ASSUME Bad # {} PROVE FALSE
  OBVIOUS
<1>1. PICK x \in Bad : \A y \in Bad : rib[x][n][1].path_len <= rib[y][n][1].path_len
  <2>1. Bad \in SUBSET Routers /\ \A y \in Bad : n \in DOMAIN rib[y]
    OBVIOUS
  <2> HIDE DEF Bad
  <2> QED
    BY <1>0, <2>1, ShortestOf
<1>2. PICK b : b = rib[x][n][1]
  OBVIOUS
<1>3. x \in Routers /\ n \in DOMAIN rib[x]
  OBVIOUS
<1>4. PICK y \in Routers : Asn[y] \in Elems(b.as_path) /\ ~Nearer(y, n, b.path_len)
  BY <1>2
<1>5. /\ n \in Nlris /\ b \in PathsOf(rib[x], n) /\ PathOK(x, b)
      /\ b.path_len \in Nat
  BY <1>0, <1>2, <1>3, BestIs
<1>6. PICK p : p = b.peer_rid
  OBVIOUS
<1>7. p \in Routers
  <2> SUFFICES ASSUME p \in Origins, At[p] = x PROVE FALSE
    BY <1>0, <1>3, <1>5, <1>6, PeerIs DEF PathOK
  <2>1. Foreign(b.as_path)
    BY <1>5, <1>6, SettledOrigins
  <2> QED
    BY <1>4, <2>1 DEF Foreign
<1>8. ASSUME Nearer(p, n, b.path_len) PROVE Good(p)
  <2>1. n \in DOMAIN rib[p] /\ rib[p][n][1].path_len < b.path_len
    BY <1>8 DEF Nearer
  <2>2. rib[p][n][1].path_len \in Nat
    BY <1>0, <1>7, <2>1, BestIs
  <2>3. p \notin Bad
    BY <1>1, <1>2, <1>5, <2>1, <2>2
  <2> QED
    BY <1>7, <2>1, <2>3
<1>9. Nearer(p, n, b.path_len) => Asn[x] \notin Elems(rib[p][n][1].as_path)
  <2> SUFFICES ASSUME Nearer(p, n, b.path_len), Asn[x] \in Elems(rib[p][n][1].as_path)
               PROVE  FALSE
    OBVIOUS
  <2>1. Nearer(x, n, rib[p][n][1].path_len)
    BY <1>3, <1>8
  <2>2. rib[p][n][1].path_len \in Nat
    BY <1>0, <1>7, BestIs DEF Nearer
  <2> QED
    BY <1>2, <1>5, <2>1, <2>2 DEF Nearer
<1>10. /\ Nearer(p, n, b.path_len)
       /\ Elems(b.as_path) = {Asn[p]} \cup Elems(rib[p][n][1].as_path)
  BY <1>0, <1>2, <1>3, <1>6, <1>7, <1>9, SettledFollows
<1>11. Asn[y] = Asn[p] => y = p
  BY <1>0, <1>7 DEF OneSpeakerPerAs, Routers, Asn
<1>12. Nearer(y, n, rib[p][n][1].path_len)
  BY <1>4, <1>8, <1>10, <1>11
<1>13. /\ n \in DOMAIN rib[p] /\ rib[p][n][1].path_len < b.path_len
       /\ n \in DOMAIN rib[y] /\ rib[y][n][1].path_len < rib[p][n][1].path_len
  BY <1>10, <1>12 DEF Nearer
<1>14. rib[p][n][1].path_len \in Nat /\ rib[y][n][1].path_len \in Nat
  BY <1>0, <1>7, <1>13, BestIs
<1> QED
  BY <1>4, <1>5, <1>13, <1>14 DEF Nearer

\* What anyone has is announced: the speakers that have a prefix send it out of their set,
\* and so to an origin, since a speaker outside has nothing to send back.
LEMMA SettledHasNoGhosts ==
    ASSUME Settled, Answering, NEW r \in Routers, NEW n \in Nlris, n \in DOMAIN rib[r]
    PROVE  \E x \in Origins : announced[x][n] # None
<1>0. Typed /\ net \in Nets /\ Quiet /\ lost = 0 /\ NoForwardingLoop /\ NoGhostRoutes
  BY DownhillDoesNotLoop, AnsweringNoGhost DEF Settled, Typed
<1> DEFINE C == {s \in Routers : n \in DOMAIN rib[s]}
<1>1. PICK s \in C : NextRouter(s, n) \notin C
  <2>1. C \in SUBSET Routers /\ C # {} /\ \A s \in C : n \in DOMAIN rib[s]
    OBVIOUS
  <2> HIDE DEF C
  <2> QED
    BY <1>0, <2>1 DEF NoForwardingLoop
<1>2. PICK b : b = rib[s][n][1]
  OBVIOUS
<1>3. PICK p : p = b.peer_rid
  OBVIOUS
<1>4. b \in PathsOf(rib[s], n) /\ PathOK(s, b) /\ p \notin C
  BY <1>0, <1>1, <1>2, <1>3, BestIs DEF NextRouter
<1>5. Has(s, p, n)
  BY <1>3, <1>4, HasHeld DEF HeldIn
<1>6. CASE p \in Routers /\ <<s, p>> \in Ends
  <2>1. InSession(s, p)
    BY <1>6 DEF Settled, AllUp
  <2>2. n \in DOMAIN rib[p]
    BY <1>0, <1>5, <1>6, <2>1 DEF NoGhostRoutes
  <2> QED
    BY <1>4, <1>6, <2>2
<1>7. CASE p \in Origins /\ At[p] = s
  BY <1>0, <1>5, <1>7 DEF NoGhostRoutes
<1> QED
  BY <1>0, <1>1, <1>3, <1>4, <1>6, <1>7, PeerIs DEF PathOK

\* What is announced everyone has: a session leads from the speakers that have it to one
\* that does not, and nothing holds it back there.
LEMMA SettledReachesAll ==
    ASSUME Settled, OneSpeakerPerAs, Connected,
           NEW x \in Origins, NEW n \in Nlris, announced[x][n] # None
    PROVE  \A r \in Routers : n \in DOMAIN rib[r]
<1>0. Typed /\ net \in Nets /\ External /\ Downhill /\ Quiet /\ lost = 0
  BY SpeakersDiffer DEF Settled, Typed
<1> DEFINE C == {s \in Routers : n \in DOMAIN rib[s]}
<1>1. At[x] \in C
  <2>1. At[x] \in Routers
    BY <1>0, OriginWire
  <2>2. n \in DOMAIN rib[At[x]]
    BY SettledOrigins
  <2> QED
    BY <2>1, <2>2
<1> SUFFICES ASSUME C # Routers PROVE FALSE
  OBVIOUS
<1>2. PICK r \in C, s \in Routers \ C : {r, s} \in Links
  <2>1. C \in SUBSET Routers /\ C # {}
    BY <1>1
  <2> HIDE DEF C
  <2> QED
    BY <1>0, <2>1 DEF Connected, Routers, Links
<1>3. /\ r \in Routers /\ s \in Routers /\ n \in DOMAIN rib[r] /\ n \notin DOMAIN rib[s]
  OBVIOUS
<1>4. <<r, s>> \in Ends /\ <<s, r>> \in Ends
  <2>1. s \in Peers(r)
    BY <1>2, <1>3 DEF Peers
  <2> QED
    BY <1>0, <1>3, <2>1, EndFacts
<1>5. rib[r][n][1] \in PathsOf(rib[r], n)
  BY <1>0, <1>3, BestIs
<1>6. rib[r][n][1].peer_rid # s
  BY <1>0, <1>3, <1>4, <1>5, QuietNearer DEF Nearer
<1>7. Asn[s] \notin Elems(rib[r][n][1].as_path)
  BY <1>3, SettledNearer DEF Nearer
<1>8. \E a : Follows(a, r, s, n)
  BY <1>0, <1>3, <1>4, <1>6, <1>7, SettledGoes
<1> QED
  BY <1>3, <1>8 DEF Follows, PathsOf

\* In any connected network of speakers that each have an AS of their own, with any
\* origins elsewhere, and after any announcements, withdrawals and detours: once nothing is
\* on its way, every session is up and nothing was dropped or left unsaid, every speaker
\* has a route to exactly the prefixes that some origin announces.
THEOREM QuietNetworksAreExact ==
    ASSUME Unmixed, OneSpeakerPerAs, ForeignTails, Connected
    PROVE  Spec => []QuietIsExact
<1>1. Unmixed /\ OneSpeakerPerAs /\ ForeignTails /\ Connected /\ External
  BY SpeakersDiffer
<1> DEFINE IInv == /\ Typed /\ Answering /\ NoneLate /\ WaysOK /\ Clean
                   /\ Delivered /\ Downhill /\ BreaksShow /\ OriginsHeard
<1>2. Init => IInv
  BY <1>1, TypedInit, AnsweringInit, NoneLateInit, WaysInit, CleanInit, DeliveredInit,
     DownhillInit, HeardInit
<1>3. IInv /\ [Next]_vars => IInv'
  BY <1>1, TypedNext, AnsweringNext, NoneLateNext, WaysNext, CleanNext, DeliveredNext,
     DownhillNext, BreaksShowNext, HeardByAll
<1>4. IInv => QuietIsExact
  <2> SUFFICES ASSUME IInv, Quiet, AllUp, AllTold PROVE Exact
    BY DEF QuietIsExact
  <2>1. lost = 0
    <3>1. \A e \in Ends : e = <<e[1], e[2]>>
      BY DEF Ends
    <3>2. \A e \in Ends : state[e] = "Established"
      BY <3>1 DEF AllUp, InSession
    <3> QED
      BY <3>2 DEF BreaksShow
  <2>2. Settled /\ Answering
    BY <2>1 DEF Settled
  <2>3. \A r \in Routers, n \in Nlris :
          n \in DOMAIN rib[r] => \E x \in Origins : announced[x][n] # None
    BY <2>2, SettledHasNoGhosts
  <2>4. \A r \in Routers, n \in Nlris :
          (\E x \in Origins : announced[x][n] # None) => n \in DOMAIN rib[r]
    BY <1>1, <2>2, SettledReachesAll
  <2> QED
    BY <2>3, <2>4 DEF Exact
<1> QED
  BY <1>2, <1>3, <1>4, PTL DEF Spec

=============================================================================
