---------------------------- MODULE DaemonProofs ----------------------------
(***************************************************************************)
(* Locks of the daemon, for any number of neighbours, inputs and places in *)
(* a channel: a lock that is held is given back by what its task still     *)
(* does, every task but the FIB manager takes locks in one order, and only *)
(* the two managers wait for each other while no channel is full.          *)
(***************************************************************************)
EXTENDS Daemon, FiniteSetTheorems, FunctionTheorems, SequenceTheorems, TLAPS

-----------------------------------------------------------------------------
(* Scripts that keep to the discipline                                     *)

Payload == Events \cup {"e"}
Instructions ==
    [op : Ops, on : Locks \cup Channels \cup Tasks, arg : States \cup Payload \cup {""}]

\* The locks a task holds before instruction i of s: those it will give back
\* without taking them first.
HeldAt(s, i) ==
    {l \in Locks :
       \E j \in i..Len(s) :
          /\ s[j].op = "unlock" /\ s[j].on = l
          /\ \A k \in i..(j - 1) : ~(s[k].op = "lock" /\ s[k].on = l)}

\* Locks are taken once and given back, a lookup fails with the speaker locked, a
\* task ends with nothing left to do, and sends only events.
Matched(s, i) ==
    LET x == s[i]
    IN /\ x.op \in {"lock", "unlock", "visit", "try", "end"} => x.on \in Locks
       /\ x.op = "lock" => x.on \notin HeldAt(s, i) /\ x.on \in HeldAt(s, i + 1)
       /\ x.op = "unlock" => x.on \notin HeldAt(s, i + 1)
       /\ x.op = "try" => HeldAt(s, i) = {S}
       /\ x.op \in {"send", "tell"} => x.on \in Channels /\ x.arg \in Payload
       /\ x.op = "spawn" => \E n \in Neighbors : x.on = fsm(n)

\* Only the session of a neighbour ends, and only it assigns the state.
Owned(t, s, i) ==
    LET x == s[i]
    IN /\ x.op = "end" => i = Len(s) /\ \E n \in Neighbors : t = fsm(n) /\ x.on = N(n)
       /\ x.op \in {"visit", "unlock"} /\ x.arg # "" =>
             x.arg \in States /\ \E n \in Neighbors : t = fsm(n) /\ x.on = N(n)

\* A lock is waited for with nothing held that comes after it.
Climbs(s, i) ==
    s[i].op \in {"lock", "visit", "end"} =>
        \A l \in HeldAt(s, i) : Rank(l) < Rank(s[i].on)

Good(t, s) ==
    /\ s \in Seq(Instructions)
    /\ \A i \in 1..Len(s) : /\ Matched(s, i) /\ Owned(t, s, i)
                            /\ t # fib_mgr => Climbs(s, i)

-----------------------------------------------------------------------------
(* Locks held, from one instruction to the next                            *)

\* Behind the end of a script nothing is held.
LEMMA HeldBehind ==
    ASSUME NEW s \in Seq(Instructions)
    PROVE  HeldAt(s, Len(s) + 1) = {}
<1>1. Len(s) \in Nat
  BY LenProperties
<1> QED
  BY <1>1 DEF HeldAt

\* What an instruction does to the locks held.
LEMMA HeldNext ==
    ASSUME NEW s \in Seq(Instructions), NEW i \in 1..Len(s)
    PROVE  /\ s[i].op = "lock" => HeldAt(s, i) = HeldAt(s, i + 1) \ {s[i].on}
           /\ s[i].op = "unlock" /\ s[i].on \in Locks =>
                 HeldAt(s, i) = HeldAt(s, i + 1) \cup {s[i].on}
           /\ s[i].op \notin {"lock", "unlock"} => HeldAt(s, i) = HeldAt(s, i + 1)
<1>1. Len(s) \in Nat
  BY LenProperties
<1> DEFINE Takes(k, l) == s[k].op = "lock" /\ s[k].on = l
           Gives(j, l) == s[j].op = "unlock" /\ s[j].on = l
           Free(i0, j, l) == \A k \in i0..(j - 1) : ~Takes(k, l)
<1>2. ASSUME NEW l \in Locks
      PROVE  l \in HeldAt(s, i) <=> Gives(i, l) \/ (l \in HeldAt(s, i + 1) /\ ~Takes(i, l))
  <2>1. \A i0 \in {i, i + 1} :
           l \in HeldAt(s, i0) <=> \E j \in i0..Len(s) : Gives(j, l) /\ Free(i0, j, l)
    BY DEF HeldAt
  <2>2. \A j \in (i + 1)..Len(s) : Free(i, j, l) <=> Free(i + 1, j, l) /\ ~Takes(i, l)
    BY <1>1
  <2>3. Free(i, i, l) /\ i..Len(s) = {i} \cup (i + 1)..Len(s)
    BY <1>1
  <2> HIDE DEF Takes, Gives, Free
  <2>4. ASSUME l \in HeldAt(s, i), ~Gives(i, l)
        PROVE  l \in HeldAt(s, i + 1) /\ ~Takes(i, l)
    BY <2>1, <2>2, <2>3, <2>4
  <2>5. ASSUME l \in HeldAt(s, i + 1), ~Takes(i, l)
        PROVE  l \in HeldAt(s, i)
    BY <2>1, <2>2, <2>3, <2>5
  <2>6. Gives(i, l) => l \in HeldAt(s, i)
    BY <2>1, <2>3
  <2> QED
    BY <2>4, <2>5, <2>6
<1>3. HeldAt(s, i) \subseteq Locks /\ HeldAt(s, i + 1) \subseteq Locks
  BY DEF HeldAt
<1> QED
  BY <1>2, <1>3

\* What is left of a good script is good.
LEMMA GoodTail ==
    ASSUME NEW t, NEW s, Good(t, s), s # <<>>
    PROVE  /\ Good(t, Tail(s))
           /\ HeldAt(Tail(s), 1) = HeldAt(s, 2)
<1>1. /\ s \in Seq(Instructions) /\ Len(s) \in Nat /\ Len(s) >= 1
      /\ Tail(s) \in Seq(Instructions) /\ Len(Tail(s)) = Len(s) - 1
      /\ \A i \in 1..Len(Tail(s)) : Tail(s)[i] = s[i + 1]
  BY LenProperties, EmptySeq, HeadTailProperties DEF Good
<1>2. ASSUME NEW i \in 1..Len(s)
      PROVE  HeldAt(Tail(s), i) = HeldAt(s, i + 1)
  <2>1. ASSUME NEW l \in HeldAt(Tail(s), i)
        PROVE  l \in HeldAt(s, i + 1)
    <3>1. PICK j \in i..Len(Tail(s)) :
             /\ Tail(s)[j].op = "unlock" /\ Tail(s)[j].on = l
             /\ \A k \in i..(j - 1) : ~(Tail(s)[k].op = "lock" /\ Tail(s)[k].on = l)
      BY <2>1 DEF HeldAt
    <3>2. j + 1 \in (i + 1)..Len(s) /\ s[j + 1].op = "unlock" /\ s[j + 1].on = l
      BY <1>1, <3>1
    <3>3. ASSUME NEW k \in (i + 1)..((j + 1) - 1)
          PROVE  ~(s[k].op = "lock" /\ s[k].on = l)
      <4>1. k - 1 \in i..(j - 1) /\ k - 1 \in 1..Len(Tail(s)) /\ (k - 1) + 1 = k
        BY <1>1, <3>1
      <4> QED
        BY <1>1, <3>1, <4>1
    <3> QED
      BY <2>1, <3>2, <3>3 DEF HeldAt
  <2>2. ASSUME NEW l \in HeldAt(s, i + 1)
        PROVE  l \in HeldAt(Tail(s), i)
    <3>1. PICK j \in (i + 1)..Len(s) :
             /\ s[j].op = "unlock" /\ s[j].on = l
             /\ \A k \in (i + 1)..(j - 1) : ~(s[k].op = "lock" /\ s[k].on = l)
      BY <2>2 DEF HeldAt
    <3>2. /\ j - 1 \in i..Len(Tail(s)) /\ Tail(s)[j - 1] = s[(j - 1) + 1] /\ (j - 1) + 1 = j
      BY <1>1, <3>1
    <3>3. ASSUME NEW k \in i..((j - 1) - 1)
          PROVE  ~(Tail(s)[k].op = "lock" /\ Tail(s)[k].on = l)
      <4>1. k + 1 \in (i + 1)..(j - 1) /\ k \in 1..Len(Tail(s))
        BY <1>1, <3>1
      <4> QED
        BY <1>1, <3>1, <4>1
    <3> QED
      BY <2>2, <3>1, <3>2, <3>3 DEF HeldAt
  <2> QED
    BY <2>1, <2>2
<1>3. ASSUME NEW i \in 1..Len(Tail(s))
      PROVE  /\ Matched(Tail(s), i) /\ Owned(t, Tail(s), i)
             /\ t # fib_mgr => Climbs(Tail(s), i)
  <2>1. /\ i + 1 \in 1..Len(s) /\ i \in 1..Len(s) /\ Tail(s)[i] = s[i + 1]
        /\ i + 1 = Len(s) => i = Len(Tail(s))
    <3>1. \A m, k \in Nat : m \in 1..k - 1 =>
             m + 1 \in 1..k /\ m \in 1..k /\ (m + 1 = k => m = k - 1)
      OBVIOUS
    <3>2. i \in Nat /\ Tail(s)[i] = s[i + 1]
      BY <1>1
    <3> QED
      BY <1>1, <3>1, <3>2
  <2>2. HeldAt(Tail(s), i) = HeldAt(s, i + 1) /\ HeldAt(Tail(s), i + 1) = HeldAt(s, (i + 1) + 1)
    BY <1>2, <2>1
  <2>3. Matched(s, i + 1) /\ Owned(t, s, i + 1) /\ (t # fib_mgr => Climbs(s, i + 1))
    BY <2>1 DEF Good
  <2>4. Matched(Tail(s), i)
    BY <2>1, <2>2, <2>3 DEF Matched
  <2>5. Owned(t, Tail(s), i)
    BY <2>1, <2>2, <2>3 DEF Owned
  <2>6. t # fib_mgr => Climbs(Tail(s), i)
    BY <2>1, <2>2, <2>3 DEF Climbs
  <2> QED
    BY <2>4, <2>5, <2>6
<1> QED
  BY <1>1, <1>2, <1>3 DEF Good

\* s is a with b behind it.
Joined(s, a, b) ==
    /\ s \in Seq(Instructions)
    /\ Len(s) = Len(a) + Len(b)
    /\ \A i \in 1..Len(a) : s[i] = a[i]
    /\ \A i \in 1..Len(b) : s[Len(a) + i] = b[i]

Endless(a) == \A i \in 1..Len(a) : a[i].op # "end"

\* A good script after another that holds nothing at its end and does not end the task.
LEMMA GoodJoin ==
    ASSUME NEW t, NEW a, NEW b, NEW s, Joined(s, a, b),
           Good(t, a), Good(t, b), HeldAt(b, 1) = {}, Endless(a)
    PROVE  /\ Good(t, s)
           /\ HeldAt(s, 1) = HeldAt(a, 1)
<1> DEFINE m == Len(a)
           n == Len(b)
<1>2. /\ a \in Seq(Instructions) /\ b \in Seq(Instructions) /\ s \in Seq(Instructions)
      /\ m \in Nat /\ n \in Nat /\ Len(s) = m + n
      /\ \A i \in 1..m : s[i] = a[i]
      /\ \A i \in 1..n : s[m + i] = b[i]
  BY LenProperties DEF Good, Joined
<1> HIDE DEF m, n
<1> DEFINE Takes(q, k, l) == q[k].op = "lock" /\ q[k].on = l
           Gives(q, j, l) == q[j].op = "unlock" /\ q[j].on = l
           Holds(q, i, l) == \E j \in i..Len(q) :
                                Gives(q, j, l) /\ \A k \in i..(j - 1) : ~Takes(q, k, l)
<1>3. \A q, i : HeldAt(q, i) = {l \in Locks : Holds(q, i, l)}
  BY DEF HeldAt
<1>4. ASSUME NEW i \in 1..(n + 1)
      PROVE  HeldAt(s, m + i) = HeldAt(b, i)
  <2>1. ASSUME NEW l, Holds(s, m + i, l)
        PROVE  Holds(b, i, l)
    <3>1. PICK j \in (m + i)..Len(s) :
             Gives(s, j, l) /\ \A k \in (m + i)..(j - 1) : ~Takes(s, k, l)
      BY <2>1
    <3>2. j - m \in i..n /\ j - m \in 1..n /\ m + (j - m) = j
      BY <1>2, <3>1
    <3>3. Gives(b, j - m, l)
      BY <1>2, <3>1, <3>2
    <3>4. ASSUME NEW k \in i..((j - m) - 1)
          PROVE  ~Takes(b, k, l)
      <4>1. m + k \in (m + i)..(j - 1) /\ k \in 1..n
        BY <1>2, <3>1, <3>2
      <4> QED
        BY <1>2, <3>1, <4>1
    <3> QED
      BY <3>2, <3>3, <3>4 DEF n
  <2>2. ASSUME NEW l, Holds(b, i, l)
        PROVE  Holds(s, m + i, l)
    <3>1. PICK j \in i..n : Gives(b, j, l) /\ \A k \in i..(j - 1) : ~Takes(b, k, l)
      BY <2>2 DEF n
    <3>2. m + j \in (m + i)..Len(s) /\ j \in 1..n
      BY <1>2, <3>1
    <3>3. Gives(s, m + j, l)
      BY <1>2, <3>1, <3>2
    <3>4. ASSUME NEW k \in (m + i)..((m + j) - 1)
          PROVE  ~Takes(s, k, l)
      <4>1. k - m \in i..(j - 1) /\ k - m \in 1..n /\ m + (k - m) = k
        BY <1>2, <3>1, <3>2
      <4> QED
        BY <1>2, <3>1, <4>1
    <3> QED
      BY <3>2, <3>3, <3>4
  <2> HIDE DEF Holds
  <2> QED
    BY <1>3, <2>1, <2>2
<1>5. HeldAt(s, m + 1) = {} /\ HeldAt(a, m + 1) = {}
  BY <1>2, <1>4, HeldBehind DEF m
<1>6. ASSUME NEW i \in 1..(m + 1)
      PROVE  HeldAt(s, i) = HeldAt(a, i)
  <2>1. ASSUME NEW l \in Locks, Holds(s, i, l)
        PROVE  Holds(a, i, l)
    <3>1. PICK j \in i..Len(s) : Gives(s, j, l) /\ \A k \in i..(j - 1) : ~Takes(s, k, l)
      BY <2>1
    <3>2. CASE j <= m
      <4>1. j \in i..m /\ j \in 1..m /\ \A k \in i..(j - 1) : k \in 1..m
        BY <1>2, <3>1, <3>2
      <4> QED
        BY <1>2, <3>1, <4>1 DEF m
    <3>3. CASE j > m
      <4>1. j \in (m + 1)..Len(s) /\ \A k \in (m + 1)..(j - 1) : k \in i..(j - 1)
        BY <1>2, <3>1, <3>3
      <4>2. Holds(s, m + 1, l)
        BY <3>1, <4>1
      <4> HIDE DEF Holds
      <4> QED
        BY <1>3, <1>5, <4>2
    <3> QED
      BY <1>2, <3>1, <3>2, <3>3
  <2>2. ASSUME NEW l, Holds(a, i, l)
        PROVE  Holds(s, i, l)
    <3>1. PICK j \in i..m : Gives(a, j, l) /\ \A k \in i..(j - 1) : ~Takes(a, k, l)
      BY <2>2 DEF m
    <3>2. j \in i..Len(s) /\ j \in 1..m /\ \A k \in i..(j - 1) : k \in 1..m
      BY <1>2, <3>1
    <3> QED
      BY <1>2, <3>1, <3>2
  <2> HIDE DEF Holds
  <2> QED
    BY <1>3, <2>1, <2>2
<1>7. ASSUME NEW i \in 1..Len(s)
      PROVE  /\ Matched(s, i) /\ Owned(t, s, i)
             /\ t # fib_mgr => Climbs(s, i)
  <2>1. CASE i \in 1..m
    <3>1. HeldAt(s, i) = HeldAt(a, i) /\ HeldAt(s, i + 1) = HeldAt(a, i + 1) /\ s[i] = a[i]
      BY <1>2, <1>6, <2>1
    <3>2. Matched(a, i) /\ Owned(t, a, i) /\ (t # fib_mgr => Climbs(a, i))
      BY <2>1 DEF Good, m
    <3>3. Matched(s, i)
      BY <3>1, <3>2 DEF Matched
    <3>4. Owned(t, s, i)
      BY <2>1, <3>1, <3>2 DEF Owned, m, Endless
    <3>5. t # fib_mgr => Climbs(s, i)
      BY <3>1, <3>2 DEF Climbs
    <3> QED
      BY <3>3, <3>4, <3>5
  <2>2. CASE i \notin 1..m
    <3>1. PICK j \in 1..n : i = m + j
      <4>1. i - m \in 1..n /\ i = m + (i - m)
        BY <1>2, <2>2
      <4> QED
        BY <4>1
    <3>2. /\ j \in 1..(n + 1) /\ j + 1 \in 1..(n + 1) /\ i + 1 = m + (j + 1)
          /\ i = Len(s) <=> j = n
      BY <1>2, <3>1
    <3>3. HeldAt(s, i) = HeldAt(b, j) /\ HeldAt(s, i + 1) = HeldAt(b, j + 1) /\ s[i] = b[j]
      BY <1>2, <1>4, <3>1, <3>2
    <3>4. Matched(b, j) /\ Owned(t, b, j) /\ (t # fib_mgr => Climbs(b, j))
      BY <3>1 DEF Good, n
    <3>5. Matched(s, i)
      BY <3>3, <3>4 DEF Matched
    <3>6. Owned(t, s, i)
      BY <3>2, <3>3, <3>4 DEF Owned, n
    <3>7. t # fib_mgr => Climbs(s, i)
      BY <3>3, <3>4 DEF Climbs
    <3> QED
      BY <3>5, <3>6, <3>7
  <2> QED
    BY <2>1, <2>2
<1>8. 1 \in 1..(m + 1)
  BY <1>2
<1> QED
  BY <1>2, <1>6, <1>7, <1>8 DEF Good

\* The same of a concatenation.
LEMMA GoodConcat ==
    ASSUME NEW t, NEW a, NEW b, Good(t, a), Good(t, b), HeldAt(b, 1) = {}, Endless(a)
    PROVE  /\ Good(t, a \o b)
           /\ HeldAt(a \o b, 1) = HeldAt(a, 1)
<1>1. PICK s : s = a \o b
  OBVIOUS
<1>2. /\ a \in Seq(Instructions) /\ b \in Seq(Instructions)
  BY DEF Good
<1>3. /\ s \in Seq(Instructions) /\ Len(s) = Len(a) + Len(b)
      /\ \A i \in 1..(Len(a) + Len(b)) :
           s[i] = IF i <= Len(a) THEN a[i] ELSE b[i - Len(a)]
  BY <1>1, <1>2, ConcatProperties
<1>4. Len(a) \in Nat /\ Len(b) \in Nat
  BY <1>2, LenProperties
<1>5. \A i \in 1..Len(a) : s[i] = a[i]
  BY <1>3, <1>4
<1>6. ASSUME NEW i \in 1..Len(b)
      PROVE  s[Len(a) + i] = b[i]
  <2>1. /\ Len(a) + i \in 1..(Len(a) + Len(b)) /\ ~(Len(a) + i <= Len(a))
        /\ (Len(a) + i) - Len(a) = i
    BY <1>4
  <2> QED
    BY <1>3, <2>1
<1>7. Good(t, s) /\ HeldAt(s, 1) = HeldAt(a, 1)
  <2>1. Joined(s, a, b)
    BY <1>3, <1>5, <1>6 DEF Joined
  <2> QED
    BY <2>1, GoodJoin
<1> QED
  BY <1>1, <1>7

\* w is s between Lock(l) and u.
Wrapped(w, l, s, u) ==
    /\ w \in Seq(Instructions)
    /\ Len(w) = Len(s) + 2
    /\ w[1] = Lock(l) /\ w[Len(s) + 2] = u
    /\ \A i \in 1..Len(s) : w[i + 1] = s[i]

\* u gives back l, and assigns the state only if that is for t to do.
Closes(t, l, u) ==
    /\ u.op = "unlock" /\ u.on = l
    /\ u.arg = "" \/ (u.arg \in States /\ \E n \in Neighbors : t = fsm(n) /\ l = N(n))

\* s leaves l alone, and takes only later locks unless it is the FIB manager's.
Inside(t, l, s) ==
    \A i \in 1..Len(s) :
       /\ s[i].op \notin {"try", "end"}
       /\ s[i].op \in {"lock", "unlock"} => s[i].on # l
       /\ s[i].op \in {"lock", "visit"} /\ t # fib_mgr => Rank(l) < Rank(s[i].on)

\* A good script inside a critical section of another lock is good.
LEMMA GoodSection ==
    ASSUME NEW t, NEW s, Good(t, s), HeldAt(s, 1) = {},
           NEW l \in Locks, NEW u, NEW w, Wrapped(w, l, s, u), Closes(t, l, u), Inside(t, l, s)
    PROVE  Good(t, w) /\ HeldAt(w, 1) = {}
<1> DEFINE n == Len(s)
<1>1. /\ s \in Seq(Instructions) /\ w \in Seq(Instructions) /\ n \in Nat /\ Len(w) = n + 2
      /\ w[n + 2] = u /\ \A i \in 1..n : w[i + 1] = s[i]
  BY LenProperties DEF Good, Wrapped
<1>8. w[1].op = "lock" /\ w[1].on = l
  <2>1. Lock(l).op = "lock" /\ Lock(l).on = l
    BY DEF Lock, I
  <2>2. w[1] = Lock(l)
    BY DEF Wrapped
  <2> QED
    BY <2>1, <2>2
<1> HIDE DEF n
<1> DEFINE Takes(q, k, x) == q[k].op = "lock" /\ q[k].on = x
           Gives(q, j, x) == q[j].op = "unlock" /\ q[j].on = x
           Holds(q, i, x) == \E j \in i..Len(q) :
                                Gives(q, j, x) /\ \A k \in i..(j - 1) : ~Takes(q, k, x)
<1>2. \A q, i : HeldAt(q, i) = {x \in Locks : Holds(q, i, x)}
  BY DEF HeldAt
<1>3. ASSUME NEW i \in 1..(n + 1)
      PROVE  HeldAt(w, i + 1) = HeldAt(s, i) \cup {l}
  <2>1. ASSUME NEW x, Holds(w, i + 1, x), x # l
        PROVE  Holds(s, i, x)
    <3>1. PICK j \in (i + 1)..Len(w) :
             Gives(w, j, x) /\ \A k \in (i + 1)..(j - 1) : ~Takes(w, k, x)
      BY <2>1
    <3>2. j # n + 2
      BY <1>1, <2>1, <3>1 DEF Closes
    <3>3. j - 1 \in i..n /\ j - 1 \in 1..n /\ (j - 1) + 1 = j
      BY <1>1, <3>1, <3>2
    <3>4. Gives(s, j - 1, x)
      BY <1>1, <3>1, <3>3
    <3>5. ASSUME NEW k \in i..((j - 1) - 1)
          PROVE  ~Takes(s, k, x)
      <4>1. k + 1 \in (i + 1)..(j - 1) /\ k \in 1..n
        BY <1>1, <3>1, <3>3
      <4> QED
        BY <1>1, <3>1, <4>1
    <3> QED
      BY <3>3, <3>4, <3>5 DEF n
  <2>2. ASSUME NEW x, Holds(s, i, x)
        PROVE  Holds(w, i + 1, x)
    <3>1. PICK j \in i..n : Gives(s, j, x) /\ \A k \in i..(j - 1) : ~Takes(s, k, x)
      BY <2>2 DEF n
    <3>2. j + 1 \in (i + 1)..Len(w) /\ j \in 1..n
      BY <1>1, <3>1
    <3>3. Gives(w, j + 1, x)
      BY <1>1, <3>1, <3>2
    <3>4. ASSUME NEW k \in (i + 1)..((j + 1) - 1)
          PROVE  ~Takes(w, k, x)
      <4>1. k - 1 \in i..(j - 1) /\ k - 1 \in 1..n /\ (k - 1) + 1 = k
        BY <1>1, <3>1, <3>2
      <4> QED
        BY <1>1, <3>1, <4>1
    <3> QED
      BY <3>2, <3>3, <3>4
  <2>3. Holds(w, i + 1, l)
    <3>3. n + 2 \in (i + 1)..Len(w)
      BY <1>1
    <3>1. n + 2 \in (i + 1)..Len(w) /\ Gives(w, n + 2, l)
      BY <1>1, <3>3 DEF Closes
    <3>2. ASSUME NEW k \in (i + 1)..((n + 2) - 1)
          PROVE  ~Takes(w, k, l)
      <4>1. k - 1 \in 1..n /\ (k - 1) + 1 = k
        BY <1>1
      <4>2. ~Takes(s, k - 1, l)
        BY <4>1 DEF n, Inside
      <4> QED
        BY <1>1, <4>1, <4>2
    <3> QED
      BY <3>1, <3>2
  <2> HIDE DEF Holds
  <2> QED
    BY <1>2, <2>1, <2>2, <2>3
<1>4. l \notin HeldAt(s, 1) /\ HeldAt(w, 2) = {l} /\ HeldAt(w, n + 2) = {l}
  <2>1. 1 \in 1..(n + 1) /\ 1 + 1 = 2 /\ n + 1 \in 1..(n + 1) /\ (n + 1) + 1 = n + 2
    BY <1>1
  <2>2. HeldAt(w, 1 + 1) = HeldAt(s, 1) \cup {l}
    BY <1>3, <2>1
  <2>3. HeldAt(w, (n + 1) + 1) = HeldAt(s, n + 1) \cup {l}
    BY <1>3, <2>1
  <2>4. HeldAt(s, n + 1) = {}
    BY <1>1, HeldBehind DEF n
  <2> QED
    BY <2>1, <2>2, <2>3, <2>4
<1>5. HeldAt(w, n + 3) = {}
  <2>1. n + 3 = Len(w) + 1
    BY <1>1
  <2>2. HeldAt(w, Len(w) + 1) = {}
    BY <1>1, HeldBehind
  <2> QED
    BY <2>1, <2>2
<1>6. HeldAt(w, 1) = {}
  <2>1. 1 \in 1..Len(w) /\ 1 + 1 = 2
    BY <1>1
  <2>2. HeldAt(w, 1) = HeldAt(w, 1 + 1) \ {w[1].on}
    BY <1>1, <1>8, <2>1, HeldNext
  <2> QED
    BY <1>4, <1>8, <2>1, <2>2
<1>7. ASSUME NEW i \in 1..Len(w)
      PROVE  /\ Matched(w, i) /\ Owned(t, w, i)
             /\ t # fib_mgr => Climbs(w, i)
  <2>1. CASE i = 1
    <3>2. i + 1 = 2
      BY <2>1
    <3>1. HeldAt(w, i) = {} /\ HeldAt(w, i + 1) = {l}
      BY <1>4, <1>6, <2>1, <3>2
    <3> QED
      BY <1>8, <2>1, <3>1 DEF Matched, Owned, Climbs
  <2>2. CASE i = n + 2
    <3>1. i + 1 = n + 3
      BY <1>1, <2>2
    <3>2. HeldAt(w, i + 1) = {} /\ w[i] = u
      BY <1>1, <1>5, <2>2, <3>1
    <3>3. Matched(w, i)
      BY <3>2 DEF Matched, Closes
    <3>4. Owned(t, w, i)
      BY <3>2 DEF Owned, Closes
    <3>5. Climbs(w, i)
      BY <3>2 DEF Climbs, Closes
    <3> QED
      BY <3>3, <3>4, <3>5
  <2>3. CASE i # 1 /\ i # n + 2
    <3>1. PICK j \in 1..n : i = j + 1
      <4>1. i - 1 \in 1..n /\ i = (i - 1) + 1
        BY <1>1, <2>3
      <4> QED
        BY <4>1
    <3>2. j \in 1..(n + 1) /\ j + 1 \in 1..(n + 1) /\ i + 1 = (j + 1) + 1
      BY <1>1, <3>1
    <3>3. /\ HeldAt(w, i) = HeldAt(s, j) \cup {l}
          /\ HeldAt(w, i + 1) = HeldAt(s, j + 1) \cup {l}
          /\ w[i] = s[j]
      BY <1>1, <1>3, <3>1, <3>2
    <3>4. /\ Matched(s, j) /\ Owned(t, s, j) /\ (t # fib_mgr => Climbs(s, j))
      BY <3>1 DEF Good, n
    <3>5. /\ s[j].op \notin {"try", "end"}
          /\ s[j].op \in {"lock", "unlock"} => s[j].on # l
          /\ s[j].op \in {"lock", "visit"} /\ t # fib_mgr => Rank(l) < Rank(s[j].on)
      BY <3>1 DEF n, Inside
    <3>6. Matched(w, i)
      BY <3>3, <3>4, <3>5 DEF Matched
    <3>7. Owned(t, w, i)
      BY <3>3, <3>4, <3>5 DEF Owned
    <3>8. t # fib_mgr => Climbs(w, i)
      BY <3>3, <3>4, <3>5 DEF Climbs
    <3> QED
      BY <3>6, <3>7, <3>8
  <2> QED
    BY <2>1, <2>2, <2>3
<1> QED
  BY <1>1, <1>6, <1>7 DEF Good

-----------------------------------------------------------------------------
(* The scripts of the handlers                                             *)

\* Locks, channels and tasks are what their names say, and different.
LEMMA Names ==
    ASSUME NEW n \in Neighbors
    PROVE  /\ N(n) \in Locks /\ S \in Locks /\ R \in Locks /\ F \in Locks
           /\ N(n) \notin {S, R, F} /\ S # R /\ S # F /\ R # F
           /\ Rank(N(n)) = 1 /\ Rank(S) = 2 /\ Rank(R) = 3 /\ Rank(F) = 4
           /\ Ev(n) \in Channels /\ RibQ \in Channels /\ FibQ \in Channels
           /\ {fsm(n), connect(n), timer_hold(n), timer_keepalive(n)} \subseteq Tasks
           /\ {rib_mgr, fib_mgr, listen, grpc} \subseteq Tasks
           /\ fib_mgr \notin {fsm(n), connect(n), timer_hold(n), timer_keepalive(n),
                              rib_mgr, listen, grpc}
  BY DEF N, S, R, F, Locks, Rank, Ev, RibQ, FibQ, Channels, fsm, connect, timer_hold,
         timer_keepalive, rib_mgr, fib_mgr, listen, grpc, Tasks

\* The same of the names that belong to no neighbour.
LEMMA GlobalNames ==
    /\ S \in Locks /\ R \in Locks /\ F \in Locks
    /\ S # R /\ S # F /\ R # F
    /\ Rank(S) = 2 /\ Rank(R) = 3 /\ Rank(F) = 4
    /\ RibQ \in Channels /\ FibQ \in Channels
    /\ {rib_mgr, fib_mgr, listen, grpc} \subseteq Tasks
    /\ fib_mgr \notin {rib_mgr, listen, grpc}
  BY DEF S, R, F, Locks, Rank, RibQ, FibQ, Channels, rib_mgr, fib_mgr, listen, grpc, Tasks

\* The names of two neighbours' locks, and of a neighbour in its names.
LEMMA NamesDiffer ==
    ASSUME NEW n \in Neighbors, NEW m \in Neighbors
    PROVE  /\ N(n)[2] = n /\ fsm(n)[2] = n /\ Ev(n)[2] = n
           /\ N(n) = N(m) => n = m
           /\ fsm(n) = fsm(m) => n = m
           /\ Ev(n) = Ev(m) => n = m
           /\ Ev(n) \notin {RibQ, FibQ} /\ RibQ # FibQ
           /\ fsm(n) \notin {connect(m), timer_hold(m), timer_keepalive(m), rib_mgr, fib_mgr,
                             listen, grpc}
  BY DEF N, fsm, Ev, RibQ, FibQ, connect, timer_hold, timer_keepalive, rib_mgr, fib_mgr,
         listen, grpc

\* The parts of the instructions.
LEMMA Parts ==
    ASSUME NEW l
    PROVE  /\ Lock(l).op = "lock" /\ Lock(l).on = l /\ Lock(l).arg = ""
           /\ Unlock(l).op = "unlock" /\ Unlock(l).on = l /\ Unlock(l).arg = ""
           /\ l \in Locks => Lock(l) \in Instructions /\ Unlock(l) \in Instructions
  BY DEF Lock, Unlock, I, Instructions, Ops

\* An instruction that neither takes nor gives back a lock, by itself.
Plain(t, x) ==
    /\ x \in Instructions
    /\ \/ x.op = "visit" /\ x.on \in Locks /\ x.arg = ""
       \/ x.op = "visit" /\ x.arg \in States /\ \E n \in Neighbors : t = fsm(n) /\ x.on = N(n)
       \/ x.op \in {"send", "tell"} /\ x.on \in Channels /\ x.arg \in Payload
       \/ x.op = "spawn" /\ \E n \in Neighbors : x.on = fsm(n)
       \/ x.op = "join"
       \/ x.op = "end" /\ \E n \in Neighbors : t = fsm(n) /\ x.on = N(n)

\* Such an instruction is a good script.
LEMMA GoodSingle ==
    ASSUME NEW t, NEW x, Plain(t, x)
    PROVE  Good(t, <<x>>) /\ HeldAt(<<x>>, 1) = {}
<1>1. PICK s : s = <<x>>
  OBVIOUS
<1>2. s \in Seq(Instructions) /\ Len(s) = 1 /\ s[1] = x
  <2>1. x \in Instructions
    BY DEF Plain
  <2> QED
    BY <1>1, <2>1
<1>3. 1 \in 1..Len(s) /\ 1 + 1 = Len(s) + 1
  BY <1>2
<1>4. HeldAt(s, 1 + 1) = {}
  BY <1>2, <1>3, HeldBehind
<1>5. HeldAt(s, 1) = {}
  <2>1. s[1].op \notin {"lock", "unlock"}
    BY <1>2 DEF Plain
  <2> QED
    BY <1>2, <1>3, <1>4, <2>1, HeldNext
<1>6. Matched(s, 1)
  BY <1>2, <1>4, Names DEF Matched, Plain
<1>7. Owned(t, s, 1)
  BY <1>2 DEF Owned, Plain
<1>8. Climbs(s, 1)
  BY <1>5 DEF Climbs
<1>9. \A i \in 1..Len(s) : i = 1
  BY <1>2
<1> QED
  BY <1>1, <1>2, <1>5, <1>6, <1>7, <1>8, <1>9 DEF Good

\* A good script that begins with no lock held.
Safe(t, s) == Good(t, s) /\ HeldAt(s, 1) = {}

\* Nothing to do.
LEMMA SafeEmpty ==
    ASSUME NEW t
    PROVE  Safe(t, <<>>)
<1>1. PICK s : s = <<>>
  OBVIOUS
<1>2. s \in Seq(Instructions) /\ Len(s) = 0 /\ Len(s) + 1 = 1
  BY <1>1
<1>3. HeldAt(s, Len(s) + 1) = {}
  BY <1>2, HeldBehind
<1> QED
  BY <1>1, <1>2, <1>3 DEF Safe, Good

\* s is x, then b.
Begins(s, x, b) ==
    /\ s \in Seq(Instructions) /\ Len(s) = Len(b) + 1 /\ s[1] = x
    /\ \A i \in 1..Len(b) : s[i + 1] = b[i]

\* One plain instruction in front of a safe script.
LEMMA SafeCons ==
    ASSUME NEW t, NEW x, Plain(t, x), x.op # "end", NEW b, Safe(t, b), NEW s, Begins(s, x, b)
    PROVE  Safe(t, s)
<1>1. PICK a : a = <<x>>
  OBVIOUS
<1>2. Good(t, a) /\ HeldAt(a, 1) = {}
  BY <1>1, GoodSingle
<1>3. Len(a) = 1 /\ a[1] = x /\ \A i \in 1..Len(a) : i = 1
  BY <1>1
<1>4. Joined(s, a, b)
  <2>1. \A i \in 1..Len(b) : Len(a) + i = i + 1
    <3>1. Len(b) \in Nat
      BY LenProperties DEF Good, Safe
    <3> QED
      BY <1>3, <3>1
  <2>2. Len(s) = Len(a) + Len(b)
    <3>1. Len(b) \in Nat
      BY LenProperties DEF Good, Safe
    <3> QED
      BY <1>3, <3>1 DEF Begins
  <2> QED
    BY <1>3, <2>1, <2>2 DEF Begins, Joined
<1>5. Endless(a)
  BY <1>3 DEF Endless
<1> QED
  BY <1>2, <1>4, <1>5, GoodJoin DEF Safe

\* One safe script after another.
LEMMA SafeConcat ==
    ASSUME NEW t, NEW a, NEW b, Safe(t, a), Safe(t, b), Endless(a)
    PROVE  Safe(t, a \o b)
  BY GoodConcat DEF Safe

\* A wait for the hold timer is safe where no lock is held.
LEMMA SafeJoin ==
    ASSUME NEW t, NEW a, NEW b, Safe(t, a), Safe(t, b), Endless(a), NEW s, Joined(s, a, b)
    PROVE  Safe(t, s)
  BY GoodJoin DEF Safe

\* A critical section with one other instruction.
LEMMA SafeSection ==
    ASSUME NEW t, NEW l \in Locks, NEW x, Plain(t, x), x.op \in {"visit", "send", "tell"},
           x.op = "visit" => Rank(l) < Rank(x.on)
    PROVE  Safe(t, <<Lock(l), x, Unlock(l)>>) /\ Endless(<<Lock(l), x, Unlock(l)>>)
<1>1. PICK s : s = <<x>>
  OBVIOUS
<1>2. PICK w : w = <<Lock(l), x, Unlock(l)>>
  OBVIOUS
<1>3. Len(s) = 1 /\ s[1] = x /\ \A i \in 1..Len(s) : i = 1
  BY <1>1
<1>4. Wrapped(w, l, s, Unlock(l))
  <2>1. x \in Instructions /\ Lock(l) \in Instructions /\ Unlock(l) \in Instructions
    BY Parts DEF Plain
  <2>2. w \in Seq(Instructions)
    BY <1>2, <2>1
  <2>3. /\ Len(w) = Len(s) + 2 /\ w[1] = Lock(l) /\ w[Len(s) + 2] = Unlock(l)
        /\ \A i \in 1..Len(s) : w[i + 1] = s[i]
    BY <1>1, <1>2
  <2> QED
    BY <2>2, <2>3 DEF Wrapped
<1>5. Closes(t, l, Unlock(l))
  BY Parts DEF Closes
<1>6. Inside(t, l, s)
  BY <1>3 DEF Inside
<1>7. Endless(w)
  <2>1. \A i \in 1..Len(w) : w[i] = Lock(l) \/ w[i] = x \/ w[i] = Unlock(l)
    BY <1>2
  <2>2. Lock(l).op # "end" /\ Unlock(l).op # "end"
    BY Parts
  <2> QED
    BY <2>1, <2>2 DEF Endless
<1> QED
  BY <1>1, <1>2, <1>4, <1>5, <1>6, <1>7, GoodSingle, GoodSection DEF Safe

\* Two locks, one inside the other; a task other than the FIB manager takes the
\* later one inside.
LEMMA SafeNested ==
    ASSUME NEW t, NEW l \in Locks, NEW k \in Locks, l # k,
           t # fib_mgr => Rank(l) < Rank(k)
    PROVE  /\ Safe(t, <<Lock(l), Lock(k), Unlock(k), Unlock(l)>>)
           /\ Endless(<<Lock(l), Lock(k), Unlock(k), Unlock(l)>>)
<1>0. /\ Lock(l) \in Instructions /\ Unlock(l) \in Instructions
      /\ Lock(k) \in Instructions /\ Unlock(k) \in Instructions
  BY Parts
<1>1. PICK s : s = <<Lock(k), Unlock(k)>>
  OBVIOUS
<1>2. PICK w : w = <<Lock(l), Lock(k), Unlock(k), Unlock(l)>>
  OBVIOUS
<1>3. PICK e : e = <<>>
  OBVIOUS
<1>4. Wrapped(s, k, e, Unlock(k))
  <2>1. s \in Seq(Instructions)
    BY <1>0, <1>1
  <2>2. /\ Len(s) = Len(e) + 2 /\ s[1] = Lock(k) /\ s[Len(e) + 2] = Unlock(k)
        /\ \A i \in 1..Len(e) : s[i + 1] = e[i]
    BY <1>1, <1>3
  <2> QED
    BY <2>1, <2>2 DEF Wrapped
<1>5. Closes(t, k, Unlock(k)) /\ Closes(t, l, Unlock(l))
  BY Parts DEF Closes
<1>6. Inside(t, k, e)
  BY <1>3 DEF Inside
<1>7. Safe(t, s)
  BY <1>3, <1>4, <1>5, <1>6, SafeEmpty, GoodSection DEF Safe
<1>8. Wrapped(w, l, s, Unlock(l))
  <2>1. w \in Seq(Instructions)
    BY <1>0, <1>2
  <2>2. /\ Len(w) = Len(s) + 2 /\ w[1] = Lock(l) /\ w[Len(s) + 2] = Unlock(l)
        /\ \A i \in 1..Len(s) : w[i + 1] = s[i]
    BY <1>1, <1>2
  <2> QED
    BY <2>1, <2>2 DEF Wrapped
<1>9. Inside(t, l, s)
  <2>1. \A i \in 1..Len(s) : (i = 1 /\ s[i] = Lock(k)) \/ (i = 2 /\ s[i] = Unlock(k))
    BY <1>1
  <2>2. Lock(k).op = "lock" /\ Lock(k).on = k /\ Unlock(k).op = "unlock" /\ Unlock(k).on = k
    BY Parts
  <2> QED
    BY <2>1, <2>2 DEF Inside
<1>10. Endless(w)
  <2>1. \A i \in 1..Len(w) : w[i] \in {Lock(l), Lock(k), Unlock(k), Unlock(l)}
    BY <1>2
  <2>2. /\ Lock(l).op # "end" /\ Unlock(l).op # "end"
        /\ Lock(k).op # "end" /\ Unlock(k).op # "end"
    BY Parts
  <2> QED
    BY <2>1, <2>2 DEF Endless
<1> QED
  BY <1>2, <1>5, <1>7, <1>8, <1>9, <1>10, GoodSection DEF Safe

\* The lookup of add_incoming.
LEMMA SafeLookup ==
    ASSUME NEW t, NEW n \in Neighbors
    PROVE  /\ Safe(t, <<Lock(S), TryLock(n), Unlock(S)>>)
           /\ Endless(<<Lock(S), TryLock(n), Unlock(S)>>)
<1>1. PICK s : s = <<Lock(S), TryLock(n), Unlock(S)>>
  OBVIOUS
<1>2. S \in Locks /\ N(n) \in Locks /\ N(n) # S
  BY Names
<1>3. PICK x : x = TryLock(n)
  OBVIOUS
<1>4. x \in Instructions /\ x.op = "try" /\ x.on = N(n) /\ x.arg = ""
  BY <1>2, <1>3 DEF TryLock, I, Instructions, Ops
<1>5. PICK a : a = Lock(S)
  OBVIOUS
<1>6. PICK b : b = Unlock(S)
  OBVIOUS
<1>7. /\ a \in Instructions /\ a.op = "lock" /\ a.on = S /\ a.arg = ""
      /\ b \in Instructions /\ b.op = "unlock" /\ b.on = S /\ b.arg = ""
  BY <1>2, <1>5, <1>6, Parts
<1>8. /\ s \in Seq(Instructions) /\ Len(s) = 3 /\ s[1] = a /\ s[2] = x /\ s[3] = b
      /\ 1 + 1 = 2 /\ 2 + 1 = 3 /\ Len(s) + 1 = 3 + 1
      /\ \A i \in 1..Len(s) : i = 1 \/ i = 2 \/ i = 3
  <2>1. s = <<a, x, b>>
    BY <1>1, <1>3, <1>5, <1>6
  <2>2. a \in Instructions /\ x \in Instructions /\ b \in Instructions
    BY <1>4, <1>7
  <2>3. s \in Seq(Instructions)
    BY <2>1, <2>2
  <2>4. Len(s) = 3 /\ s[1] = a /\ s[2] = x /\ s[3] = b
    BY <2>1
  <2> QED
    BY <2>3, <2>4
<1>9. HeldAt(s, 3 + 1) = {}
  BY <1>8, HeldBehind
<1>10. HeldAt(s, 3) = {S}
  <2>1. 3 \in 1..Len(s)
    BY <1>8
  <2>2. HeldAt(s, 3) = HeldAt(s, 3 + 1) \cup {s[3].on}
    BY <1>2, <1>7, <1>8, <2>1, HeldNext
  <2> QED
    BY <1>7, <1>8, <1>9, <2>2
<1>11. HeldAt(s, 2) = {S}
  <2>1. 2 \in 1..Len(s)
    BY <1>8
  <2>2. HeldAt(s, 2) = HeldAt(s, 2 + 1)
    BY <1>4, <1>8, <2>1, HeldNext
  <2> QED
    BY <1>8, <1>10, <2>2
<1>12. HeldAt(s, 1) = {}
  <2>1. 1 \in 1..Len(s)
    BY <1>8
  <2>2. HeldAt(s, 1) = HeldAt(s, 1 + 1) \ {s[1].on}
    BY <1>7, <1>8, <2>1, HeldNext
  <2> QED
    BY <1>7, <1>8, <1>11, <2>2
<1>13. Matched(s, 1) /\ Owned(t, s, 1) /\ Climbs(s, 1)
  BY <1>2, <1>7, <1>8, <1>11, <1>12 DEF Matched, Owned, Climbs
<1>14. Matched(s, 2) /\ Owned(t, s, 2) /\ Climbs(s, 2)
  BY <1>2, <1>4, <1>8, <1>11 DEF Matched, Owned, Climbs
<1>15. Matched(s, 3) /\ Owned(t, s, 3) /\ Climbs(s, 3)
  BY <1>2, <1>7, <1>8, <1>9 DEF Matched, Owned, Climbs
<1>16. Endless(s)
  BY <1>4, <1>7, <1>8 DEF Endless
<1> QED
  BY <1>1, <1>8, <1>12, <1>13, <1>14, <1>15, <1>16 DEF Safe, Good

-----------------------------------------------------------------------------
(* The loops over all neighbours                                           *)

\* SetToSeq lists neighbours only.
LEMMA NeighborList == AllNeighbors \in Seq(Neighbors)
<1>1. PICK f \in [1..Cardinality(Neighbors) -> Neighbors] : IsInjective(f)
  <2>1. ExistsBijection(1..Cardinality(Neighbors), Neighbors)
    BY DaemonAssumption, FS_CardinalityType
  <2>2. PICK f \in Bijection(1..Cardinality(Neighbors), Neighbors) : TRUE
    BY <2>1 DEF ExistsBijection
  <2> QED
    BY <2>2 DEF Bijection, Injection, IsInjective
<1>2. AllNeighbors \in [1..Cardinality(Neighbors) -> Neighbors]
  BY <1>1 DEF AllNeighbors, SetToSeq
<1>3. Cardinality(Neighbors) \in Nat
  BY DaemonAssumption, FS_CardinalityType
<1> QED
  BY <1>2, <1>3, SeqDef

\* Visiting every neighbour is safe for any task.
LEMMA SafeVisitAll ==
    ASSUME NEW t
    PROVE  Safe(t, VisitAll) /\ Endless(VisitAll)
<1> DEFINE A == AllNeighbors
<1>1. A \in Seq(Neighbors) /\ Len(A) \in Nat /\ DOMAIN A = 1..Len(A)
  BY NeighborList, LenProperties
<1>2. PICK s : s = VisitAll
  OBVIOUS
<1>3. \A i \in 1..Len(A) : A[i] \in Neighbors /\ s[i] = Visit(N(A[i]))
  BY <1>1, <1>2, ElementOfSeq DEF VisitAll
<1>4. ASSUME NEW n \in Neighbors
      PROVE  /\ Visit(N(n)) \in Instructions /\ Visit(N(n)).op = "visit"
             /\ Visit(N(n)).on \in Locks /\ Visit(N(n)).arg = ""
  BY Names DEF Visit, I, Instructions, Ops
<1>5. s \in Seq(Instructions) /\ Len(s) = Len(A)
  <2>1. s = [i \in 1..Len(A) |-> Visit(N(A[i]))]
    BY <1>1, <1>2 DEF VisitAll
  <2>2. \A i \in 1..Len(A) : Visit(N(A[i])) \in Instructions
    BY <1>3, <1>4
  <2>3. s \in [1..Len(A) -> Instructions]
    BY <2>1, <2>2
  <2> QED
    BY <1>1, <2>3, SeqDef, LenProperties
<1>6. ASSUME NEW i \in 1..Len(s)
      PROVE  s[i].op = "visit" /\ s[i].on \in Locks /\ s[i].arg = ""
  <2>1. PICK x : x = Visit(N(A[i]))
    OBVIOUS
  <2>2. x.op = "visit" /\ x.on \in Locks /\ x.arg = ""
    BY <1>3, <1>4, <1>5, <2>1
  <2>3. s[i] = x
    BY <1>3, <1>5, <2>1
  <2> QED
    BY <2>2, <2>3
<1>7. \A i \in 1..(Len(s) + 1) : HeldAt(s, i) = {}
  <2> SUFFICES ASSUME NEW i \in 1..(Len(s) + 1), NEW l \in HeldAt(s, i) PROVE FALSE
    OBVIOUS
  <2>1. PICK j \in i..Len(s) : s[j].op = "unlock"
    BY DEF HeldAt
  <2>2. j \in 1..Len(s)
    BY <1>1, <1>5, <2>1
  <2> QED
    BY <1>6, <2>1, <2>2
<1>8. \A i \in 1..Len(s) : i \in 1..(Len(s) + 1) /\ i + 1 \in 1..(Len(s) + 1)
  BY <1>1, <1>5
<1>9. 1 \in 1..(Len(s) + 1)
  BY <1>1, <1>5
<1>10. HeldAt(s, 1) = {} /\ Endless(s)
  BY <1>6, <1>7, <1>9 DEF Endless
<1>11. ASSUME NEW i \in 1..Len(s)
       PROVE  Matched(s, i) /\ Owned(t, s, i) /\ Climbs(s, i)
  <2>1. HeldAt(s, i) = {} /\ HeldAt(s, i + 1) = {}
    BY <1>7, <1>8
  <2> QED
    BY <1>6, <2>1 DEF Matched, Owned, Climbs
<1> QED
  BY <1>2, <1>5, <1>10, <1>11 DEF Safe, Good

\* So is telling every neighbour.
LEMMA SafeTellAll ==
    ASSUME NEW t
    PROVE  Safe(t, TellAll)
<1> DEFINE A == AllNeighbors
           L == Len(A)
<1>1. A \in Seq(Neighbors) /\ L \in Nat /\ \A i \in 1..L : A[i] \in Neighbors
  BY NeighborList, LenProperties, ElementOfSeq
<1>2. PICK s : s = TellAll
  OBVIOUS
<1> HIDE DEF A, L
<1>3. DOMAIN s = 1..(3 * L)
  BY <1>2 DEF TellAll, A, L
<1>4. ASSUME NEW q \in 0..(L - 1)
      PROVE  /\ A[q + 1] \in Neighbors
             /\ 3 * q + 1 \in 1..(3 * L) /\ 3 * q + 2 \in 1..(3 * L) /\ 3 * q + 3 \in 1..(3 * L)
             /\ s[3 * q + 1] = Lock(N(A[q + 1]))
             /\ s[3 * q + 2] = Tell(A[q + 1])
             /\ s[3 * q + 3] = Unlock(N(A[q + 1]))
  <2>1. q + 1 \in 1..L
    BY <1>1
  <2>2. ASSUME NEW r \in 0..2
        PROVE  /\ 3 * q + (r + 1) \in 1..(3 * L)
               /\ ((3 * q + (r + 1)) - 1) \div 3 = q
               /\ ((3 * q + (r + 1)) - 1) % 3 = r
    BY <1>1
  <2>3. ASSUME NEW r \in 0..2
        PROVE  s[3 * q + (r + 1)]
                 = <<Lock(N(A[q + 1])), Tell(A[q + 1]), Unlock(N(A[q + 1]))>>[1 + r]
    <3>1. s[3 * q + (r + 1)]
            = LET n == A[1 + (((3 * q + (r + 1)) - 1) \div 3)]
              IN <<Lock(N(n)), Tell(n), Unlock(N(n))>>[1 + (((3 * q + (r + 1)) - 1) % 3)]
      BY <1>2, <2>2 DEF TellAll, A, L
    <3>2. 1 + q = q + 1
      OBVIOUS
    <3> QED
      BY <2>2, <3>1, <3>2
  <2>4. /\ 0 \in 0..2 /\ 1 \in 0..2 /\ 2 \in 0..2
        /\ 0 + 1 = 1 /\ 1 + 1 = 2 /\ 2 + 1 = 3 /\ 1 + 0 = 1 /\ 1 + 2 = 3
    OBVIOUS
  <2> QED
    BY <1>1, <2>1, <2>2, <2>3, <2>4
<1>5. ASSUME NEW i \in 1..(3 * L)
      PROVE  \E q \in 0..(L - 1) : i = 3 * q + 1 \/ i = 3 * q + 2 \/ i = 3 * q + 3
  <2>1. /\ (i - 1) \div 3 \in 0..(L - 1)
        /\ \/ i = 3 * ((i - 1) \div 3) + 1
           \/ i = 3 * ((i - 1) \div 3) + 2
           \/ i = 3 * ((i - 1) \div 3) + 3
    BY <1>1
  <2> QED
    BY <2>1
<1>6. ASSUME NEW q \in 0..(L - 1)
      PROVE  /\ s[3 * q + 1] \in Instructions /\ s[3 * q + 1].op = "lock"
             /\ s[3 * q + 1].on = N(A[q + 1]) /\ s[3 * q + 1].arg = ""
             /\ s[3 * q + 2] \in Instructions /\ s[3 * q + 2].op = "tell"
             /\ s[3 * q + 2].on = Ev(A[q + 1]) /\ s[3 * q + 2].arg = "RibUpdate"
             /\ s[3 * q + 3] \in Instructions /\ s[3 * q + 3].op = "unlock"
             /\ s[3 * q + 3].on = N(A[q + 1]) /\ s[3 * q + 3].arg = ""
             /\ N(A[q + 1]) \in Locks /\ Ev(A[q + 1]) \in Channels
  <2>1. N(A[q + 1]) \in Locks /\ Ev(A[q + 1]) \in Channels
    BY <1>4, Names
  <2>2. ASSUME NEW n, Ev(n) \in Channels
        PROVE  /\ Tell(n) \in Instructions /\ Tell(n).op = "tell"
               /\ Tell(n).on = Ev(n) /\ Tell(n).arg = "RibUpdate"
    BY <2>2 DEF Tell, I, Instructions, Ops, Payload, Events
  <2>3. PICK x : x = Lock(N(A[q + 1]))
    OBVIOUS
  <2>4. PICK y : y = Tell(A[q + 1])
    OBVIOUS
  <2>5. PICK z : z = Unlock(N(A[q + 1]))
    OBVIOUS
  <2>6. /\ x \in Instructions /\ x.op = "lock" /\ x.on = N(A[q + 1]) /\ x.arg = ""
        /\ z \in Instructions /\ z.op = "unlock" /\ z.on = N(A[q + 1]) /\ z.arg = ""
    BY <2>1, <2>3, <2>5, Parts
  <2>7. y \in Instructions /\ y.op = "tell" /\ y.on = Ev(A[q + 1]) /\ y.arg = "RibUpdate"
    BY <2>1, <2>2, <2>4
  <2>8. s[3 * q + 1] = x /\ s[3 * q + 2] = y /\ s[3 * q + 3] = z
    BY <1>4, <2>3, <2>4, <2>5
  <2> QED
    BY <2>1, <2>6, <2>7, <2>8
<1>7. s \in Seq(Instructions) /\ Len(s) = 3 * L
  <2>1. \A i \in 1..(3 * L) : s[i] \in Instructions
    BY <1>5, <1>6
  <2>2. s = [i \in 1..(3 * L) |-> s[i]]
    BY <1>2 DEF TellAll, A, L
  <2>3. s \in [1..(3 * L) -> Instructions] /\ 3 * L \in Nat
    BY <1>1, <2>1, <2>2
  <2> QED
    BY <2>3, SeqDef, LenProperties
<1>8. ASSUME NEW q \in 0..L
      PROVE  HeldAt(s, 3 * q + 1) = {}
  <2> SUFFICES ASSUME NEW l \in HeldAt(s, 3 * q + 1) PROVE FALSE
    OBVIOUS
  <2>1. PICK j \in (3 * q + 1)..Len(s) :
           /\ s[j].op = "unlock" /\ s[j].on = l
           /\ \A k \in (3 * q + 1)..(j - 1) : ~(s[k].op = "lock" /\ s[k].on = l)
    BY DEF HeldAt
  <2>2. PICK p \in 0..(L - 1) : j = 3 * p + 1 \/ j = 3 * p + 2 \/ j = 3 * p + 3
    <3>1. j \in 1..(3 * L)
      BY <1>1, <1>7, <2>1
    <3> QED
      BY <1>5, <3>1
  <2>3. j = 3 * p + 3 /\ l = N(A[p + 1])
    BY <1>6, <2>1, <2>2
  <2>4. 3 * p + 1 \in (3 * q + 1)..(j - 1)
    BY <1>1, <1>7, <2>1, <2>3
  <2> QED
    BY <1>6, <2>1, <2>3, <2>4
<1>9. ASSUME NEW q \in 0..(L - 1)
      PROVE  /\ HeldAt(s, 3 * q + 1) = {} /\ HeldAt(s, (3 * q + 3) + 1) = {}
             /\ HeldAt(s, (3 * q + 1) + 1) = {N(A[q + 1])}
             /\ HeldAt(s, 3 * q + 2) = {N(A[q + 1])}
             /\ HeldAt(s, (3 * q + 2) + 1) = {N(A[q + 1])}
             /\ HeldAt(s, 3 * q + 3) = {N(A[q + 1])}
  <2>1. /\ q \in 0..L /\ q + 1 \in 0..L /\ 3 * (q + 1) + 1 = (3 * q + 3) + 1
        /\ (3 * q + 1) + 1 = 3 * q + 2 /\ (3 * q + 2) + 1 = 3 * q + 3
        /\ 3 * q + 2 \in 1..(3 * L) /\ 3 * q + 3 \in 1..(3 * L)
    BY <1>1
  <2>2. HeldAt(s, 3 * q + 1) = {}
    BY <1>8, <2>1
  <2>3. HeldAt(s, (3 * q + 3) + 1) = {}
    <3>1. HeldAt(s, 3 * (q + 1) + 1) = {}
      BY <1>8, <2>1
    <3> QED
      BY <2>1, <3>1
  <2>4. HeldAt(s, 3 * q + 3) = {N(A[q + 1])}
    <3>1. HeldAt(s, 3 * q + 3) = HeldAt(s, (3 * q + 3) + 1) \cup {s[3 * q + 3].on}
      BY <1>6, <1>7, <2>1, HeldNext
    <3> QED
      BY <1>6, <2>3, <3>1
  <2>5. HeldAt(s, 3 * q + 2) = {N(A[q + 1])}
    <3>1. s[3 * q + 2].op = "tell"
      BY <1>6
    <3>2. HeldAt(s, 3 * q + 2) = HeldAt(s, (3 * q + 2) + 1)
      BY <1>7, <2>1, <3>1, HeldNext
    <3> QED
      BY <2>1, <2>4, <3>2
  <2> QED
    BY <2>1, <2>2, <2>3, <2>4, <2>5
<1>10. ASSUME NEW i \in 1..Len(s)
       PROVE  Matched(s, i) /\ Owned(t, s, i) /\ Climbs(s, i)
  <2>1. PICK q \in 0..(L - 1) : i = 3 * q + 1 \/ i = 3 * q + 2 \/ i = 3 * q + 3
    BY <1>5, <1>7
  <2>2. CASE i = 3 * q + 1
    <3>1. /\ s[i].op = "lock" /\ s[i].on = N(A[q + 1]) /\ s[i].arg = "" /\ s[i].on \in Locks
          /\ HeldAt(s, i) = {} /\ HeldAt(s, i + 1) = {N(A[q + 1])}
      BY <1>6, <1>9, <2>2
    <3> QED
      BY <3>1 DEF Matched, Owned, Climbs
  <2>3. CASE i = 3 * q + 2
    <3>1. s[i].op = "tell" /\ s[i].on \in Channels /\ s[i].arg = "RibUpdate"
      BY <1>6, <2>3
    <3> QED
      BY <3>1 DEF Matched, Owned, Climbs, Payload, Events
  <2>4. CASE i = 3 * q + 3
    <3>1. /\ s[i].op = "unlock" /\ s[i].on \in Locks /\ s[i].arg = ""
          /\ HeldAt(s, i + 1) = {}
      BY <1>6, <1>9, <2>4
    <3> QED
      BY <3>1 DEF Matched, Owned, Climbs
  <2> QED
    BY <2>1, <2>2, <2>3, <2>4
<1>11. HeldAt(s, 1) = {}
  <2>1. 0 \in 0..L /\ 3 * 0 + 1 = 1
    BY <1>1
  <2>2. HeldAt(s, 3 * 0 + 1) = {}
    BY <1>8, <2>1
  <2> QED
    BY <2>1, <2>2
<1> QED
  BY <1>2, <1>7, <1>10, <1>11 DEF Safe, Good

-----------------------------------------------------------------------------
(* Each handler's script                                                   *)

\* The plain instructions of the scripts.
LEMMA PlainVisit ==
    ASSUME NEW t, NEW l \in Locks
    PROVE  Plain(t, Visit(l)) /\ Visit(l).op = "visit" /\ Visit(l).on = l
<1>1. PICK x : x = Visit(l)
  OBVIOUS
<1>2. x = [op |-> "visit", on |-> l, arg |-> ""]
  BY <1>1 DEF Visit, I
<1>3. x \in Instructions /\ x.op = "visit" /\ x.on = l /\ x.arg = ""
  BY <1>2 DEF Instructions, Ops
<1> QED
  BY <1>1, <1>3 DEF Plain

\* A visit that assigns attributes.state is plain,
LEMMA PlainBecome ==
    ASSUME NEW n \in Neighbors, NEW s \in States
    PROVE  Plain(fsm(n), Become(n, s)) /\ Become(n, s).op = "visit"
<1>1. PICK x : x = Become(n, s)
  OBVIOUS
<1>2. x = [op |-> "visit", on |-> N(n), arg |-> s]
  BY <1>1 DEF Become, I
<1>3. x \in Instructions /\ x.op = "visit" /\ x.on = N(n) /\ x.arg = s
  BY <1>2, Names DEF Instructions, Ops
<1> QED
  BY <1>1, <1>3 DEF Plain

\* so is a send,
LEMMA PlainSend ==
    ASSUME NEW t, NEW c \in Channels, NEW e \in Payload
    PROVE  Plain(t, Send(c, e)) /\ Send(c, e).op = "send"
<1>1. PICK x : x = Send(c, e)
  OBVIOUS
<1>2. x = [op |-> "send", on |-> c, arg |-> e]
  BY <1>1 DEF Send, I
<1>3. x \in Instructions /\ x.op = "send" /\ x.on = c /\ x.arg = e
  BY <1>2 DEF Instructions, Ops
<1> QED
  BY <1>1, <1>3 DEF Plain

\* and so are the last instructions of connect and fsm_tcp.
LEMMA PlainTask ==
    ASSUME NEW t, NEW n \in Neighbors
    PROVE  /\ Plain(t, Join(n)) /\ Join(n).op = "join"
           /\ Plain(t, Spawn(n)) /\ Spawn(n).op = "spawn"
           /\ Plain(fsm(n), I("end", N(n), ""))
<1>1. PICK x : x = Join(n)
  OBVIOUS
<1>2. PICK y : y = Spawn(n)
  OBVIOUS
<1>3. PICK z : z = I("end", N(n), "")
  OBVIOUS
<1>4. /\ x = [op |-> "join", on |-> timer_hold(n), arg |-> ""]
      /\ y = [op |-> "spawn", on |-> fsm(n), arg |-> ""]
      /\ z = [op |-> "end", on |-> N(n), arg |-> ""]
  BY <1>1, <1>2, <1>3 DEF Join, Spawn, I
<1>5. timer_hold(n) \in Tasks /\ fsm(n) \in Tasks /\ N(n) \in Locks
  BY Names
<1>6. x \in Instructions /\ x.op = "join"
  BY <1>4, <1>5 DEF Instructions, Ops
<1>7. y \in Instructions /\ y.op = "spawn" /\ y.on = fsm(n)
  BY <1>4, <1>5 DEF Instructions, Ops
<1>8. z \in Instructions /\ z.op = "end" /\ z.on = N(n)
  BY <1>4, <1>5 DEF Instructions, Ops
<1> QED
  BY <1>1, <1>2, <1>3, <1>6, <1>7, <1>8 DEF Plain

\* One, two and three plain instructions, and the members of a safe script.
LEMMA SafeOne ==
    ASSUME NEW t, NEW x, Plain(t, x)
    PROVE  Safe(t, <<x>>) /\ (x.op # "end" => Endless(<<x>>))
<1>1. \A i \in 1..Len(<<x>>) : <<x>>[i] = x
  OBVIOUS
<1> QED
  BY <1>1, GoodSingle DEF Safe, Endless

\* Scripts of two such instructions,
LEMMA SafeTwo ==
    ASSUME NEW t, NEW x, NEW y, Plain(t, x), Plain(t, y), x.op # "end"
    PROVE  Safe(t, <<x, y>>) /\ (y.op # "end" => Endless(<<x, y>>))
<1>1. x \in Instructions /\ y \in Instructions
  BY DEF Plain
<1>2. PICK s : s = <<x, y>>
  OBVIOUS
<1>3. PICK b : b = <<y>>
  OBVIOUS
<1>4. Begins(s, x, b)
  <2>1. s \in Seq(Instructions)
    BY <1>1, <1>2
  <2>2. Len(s) = Len(b) + 1 /\ s[1] = x /\ \A i \in 1..Len(b) : s[i + 1] = b[i]
    BY <1>2, <1>3
  <2> QED
    BY <2>1, <2>2 DEF Begins
<1>5. \A i \in 1..Len(s) : s[i] = x \/ s[i] = y
  BY <1>2
<1> QED
  BY <1>2, <1>3, <1>4, <1>5, SafeOne, SafeCons DEF Endless

\* and of three.
LEMMA SafeThree ==
    ASSUME NEW t, NEW x, NEW y, NEW z, Plain(t, x), Plain(t, y), Plain(t, z),
           x.op # "end", y.op # "end"
    PROVE  Safe(t, <<x, y, z>>) /\ (z.op # "end" => Endless(<<x, y, z>>))
<1>1. x \in Instructions /\ y \in Instructions /\ z \in Instructions
  BY DEF Plain
<1>2. PICK s : s = <<x, y, z>>
  OBVIOUS
<1>3. PICK b : b = <<y, z>>
  OBVIOUS
<1>4. Begins(s, x, b)
  <2>1. s \in Seq(Instructions)
    BY <1>1, <1>2
  <2>2. Len(s) = Len(b) + 1 /\ s[1] = x /\ \A i \in 1..Len(b) : s[i + 1] = b[i]
    BY <1>2, <1>3
  <2> QED
    BY <2>1, <2>2 DEF Begins
<1>5. \A i \in 1..Len(s) : s[i] = x \/ s[i] = y \/ s[i] = z
  BY <1>2
<1> QED
  BY <1>2, <1>3, <1>4, <1>5, SafeTwo, SafeCons DEF Endless

\* A script put together from two others does not end the task either.
LEMMA EndlessConcat ==
    ASSUME NEW t, NEW a, NEW b, Safe(t, a), Safe(t, b), Endless(a), Endless(b)
    PROVE  Endless(a \o b)
<1>1. /\ a \in Seq(Instructions) /\ b \in Seq(Instructions)
      /\ Len(a) \in Nat /\ Len(b) \in Nat
  BY LenProperties DEF Safe, Good
<1>2. /\ Len(a \o b) = Len(a) + Len(b)
      /\ \A i \in 1..(Len(a) + Len(b)) :
           (a \o b)[i] = IF i <= Len(a) THEN a[i] ELSE b[i - Len(a)]
  BY <1>1, ConcatProperties
<1>3. ASSUME NEW i \in 1..Len(a \o b)
      PROVE  (a \o b)[i].op # "end"
  <2>1. i \in 1..(Len(a) + Len(b))
    BY <1>2
  <2>2. CASE i <= Len(a)
    <3>1. i \in 1..Len(a) /\ (a \o b)[i] = a[i]
      BY <1>1, <1>2, <2>1, <2>2
    <3> QED
      BY <3>1 DEF Endless
  <2>3. CASE ~(i <= Len(a))
    <3>1. i - Len(a) \in 1..Len(b) /\ (a \o b)[i] = b[i - Len(a)]
      BY <1>1, <1>2, <2>1, <2>3
    <3> QED
      BY <3>1 DEF Endless
  <2> QED
    BY <2>2, <2>3
<1> QED
  BY <1>3 DEF Endless

\* A script that is written out, cut in two.
LEMMA SafeCut ==
    ASSUME NEW t, NEW a, NEW b, NEW s, Safe(t, a), Safe(t, b), Endless(a),
           s = [i \in 1..Len(s) |-> s[i]], Len(s) = Len(a) + Len(b),
           \A i \in 1..Len(a) : s[i] = a[i],
           \A i \in 1..Len(b) : s[Len(a) + i] = b[i]
    PROVE  Safe(t, s) /\ (Endless(b) => Endless(s))
<1>1. /\ a \in Seq(Instructions) /\ b \in Seq(Instructions)
      /\ Len(a) \in Nat /\ Len(b) \in Nat
      /\ \A i \in 1..Len(a) : a[i] \in Instructions
      /\ \A i \in 1..Len(b) : b[i] \in Instructions
  BY LenProperties, ElementOfSeq DEF Safe, Good
<1>2. ASSUME NEW i \in 1..Len(s)
      PROVE  (\E j \in 1..Len(a) : s[i] = a[j]) \/ (\E j \in 1..Len(b) : s[i] = b[j])
  <2>1. CASE i <= Len(a)
    <3>1. i \in 1..Len(a)
      BY <1>1, <2>1
    <3> QED
      BY <3>1
  <2>2. CASE ~(i <= Len(a))
    <3>1. i - Len(a) \in 1..Len(b) /\ Len(a) + (i - Len(a)) = i
      BY <1>1, <2>2
    <3> QED
      BY <3>1
  <2> QED
    BY <2>1, <2>2
<1>3. s \in Seq(Instructions)
  <2>1. \A i \in 1..Len(s) : s[i] \in Instructions
    BY <1>1, <1>2
  <2>2. s \in [1..Len(s) -> Instructions]
    BY <2>1
  <2>3. Len(s) \in Nat
    BY <1>1
  <2> QED
    BY <2>2, <2>3, SeqDef
<1>4. Joined(s, a, b)
  BY <1>3 DEF Joined
<1>5. Endless(b) => Endless(s)
  BY <1>2 DEF Endless
<1> QED
  BY <1>4, <1>5, SafeJoin

\* connect(), whether or not the connection succeeds.
LEMMA SafeConnect ==
    ASSUME NEW n \in Neighbors
    PROVE  Safe(connect(n), Connect(n)) /\ Safe(connect(n), ConnectFails(n))
<1> DEFINE t == connect(n)
<1>1. PICK a : a = <<Lock(N(n)), Lock(S), Unlock(S), Unlock(N(n))>>
  OBVIOUS
<1>2. PICK b : b = <<Visit(N(n)), Spawn(n)>>
  OBVIOUS
<1>3. PICK c : c = <<Visit(N(n))>>
  OBVIOUS
<1>4. Safe(t, a) /\ Endless(a)
  BY <1>1, Names, SafeNested
<1>5. N(n) \in Locks
  BY Names
<1>6. Safe(t, b)
  BY <1>2, <1>5, PlainVisit, PlainTask, SafeTwo
<1>7. Safe(t, c)
  BY <1>3, <1>5, PlainVisit, SafeOne
<1>8. Safe(t, Connect(n))
  <2>1. PICK s : s = Connect(n)
    OBVIOUS
  <2>2. /\ s = [i \in 1..Len(s) |-> s[i]] /\ Len(s) = Len(a) + Len(b)
        /\ \A i \in 1..Len(a) : s[i] = a[i]
        /\ \A i \in 1..Len(b) : s[Len(a) + i] = b[i]
    BY <1>1, <1>2, <2>1 DEF Connect
  <2> QED
    BY <1>4, <1>6, <2>1, <2>2, SafeCut
<1>9. Safe(t, ConnectFails(n))
  <2>1. PICK s : s = ConnectFails(n)
    OBVIOUS
  <2>2. /\ s = [i \in 1..Len(s) |-> s[i]] /\ Len(s) = Len(a) + Len(c)
        /\ \A i \in 1..Len(a) : s[i] = a[i]
        /\ \A i \in 1..Len(c) : s[Len(a) + i] = c[i]
    BY <1>1, <1>3, <2>1 DEF ConnectFails
  <2> QED
    BY <1>4, <1>7, <2>1, <2>2, SafeCut
<1> QED
  BY <1>8, <1>9

\* add_incoming.
LEMMA SafeAddIncoming ==
    ASSUME NEW n \in Neighbors
    PROVE  Safe(listen, AddIncoming(n))
<1>1. PICK a : a = <<Lock(S), TryLock(n), Unlock(S)>>
  OBVIOUS
<1>2. PICK b : b = <<Visit(N(n)), Spawn(n)>>
  OBVIOUS
<1>3. Safe(listen, a) /\ Endless(a)
  BY <1>1, SafeLookup
<1>4. N(n) \in Locks
  BY Names
<1>5. Safe(listen, b)
  BY <1>2, <1>4, PlainVisit, PlainTask, SafeTwo
<1>6. PICK s : s = AddIncoming(n)
  OBVIOUS
<1>7. /\ s = [i \in 1..Len(s) |-> s[i]] /\ Len(s) = Len(a) + Len(b)
      /\ \A i \in 1..Len(a) : s[i] = a[i]
      /\ \A i \in 1..Len(b) : s[Len(a) + i] = b[i]
  BY <1>1, <1>2, <1>6 DEF AddIncoming
<1> QED
  BY <1>3, <1>5, <1>6, <1>7, SafeCut

\* The first and the last of fsm_tcp.
LEMMA SafeFsm ==
    ASSUME NEW n \in Neighbors
    PROVE  Safe(fsm(n), FirstEvent(n)) /\ Safe(fsm(n), Ends(n))
<1>1. N(n) \in Locks /\ S \in Locks /\ "OpenSent" \in States
  BY Names DEF States
<1>2. Safe(fsm(n), <<Visit(N(n)), Visit(S), Become(n, "OpenSent")>>)
  BY <1>1, PlainVisit, PlainBecome, SafeThree
<1>3. Safe(fsm(n), <<Join(n), I("end", N(n), "")>>)
  BY PlainTask, SafeTwo
<1> QED
  BY <1>2, <1>3 DEF FirstEvent, Ends

\* What the loop does with an event, a failed read or a message it only looks at.
LEMMA SafeHandleEvent ==
    ASSUME NEW n \in Neighbors, NEW e
    PROVE  /\ Safe(fsm(n), HandleEvent(n, e))
           /\ Safe(fsm(n), <<Visit(N(n))>> \o Ends(n))
<1>1. N(n) \in Locks
  BY Names
<1>2. Safe(fsm(n), <<Visit(N(n))>>) /\ Endless(<<Visit(N(n))>>)
  <2>1. Plain(fsm(n), Visit(N(n))) /\ Visit(N(n)).op # "end"
    BY <1>1, PlainVisit
  <2> QED
    BY <2>1, SafeOne
<1>3. Safe(fsm(n), Ends(n))
  BY SafeFsm
<1>4. Safe(fsm(n), <<Visit(N(n))>> \o Ends(n))
  BY <1>2, <1>3, SafeConcat
<1> QED
  BY <1>2, <1>3, <1>4 DEF HandleEvent

\* An OPEN, without and with a collision.
LEMMA SafeHandleOpen ==
    ASSUME NEW n \in Neighbors
    PROVE  Safe(fsm(n), HandleOpen(n))
<1> DEFINE t == fsm(n)
<1>1. N(n) \in Locks /\ S \in Locks /\ "OpenConfirm" \in States
  BY Names DEF States
<1>2. PICK a : a = <<Visit(N(n)), Visit(S)>>
  OBVIOUS
<1>3. PICK b : b = <<Become(n, "OpenConfirm")>>
  OBVIOUS
<1>4. Safe(t, a) /\ Endless(a)
  <2>1. /\ Plain(t, Visit(N(n))) /\ Visit(N(n)).op # "end"
        /\ Plain(t, Visit(S)) /\ Visit(S).op # "end"
    BY <1>1, PlainVisit
  <2> QED
    BY <1>2, <2>1, SafeTwo
<1>5. Safe(t, b)
  BY <1>1, <1>3, PlainBecome, SafeOne
<1>6. Safe(t, a \o VisitAll) /\ Endless(a \o VisitAll)
  BY <1>4, SafeVisitAll, SafeConcat, EndlessConcat
<1>7. Safe(t, (a \o VisitAll) \o b)
  BY <1>5, <1>6, SafeConcat
<1> QED
  BY <1>2, <1>3, <1>7 DEF HandleOpen

\* collision_detection holds one neighbour at a time, whichever it finds.
LEMMA SafeHandleOpenCollides ==
    ASSUME NEW n \in Neighbors, NEW m \in Neighbors
    PROVE  Safe(fsm(n), HandleOpenCollides(n, m))
<1> DEFINE t == fsm(n)
<1>1. /\ N(n) \in Locks /\ N(m) \in Locks /\ S \in Locks
      /\ Ev(n) \in Channels /\ Ev(m) \in Channels /\ "other" \in Payload
  BY Names DEF Payload, Events
<1>2. PICK a : a = <<Visit(N(n)), Visit(S)>>
  OBVIOUS
<1>3. PICK b : b = <<Lock(N(m)), Send(Ev(m), "other"), Unlock(N(m))>>
  OBVIOUS
<1>4. PICK c : c = <<Send(Ev(n), "other")>>
  OBVIOUS
<1>5. Safe(t, a) /\ Endless(a)
  <2>1. /\ Plain(t, Visit(N(n))) /\ Visit(N(n)).op # "end"
        /\ Plain(t, Visit(S)) /\ Visit(S).op # "end"
    BY <1>1, PlainVisit
  <2> QED
    BY <1>2, <2>1, SafeTwo
<1>6. Safe(t, b) /\ Endless(b)
  <2>1. Plain(t, Send(Ev(m), "other")) /\ Send(Ev(m), "other").op = "send"
    BY <1>1, PlainSend
  <2> QED
    BY <1>1, <1>3, <2>1, SafeSection
<1>7. Safe(t, c)
  BY <1>1, <1>4, PlainSend, SafeOne
<1>8. PICK d : d = <<Lock(N(m)), Send(Ev(m), "other"), Unlock(N(m)), Send(Ev(n), "other")>>
  OBVIOUS
<1>9. Safe(t, d)
  <2>1. /\ d = [i \in 1..Len(d) |-> d[i]] /\ Len(d) = Len(b) + Len(c)
        /\ \A i \in 1..Len(b) : d[i] = b[i]
        /\ \A i \in 1..Len(c) : d[Len(b) + i] = c[i]
    BY <1>3, <1>4, <1>8
  <2> QED
    BY <1>6, <1>7, <2>1, SafeCut
<1>10. PICK s : s = HandleOpenCollides(n, m)
  OBVIOUS
<1>11. /\ s = [i \in 1..Len(s) |-> s[i]] /\ Len(s) = Len(a) + Len(d)
       /\ \A i \in 1..Len(a) : s[i] = a[i]
       /\ \A i \in 1..Len(d) : s[Len(a) + i] = d[i]
  BY <1>2, <1>8, <1>10 DEF HandleOpenCollides
<1> QED
  BY <1>5, <1>9, <1>10, <1>11, SafeCut

\* The KEEPALIVE that establishes the session: three locks, one inside the other.
LEMMA SafeEstablish ==
    ASSUME NEW n \in Neighbors
    PROVE  Safe(fsm(n), Establish(n))
<1> DEFINE t == fsm(n)
<1>1. /\ N(n) \in Locks /\ S \in Locks /\ R \in Locks /\ Ev(n) \in Channels
      /\ N(n) # S /\ N(n) # R /\ S # R /\ Rank(N(n)) = 1 /\ Rank(S) = 2 /\ Rank(R) = 3
      /\ "RibUpdate" \in Payload /\ "Established" \in States
  BY Names DEF Payload, Events, States
<1>2. PICK x : x = Send(Ev(n), "RibUpdate")
  OBVIOUS
<1>3. Plain(t, x) /\ x.op = "send" /\ x \in Instructions
  BY <1>1, <1>2, PlainSend DEF Plain
<1>4. PICK a : a = <<Lock(R), x, Unlock(R)>>
  OBVIOUS
<1>5. Safe(t, a)
  BY <1>1, <1>3, <1>4, SafeSection
<1>6. PICK b : b = <<Lock(S), Lock(R), x, Unlock(R), Unlock(S)>>
  OBVIOUS
<1>7. /\ Lock(R) \in Instructions /\ Unlock(R) \in Instructions
      /\ Lock(S) \in Instructions /\ Unlock(S) \in Instructions
      /\ Lock(N(n)) \in Instructions
      /\ Lock(R).op = "lock" /\ Lock(R).on = R /\ Unlock(R).op = "unlock" /\ Unlock(R).on = R
      /\ Lock(S).op = "lock" /\ Lock(S).on = S /\ Unlock(S).op = "unlock" /\ Unlock(S).on = S
  BY <1>1, Parts
<1>8. Safe(t, b)
  <2>1. Wrapped(b, S, a, Unlock(S))
    <3>1. b \in Seq(Instructions)
      BY <1>3, <1>6, <1>7
    <3>2. /\ Len(b) = Len(a) + 2 /\ b[1] = Lock(S) /\ b[Len(a) + 2] = Unlock(S)
          /\ \A i \in 1..Len(a) : b[i + 1] = a[i]
      BY <1>4, <1>6
    <3> QED
      BY <3>1, <3>2 DEF Wrapped
  <2>2. Closes(t, S, Unlock(S))
    BY Parts DEF Closes
  <2>3. Inside(t, S, a)
    <3>1. \A i \in 1..Len(a) : a[i] = Lock(R) \/ a[i] = x \/ a[i] = Unlock(R)
      BY <1>4
    <3> QED
      BY <1>1, <1>3, <1>7, <3>1 DEF Inside
  <2> QED
    BY <1>1, <1>5, <2>1, <2>2, <2>3, GoodSection DEF Safe
<1>9. PICK u : u = I("unlock", N(n), "Established")
  OBVIOUS
<1>10. /\ u.op = "unlock" /\ u.on = N(n) /\ u.arg = "Established" /\ u \in Instructions
  BY <1>1, <1>9 DEF I, Instructions, Ops
<1>11. PICK c : c = <<Lock(N(n)), Lock(S), Lock(R), x, Unlock(R), Unlock(S), u>>
  OBVIOUS
<1>12. Safe(t, c)
  <2>1. Wrapped(c, N(n), b, u)
    <3>1. c \in Seq(Instructions)
      BY <1>3, <1>7, <1>10, <1>11
    <3>2. /\ Len(c) = Len(b) + 2 /\ c[1] = Lock(N(n)) /\ c[Len(b) + 2] = u
          /\ \A i \in 1..Len(b) : c[i + 1] = b[i]
      BY <1>6, <1>11
    <3> QED
      BY <3>1, <3>2 DEF Wrapped
  <2>2. Closes(t, N(n), u)
    BY <1>1, <1>10 DEF Closes
  <2>3. Inside(t, N(n), b)
    <3>1. \A i \in 1..Len(b) :
             b[i] = Lock(S) \/ b[i] = Lock(R) \/ b[i] = x \/ b[i] = Unlock(R) \/ b[i] = Unlock(S)
      BY <1>6
    <3> QED
      BY <1>1, <1>3, <1>7, <3>1 DEF Inside
  <2> QED
    BY <1>1, <1>8, <2>1, <2>2, <2>3, GoodSection DEF Safe
<1>13. PICK v : v = <<Visit(N(n))>>
  OBVIOUS
<1>14. Safe(t, v) /\ Endless(v)
  <2>1. Plain(t, Visit(N(n))) /\ Visit(N(n)).op # "end"
    BY <1>1, PlainVisit
  <2> QED
    BY <1>13, <2>1, SafeOne
<1>15. PICK s : s = Establish(n)
  OBVIOUS
<1>16. /\ s = [i \in 1..Len(s) |-> s[i]] /\ Len(s) = Len(v) + Len(c)
       /\ \A i \in 1..Len(v) : s[i] = v[i]
       /\ \A i \in 1..Len(c) : s[Len(v) + i] = c[i]
  BY <1>2, <1>9, <1>11, <1>13, <1>15 DEF Establish
<1> QED
  BY <1>12, <1>14, <1>15, <1>16, SafeCut

\* An UPDATE.
LEMMA SafeHandleUpdate ==
    ASSUME NEW n \in Neighbors
    PROVE  Safe(fsm(n), HandleUpdate(n))
<1> DEFINE t == fsm(n)
<1>1. N(n) \in Locks /\ S \in Locks /\ RibQ \in Channels /\ "e" \in Payload
  BY Names DEF Payload
<1>2. PICK a : a = <<Visit(N(n)), Visit(S), Visit(N(n))>>
  OBVIOUS
<1>3. PICK b : b = <<Lock(N(n)), Send(RibQ, "e"), Unlock(N(n))>>
  OBVIOUS
<1>4. Safe(t, a) /\ Endless(a)
  <2>1. /\ Plain(t, Visit(N(n))) /\ Visit(N(n)).op # "end"
        /\ Plain(t, Visit(S)) /\ Visit(S).op # "end"
    BY <1>1, PlainVisit
  <2> QED
    BY <1>2, <2>1, SafeThree
<1>5. Safe(t, b)
  <2>1. Plain(t, Send(RibQ, "e")) /\ Send(RibQ, "e").op = "send"
    BY <1>1, PlainSend
  <2> QED
    BY <1>1, <1>3, <2>1, SafeSection
<1>6. PICK s : s = HandleUpdate(n)
  OBVIOUS
<1>7. /\ s = [i \in 1..Len(s) |-> s[i]] /\ Len(s) = Len(a) + Len(b)
      /\ \A i \in 1..Len(a) : s[i] = a[i]
      /\ \A i \in 1..Len(b) : s[Len(a) + i] = b[i]
  BY <1>2, <1>3, <1>6 DEF HandleUpdate
<1> QED
  BY <1>4, <1>5, <1>6, <1>7, SafeCut

\* A NOTIFICATION.
LEMMA SafeHandleNotification ==
    ASSUME NEW n \in Neighbors
    PROVE  Safe(fsm(n), HandleNotification(n))
<1> DEFINE t == fsm(n)
<1>1. /\ N(n) \in Locks /\ S \in Locks /\ RibQ \in Channels /\ Ev(n) \in Channels
      /\ {"e", "TcpConnectionFails"} \subseteq Payload /\ "Idle" \in States
  BY Names DEF Payload, Events, States
<1>2. PICK a : a = <<Visit(N(n))>>
  OBVIOUS
<1>3. PICK b : b = <<Lock(S), Send(RibQ, "e"), Unlock(S)>>
  OBVIOUS
<1>4. PICK c : c = <<Become(n, "Idle")>>
  OBVIOUS
<1>5. PICK d : d = <<Lock(N(n)), Send(Ev(n), "TcpConnectionFails"), Unlock(N(n))>>
  OBVIOUS
<1>6. Safe(t, a) /\ Endless(a)
  <2>1. Plain(t, Visit(N(n))) /\ Visit(N(n)).op # "end"
    BY <1>1, PlainVisit
  <2> QED
    BY <1>2, <2>1, SafeOne
<1>7. Safe(t, b) /\ Endless(b)
  <2>1. Plain(t, Send(RibQ, "e")) /\ Send(RibQ, "e").op = "send"
    BY <1>1, PlainSend
  <2> QED
    BY <1>1, <1>3, <2>1, SafeSection
<1>8. Safe(t, c) /\ Endless(c)
  <2>1. Plain(t, Become(n, "Idle")) /\ Become(n, "Idle").op # "end"
    BY <1>1, PlainBecome
  <2> QED
    BY <1>4, <2>1, SafeOne
<1>9. Safe(t, d)
  <2>1. /\ Plain(t, Send(Ev(n), "TcpConnectionFails"))
        /\ Send(Ev(n), "TcpConnectionFails").op = "send"
    BY <1>1, PlainSend
  <2> QED
    BY <1>1, <1>5, <2>1, SafeSection
<1>10. PICK f : f = <<Visit(N(n)), Lock(S), Send(RibQ, "e"), Unlock(S)>>
  OBVIOUS
<1>11. Safe(t, f) /\ Endless(f)
  <2>1. /\ f = [i \in 1..Len(f) |-> f[i]] /\ Len(f) = Len(a) + Len(b)
        /\ \A i \in 1..Len(a) : f[i] = a[i]
        /\ \A i \in 1..Len(b) : f[Len(a) + i] = b[i]
    BY <1>2, <1>3, <1>10
  <2> QED
    BY <1>6, <1>7, <2>1, SafeCut
<1>12. PICK g : g = <<Become(n, "Idle"), Lock(N(n)), Send(Ev(n), "TcpConnectionFails"),
                      Unlock(N(n))>>
  OBVIOUS
<1>13. Safe(t, g)
  <2>1. /\ g = [i \in 1..Len(g) |-> g[i]] /\ Len(g) = Len(c) + Len(d)
        /\ \A i \in 1..Len(c) : g[i] = c[i]
        /\ \A i \in 1..Len(d) : g[Len(c) + i] = d[i]
    BY <1>4, <1>5, <1>12
  <2> QED
    BY <1>8, <1>9, <2>1, SafeCut
<1>14. PICK s : s = HandleNotification(n)
  OBVIOUS
<1>15. /\ s = [i \in 1..Len(s) |-> s[i]] /\ Len(s) = Len(f) + Len(g)
       /\ \A i \in 1..Len(f) : s[i] = f[i]
       /\ \A i \in 1..Len(g) : s[Len(f) + i] = g[i]
  BY <1>10, <1>12, <1>14 DEF HandleNotification
<1> QED
  BY <1>11, <1>13, <1>14, <1>15, SafeCut

\* The timers.
LEMMA SafeTimers ==
    ASSUME NEW n \in Neighbors
    PROVE  Safe(timer_hold(n), HoldExpires(n)) /\ Safe(timer_keepalive(n), KeepaliveTick(n))
<1>1. N(n) \in Locks /\ Ev(n) \in Channels /\ "other" \in Payload
  BY Names DEF Payload, Events
<1>2. ASSUME NEW t
      PROVE  /\ Plain(t, Visit(N(n))) /\ Visit(N(n)).op # "end"
             /\ Plain(t, Send(Ev(n), "other")) /\ Send(Ev(n), "other").op # "end"
  BY <1>1, PlainVisit, PlainSend
<1>3. Safe(timer_hold(n), <<Send(Ev(n), "other"), Visit(N(n))>>)
  BY <1>2, SafeTwo
<1>4. Safe(timer_keepalive(n), <<Visit(N(n)), Send(Ev(n), "other")>>)
  BY <1>2, SafeTwo
<1> QED
  BY <1>3, <1>4 DEF HoldExpires, KeepaliveTick

\* The two managers.
LEMMA SafeManagers ==
    /\ Safe(rib_mgr, RibQuiet) /\ Safe(rib_mgr, RibReports)
    /\ Safe(fib_mgr, FibSyncs) /\ Safe(fib_mgr, FibRefreshes)
<1>1. Safe(rib_mgr, RibQuiet) /\ Endless(RibQuiet)
  <2>1. /\ Plain(rib_mgr, Visit(F)) /\ Visit(F).op = "visit" /\ Visit(F).on = F
        /\ R \in Locks /\ Rank(R) < Rank(F)
    BY GlobalNames, PlainVisit
  <2> QED
    BY <2>1, SafeSection DEF RibQuiet
<1>2. Safe(rib_mgr, <<Send(FibQ, "e")>>) /\ Endless(<<Send(FibQ, "e")>>)
  <2>1. Plain(rib_mgr, Send(FibQ, "e")) /\ Send(FibQ, "e").op # "end"
    BY GlobalNames, PlainSend DEF Payload
  <2> QED
    BY <2>1, SafeOne
<1>3. /\ Safe(rib_mgr, RibQuiet \o <<Send(FibQ, "e")>>)
      /\ Endless(RibQuiet \o <<Send(FibQ, "e")>>)
  BY <1>1, <1>2, SafeConcat, EndlessConcat
<1>4. Safe(rib_mgr, RibReports)
  BY <1>3, SafeTellAll, SafeConcat DEF RibReports
<1>5. Safe(fib_mgr, FibSyncs)
  BY GlobalNames, SafeNested DEF FibSyncs
<1>6. Safe(fib_mgr, FibRefreshes)
  BY GlobalNames, PlainVisit, SafeOne DEF FibRefreshes
<1> QED
  BY <1>1, <1>4, <1>5, <1>6

\* The queries.
LEMMA SafeQueries == Safe(grpc, get_neighbor_config) /\ Safe(grpc, get_rib)
<1>1. Safe(grpc, <<Visit(S)>>) /\ Endless(<<Visit(S)>>)
  <2>1. Plain(grpc, Visit(S)) /\ Visit(S).op # "end"
    BY GlobalNames, PlainVisit
  <2> QED
    BY <2>1, SafeOne
<1>2. Safe(grpc, get_neighbor_config)
  BY <1>1, SafeVisitAll, SafeConcat DEF get_neighbor_config
<1>3. Safe(grpc, get_rib)
  <2>1. /\ Plain(grpc, Visit(R)) /\ Visit(R).op = "visit" /\ Visit(R).on = R
        /\ S \in Locks /\ Rank(S) < Rank(R)
    BY GlobalNames, PlainVisit
  <2> QED
    BY <2>1, SafeSection DEF get_rib
<1> QED
  BY <1>2, <1>3

-----------------------------------------------------------------------------
(* The inductive invariant                                                 *)

\* Every task has the rest of a good script to do.
Scripts ==
    /\ script \in [Tasks -> Seq(Instructions)]
    /\ \A t \in Tasks : Good(t, script[t])

\* A task holds the locks that the rest of its script gives back.
Holders ==
    /\ holder \in [Locks -> Tasks \cup {Nobody}]
    /\ \A t \in Tasks : \A l \in Locks : holder[l] = t <=> l \in HeldAt(script[t], 1)

Queues ==
    /\ chan \in [Channels -> Seq(Payload)]
    /\ \A c \in Channels : Len(chan[c]) <= Cap(c)

\* A neighbour without a session has no task, no event and no state.
Sessions ==
    /\ state \in [Neighbors -> States]
    /\ open \subseteq Neighbors
    /\ \A n \in Neighbors \ open :
         script[fsm(n)] = <<>> /\ chan[Ev(n)] = <<>> /\ state[n] = "Idle"

Inv == Scripts /\ Holders /\ Queues /\ Sessions

\* A channel has a capacity.
LEMMA CapType ==
    ASSUME NEW c \in Channels
    PROVE  Cap(c) \in Nat /\ Cap(c) >= 1
  BY DaemonAssumption DEF Cap

\* Nobody is no task.
LEMMA NobodyIsNoTask == Nobody \notin Tasks
<1>1. ASSUME NEW t \in Tasks
      PROVE  t[1] # ""
  <2>1. CASE t \in {rib_mgr, fib_mgr, listen, grpc}
    <3>1. /\ rib_mgr[1] = "rib_mgr" /\ fib_mgr[1] = "fib_mgr"
          /\ listen[1] = "listen" /\ grpc[1] = "grpc"
      BY DEF rib_mgr, fib_mgr, listen, grpc
    <3>2. rib_mgr[1] # "" /\ fib_mgr[1] # "" /\ listen[1] # "" /\ grpc[1] # ""
      BY <3>1
    <3> QED
      BY <2>1, <3>2
  <2>2. CASE t \notin {rib_mgr, fib_mgr, listen, grpc}
    <3>1. PICK k \in {"fsm", "connect", "timer_hold", "timer_keepalive"}, n \in Neighbors :
             t = <<k, n>>
      BY <2>2 DEF Tasks
    <3> QED
      BY <3>1
  <2> QED
    BY <2>1, <2>2
<1>2. Nobody[1] = ""
  BY DEF Nobody
<1> QED
  BY <1>1, <1>2

\* Between two inputs.
LEMMA InitInv == Init => Inv
<1> SUFFICES ASSUME Init PROVE Inv
  OBVIOUS
<1> USE DEF Init
<1>1. ASSUME NEW t \in Tasks
      PROVE  Good(t, script[t]) /\ HeldAt(script[t], 1) = {} /\ script[t] = <<>>
  BY SafeEmpty DEF Safe
<1>2. Scripts
  BY <1>1 DEF Scripts
<1>3. Nobody \notin Tasks
  BY NobodyIsNoTask
<1>4. Holders
  BY <1>1, <1>3 DEF Holders
<1>5. Queues
  <2>1. \A c \in Channels : chan[c] = <<>>
    OBVIOUS
  <2>2. Len(<<>>) = 0
    OBVIOUS
  <2> QED
    BY <2>1, <2>2, CapType DEF Queues
<1>6. Sessions
  <2>1. ASSUME NEW n \in Neighbors
        PROVE  fsm(n) \in Tasks /\ Ev(n) \in Channels
    BY Names
  <2>2. open \subseteq Neighbors /\ \A n \in Neighbors \ open : state[n] = "Idle"
    OBVIOUS
  <2> QED
    BY <1>1, <2>1, <2>2 DEF Sessions
<1> QED
  BY <1>2, <1>4, <1>5, <1>6 DEF Inv

\* An idle task starts a safe script: it holds nothing, before and after.
LEMMA StartsScript ==
    ASSUME Inv, NEW t \in Tasks, NEW s, Safe(t, s), Begin(t, s), holder' = holder,
           open' = open, \A n \in Neighbors : t = fsm(n) => n \in open
    PROVE  /\ Scripts' /\ Holders'
           /\ \A n \in Neighbors \ open' : script'[fsm(n)] = <<>>
<1>1. script[t] = <<>> /\ script' = [script EXCEPT ![t] = s]
  BY DEF Begin, Idle
<1>2. Good(t, s) /\ HeldAt(s, 1) = {} /\ s \in Seq(Instructions)
  BY DEF Safe, Good
<1>3. /\ script \in [Tasks -> Seq(Instructions)] /\ \A v \in Tasks : Good(v, script[v])
      /\ holder \in [Locks -> Tasks \cup {Nobody}]
      /\ \A v \in Tasks : \A l \in Locks : holder[l] = v <=> l \in HeldAt(script[v], 1)
  BY DEF Inv, Scripts, Holders
<1>4. HeldAt(script[t], 1) = {}
  BY <1>1, SafeEmpty DEF Safe
<1>5. /\ script' \in [Tasks -> Seq(Instructions)] /\ script'[t] = s
      /\ \A v \in Tasks \ {t} : script'[v] = script[v]
  BY <1>1, <1>2, <1>3
<1>6. Scripts'
  BY <1>2, <1>3, <1>5 DEF Scripts
<1>7. Holders'
  BY <1>2, <1>3, <1>4, <1>5 DEF Holders
<1>8. ASSUME NEW n \in Neighbors \ open'
      PROVE  script'[fsm(n)] = <<>>
  <2>1. fsm(n) # t /\ fsm(n) \in Tasks /\ script[fsm(n)] = <<>>
    BY Names DEF Inv, Sessions
  <2> QED
    BY <1>5, <2>1
<1> QED
  BY <1>6, <1>7, <1>8

\* What is known of the instruction a task is at.
LEMMA AtHead ==
    ASSUME Inv, NEW t \in Tasks, script[t] # <<>>
    PROVE  LET s == script[t]
               x == Op(t)
           IN /\ s \in Seq(Instructions) /\ Good(t, s) /\ x = s[1] /\ x \in Instructions
              /\ Matched(s, 1) /\ Owned(t, s, 1) /\ (t # fib_mgr => Climbs(s, 1))
              /\ x.op = "lock" => HeldAt(s, 1) = HeldAt(s, 2) \ {x.on}
              /\ x.op = "unlock" => HeldAt(s, 1) = HeldAt(s, 2) \cup {x.on}
              /\ x.op \notin {"lock", "unlock"} => HeldAt(s, 1) = HeldAt(s, 2)
<1> DEFINE s == script[t]
           x == Op(t)
<1>1. s \in Seq(Instructions) /\ Good(t, s)
  BY DEF Inv, Scripts
<1>2. x = s[1] /\ 1 \in 1..Len(s) /\ x \in Instructions /\ 1 + 1 = 2
  BY <1>1, HeadTailProperties, LenProperties, EmptySeq DEF Op
<1>3. Matched(s, 1) /\ Owned(t, s, 1) /\ (t # fib_mgr => Climbs(s, 1))
  BY <1>1, <1>2 DEF Good
<1>4. x.op = "unlock" => x.on \in Locks
  BY <1>2, <1>3 DEF Matched
<1> HIDE DEF s, x
<1>5. /\ x.op = "lock" => HeldAt(s, 1) = HeldAt(s, 2) \ {x.on}
      /\ x.op = "unlock" => HeldAt(s, 1) = HeldAt(s, 2) \cup {x.on}
      /\ x.op \notin {"lock", "unlock"} => HeldAt(s, 1) = HeldAt(s, 2)
  BY <1>1, <1>2, <1>4, HeldNext
<1> QED
  BY <1>1, <1>2, <1>3, <1>5 DEF s, x

\* A task that does one instruction goes on with a good script.
LEMMA GoesOn ==
    ASSUME Inv, NEW t \in Tasks, script[t] # <<>>, Go(t)
    PROVE  /\ Scripts'
           /\ HeldAt(script'[t], 1) = HeldAt(script[t], 2)
           /\ \A v \in Tasks \ {t} : script'[v] = script[v]
           /\ script'[t] = Tail(script[t])
<1>1. /\ script \in [Tasks -> Seq(Instructions)] /\ \A v \in Tasks : Good(v, script[v])
      /\ script' = [script EXCEPT ![t] = Tail(script[t])]
  BY DEF Inv, Scripts, Go
<1>2. /\ Good(t, Tail(script[t]))
      /\ HeldAt(Tail(script[t]), 1) = HeldAt(script[t], 2)
  BY <1>1, GoodTail
<1>3. /\ script'[t] = Tail(script[t]) /\ \A v \in Tasks \ {t} : script'[v] = script[v]
      /\ script' \in [Tasks -> Seq(Instructions)]
  BY <1>1, <1>2 DEF Good
<1> QED
  BY <1>1, <1>2, <1>3 DEF Scripts

\* The session of a closed neighbour has nothing to do, so t is not it.
LEMMA ClosedIdle ==
    ASSUME Inv, NEW t \in Tasks, script[t] # <<>>, NEW n \in Neighbors \ open
    PROVE  t # fsm(n) /\ fsm(n) \in Tasks /\ script[fsm(n)] = <<>>
  BY Names DEF Inv, Sessions

\* An instruction that is neither a lock nor an unlock leaves the locks to their
\* holders, and a closed neighbour's session idle.
LEMMA KeepsLocks ==
    ASSUME Inv, NEW t \in Tasks, script[t] # <<>>, Go(t), holder' = holder,
           Op(t).op \notin {"lock", "unlock"}
    PROVE  /\ Scripts' /\ Holders'
           /\ \A n \in Neighbors \ open : script'[fsm(n)] = <<>>
<1>1. /\ Scripts' /\ HeldAt(script'[t], 1) = HeldAt(script[t], 1)
      /\ \A v \in Tasks \ {t} : script'[v] = script[v]
  BY GoesOn, AtHead
<1>2. /\ holder \in [Locks -> Tasks \cup {Nobody}]
      /\ \A v \in Tasks : \A l \in Locks : holder[l] = v <=> l \in HeldAt(script[v], 1)
  BY DEF Inv, Holders
<1>3. \A v \in Tasks : HeldAt(script'[v], 1) = HeldAt(script[v], 1)
  BY <1>1
<1>4. Holders'
  BY <1>2, <1>3 DEF Holders
<1> QED
  BY <1>1, <1>4, ClosedIdle

\* Only the session of an open neighbour assigns its state.
LEMMA AssignsOpen ==
    ASSUME Inv, NEW t \in Tasks, script[t] # <<>>, Op(t).op \in {"visit", "unlock"},
           state' = Assigned(Op(t).on[2], Op(t).arg)
    PROVE  /\ state' \in [Neighbors -> States]
           /\ \A n \in Neighbors \ open : state'[n] = state[n]
<1>1. state \in [Neighbors -> States]
  BY DEF Inv, Sessions
<1>2. CASE Op(t).arg = ""
  BY <1>1, <1>2 DEF Assigned
<1>3. CASE Op(t).arg # ""
  <2>1. /\ Op(t).arg \in States
        /\ \E n \in Neighbors : t = fsm(n) /\ Op(t).on = N(n)
    BY <1>3, AtHead DEF Owned
  <2>2. PICK m \in Neighbors : t = fsm(m) /\ Op(t).on = N(m)
    BY <2>1
  <2>3. Op(t).on[2] = m
    BY <2>2, NamesDiffer
  <2>4. state' = [state EXCEPT ![m] = Op(t).arg]
    BY <1>3, <2>3 DEF Assigned
  <2>5. m \in open
    BY <2>2, ClosedIdle
  <2> QED
    BY <1>1, <2>1, <2>4, <2>5
<1> QED
  BY <1>2, <1>3

-----------------------------------------------------------------------------
(* The inputs                                                              *)

\* A task that starts a safe script, and nothing else but what connect_mgr has
\* started and the inputs counted.
LEMMA StartsSafe ==
    ASSUME Inv, NEW t \in Tasks, NEW s, Safe(t, s), Begin(t, s),
           UNCHANGED <<holder, chan, state, open>>,
           \A n \in Neighbors : t = fsm(n) => n \in open
    PROVE  Inv'
<1>1. Scripts' /\ Holders' /\ \A n \in Neighbors \ open' : script'[fsm(n)] = <<>>
  BY StartsScript
<1>2. Queues'
  BY DEF Inv, Queues
<1>3. Sessions'
  BY <1>1 DEF Inv, Sessions
<1> QED
  BY <1>1, <1>2, <1>3 DEF Inv

\* A neighbour in a session has one.
LEMMA InSession ==
    ASSUME Inv, NEW n \in Neighbors, state[n] # "Idle"
    PROVE  n \in open
  BY DEF Inv, Sessions

\* A task is a session only by its name.
LEMMA OtherTasks ==
    ASSUME NEW n \in Neighbors, NEW m \in Neighbors
    PROVE  /\ fsm(n) = fsm(m) => n = m
           /\ connect(n) # fsm(m) /\ timer_hold(n) # fsm(m) /\ timer_keepalive(n) # fsm(m)
           /\ rib_mgr # fsm(m) /\ fib_mgr # fsm(m) /\ listen # fsm(m) /\ grpc # fsm(m)
<1>1. fsm(n) = fsm(m) => n = m
  BY NamesDiffer
<1>2. fsm(m) \notin {connect(n), timer_hold(n), timer_keepalive(n), rib_mgr, fib_mgr, listen, grpc}
  BY NamesDiffer
<1> QED
  BY <1>1, <1>2

\* A message, whatever it starts.
LEMMA MessageInv ==
    ASSUME Inv, NEW n \in Neighbors, Message(n)
    PROVE  Inv'
<1>1. UNCHANGED <<holder, chan, state, open>> /\ fsm(n) \in Tasks
  BY Names DEF Message
<1>2. n \in open
  BY InSession DEF Message
<1>3. PICK s : Begin(fsm(n), s) /\ Safe(fsm(n), s)
  <2>1. CASE Begin(fsm(n), HandleOpen(n))
    BY <2>1, SafeHandleOpen
  <2>2. CASE \E m \in Neighbors : Begin(fsm(n), HandleOpenCollides(n, m))
    BY <2>2, SafeHandleOpenCollides
  <2>3. CASE Begin(fsm(n), Establish(n))
    BY <2>3, SafeEstablish
  <2>4. CASE Begin(fsm(n), HandleUpdate(n))
    BY <2>4, SafeHandleUpdate
  <2>5. CASE Begin(fsm(n), HandleNotification(n))
    BY <2>5, SafeHandleNotification
  <2>6. CASE Begin(fsm(n), HandleEvent(n, "other"))
    BY <2>6, SafeHandleEvent
  <2> QED
    BY <2>1, <2>2, <2>3, <2>4, <2>5, <2>6 DEF Message
<1>4. \A m \in Neighbors : fsm(n) = fsm(m) => m \in open
  BY <1>2, OtherTasks
<1> QED
  BY <1>1, <1>3, <1>4, StartsSafe

\* ReadFails preserves Inv.
LEMMA ReadFailsInv ==
    ASSUME Inv, NEW n \in Neighbors, ReadFails(n)
    PROVE  Inv'
<1>1. /\ UNCHANGED <<holder, chan, state, open>> /\ fsm(n) \in Tasks /\ n \in open
      /\ Begin(fsm(n), <<Visit(N(n))>> \o Ends(n))
  BY Names DEF ReadFails
<1>2. Safe(fsm(n), <<Visit(N(n))>> \o Ends(n))
  BY SafeHandleEvent
<1>3. \A m \in Neighbors : fsm(n) = fsm(m) => m \in open
  BY <1>1, OtherTasks
<1> QED
  BY <1>1, <1>2, <1>3, StartsSafe

\* Connects preserves Inv.
LEMMA ConnectsInv ==
    ASSUME Inv, NEW n \in Neighbors, Connects(n)
    PROVE  Inv'
<1>1. UNCHANGED <<holder, chan, state, open>> /\ connect(n) \in Tasks
  BY Names DEF Connects
<1>2. PICK s : Begin(connect(n), s) /\ Safe(connect(n), s)
  BY SafeConnect DEF Connects
<1>3. \A m \in Neighbors : connect(n) # fsm(m)
  BY OtherTasks
<1> QED
  BY <1>1, <1>2, <1>3, StartsSafe

\* Accept preserves Inv.
LEMMA AcceptInv ==
    ASSUME Inv, NEW n \in Neighbors, Accept(n)
    PROVE  Inv'
<1>1. /\ UNCHANGED <<holder, chan, state, open>> /\ listen \in Tasks
      /\ Begin(listen, AddIncoming(n)) /\ Safe(listen, AddIncoming(n))
  BY Names, SafeAddIncoming DEF Accept
<1>2. \A m \in Neighbors : listen # fsm(m)
  BY OtherTasks
<1> QED
  BY <1>1, <1>2, StartsSafe

\* TimerExpires preserves Inv.
LEMMA TimerExpiresInv ==
    ASSUME Inv, NEW n \in Neighbors, TimerExpires(n)
    PROVE  Inv'
<1>1. /\ UNCHANGED <<holder, chan, state, open>>
      /\ timer_hold(n) \in Tasks /\ timer_keepalive(n) \in Tasks
  BY Names DEF TimerExpires
<1>2. PICK t \in {timer_hold(n), timer_keepalive(n)} : \E s : Begin(t, s) /\ Safe(t, s)
  BY SafeTimers DEF TimerExpires
<1>3. \A m \in Neighbors : t # fsm(m)
  BY OtherTasks
<1> QED
  BY <1>1, <1>2, <1>3, StartsSafe

\* Query preserves Inv.
LEMMA QueryInv ==
    ASSUME Inv, Query
    PROVE  Inv'
<1>1. UNCHANGED <<holder, chan, state, open>> /\ grpc \in Tasks
  BY GlobalNames DEF Query
<1>2. PICK s : Begin(grpc, s) /\ Safe(grpc, s)
  BY SafeQueries DEF Query
<1>3. \A m \in Neighbors : grpc # fsm(m)
  BY OtherTasks
<1> QED
  BY <1>1, <1>2, <1>3, StartsSafe

\* FibTimeout preserves Inv.
LEMMA FibTimeoutInv ==
    ASSUME Inv, FibTimeout
    PROVE  Inv'
<1>1. /\ UNCHANGED <<holder, chan, state, open>> /\ fib_mgr \in Tasks
      /\ Begin(fib_mgr, FibRefreshes) /\ Safe(fib_mgr, FibRefreshes)
  BY GlobalNames, SafeManagers DEF FibTimeout
<1>2. \A m \in Neighbors : fib_mgr # fsm(m)
  BY OtherTasks
<1> QED
  BY <1>1, <1>2, StartsSafe

\* A reader takes an event, which leaves one place more in the channel.
LEMMA ReceiveInv ==
    ASSUME Inv, NEW c \in Channels, Receive(c)
    PROVE  Inv'
<1>1. /\ chan[c] # <<>> /\ chan' = [chan EXCEPT ![c] = Tail(chan[c])]
      /\ UNCHANGED <<holder, state, open>>
  BY DEF Receive
<1>2. /\ chan \in [Channels -> Seq(Payload)]
      /\ \A d \in Channels : Len(chan[d]) <= Cap(d) /\ Len(chan[d]) \in Nat /\ Cap(d) \in Nat
  BY CapType, LenProperties DEF Inv, Queues
<1>3. /\ chan' \in [Channels -> Seq(Payload)]
      /\ chan'[c] = Tail(chan[c]) /\ \A d \in Channels \ {c} : chan'[d] = chan[d]
      /\ Len(Tail(chan[c])) = Len(chan[c]) - 1
  <2>1. chan[c] \in Seq(Payload) /\ chan[c] # <<>>
    BY <1>1, <1>2
  <2>2. Tail(chan[c]) \in Seq(Payload) /\ Len(Tail(chan[c])) = Len(chan[c]) - 1
    BY <2>1, HeadTailProperties
  <2> QED
    BY <1>1, <1>2, <2>2
<1>4. Queues'
  <2>1. ASSUME NEW d \in Channels
        PROVE  Len(chan'[d]) <= Cap(d)
    <3>1. CASE d = c
      <4>1. Len(chan'[c]) = Len(chan[c]) - 1
        BY <1>3
      <4>2. Len(chan[c]) <= Cap(c) /\ Len(chan[c]) \in Nat /\ Cap(c) \in Nat
        BY <1>2
      <4>3. Len(chan'[c]) <= Cap(c)
        BY <4>1, <4>2
      <4> QED
        BY <3>1, <4>3
    <3>2. CASE d # c
      BY <1>2, <1>3, <3>2
    <3> QED
      BY <3>1, <3>2
  <2> QED
    BY <1>3, <2>1 DEF Queues
<1>5. Scripts' /\ Holders' /\ \A n \in Neighbors \ open' : script'[fsm(n)] = <<>>
  <2>1. CASE Begin(rib_mgr, RibQuiet) \/ Begin(rib_mgr, RibReports)
    <3>1. PICK s : Begin(rib_mgr, s) /\ Safe(rib_mgr, s)
      BY <2>1, SafeManagers
    <3>2. rib_mgr \in Tasks /\ \A m \in Neighbors : rib_mgr # fsm(m)
      BY GlobalNames, OtherTasks
    <3> QED
      BY <1>1, <3>1, <3>2, StartsScript
  <2>2. CASE Begin(fib_mgr, FibSyncs)
    <3>1. fib_mgr \in Tasks /\ \A m \in Neighbors : fib_mgr # fsm(m)
      BY GlobalNames, OtherTasks
    <3> QED
      BY <1>1, <2>2, <3>1, SafeManagers, StartsScript
  <2>3. ASSUME NEW n \in Neighbors, c = Ev(n), NEW e, Begin(fsm(n), HandleEvent(n, e))
        PROVE  Scripts' /\ Holders' /\ \A m \in Neighbors \ open' : script'[fsm(m)] = <<>>
    <3>1. n \in open /\ fsm(n) \in Tasks
      BY <1>1, <2>3, Names DEF Inv, Sessions
    <3>2. \A m \in Neighbors : fsm(n) = fsm(m) => m \in open
      BY <3>1, OtherTasks
    <3> QED
      BY <1>1, <2>3, <3>1, <3>2, SafeHandleEvent, StartsScript
  <2> QED
    BY <2>1, <2>2, <2>3 DEF Receive
<1>6. Sessions'
  <2>1. \A n \in Neighbors \ open : chan[Ev(n)] = <<>> /\ Ev(n) \in Channels
    BY Names DEF Inv, Sessions
  <2>2. \A n \in Neighbors \ open : chan'[Ev(n)] = <<>>
    BY <1>1, <1>3, <2>1
  <2> QED
    BY <1>1, <1>5, <2>2 DEF Inv, Sessions
<1> QED
  BY <1>4, <1>5, <1>6 DEF Inv

-----------------------------------------------------------------------------
(* One instruction                                                         *)

\* Acquire preserves Inv.
LEMMA AcquireInv ==
    ASSUME Inv, NEW t \in Tasks, Acquire(t)
    PROVE  Inv'
<1> DEFINE l == Op(t).on
<1>1. /\ script[t] # <<>> /\ Op(t).op = "lock" /\ holder[l] = Nobody
      /\ holder' = [holder EXCEPT ![l] = t] /\ Go(t)
      /\ UNCHANGED <<chan, state, open>>
  BY DEF Acquire, At
<1>2. /\ Scripts' /\ HeldAt(script'[t], 1) = HeldAt(script[t], 2)
      /\ \A v \in Tasks \ {t} : script'[v] = script[v]
  BY <1>1, GoesOn
<1>3. /\ l \in Locks
      /\ HeldAt(script[t], 1) = HeldAt(script[t], 2) \ {l}
  BY <1>1, AtHead DEF Matched
<1>4. l \in HeldAt(script[t], 2)
  <2>1. Matched(script[t], 1) /\ Op(t) = script[t][1] /\ 1 + 1 = 2
    BY <1>1, AtHead
  <2> QED
    BY <1>1, <2>1 DEF Matched
<1>5. /\ holder \in [Locks -> Tasks \cup {Nobody}]
      /\ \A v \in Tasks : \A k \in Locks : holder[k] = v <=> k \in HeldAt(script[v], 1)
  BY DEF Inv, Holders
<1> HIDE DEF l
<1>6. ASSUME NEW v \in Tasks, NEW k \in Locks
      PROVE  holder'[k] = v <=> k \in HeldAt(script'[v], 1)
  <2>1. CASE k = l
    <3>1. holder'[k] = t
      BY <1>1, <1>3, <1>5, <2>1
    <3>2. CASE v = t
      BY <1>2, <1>4, <2>1, <3>1, <3>2
    <3>3. CASE v # t
      <4>1. holder[k] # v
        BY <1>1, <2>1, NobodyIsNoTask
      <4>2. k \notin HeldAt(script'[v], 1)
        BY <1>2, <1>5, <3>3, <4>1
      <4> QED
        BY <3>1, <3>3, <4>2
    <3> QED
      BY <3>2, <3>3
  <2>2. CASE k # l
    <3>1. holder'[k] = holder[k]
      BY <1>1, <1>5, <2>2
    <3>2. k \in HeldAt(script'[v], 1) <=> k \in HeldAt(script[v], 1)
      BY <1>2, <1>3, <2>2
    <3> QED
      BY <1>5, <3>1, <3>2
  <2> QED
    BY <2>1, <2>2
<1>7. Holders'
  <2>1. holder' \in [Locks -> Tasks \cup {Nobody}]
    BY <1>1, <1>5
  <2> QED
    BY <1>6, <2>1 DEF Holders
<1>8. Sessions'
  BY <1>1, <1>2, ClosedIdle DEF Inv, Sessions
<1>9. Queues'
  BY <1>1 DEF Inv, Queues
<1> QED
  BY <1>2, <1>7, <1>8, <1>9 DEF Inv

\* Release preserves Inv.
LEMMA ReleaseInv ==
    ASSUME Inv, NEW t \in Tasks, Release(t)
    PROVE  Inv'
<1> DEFINE l == Op(t).on
<1>1. /\ script[t] # <<>> /\ Op(t).op = "unlock"
      /\ holder' = [holder EXCEPT ![l] = Nobody] /\ Go(t)
      /\ state' = Assigned(Op(t).on[2], Op(t).arg)
      /\ UNCHANGED <<chan, open>>
  BY DEF Release, At
<1>2. /\ Scripts' /\ HeldAt(script'[t], 1) = HeldAt(script[t], 2)
      /\ \A v \in Tasks \ {t} : script'[v] = script[v]
  BY <1>1, GoesOn
<1>3. /\ l \in Locks
      /\ HeldAt(script[t], 1) = HeldAt(script[t], 2) \cup {l}
  BY <1>1, AtHead DEF Matched
<1>4. l \notin HeldAt(script[t], 2)
  <2>1. Matched(script[t], 1) /\ Op(t) = script[t][1] /\ 1 + 1 = 2
    BY <1>1, AtHead
  <2> QED
    BY <1>1, <2>1 DEF Matched
<1>5. /\ holder \in [Locks -> Tasks \cup {Nobody}]
      /\ \A v \in Tasks : \A k \in Locks : holder[k] = v <=> k \in HeldAt(script[v], 1)
  BY DEF Inv, Holders
<1>6. holder[l] = t
  BY <1>3, <1>5
<1> HIDE DEF l
<1>7. ASSUME NEW v \in Tasks, NEW k \in Locks
      PROVE  holder'[k] = v <=> k \in HeldAt(script'[v], 1)
  <2>1. CASE k = l
    <3>1. holder'[k] = Nobody /\ Nobody # v
      BY <1>1, <1>3, <1>5, <2>1, NobodyIsNoTask
    <3>2. k \notin HeldAt(script'[v], 1)
      <4>1. CASE v = t
        BY <1>2, <1>4, <2>1, <4>1
      <4>2. CASE v # t
        BY <1>2, <1>5, <1>6, <2>1, <4>2
      <4> QED
        BY <4>1, <4>2
    <3> QED
      BY <3>1, <3>2
  <2>2. CASE k # l
    <3>1. holder'[k] = holder[k]
      BY <1>1, <1>5, <2>2
    <3>2. k \in HeldAt(script'[v], 1) <=> k \in HeldAt(script[v], 1)
      BY <1>2, <1>3, <2>2
    <3> QED
      BY <1>5, <3>1, <3>2
  <2> QED
    BY <2>1, <2>2
<1>8. Holders'
  <2>1. holder' \in [Locks -> Tasks \cup {Nobody}]
    BY <1>1, <1>5
  <2> QED
    BY <1>7, <2>1 DEF Holders
<1>9. Sessions'
  <2>1. /\ state' \in [Neighbors -> States]
        /\ \A n \in Neighbors \ open : state'[n] = state[n]
    BY <1>1, AssignsOpen
  <2> QED
    BY <1>1, <1>2, <2>1, ClosedIdle DEF Inv, Sessions
<1>10. Queues'
  BY <1>1 DEF Inv, Queues
<1> QED
  BY <1>2, <1>8, <1>9, <1>10 DEF Inv

\* Visits preserves Inv.
LEMMA VisitsInv ==
    ASSUME Inv, NEW t \in Tasks, Visits(t)
    PROVE  Inv'
<1>1. /\ script[t] # <<>> /\ Op(t).op = "visit" /\ Go(t)
      /\ state' = Assigned(Op(t).on[2], Op(t).arg)
      /\ UNCHANGED <<holder, chan, open>>
  BY DEF Visits, At
<1>2. /\ Scripts' /\ Holders'
      /\ \A n \in Neighbors \ open : script'[fsm(n)] = <<>>
  BY <1>1, KeepsLocks
<1>3. /\ state' \in [Neighbors -> States]
      /\ \A n \in Neighbors \ open : state'[n] = state[n]
  BY <1>1, AssignsOpen
<1>4. Sessions'
  BY <1>1, <1>2, <1>3 DEF Inv, Sessions
<1>5. Queues'
  BY <1>1 DEF Inv, Queues
<1> QED
  BY <1>2, <1>4, <1>5 DEF Inv

\* Joins preserves Inv.
LEMMA JoinsInv ==
    ASSUME Inv, NEW t \in Tasks, Joins(t)
    PROVE  Inv'
<1>1. /\ script[t] # <<>> /\ Op(t).op = "join" /\ Go(t)
      /\ UNCHANGED <<holder, chan, state, open>>
  BY DEF Joins, At
<1>2. /\ Scripts' /\ Holders'
      /\ \A n \in Neighbors \ open : script'[fsm(n)] = <<>>
  BY <1>1, KeepsLocks
<1>3. Sessions' /\ Queues'
  BY <1>1, <1>2 DEF Inv, Sessions, Queues
<1> QED
  BY <1>2, <1>3 DEF Inv

\* What is sent is an event, and sent only to a session and where there is room.
LEMMA SendsInv ==
    ASSUME Inv, NEW t \in Tasks, Sends(t)
    PROVE  Inv'
<1> DEFINE c == Op(t).on
<1>1. /\ script[t] # <<>> /\ Op(t).op \in {"send", "tell"} /\ Go(t)
      /\ UNCHANGED <<holder, state, open>>
      /\ \/ chan' = chan
         \/ /\ ~Skips(t) /\ Room(c)
            /\ chan' = [chan EXCEPT ![c] = Append(chan[c], Op(t).arg)]
  BY DEF Sends, At
<1>2. /\ Scripts' /\ Holders'
      /\ \A n \in Neighbors \ open : script'[fsm(n)] = <<>>
  BY <1>1, KeepsLocks
<1>3. CASE chan' = chan
  <2>1. Sessions' /\ Queues'
    BY <1>1, <1>2, <1>3 DEF Inv, Sessions, Queues
  <2> QED
    BY <1>2, <2>1 DEF Inv
<1>4. CASE /\ ~Skips(t) /\ Room(c)
           /\ chan' = [chan EXCEPT ![c] = Append(chan[c], Op(t).arg)]
  <2>1. c \in Channels /\ Op(t).arg \in Payload
    BY <1>1, AtHead DEF Matched
  <2>2. /\ chan \in [Channels -> Seq(Payload)]
        /\ \A d \in Channels : Len(chan[d]) <= Cap(d)
    BY DEF Inv, Queues
  <2>3. Len(chan[c]) < Cap(c) /\ Len(chan[c]) \in Nat /\ Cap(c) \in Nat
    BY <1>4, <2>1, <2>2, CapType, LenProperties DEF Room
  <2>4. \A n \in Neighbors \ open : c # Ev(n)
    BY <1>4 DEF Skips, Closed
  <2> HIDE DEF c
  <2>5. /\ Append(chan[c], Op(t).arg) \in Seq(Payload)
        /\ Len(Append(chan[c], Op(t).arg)) = Len(chan[c]) + 1
    BY <2>1, <2>2, AppendProperties
  <2>6. /\ chan' \in [Channels -> Seq(Payload)]
        /\ chan'[c] = Append(chan[c], Op(t).arg)
        /\ \A d \in Channels \ {c} : chan'[d] = chan[d]
    BY <1>4, <2>1, <2>2, <2>5
  <2>7. Len(chan'[c]) <= Cap(c)
    <3>1. Len(chan'[c]) = Len(chan[c]) + 1
      BY <2>5, <2>6
    <3> QED
      BY <2>3, <3>1
  <2>8. Queues'
    BY <2>2, <2>6, <2>7 DEF Queues
  <2>9. Sessions'
    <3>1. \A n \in Neighbors \ open : Ev(n) \in Channels /\ chan[Ev(n)] = <<>>
      BY Names DEF Inv, Sessions
    <3>2. \A n \in Neighbors \ open : chan'[Ev(n)] = <<>>
      BY <2>4, <2>6, <3>1
    <3> QED
      BY <1>1, <1>2, <3>2 DEF Inv, Sessions
  <2> QED
    BY <1>2, <2>8, <2>9 DEF Inv
<1> QED
  BY <1>1, <1>3, <1>4

\* After a failed lookup only the speaker is left to give back.
LEMMA GoodUnlock ==
    ASSUME NEW t
    PROVE  Good(t, <<Unlock(S)>>) /\ HeldAt(<<Unlock(S)>>, 1) = {S}
<1>1. PICK u : u = Unlock(S)
  OBVIOUS
<1>2. u \in Instructions /\ u.op = "unlock" /\ u.on = S /\ u.arg = "" /\ S \in Locks
  BY <1>1, Parts, GlobalNames
<1>3. PICK s : s = <<u>>
  OBVIOUS
<1>4. s \in Seq(Instructions) /\ Len(s) = 1 /\ s[1] = u /\ 1 \in 1..Len(s) /\ 1 + 1 = Len(s) + 1
  <2>1. u \in Instructions
    BY <1>2
  <2>2. s \in Seq(Instructions)
    BY <1>3, <2>1
  <2> QED
    BY <1>3, <2>2
<1>5. HeldAt(s, 1 + 1) = {}
  BY <1>4, HeldBehind
<1>6. HeldAt(s, 1) = {S}
  <2>1. HeldAt(s, 1) = HeldAt(s, 1 + 1) \cup {s[1].on}
    BY <1>2, <1>4, HeldNext
  <2> QED
    BY <1>2, <1>4, <1>5, <2>1
<1>7. Matched(s, 1) /\ Owned(t, s, 1) /\ Climbs(s, 1)
  BY <1>2, <1>4, <1>5 DEF Matched, Owned, Climbs
<1>8. \A i \in 1..Len(s) : i = 1
  BY <1>4
<1> QED
  BY <1>1, <1>3, <1>4, <1>6, <1>7, <1>8 DEF Good

\* Tries preserves Inv.
LEMMA TriesInv ==
    ASSUME Inv, NEW t \in Tasks, Tries(t)
    PROVE  Inv'
<1>1. /\ script[t] # <<>> /\ Op(t).op = "try"
      /\ Go(t) \/ script' = [script EXCEPT ![t] = <<Unlock(S)>>]
      /\ UNCHANGED <<holder, chan, state, open>>
  BY DEF Tries, At
<1>2. /\ Scripts' /\ Holders'
      /\ \A n \in Neighbors \ open : script'[fsm(n)] = <<>>
  <2>1. CASE Go(t)
    BY <1>1, <2>1, KeepsLocks
  <2>2. CASE script' = [script EXCEPT ![t] = <<Unlock(S)>>]
    <3>1. /\ script \in [Tasks -> Seq(Instructions)] /\ \A v \in Tasks : Good(v, script[v])
          /\ holder \in [Locks -> Tasks \cup {Nobody}]
          /\ \A v \in Tasks : \A l \in Locks : holder[l] = v <=> l \in HeldAt(script[v], 1)
      BY DEF Inv, Scripts, Holders
    <3>2. HeldAt(script[t], 1) = {S}
      BY <1>1, AtHead DEF Matched
    <3>3. PICK s : s = <<Unlock(S)>>
      OBVIOUS
    <3>4. Good(t, s) /\ HeldAt(s, 1) = {S} /\ s \in Seq(Instructions)
      BY <3>3, GoodUnlock DEF Good
    <3>5. /\ script' \in [Tasks -> Seq(Instructions)] /\ script'[t] = s
          /\ \A v \in Tasks \ {t} : script'[v] = script[v]
      BY <2>2, <3>1, <3>3, <3>4
    <3>6. Scripts'
      BY <3>1, <3>4, <3>5 DEF Scripts
    <3>7. \A v \in Tasks : HeldAt(script'[v], 1) = HeldAt(script[v], 1)
      BY <3>2, <3>4, <3>5
    <3>8. Holders'
      BY <1>1, <3>1, <3>7 DEF Holders
    <3> QED
      BY <1>1, <3>5, <3>6, <3>8, ClosedIdle
  <2> QED
    BY <1>1, <2>1, <2>2
<1>3. Sessions' /\ Queues'
  BY <1>1, <1>2 DEF Inv, Sessions, Queues
<1> QED
  BY <1>2, <1>3 DEF Inv

\* The connection becomes a session, if the neighbour has none.
LEMMA SpawnsInv ==
    ASSUME Inv, NEW t \in Tasks, Spawns(t)
    PROVE  Inv'
<1>1. /\ script[t] # <<>> /\ Op(t).op = "spawn" /\ UNCHANGED <<holder, chan, state>>
  BY DEF Spawns, At
<1>2. PICK n \in Neighbors : Op(t).on = fsm(n) /\ Op(t).on[2] = n
  BY <1>1, AtHead, NamesDiffer DEF Matched
<1>3. CASE Go(t) /\ open' = open
  <2>1. /\ Scripts' /\ Holders'
        /\ \A m \in Neighbors \ open : script'[fsm(m)] = <<>>
    BY <1>1, <1>3, KeepsLocks
  <2>2. Sessions' /\ Queues'
    BY <1>1, <1>3, <2>1 DEF Inv, Sessions, Queues
  <2> QED
    BY <2>1, <2>2 DEF Inv
<1>4. CASE /\ n \notin open /\ open' = open \cup {n}
           /\ script' = [script EXCEPT ![t] = Tail(script[t]), ![fsm(n)] = FirstEvent(n)]
  <2>1. /\ script \in [Tasks -> Seq(Instructions)] /\ \A v \in Tasks : Good(v, script[v])
        /\ holder \in [Locks -> Tasks \cup {Nobody}]
        /\ \A v \in Tasks : \A l \in Locks : holder[l] = v <=> l \in HeldAt(script[v], 1)
    BY DEF Inv, Scripts, Holders
  <2>2. t # fsm(n) /\ fsm(n) \in Tasks /\ script[fsm(n)] = <<>>
    BY <1>1, <1>4, ClosedIdle
  <2>3. PICK a : a = Tail(script[t])
    OBVIOUS
  <2>4. Good(t, a) /\ a \in Seq(Instructions) /\ HeldAt(a, 1) = HeldAt(script[t], 1)
    <3>1. HeldAt(script[t], 1) = HeldAt(script[t], 2)
      BY <1>1, AtHead
    <3>2. Good(t, Tail(script[t])) /\ HeldAt(Tail(script[t]), 1) = HeldAt(script[t], 2)
      BY <1>1, <2>1, GoodTail
    <3> QED
      BY <2>3, <3>1, <3>2 DEF Good
  <2>5. PICK b : b = FirstEvent(n)
    OBVIOUS
  <2>6. /\ Good(fsm(n), b) /\ b \in Seq(Instructions)
        /\ HeldAt(b, 1) = {} /\ HeldAt(script[fsm(n)], 1) = {}
    BY <2>2, <2>5, SafeFsm, SafeEmpty DEF Safe, Good
  <2>7. /\ script' \in [Tasks -> Seq(Instructions)] /\ script'[t] = a /\ script'[fsm(n)] = b
        /\ \A v \in Tasks \ {t, fsm(n)} : script'[v] = script[v]
    BY <1>4, <2>1, <2>2, <2>3, <2>4, <2>5, <2>6
  <2>8. Scripts'
    BY <2>1, <2>4, <2>6, <2>7 DEF Scripts
  <2>9. \A v \in Tasks : HeldAt(script'[v], 1) = HeldAt(script[v], 1)
    BY <2>4, <2>6, <2>7
  <2>10. Holders'
    BY <1>1, <2>1, <2>9 DEF Holders
  <2>11. Sessions'
    <3>1. ASSUME NEW m \in Neighbors \ open'
          PROVE  script'[fsm(m)] = <<>>
      <4>1. m \in Neighbors \ open /\ m # n
        BY <1>4
      <4>2. fsm(m) \in Tasks /\ fsm(m) # t /\ fsm(m) # fsm(n) /\ script[fsm(m)] = <<>>
        BY <1>1, <4>1, ClosedIdle, NamesDiffer
      <4> QED
        BY <2>7, <4>2
    <3> QED
      BY <1>1, <1>4, <3>1 DEF Inv, Sessions
  <2>12. Queues'
    BY <1>1 DEF Inv, Queues
  <2> QED
    BY <2>8, <2>10, <2>11, <2>12 DEF Inv
<1> QED
  BY <1>2, <1>3, <1>4 DEF Spawns

\* The end of a session leaves it nothing to do, and nothing in its channel.
LEMMA FsmEndsInv ==
    ASSUME Inv, NEW t \in Tasks, FsmEnds(t)
    PROVE  Inv'
<1>1. script[t] # <<>> /\ Op(t).op = "end" /\ Go(t) /\ UNCHANGED holder
  BY DEF FsmEnds, At
<1>2. PICK n \in Neighbors : t = fsm(n) /\ Op(t).on = N(n) /\ Len(script[t]) = 1
  BY <1>1, AtHead DEF Owned
<1>3. Op(t).on[2] = n
  BY <1>2, NamesDiffer
<1>4. /\ state' = [state EXCEPT ![n] = "Idle"] /\ open' = open \ {n}
      /\ chan' = [chan EXCEPT ![Ev(n)] = <<>>]
  BY <1>3 DEF FsmEnds, Assigned
<1>5. /\ Scripts' /\ Holders'
      /\ \A m \in Neighbors \ open : script'[fsm(m)] = <<>>
  BY <1>1, KeepsLocks
<1>6. script'[t] = <<>>
  <2>1. script'[t] = Tail(script[t])
    BY <1>1, GoesOn
  <2>2. script[t] \in Seq(Instructions)
    BY <1>1, AtHead
  <2>3. Tail(script[t]) \in Seq(Instructions) /\ Len(Tail(script[t])) = 0
    BY <1>1, <1>2, <2>2, HeadTailProperties
  <2> QED
    BY <2>1, <2>3, EmptySeq
<1>7. /\ chan \in [Channels -> Seq(Payload)] /\ Ev(n) \in Channels
      /\ \A d \in Channels : Len(chan[d]) <= Cap(d)
  BY Names DEF Inv, Queues
<1>8. Queues'
  <2>1. /\ chan' \in [Channels -> Seq(Payload)] /\ chan'[Ev(n)] = <<>>
        /\ \A d \in Channels \ {Ev(n)} : chan'[d] = chan[d]
    BY <1>4, <1>7
  <2>2. Len(chan'[Ev(n)]) = 0
    BY <2>1
  <2>3. Len(chan'[Ev(n)]) <= Cap(Ev(n))
    BY <1>7, <2>2, CapType
  <2> QED
    BY <1>7, <2>1, <2>3 DEF Queues
<1>9. Sessions'
  <2>1. /\ state \in [Neighbors -> States] /\ open \subseteq Neighbors
        /\ \A m \in Neighbors \ open : chan[Ev(m)] = <<>> /\ state[m] = "Idle"
    BY DEF Inv, Sessions
  <2>2. state' \in [Neighbors -> States]
    BY <1>4, <2>1 DEF States
  <2>3. ASSUME NEW m \in Neighbors \ open'
        PROVE  script'[fsm(m)] = <<>> /\ chan'[Ev(m)] = <<>> /\ state'[m] = "Idle"
    <3>1. CASE m = n
      BY <1>2, <1>4, <1>6, <1>7, <2>1, <3>1
    <3>2. CASE m # n
      <4>1. m \in Neighbors \ open /\ Ev(m) # Ev(n) /\ Ev(m) \in Channels
        BY <1>4, <3>2, Names, NamesDiffer
      <4> QED
        BY <1>4, <1>5, <1>7, <2>1, <3>2, <4>1
    <3> QED
      BY <3>1, <3>2
  <2> QED
    BY <1>4, <2>1, <2>2, <2>3 DEF Sessions
<1> QED
  BY <1>5, <1>8, <1>9 DEF Inv

-----------------------------------------------------------------------------
(* The theorems                                                            *)

\* Every step of the daemon preserves the invariant.
LEMMA NextInv == Inv /\ [Next]_vars => Inv'
<1> SUFFICES ASSUME Inv, [Next]_vars PROVE Inv'
  OBVIOUS
<1>1. CASE Inputs
  BY <1>1, MessageInv, ReadFailsInv, ConnectsInv, AcceptInv, TimerExpiresInv, QueryInv,
     FibTimeoutInv DEF Inputs
<1>2. CASE \E c \in Channels : Receive(c)
  BY <1>2, ReceiveInv
<1>3. CASE \E t \in Tasks : Step(t)
  BY <1>3, AcquireInv, ReleaseInv, VisitsInv, TriesInv, SendsInv, JoinsInv, SpawnsInv,
     FsmEndsInv DEF Step
<1>4. CASE UNCHANGED vars
  BY <1>4 DEF vars, Inv, Scripts, Holders, Queues, Sessions
<1> QED
  BY <1>1, <1>2, <1>3, <1>4 DEF Next

\* Of any number of tasks, none holds a lock it will not give back.
THEOREM InvAlways == Spec => []Inv
<1>1. Inv /\ [Next]_vars => Inv'
  BY NextInv
<1> QED
  BY <1>1, InitInv, PTL DEF Spec

\* Every guard is dropped (no handler returns with a MutexGuard alive that its
\* script does not give back), and no bounded channel exceeds its capacity.
THEOREM LocksAreGivenBack == Spec => []TypeOK
<1>1. Inv => TypeOK
  <2> SUFFICES ASSUME Inv PROVE TypeOK
    OBVIOUS
  <2>1. ASSUME NEW t \in Tasks, NEW i \in DOMAIN script[t]
        PROVE  script[t][i].op \in Ops
    <3>1. script[t] \in Seq(Instructions)
      BY DEF Inv, Scripts
    <3>2. script[t][i] \in Instructions
      BY <3>1, ElementOfSeq, LenProperties
    <3> QED
      BY <3>2 DEF Instructions
  <2>2. ASSUME NEW l \in Locks, holder[l] # Nobody
        PROVE  \E i \in DOMAIN script[holder[l]] :
                  script[holder[l]][i].op = "unlock" /\ script[holder[l]][i].on = l
    <3>1. PICK t \in Tasks : t = holder[l]
      BY <2>2 DEF Inv, Holders
    <3>2. l \in HeldAt(script[t], 1)
      BY <3>1 DEF Inv, Holders
    <3>3. PICK j \in 1..Len(script[t]) : script[t][j].op = "unlock" /\ script[t][j].on = l
      BY <3>2 DEF HeldAt
    <3>4. script[t] \in Seq(Instructions)
      BY DEF Inv, Scripts
    <3>5. j \in DOMAIN script[t]
      BY <3>4, LenProperties
    <3> QED
      BY <3>1, <3>3, <3>5
  <2>3. \A c \in Channels : chan[c] \in Seq(Events \cup {"e"}) /\ Len(chan[c]) <= Cap(c)
    BY DEF Inv, Queues, Payload
  <2>4. state \in [Neighbors -> States]
    BY DEF Inv, Sessions
  <2> QED
    BY <2>1, <2>2, <2>3, <2>4 DEF TypeOK
<1> QED
  BY <1>1, InvAlways, PTL

\* Every task but the FIB manager takes the locks in the order neighbour, speaker,
\* rib, fib, and never those of two neighbours: no two of them wait for each other.
THEOREM LocksAreOrdered == Spec => []LockOrder
<1>1. Inv => LockOrder
  <2> SUFFICES ASSUME Inv, NEW t \in Tasks \ {fib_mgr},
                      At(t, "lock") \/ At(t, "visit") \/ At(t, "end"),
                      NEW l \in Held(t)
               PROVE  Rank(l) < Rank(Op(t).on)
    BY DEF LockOrder
  <2>1. script[t] # <<>> /\ Op(t).op \in {"lock", "visit", "end"}
    BY DEF At
  <2>2. l \in Locks /\ l \in HeldAt(script[t], 1)
    BY DEF Inv, Holders, Held
  <2>3. Climbs(script[t], 1) /\ Op(t) = script[t][1]
    BY <2>1, AtHead
  <2> QED
    BY <2>1, <2>2, <2>3 DEF Climbs
<1> QED
  BY <1>1, InvAlways, PTL

-----------------------------------------------------------------------------
(* Waiting for each other                                                  *)

\* A task that waits for room in a channel.
WaitsForRoom(t) ==
    (At(t, "send") \/ At(t, "tell")) /\ ~Skips(t) /\ ~Room(Op(t).on)
NobodyWaitsForRoom == \A t \in Tasks : ~WaitsForRoom(t)

\* Tasks that wait for each other.
Deadlocked(W) == W # {} /\ W \subseteq Tasks /\ \A t \in W : WaitsFor(t) \in W

\* Only the managers lock the fib, the FIB manager locks nothing else but the rib,
\* and a session joins its own timer.
Allowed(t, x) ==
    /\ x.op \in {"lock", "unlock", "visit", "try", "end"} /\ x.on = F => t \in {rib_mgr, fib_mgr}
    /\ x.op = "join" => \E n \in Neighbors : t = fsm(n) /\ x.on = timer_hold(n)
    /\ t = fib_mgr => x.op \in {"lock", "unlock", "visit"} /\ x.on \in {R, F}

\* What a task does with no lock held: it joins, and the FIB manager refreshes.
Bare(t, x) == x.op = "join" \/ (t = fib_mgr /\ x.op = "visit")

Shape(t, s) ==
    \A i \in 1..Len(s) :
        /\ Allowed(t, s[i])
        /\ Bare(t, s[i]) => \A j \in i..Len(s) : s[j].op # "unlock"
Shapes == \A t \in Tasks : Shape(t, script[t])

\* What is left of a script keeps its shape.
LEMMA ShapeTail ==
    ASSUME NEW t, NEW s \in Seq(Instructions), s # <<>>, Shape(t, s)
    PROVE  Shape(t, Tail(s))
<1>1. PICK u : u = Tail(s)
  OBVIOUS
<1>2. /\ Len(s) \in Nat /\ Len(u) = Len(s) - 1 /\ \A i \in 1..Len(u) : u[i] = s[i + 1]
  BY <1>1, LenProperties, EmptySeq, HeadTailProperties
<1>3. ASSUME NEW i \in 1..Len(u)
      PROVE  Allowed(t, u[i]) /\ (Bare(t, u[i]) => \A j \in i..Len(u) : u[j].op # "unlock")
  <2>1. i + 1 \in 1..Len(s) /\ u[i] = s[i + 1]
    BY <1>2
  <2>2. \A j \in i..Len(u) : j \in 1..Len(u) /\ j + 1 \in (i + 1)..Len(s)
    BY <1>2
  <2> QED
    BY <1>2, <2>1, <2>2 DEF Shape
<1> QED
  BY <1>1, <1>3 DEF Shape

\* An instruction that is no join and not about the fib, and scripts of them.
Clear(x) == x.op # "join" /\ x.on # F
Away(s) == \A i \in 1..Len(s) : Clear(s[i])

\* Such a script has the shape, for any task but the FIB manager.
LEMMA AwayShape ==
    ASSUME NEW t, t # fib_mgr, NEW s, Away(s)
    PROVE  Shape(t, s)
  BY DEF Away, Clear, Shape, Allowed, Bare

\* Scripts of such instructions.
LEMMA AwayFew ==
    ASSUME NEW a, Clear(a)
    PROVE  /\ Away(<<a>>)
           /\ \A b : Clear(b) => Away(<<a, b>>)
           /\ \A b, c : Clear(b) /\ Clear(c) => Away(<<a, b, c>>)
<1>1. Away(<<a>>)
  BY DEF Away
<1>2. \A b : Clear(b) => Away(<<a, b>>)
  BY DEF Away
<1>3. \A b, c : Clear(b) /\ Clear(c) => Away(<<a, b, c>>)
  BY DEF Away
<1> QED
  BY <1>1, <1>2, <1>3

\* Longer ones.
LEMMA AwayMany ==
    ASSUME NEW a, NEW b, NEW c, NEW d, NEW e, Clear(a), Clear(b), Clear(c), Clear(d), Clear(e)
    PROVE  /\ Away(<<a, b, c, d, e>>)
           /\ \A f : Clear(f) => Away(<<a, b, c, d, e, f>>)
           /\ \A f, g, h : Clear(f) /\ Clear(g) /\ Clear(h) => Away(<<a, b, c, d, e, f, g, h>>)
<1>1. Away(<<a, b, c, d, e>>)
  BY DEF Away
<1>2. \A f : Clear(f) => Away(<<a, b, c, d, e, f>>)
  BY DEF Away
<1>3. \A f, g, h : Clear(f) /\ Clear(g) /\ Clear(h) => Away(<<a, b, c, d, e, f, g, h>>)
  BY DEF Away
<1> QED
  BY <1>1, <1>2, <1>3

\* So have two of them.
LEMMA AwayConcat ==
    ASSUME NEW a \in Seq(Instructions), NEW b \in Seq(Instructions), Away(a), Away(b)
    PROVE  Away(a \o b)
<1>1. PICK c : c = a \o b
  OBVIOUS
<1>2. /\ Len(a) \in Nat /\ Len(b) \in Nat /\ Len(c) = Len(a) + Len(b)
      /\ \A i \in 1..Len(c) : c[i] = IF i <= Len(a) THEN a[i] ELSE b[i - Len(a)]
  BY <1>1, LenProperties, ConcatProperties
<1>3. ASSUME NEW i \in 1..Len(c) PROVE Clear(c[i])
  <2>1. (i <= Len(a) => i \in 1..Len(a)) /\ (~(i <= Len(a)) => i - Len(a) \in 1..Len(b))
    BY <1>2
  <2> QED
    BY <1>2, <2>1 DEF Away
<1> QED
  BY <1>1, <1>3 DEF Away

\* Names of locks, channels and tasks that are not F, and tasks that are not each other.
LEMMA NotFib ==
    ASSUME NEW n
    PROVE  /\ N(n) # F /\ S # F /\ R # F /\ Ev(n) # F /\ RibQ # F /\ FibQ # F
           /\ fsm(n) # F /\ timer_hold(n) # F
           /\ fib_mgr \notin {fsm(n), connect(n), timer_hold(n), timer_keepalive(n), rib_mgr,
                              listen, grpc}
           /\ \A m : timer_hold(n) # fsm(m)
  BY DEF N, S, R, F, Ev, RibQ, FibQ, fsm, connect, timer_hold, timer_keepalive, rib_mgr, fib_mgr,
         listen, grpc

\* The parts of an instruction.
LEMMA LockParts ==
    ASSUME NEW l
    PROVE  /\ Lock(l).op = "lock" /\ Lock(l).on = l /\ Unlock(l).op = "unlock" /\ Unlock(l).on = l
           /\ Visit(l).op = "visit" /\ Visit(l).on = l
  BY DEF I, Lock, Unlock, Visit

\* Of one with an argument.
LEMMA SendParts ==
    ASSUME NEW l, NEW a
    PROVE  Send(l, a).op = "send" /\ Send(l, a).on = l
  BY DEF I, Send

\* Of those about a neighbour.
LEMMA NamedParts ==
    ASSUME NEW n, NEW a
    PROVE  /\ Become(n, a).op = "visit" /\ Become(n, a).on = N(n)
           /\ I("unlock", N(n), a).op = "unlock" /\ I("unlock", N(n), a).on = N(n)
           /\ I("end", N(n), a).op = "end" /\ I("end", N(n), a).on = N(n)
           /\ TryLock(n).op = "try" /\ TryLock(n).on = N(n)
           /\ Tell(n).op = "tell" /\ Tell(n).on = Ev(n)
           /\ Spawn(n).op = "spawn" /\ Spawn(n).on = fsm(n)
           /\ Join(n).op = "join" /\ Join(n).on = timer_hold(n)
<1>1. Become(n, a).op = "visit" /\ Become(n, a).on = N(n)
  BY DEF Become, I
<1>2. I("unlock", N(n), a).op = "unlock" /\ I("unlock", N(n), a).on = N(n)
  BY DEF I
<1>3. I("end", N(n), a).op = "end" /\ I("end", N(n), a).on = N(n)
  BY DEF I
<1>4. TryLock(n).op = "try" /\ TryLock(n).on = N(n)
  BY DEF TryLock, I
<1>5. Tell(n).op = "tell" /\ Tell(n).on = Ev(n)
  BY DEF Tell, I
<1>6. Spawn(n).op = "spawn" /\ Spawn(n).on = fsm(n)
  BY DEF Spawn, I
<1>7. Join(n).op = "join" /\ Join(n).on = timer_hold(n)
  BY DEF Join, I
<1> QED
  BY <1>1, <1>2, <1>3, <1>4, <1>5, <1>6, <1>7

\* What they are made of.
LEMMA PlainIs ==
    ASSUME NEW n \in Neighbors
    PROVE  /\ \A l \in Locks : Lock(l) \in Instructions /\ Unlock(l) \in Instructions
           /\ \A l \in Locks : Visit(l) \in Instructions
           /\ \A c \in Channels, e \in Payload : Send(c, e) \in Instructions
           /\ \A s \in States : Become(n, s) \in Instructions
           /\ Join(n) \in Instructions
<1>1. \A l \in Locks : Lock(l) \in Instructions /\ Unlock(l) \in Instructions
  BY Parts, Zenon
<1>2. \A t, x : Plain(t, x) => x \in Instructions
  BY Zenon DEF Plain
<1>3. \A l \in Locks : Visit(l) \in Instructions
  BY <1>2, PlainVisit, Zenon
<1>4. \A c \in Channels, e \in Payload : Send(c, e) \in Instructions
  BY <1>2, PlainSend, Zenon
<1>5. \A s \in States : Become(n, s) \in Instructions
  BY <1>2, PlainBecome, Zenon
<1>6. Join(n) \in Instructions
  BY <1>2, PlainTask, Zenon
<1> QED
  BY <1>1, <1>3, <1>4, <1>5, <1>6

\* The same of those that are about no neighbour.
LEMMA GlobalIs ==
    /\ \A l \in Locks : /\ Lock(l) \in Instructions /\ Unlock(l) \in Instructions
                        /\ Visit(l) \in Instructions
    /\ \A c \in Channels, e \in Payload : Send(c, e) \in Instructions
<1>1. \A l \in Locks : Lock(l) \in Instructions /\ Unlock(l) \in Instructions
  BY Parts, Zenon
<1>2. \A t, x : Plain(t, x) => x \in Instructions
  BY Zenon DEF Plain
<1>3. \A l \in Locks : Visit(l) \in Instructions
  BY <1>2, PlainVisit, Zenon
<1>4. \A c \in Channels, e \in Payload : Send(c, e) \in Instructions
  BY <1>2, PlainSend, Zenon
<1> QED
  BY <1>1, <1>3, <1>4

\* The instructions that are clear.
LEMMA ClearOnes ==
    ASSUME NEW n
    PROVE  /\ Clear(Lock(N(n))) /\ Clear(Unlock(N(n))) /\ Clear(Visit(N(n)))
           /\ Clear(Lock(S)) /\ Clear(Unlock(S)) /\ Clear(Visit(S))
           /\ Clear(Lock(R)) /\ Clear(Unlock(R)) /\ Clear(Visit(R))
           /\ Clear(TryLock(n)) /\ Clear(Tell(n)) /\ Clear(Spawn(n))
<1>1. \A l : l # F => Clear(Lock(l)) /\ Clear(Unlock(l)) /\ Clear(Visit(l))
  BY LockParts DEF Clear
<1>2. N(n) # F /\ S # F /\ R # F /\ Ev(n) # F /\ fsm(n) # F
  BY NotFib
<1>3. Clear(TryLock(n)) /\ Clear(Tell(n)) /\ Clear(Spawn(n))
  BY <1>2, NamedParts DEF Clear
<1> QED
  BY <1>1, <1>2, <1>3

\* So are sends and what sets a state.
LEMMA ClearEvents ==
    ASSUME NEW n, NEW e
    PROVE  /\ Clear(Send(Ev(n), e)) /\ Clear(Send(RibQ, e))
           /\ Clear(Become(n, e)) /\ Clear(I("unlock", N(n), e))
<1>1. N(n) # F /\ Ev(n) # F /\ RibQ # F
  BY NotFib
<1>2. Clear(Send(Ev(n), e)) /\ Clear(Send(RibQ, e))
  BY <1>1, SendParts DEF Clear
<1>3. Clear(Become(n, e)) /\ Clear(I("unlock", N(n), e))
  BY <1>1, NamedParts DEF Clear
<1> QED
  BY <1>2, <1>3

\* The loops over all neighbours.
LEMMA AwayLoops ==
    /\ VisitAll \in Seq(Instructions) /\ Away(VisitAll)
    /\ TellAll \in Seq(Instructions) /\ Away(TellAll)
<1>1. VisitAll \in Seq(Instructions) /\ TellAll \in Seq(Instructions)
  BY SafeVisitAll, SafeTellAll DEF Safe, Good
<1>2. /\ AllNeighbors \in Seq(Neighbors) /\ Len(AllNeighbors) \in Nat
      /\ DOMAIN AllNeighbors = 1..Len(AllNeighbors)
  BY NeighborList, LenProperties
<1>3. PICK v : v = VisitAll
  OBVIOUS
<1>4. PICK w : w = TellAll
  OBVIOUS
<1>5. Away(v)
  <2>1. \A i \in 1..Len(v) : \E n : v[i] = Visit(N(n))
    <3>1. DOMAIN v = 1..Len(v)
      BY <1>1, <1>3, LenProperties
    <3> QED
      BY <1>3, <3>1 DEF VisitAll
  <2>2. \A n : Clear(Visit(N(n)))
    BY ClearOnes
  <2> QED
    BY <2>1, <2>2 DEF Away
<1>6. Away(w)
  <2>1. ASSUME NEW i \in 1..Len(w)
        PROVE  \E n : w[i] = Lock(N(n)) \/ w[i] = Tell(n) \/ w[i] = Unlock(N(n))
    <3>1. i \in DOMAIN w /\ DOMAIN w = 1..(3 * Len(AllNeighbors))
      <4>1. DOMAIN w = 1..Len(w)
        BY <1>1, <1>4, LenProperties
      <4> QED
        BY <1>4, <4>1 DEF TellAll
    <3>2. PICK n : n = AllNeighbors[1 + ((i - 1) \div 3)]
      OBVIOUS
    <3>3. w[i] = <<Lock(N(n)), Tell(n), Unlock(N(n))>>[1 + ((i - 1) % 3)]
      BY <1>4, <3>1, <3>2 DEF TellAll
    <3>4. i \in Int /\ 1 + ((i - 1) % 3) \in 1..3
      BY <1>2, <3>1
    <3>5. PICK k \in 1..3 : k = 1 + ((i - 1) % 3)
      BY <3>4
    <3>6. w[i] = <<Lock(N(n)), Tell(n), Unlock(N(n))>>[k]
      BY <3>3, <3>5
    <3> QED
      BY <3>6
  <2>2. \A n : Clear(Lock(N(n))) /\ Clear(Tell(n)) /\ Clear(Unlock(N(n)))
    BY ClearOnes
  <2> QED
    BY <2>1, <2>2 DEF Away
<1> QED
  BY <1>1, <1>3, <1>4, <1>5, <1>6

\* What a session does before it ends.
LEMMA SessionShapes ==
    ASSUME NEW n \in Neighbors
    PROVE  /\ Shape(fsm(n), FirstEvent(n)) /\ Shape(fsm(n), HandleOpen(n))
           /\ \A m : Shape(fsm(n), HandleOpenCollides(n, m))
           /\ Shape(fsm(n), Establish(n)) /\ Shape(fsm(n), HandleUpdate(n))
           /\ Shape(fsm(n), HandleNotification(n)) /\ Shape(fsm(n), <<Visit(N(n))>>)
<1>1. fsm(n) # fib_mgr
  BY NotFib
<1>2. Away(FirstEvent(n))
  BY ClearOnes, ClearEvents, AwayFew, AwayMany DEF FirstEvent
<1>3. Away(HandleOpen(n))
  <2>1. PICK a : a = <<Visit(N(n)), Visit(S)>>
    OBVIOUS
  <2>2. PICK b : b = <<Become(n, "OpenConfirm")>>
    OBVIOUS
  <2>3. a \in Seq(Instructions)
    <3>1. N(n) \in Locks /\ S \in Locks
      BY Names
    <3>2. Visit(N(n)) \in Instructions /\ Visit(S) \in Instructions
      BY <3>1, PlainIs
    <3> QED
      BY <2>1, <3>2
  <2>4. b \in Seq(Instructions)
    <3>1. "OpenConfirm" \in States
      BY DEF States
    <3>2. Become(n, "OpenConfirm") \in Instructions
      BY <3>1, PlainIs
    <3> QED
      BY <2>2, <3>2
  <2>5. Away(a) /\ Away(b)
    BY <2>1, <2>2, ClearOnes, ClearEvents, AwayFew, AwayMany
  <2>6. a \o VisitAll \in Seq(Instructions) /\ Away(a \o VisitAll)
    BY <2>3, <2>5, AwayLoops, AwayConcat, ConcatProperties
  <2>7. Away((a \o VisitAll) \o b)
    BY <2>4, <2>5, <2>6, AwayConcat
  <2> QED
    BY <2>1, <2>2, <2>7 DEF HandleOpen
<1>4. \A m : Away(HandleOpenCollides(n, m))
  BY ClearOnes, ClearEvents, AwayFew, AwayMany DEF HandleOpenCollides
<1>5. Away(Establish(n))
  BY ClearOnes, ClearEvents, AwayFew, AwayMany DEF Establish
<1>6. Away(HandleUpdate(n))
  BY ClearOnes, ClearEvents, AwayFew, AwayMany DEF HandleUpdate
<1>7. Away(HandleNotification(n))
  BY ClearOnes, ClearEvents, AwayFew, AwayMany DEF HandleNotification
<1>8. Away(<<Visit(N(n))>>)
  BY ClearOnes, ClearEvents, AwayFew, AwayMany
<1> QED
  BY <1>1, <1>2, <1>3, <1>4, <1>5, <1>6, <1>7, <1>8, AwayShape

\* A script without a join.
NoJoin(s) == \A i \in 1..Len(s) : s[i].op # "join"

\* Two scripts of one shape, the first without a join, have it together.
LEMMA ShapeConcat ==
    ASSUME NEW t, t # fib_mgr, NEW a \in Seq(Instructions), NEW b \in Seq(Instructions),
           Shape(t, a), Shape(t, b), NoJoin(a)
    PROVE  /\ Shape(t, a \o b) /\ a \o b \in Seq(Instructions)
           /\ NoJoin(b) => NoJoin(a \o b)
<1>1. PICK c : c = a \o b
  OBVIOUS
<1>2. /\ Len(a) \in Nat /\ Len(b) \in Nat /\ Len(c) = Len(a) + Len(b) /\ c \in Seq(Instructions)
      /\ \A i \in 1..Len(c) : c[i] = IF i <= Len(a) THEN a[i] ELSE b[i - Len(a)]
  BY <1>1, LenProperties, ConcatProperties
<1>3. \A i \in 1..Len(c) : \/ i \in 1..Len(a) /\ c[i] = a[i]
                           \/ i - Len(a) \in 1..Len(b) /\ c[i] = b[i - Len(a)] /\ i > Len(a)
  BY <1>2
<1>4. ASSUME NEW i \in 1..Len(c)
      PROVE  Allowed(t, c[i]) /\ (Bare(t, c[i]) => \A j \in i..Len(c) : c[j].op # "unlock")
  <2>1. CASE i \in 1..Len(a) /\ c[i] = a[i]
    <3>1. ~Bare(t, c[i])
      BY <2>1 DEF Bare, NoJoin
    <3> QED
      BY <2>1, <3>1 DEF Shape
  <2>2. CASE i - Len(a) \in 1..Len(b) /\ c[i] = b[i - Len(a)] /\ i > Len(a)
    <3>1. \A j \in i..Len(c) : j - Len(a) \in (i - Len(a))..Len(b) /\ c[j] = b[j - Len(a)]
      <4>1. \A j \in i..Len(c) : /\ j \in 1..Len(c) /\ ~(j <= Len(a))
                                /\ j - Len(a) \in (i - Len(a))..Len(b)
        BY <1>2, <2>2
      <4> QED
        BY <1>2, <4>1
    <3> QED
      BY <2>2, <3>1 DEF Shape
  <2> QED
    BY <1>3, <2>1, <2>2
<1>5. NoJoin(b) => NoJoin(c)
  BY <1>3 DEF NoJoin
<1>6. Shape(t, c)
  BY <1>4 DEF Shape
<1> QED
  BY <1>1, <1>2, <1>5, <1>6

\* How a session ends.
LEMMA EndShapes ==
    ASSUME NEW n \in Neighbors
    PROVE  /\ Shape(fsm(n), Ends(n)) /\ Shape(fsm(n), <<Visit(N(n))>> \o Ends(n))
           /\ \A e : Shape(fsm(n), HandleEvent(n, e))
<1>1. PICK j : j = Join(n)
  BY Zenon
<1>2. PICK z : z = I("end", N(n), "")
  BY Zenon
<1>3. fsm(n) # fib_mgr
  BY NotFib
<1>4. j.op = "join" /\ j.on = timer_hold(n)
  BY <1>1, NamedParts
<1>5. z.op = "end" /\ z.on # F
  <2>1. z.op = "end" /\ z.on = N(n)
    BY <1>2, NamedParts, Zenon
  <2> QED
    BY <2>1, NotFib
<1>6. Allowed(fsm(n), j) /\ Allowed(fsm(n), z)
  BY <1>3, <1>4, <1>5 DEF Allowed
<1>7. PICK e : e = Ends(n)
  BY Zenon
<1>8. e = <<j, z>>
  BY <1>1, <1>2, <1>7, Zenon DEF Ends
<1>9. e \in Seq(Instructions)
  BY <1>7, SafeFsm DEF Safe, Good
<1>10. Shape(fsm(n), e)
  <2> HIDE <1>1, <1>2, <1>7, <1>9
  <2> QED
    BY <1>4, <1>5, <1>6, <1>8 DEF Shape
<1>11. PICK v : v = <<Visit(N(n))>>
  BY Zenon
<1>12. v \in Seq(Instructions) /\ NoJoin(v)
  <2>1. Visit(N(n)) \in Instructions /\ Visit(N(n)).op = "visit"
    BY PlainIs, Names, LockParts
  <2> QED
    BY <1>11, <2>1 DEF NoJoin
<1>13. Shape(fsm(n), v)
  BY <1>11, SessionShapes
<1>14. Shape(fsm(n), v \o e)
  BY <1>3, <1>9, <1>10, <1>12, <1>13, ShapeConcat
<1>15. \A d : HandleEvent(n, d) \in {e, v}
  BY <1>7, <1>11, Zenon DEF HandleEvent
<1>16. \A d : Shape(fsm(n), HandleEvent(n, d))
  BY <1>10, <1>13, <1>15
<1> QED
  BY <1>7, <1>10, <1>11, <1>14, <1>16

\* The other tasks of a neighbour and the listener.
LEMMA OtherShapes ==
    ASSUME NEW n \in Neighbors
    PROVE  /\ Shape(connect(n), Connect(n)) /\ Shape(connect(n), ConnectFails(n))
           /\ Shape(listen, AddIncoming(n))
           /\ Shape(timer_hold(n), HoldExpires(n))
           /\ Shape(timer_keepalive(n), KeepaliveTick(n))
<1>1. Away(Connect(n))
  BY ClearOnes, ClearEvents, AwayFew, AwayMany DEF Connect
<1>2. Away(ConnectFails(n))
  BY ClearOnes, ClearEvents, AwayFew, AwayMany DEF ConnectFails
<1>3. Away(AddIncoming(n))
  BY ClearOnes, ClearEvents, AwayFew, AwayMany DEF AddIncoming
<1>4. Away(HoldExpires(n)) /\ Away(KeepaliveTick(n))
  BY ClearOnes, ClearEvents, AwayFew, AwayMany DEF HoldExpires, KeepaliveTick
<1>5. fib_mgr \notin {connect(n), listen, timer_hold(n), timer_keepalive(n)}
  BY NotFib
<1> QED
  BY <1>1, <1>2, <1>3, <1>4, <1>5, AwayShape

\* The managers and the queries.
LEMMA ManagerShapes ==
    /\ Shape(rib_mgr, RibQuiet) /\ Shape(rib_mgr, RibReports)
    /\ Shape(fib_mgr, FibSyncs) /\ Shape(fib_mgr, FibRefreshes)
    /\ Shape(grpc, get_neighbor_config) /\ Shape(grpc, get_rib)
<1>1. rib_mgr # fib_mgr /\ grpc # fib_mgr
  BY NotFib
<1>2. PICK x : x = Lock(R)
  OBVIOUS
<1>3. PICK y : y = Visit(F)
  OBVIOUS
<1>4. PICK z : z = Unlock(R)
  OBVIOUS
<1>5. PICK m : m = <<Send(FibQ, "e")>>
  BY Zenon
<1>6. x.op = "lock" /\ y.op = "visit" /\ z.op = "unlock" /\ x.on = R /\ y.on = F /\ z.on = R
  BY <1>2, <1>3, <1>4, LockParts
<1>7. PICK q : q = RibQuiet
  BY Zenon
<1>8. q = <<x, y, z>>
  BY <1>2, <1>3, <1>4, <1>7, Zenon DEF RibQuiet
<1>9. q \in Seq(Instructions)
  BY <1>7, SafeManagers DEF Safe, Good
<1>10. Shape(rib_mgr, q) /\ NoJoin(q)
  <2>1. \A w \in {x, y, z} : Allowed(rib_mgr, w) /\ ~Bare(rib_mgr, w) /\ w.op # "join"
    BY <1>1, <1>6 DEF Allowed, Bare
  <2>2. \A i \in 1..Len(q) : q[i] \in {x, y, z}
    BY <1>8
  <2> QED
    BY <2>1, <2>2 DEF Shape, NoJoin
<1>11. m \in Seq(Instructions) /\ Shape(rib_mgr, m) /\ NoJoin(m)
  <2>1. PICK w : w = Send(FibQ, "e")
    BY Zenon
  <2>2. w \in Instructions /\ Clear(w)
    <3>1. "e" \in Payload /\ FibQ \in Channels /\ FibQ # F
      BY GlobalNames, NotFib DEF Payload
    <3>2. Send(FibQ, "e") \in Instructions
      BY <3>1, GlobalIs
    <3>3. w.op = "send" /\ w.on = FibQ
      BY <2>1, SendParts
    <3> QED
      BY <2>1, <3>1, <3>2, <3>3 DEF Clear
  <2>3. m = <<w>>
    BY <1>5, <2>1
  <2>4. m \in Seq(Instructions) /\ Away(m)
    BY <2>2, <2>3, AwayFew
  <2> QED
    BY <1>1, <2>4, AwayShape DEF Away, Clear, NoJoin
<1>12. /\ TellAll \in Seq(Instructions) /\ Shape(rib_mgr, TellAll)
  BY <1>1, AwayLoops, AwayShape
<1>13. Shape(rib_mgr, q \o m) /\ q \o m \in Seq(Instructions) /\ NoJoin(q \o m)
  BY <1>1, <1>9, <1>10, <1>11, ShapeConcat
<1>14. Shape(rib_mgr, (q \o m) \o TellAll)
  BY <1>1, <1>12, <1>13, ShapeConcat
<1>15. Shape(rib_mgr, RibQuiet)
  BY <1>7, <1>10
<1>16. Shape(rib_mgr, RibReports)
  BY <1>5, <1>7, <1>14, Zenon DEF RibReports
<1>17. Shape(fib_mgr, FibSyncs)
  <2>1. PICK u : u = Lock(F)
    OBVIOUS
  <2>2. PICK v : v = Unlock(F)
    OBVIOUS
  <2>3. u.op = "lock" /\ u.on = F /\ v.op = "unlock" /\ v.on = F
    BY <2>1, <2>2, LockParts
  <2>4. \A w \in {u, x, z, v} : Allowed(fib_mgr, w) /\ ~Bare(fib_mgr, w)
    BY <1>6, <2>3 DEF Allowed, Bare
  <2>5. Shape(fib_mgr, <<u, x, z, v>>)
    BY <2>4 DEF Shape
  <2> QED
    BY <1>2, <1>4, <2>1, <2>2, <2>5 DEF FibSyncs
<1>18. Shape(fib_mgr, FibRefreshes)
  <2>1. Allowed(fib_mgr, y)
    BY <1>6 DEF Allowed
  <2>2. Shape(fib_mgr, <<y>>)
    BY <1>6, <2>1 DEF Shape
  <2> QED
    BY <1>3, <2>2 DEF FibRefreshes
<1>19. Away(get_neighbor_config)
  <2>1. PICK b : b = <<Visit(S)>>
    OBVIOUS
  <2>2. b \in Seq(Instructions) /\ Away(b)
    <3>1. Visit(S) \in Instructions
      BY GlobalNames, GlobalIs
    <3> QED
      BY <2>1, <3>1, ClearOnes, ClearEvents, AwayFew, AwayMany
  <2> QED
    BY <2>1, <2>2, AwayLoops, AwayConcat DEF get_neighbor_config
<1>20. Away(get_rib)
  BY ClearOnes, ClearEvents, AwayFew, AwayMany DEF get_rib
<1> QED
  BY <1>1, <1>15, <1>16, <1>17, <1>18, <1>19, <1>20, AwayShape

\* A task that starts a script of its shape.
LEMMA ShapeStarts ==
    ASSUME Inv, Shapes, NEW t \in Tasks, NEW s, Shape(t, s), Begin(t, s)
    PROVE  Shapes'
<1>1. script \in [Tasks -> Seq(Instructions)] /\ script' = [script EXCEPT ![t] = s]
  BY DEF Inv, Scripts, Begin
<1>2. \A v \in Tasks : script'[v] = IF v = t THEN s ELSE script[v]
  BY <1>1
<1>3. \A v \in Tasks : Shape(v, script'[v])
  BY <1>2 DEF Shapes
<1> QED
  BY <1>3 DEF Shapes, Shape, Allowed, Bare

\* A task that goes on.
LEMMA ShapeGoes ==
    ASSUME Inv, Shapes, NEW t \in Tasks, script[t] # <<>>, Go(t)
    PROVE  Shapes'
<1>1. script[t] \in Seq(Instructions)
  BY DEF Inv, Scripts
<1>2. Shape(t, Tail(script[t]))
  BY <1>1, ShapeTail DEF Shapes
<1>3. script'[t] = Tail(script[t]) /\ \A v \in Tasks \ {t} : script'[v] = script[v]
  BY GoesOn
<1>4. \A v \in Tasks : Shape(v, script'[v])
  BY <1>2, <1>3 DEF Shapes
<1> QED
  BY <1>4 DEF Shapes, Shape, Allowed, Bare

\* A task without instructions.
LEMMA InitShapes == Init => Shapes
<1> SUFFICES ASSUME Init, NEW t \in Tasks PROVE Shape(t, script[t])
  BY DEF Shapes
<1>1. script[t] = <<>>
  BY DEF Init
<1> QED
  BY <1>1 DEF Shape

\* The inputs keep the shapes,
LEMMA InputShapes ==
    ASSUME Inv, Shapes, Inputs
    PROVE  Shapes'
<1>1. ASSUME NEW n \in Neighbors, Message(n) PROVE Shapes'
  <2>1. PICK s : Begin(fsm(n), s) /\ Shape(fsm(n), s)
    BY <1>1, SessionShapes, EndShapes DEF Message
  <2> QED
    BY <2>1, Names, ShapeStarts
<1>2. ASSUME NEW n \in Neighbors, ReadFails(n) PROVE Shapes'
  <2>1. PICK s : Begin(fsm(n), s) /\ Shape(fsm(n), s)
    BY <1>2, EndShapes DEF ReadFails
  <2> QED
    BY <2>1, Names, ShapeStarts
<1>3. ASSUME NEW n \in Neighbors, Connects(n) PROVE Shapes'
  <2>1. PICK s : Begin(connect(n), s) /\ Shape(connect(n), s)
    BY <1>3, OtherShapes DEF Connects
  <2> QED
    BY <2>1, Names, ShapeStarts
<1>4. ASSUME NEW n \in Neighbors, Accept(n) PROVE Shapes'
  <2>1. PICK s : Begin(listen, s) /\ Shape(listen, s)
    BY <1>4, OtherShapes DEF Accept
  <2> QED
    BY <2>1, GlobalNames, ShapeStarts
<1>5. ASSUME NEW n \in Neighbors, TimerExpires(n) PROVE Shapes'
  <2>1. PICK t \in {timer_hold(n), timer_keepalive(n)} : \E s : Begin(t, s) /\ Shape(t, s)
    BY <1>5, OtherShapes DEF TimerExpires
  <2> QED
    BY <2>1, Names, ShapeStarts
<1>6. ASSUME Query PROVE Shapes'
  <2>1. PICK s : Begin(grpc, s) /\ Shape(grpc, s)
    BY <1>6, ManagerShapes DEF Query
  <2> QED
    BY <2>1, GlobalNames, ShapeStarts
<1>7. ASSUME FibTimeout PROVE Shapes'
  <2>1. PICK s : Begin(fib_mgr, s) /\ Shape(fib_mgr, s)
    BY <1>7, ManagerShapes DEF FibTimeout
  <2> QED
    BY <2>1, GlobalNames, ShapeStarts
<1> QED
  BY <1>1, <1>2, <1>3, <1>4, <1>5, <1>6, <1>7 DEF Inputs

\* so does a reader that takes an event,
LEMMA ReceiveShapes ==
    ASSUME Inv, Shapes, NEW c \in Channels, Receive(c)
    PROVE  Shapes'
<1>1. CASE Begin(rib_mgr, RibQuiet) \/ Begin(rib_mgr, RibReports)
  BY <1>1, ManagerShapes, GlobalNames, ShapeStarts
<1>2. CASE Begin(fib_mgr, FibSyncs)
  BY <1>2, ManagerShapes, GlobalNames, ShapeStarts
<1>3. ASSUME NEW n \in Neighbors, NEW e, Begin(fsm(n), HandleEvent(n, e))
      PROVE  Shapes'
  BY <1>3, EndShapes, Names, ShapeStarts
<1> QED
  BY <1>1, <1>2, <1>3 DEF Receive

\* and so does every instruction.
LEMMA StepShapes ==
    ASSUME Inv, Shapes, NEW t \in Tasks, Step(t)
    PROVE  Shapes'
<1>1. script[t] # <<>>
  BY DEF Step, Acquire, Release, Visits, Tries, Sends, Joins, Spawns, FsmEnds, At
<1>2. CASE Go(t)
  BY <1>1, <1>2, ShapeGoes
<1>3. script \in [Tasks -> Seq(Instructions)]
  BY DEF Inv, Scripts
<1>4. ASSUME Tries(t), ~Go(t)
      PROVE  Shapes'
  <2>1. PICK s : s = <<Unlock(S)>>
    BY Zenon
  <2>2. Op(t).op = "try" /\ script' = [script EXCEPT ![t] = s]
    BY <1>4, <2>1, Zenon DEF Tries, At
  <2>3. t # fib_mgr
    <3>1. Op(t) = script[t][1] /\ 1 \in 1..Len(script[t])
      BY <1>1, <1>3, AtHead, EmptySeq, LenProperties
    <3>2. Allowed(t, Op(t))
      BY <3>1 DEF Shapes, Shape
    <3> QED
      BY <2>2, <3>2 DEF Allowed
  <2>4. Shape(t, s)
    BY <2>1, <2>3, ClearOnes, AwayFew, AwayShape
  <2>5. \A v \in Tasks : script'[v] = IF v = t THEN s ELSE script[v]
    BY <1>3, <2>2
  <2>6. \A v \in Tasks : Shape(v, script'[v])
    BY <2>4, <2>5 DEF Shapes
  <2> QED
    BY <2>6 DEF Shapes, Shape, Allowed, Bare
<1>5. ASSUME Spawns(t), ~Go(t)
      PROVE  Shapes'
  <2>1. Op(t).op = "spawn"
    BY <1>5 DEF Spawns, At
  <2>2. PICK n \in Neighbors : Op(t).on = fsm(n) /\ Op(t).on[2] = n
    BY <1>1, <2>1, AtHead, NamesDiffer DEF Matched
  <2>3. PICK a : a = Tail(script[t])
    BY Zenon
  <2>4. PICK b : b = FirstEvent(n)
    BY Zenon
  <2>5. n \notin open /\ script' = [script EXCEPT ![t] = a, ![fsm(n)] = b]
    BY <1>5, <2>2, <2>3, <2>4 DEF Spawns
  <2>6. Shape(t, a) /\ Shape(fsm(n), b)
    <3>1. Shape(t, Tail(script[t]))
      BY <1>1, <1>3, ShapeTail DEF Shapes
    <3> QED
      BY <2>3, <2>4, <3>1, SessionShapes
  <2>7. t # fsm(n)
    BY <1>1, <2>5, ClosedIdle
  <2>8. \A v \in Tasks : \/ v = t /\ script'[v] = a
                         \/ v = fsm(n) /\ script'[v] = b
                         \/ script'[v] = script[v]
    <3>1. PICK f : f = fsm(n)
      BY Zenon
    <3>2. PICK g : g = [script EXCEPT ![t] = a]
      BY Zenon
    <3>3. script' = [g EXCEPT ![f] = b]
      BY <2>5, <3>1, <3>2
    <3>4. DOMAIN g = Tasks /\ \A v \in Tasks : g[v] = IF v = t THEN a ELSE script[v]
      BY <1>3, <3>2
    <3>5. \A v \in Tasks : script'[v] = IF v = f THEN b ELSE g[v]
      BY <3>3, <3>4
    <3>6. \A v \in Tasks : v # f /\ v # t => script'[v] = script[v]
      BY <3>4, <3>5
    <3>7. \A v \in Tasks : v # f /\ v = t => script'[v] = a
      BY <3>4, <3>5
    <3>8. \A v \in Tasks : v = f => script'[v] = b
      BY <3>5
    <3> QED
      BY <3>1, <3>6, <3>7, <3>8, Zenon
  <2>9. \A v \in Tasks : Shape(v, script'[v])
    BY <2>6, <2>8 DEF Shapes
  <2> QED
    BY <2>9 DEF Shapes, Shape, Allowed, Bare
<1>6. Go(t) \/ (Tries(t) /\ ~Go(t)) \/ (Spawns(t) /\ ~Go(t))
  BY DEF Step, Acquire, Release, Visits, Sends, Joins, FsmEnds
<1> QED
  BY <1>2, <1>4, <1>5, <1>6

\* Every step keeps the shapes.
LEMMA NextShapes == Inv /\ Shapes /\ [Next]_vars => Shapes'
<1> SUFFICES ASSUME Inv, Shapes, [Next]_vars PROVE Shapes'
  OBVIOUS
<1>1. CASE UNCHANGED vars
  BY <1>1 DEF vars, Shapes, Shape, Allowed, Bare
<1> QED
  BY <1>1, InputShapes, ReceiveShapes, StepShapes DEF Next

-----------------------------------------------------------------------------
(* Whom a task waits for                                                   *)

\* A task that is about to do what it does with no lock held holds none.
LEMMA BareHolds ==
    ASSUME Inv, Shapes, NEW t \in Tasks, script[t] # <<>>, Bare(t, Op(t))
    PROVE  HeldAt(script[t], 1) = {}
<1>1. /\ script[t] \in Seq(Instructions) /\ Op(t) = script[t][1]
      /\ 1 \in 1..Len(script[t])
  BY AtHead, EmptySeq, LenProperties
<1>2. \A j \in 1..Len(script[t]) : script[t][j].op # "unlock"
  BY <1>1 DEF Shapes, Shape
<1> QED
  BY <1>2 DEF HeldAt

\* A task that waits, and not for room, waits for the holder of a lock, or it is a
\* session that holds nothing and waits for its hold timer.
LEMMA WaitsHow ==
    ASSUME Inv, Shapes, NEW t \in Tasks, WaitsFor(t) \in Tasks, ~WaitsForRoom(t)
    PROVE  /\ script[t] # <<>> /\ Allowed(t, Op(t))
           /\ \/ /\ Op(t).op \in {"lock", "visit", "end"} /\ Op(t).on \in Locks
                 /\ Op(t).on \in HeldAt(script[WaitsFor(t)], 1)
              \/ /\ Op(t).op = "join" /\ HeldAt(script[t], 1) = {}
                 /\ \E n \in Neighbors : WaitsFor(t) = timer_hold(n)
<1>1. script[t] # <<>>
  BY NobodyIsNoTask DEF WaitsFor, Idle
<1>2. Allowed(t, Op(t))
  <2>1. /\ script[t] \in Seq(Instructions) /\ Op(t) = script[t][1]
        /\ 1 \in 1..Len(script[t])
    BY <1>1, AtHead, EmptySeq, LenProperties
  <2> QED
    BY <2>1 DEF Shapes, Shape
<1>3. CASE Op(t).op \in {"lock", "visit", "end"}
  <2>1. WaitsFor(t) = holder[Op(t).on]
    BY <1>1, <1>3 DEF WaitsFor, Idle
  <2>2. Op(t).on \in Locks
    BY <1>1, <1>3, AtHead DEF Matched
  <2> QED
    BY <1>1, <1>2, <1>3, <2>1, <2>2 DEF Inv, Holders
<1>4. CASE Op(t).op = "join"
  <2>1. WaitsFor(t) = Op(t).on
    BY <1>1, <1>4, NobodyIsNoTask DEF WaitsFor
  <2>2. HeldAt(script[t], 1) = {}
    BY <1>1, <1>4, BareHolds DEF Bare
  <2> QED
    BY <1>1, <1>2, <1>4, <2>1, <2>2 DEF Allowed
<1>5. CASE Op(t).op \in {"send", "tell"}
  BY <1>1, <1>5, NobodyIsNoTask DEF WaitsFor, WaitsForRoom, At, Idle
<1>6. CASE Op(t).op \notin {"lock", "visit", "end", "join", "send", "tell"}
  BY <1>1, <1>6, NobodyIsNoTask DEF WaitsFor, Idle
<1> QED
  BY <1>1, <1>2, <1>3, <1>4, <1>5, <1>6

\* The lock a task waits for comes after every lock it holds.
LEMMA WaitsClimb ==
    ASSUME Inv, NEW t \in Tasks \ {fib_mgr}, script[t] # <<>>,
           Op(t).op \in {"lock", "visit", "end"}, NEW l \in HeldAt(script[t], 1)
    PROVE  Rank(l) < Rank(Op(t).on)
<1>1. Climbs(script[t], 1) /\ Op(t) = script[t][1]
  BY AtHead
<1> QED
  BY <1>1 DEF Climbs

\* The ranks.
LEMMA Ranks ==
    ASSUME NEW l
    PROVE  Rank(l) \in 1..4 /\ (Rank(l) = 4 <=> l = F) /\ (l \in {R, F} <=> Rank(l) >= 3)
  BY GlobalNames DEF Rank

\* Among tasks of which none waits for room and none is the FIB manager, the one a
\* task waits for waits for a lock that comes later.
LEMMA WaitsHigher ==
    ASSUME Inv, Shapes, NEW W, Deadlocked(W), \A t \in W : ~WaitsForRoom(t), fib_mgr \notin W
    PROVE  FALSE
<1> DEFINE Locking(t) == Op(t).op \in {"lock", "visit", "end"}
           Level(t) == Rank(Op(t).on)
<1>1. ASSUME NEW t \in W
      PROVE  /\ WaitsFor(t) \in W
             /\ script[t] # <<>> /\ Allowed(t, Op(t))
             /\ \/ /\ Locking(t) /\ Op(t).on \in Locks
                   /\ Op(t).on \in HeldAt(script[WaitsFor(t)], 1)
                \/ /\ Op(t).op = "join" /\ HeldAt(script[t], 1) = {}
                   /\ \E n \in Neighbors : WaitsFor(t) = timer_hold(n)
  <2>1. t \in Tasks /\ WaitsFor(t) \in W /\ WaitsFor(t) \in Tasks
    BY DEF Deadlocked
  <2> QED
    BY <2>1, WaitsHow
<1>2. ASSUME NEW t \in W, Locking(t)
      PROVE  Locking(WaitsFor(t)) /\ Level(t) < Level(WaitsFor(t))
  <2>1. PICK u \in W : u = WaitsFor(t)
    BY <1>1
  <2>2. Op(t).on \in HeldAt(script[u], 1)
    BY <1>1, <1>2, <2>1
  <2>3. Locking(u) /\ script[u] # <<>>
    BY <1>1, <2>2
  <2>4. u \in Tasks \ {fib_mgr}
    BY DEF Deadlocked
  <2>5. Rank(Op(t).on) < Rank(Op(u).on)
    BY <2>2, <2>3, <2>4, WaitsClimb
  <2> QED
    BY <2>1, <2>3, <2>5
<1>3. \E t \in W : Locking(t)
  <2>1. PICK t \in W : TRUE
    BY DEF Deadlocked
  <2>2. CASE ~Locking(t)
    <3>1. PICK u \in W : u = WaitsFor(t) /\ \E n \in Neighbors : u = timer_hold(n)
      BY <1>1, <2>2
    <3>2. \A n : u # fsm(n)
      BY <3>1, NotFib
    <3>3. Op(u).op # "join"
      BY <1>1, <3>2 DEF Allowed
    <3> QED
      BY <1>1, <3>3
  <2> QED
    BY <2>1, <2>2
<1>4. \A t \in W : Level(t) \in 1..4
  BY Ranks
<1> HIDE DEF Locking, Level
<1>5. PICK a \in W : Locking(a)
  BY <1>3
<1>6. PICK b \in W : Locking(b) /\ Level(a) < Level(b)
  BY <1>1, <1>2, <1>5
<1>7. PICK c \in W : Locking(c) /\ Level(b) < Level(c)
  BY <1>1, <1>2, <1>6
<1>8. PICK d \in W : Locking(d) /\ Level(c) < Level(d)
  BY <1>1, <1>2, <1>7
<1>9. PICK e \in W : Locking(e) /\ Level(d) < Level(e)
  BY <1>1, <1>2, <1>8
<1> QED
  BY <1>4, <1>6, <1>7, <1>8, <1>9

\* The FIB manager waits for the rib or the fib; who holds it waits for the fib, and
\* only the other manager does.
LEMMA ManagersWait ==
    ASSUME Inv, Shapes, NEW W, Deadlocked(W), \A t \in W : ~WaitsForRoom(t), fib_mgr \in W
    PROVE  rib_mgr \in W
<1>1. ASSUME NEW t \in W
      PROVE  /\ t \in Tasks /\ WaitsFor(t) \in W
             /\ script[t] # <<>> /\ Allowed(t, Op(t))
             /\ \/ /\ Op(t).op \in {"lock", "visit", "end"} /\ Op(t).on \in Locks
                   /\ Op(t).on \in HeldAt(script[WaitsFor(t)], 1)
                \/ Op(t).op = "join" /\ HeldAt(script[t], 1) = {}
  <2>1. t \in Tasks /\ WaitsFor(t) \in W /\ WaitsFor(t) \in Tasks
    BY DEF Deadlocked
  <2> QED
    BY <2>1, WaitsHow
<1>2. PICK l : l = Op(fib_mgr).on
  BY Zenon
<1>3. PICK u \in W : u = WaitsFor(fib_mgr)
  BY <1>1
<1>4. Op(fib_mgr).op \in {"lock", "visit"} /\ l \in {R, F}
  BY <1>1, <1>2 DEF Allowed
<1>5. l \in HeldAt(script[u], 1)
  BY <1>1, <1>2, <1>3, <1>4
<1>6. l \notin HeldAt(script[fib_mgr], 1)
  <2>1. CASE Op(fib_mgr).op = "lock"
    <3>1. Matched(script[fib_mgr], 1) /\ Op(fib_mgr) = script[fib_mgr][1]
      BY <1>1, AtHead
    <3> QED
      BY <1>2, <2>1, <3>1 DEF Matched
  <2>2. CASE Op(fib_mgr).op = "visit"
    BY <1>1, <2>2, BareHolds DEF Bare
  <2> QED
    BY <1>4, <2>1, <2>2
<1>7. u # fib_mgr /\ script[u] # <<>> /\ u \in Tasks
  BY <1>1, <1>5, <1>6
<1>8. Op(u).op \in {"lock", "visit", "end"}
  BY <1>1, <1>5
<1>9. Rank(l) < Rank(Op(u).on)
  BY <1>5, <1>7, <1>8, WaitsClimb
<1>10. Op(u).on = F
  <2>1. Rank(l) >= 3 /\ Rank(l) \in 1..4
    BY <1>4, Ranks
  <2>2. Rank(Op(u).on) \in 1..4
    BY Ranks
  <2>3. Rank(Op(u).on) = 4
    BY <1>9, <2>1, <2>2
  <2> QED
    BY <2>3, Ranks
<1>11. u = rib_mgr
  BY <1>1, <1>7, <1>8, <1>10 DEF Allowed
<1> QED
  BY <1>11

\* A deadlock is one of the managers', or some task in it waits for room.
LEMMA DeadlockHasManagers ==
    ASSUME Inv, Shapes, NEW W, Deadlocked(W), \A t \in W : ~WaitsForRoom(t)
    PROVE  {rib_mgr, fib_mgr} \subseteq W
  BY WaitsHigher, ManagersWait

\* The shapes of what is left of the scripts never change.
THEOREM ShapesAlways == Spec => []Shapes
<1>1. Inv /\ Shapes /\ [Next]_vars => Shapes'
  BY NextShapes
<1> QED
  BY <1>1, InitShapes, InvAlways, PTL DEF Spec

\* Both managers are among the tasks that wait for each other, or one that waits for
\* room in a channel.
DeadlockIsKnown ==
    \A W \in SUBSET Tasks :
        Deadlocked(W) => {rib_mgr, fib_mgr} \subseteq W \/ \E t \in W : WaitsForRoom(t)

\* For any number of neighbours and any inputs: tasks that wait for each other for
\* locks and timers alone are the two managers and who waits for them.
THEOREM DeadlocksAreKnown == Spec => []DeadlockIsKnown
<1>1. Inv /\ Shapes => DeadlockIsKnown
  BY DeadlockHasManagers DEF DeadlockIsKnown
<1> QED
  BY <1>1, InvAlways, ShapesAlways, PTL

\* While no task waits for room in a channel, tasks wait for each other only if the
\* two managers do, which take the rib and the fib in opposite orders.
THEOREM OnlyManagersWait == Spec => [](NobodyWaitsForRoom => OnlyManagersDeadlock)
<1>1. Inv /\ Shapes => (NobodyWaitsForRoom => OnlyManagersDeadlock)
  <2> SUFFICES ASSUME Inv, Shapes, NobodyWaitsForRoom, Stuck # {}
               PROVE  {rib_mgr, fib_mgr} \subseteq Stuck
    BY DEF OnlyManagersDeadlock
  <2>1. PICK W \in SUBSET {t \in Tasks : WaitsFor(t) # Nobody} :
           W # {} /\ \A t \in W : WaitsFor(t) \in W
    BY DEF Stuck
  <2>2. Deadlocked(W) /\ \A t \in W : ~WaitsForRoom(t)
    BY <2>1 DEF Deadlocked, NobodyWaitsForRoom
  <2>3. {rib_mgr, fib_mgr} \subseteq W
    BY <2>2, DeadlockHasManagers
  <2> QED
    BY <2>1, <2>3 DEF Stuck
<1> QED
  BY <1>1, InvAlways, ShapesAlways, PTL
=============================================================================
