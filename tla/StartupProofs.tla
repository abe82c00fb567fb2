---------------------------- MODULE StartupProofs ---------------------------
(***************************************************************************)
(* Startup for every configuration file: types, the rib a session finds,   *)
(* and the delay of calculate_retry_delay for every connect_retry, every   *)
(* number of failures and every jitter.                                    *)
(***************************************************************************)
EXTENDS Startup, TLAPS

-----------------------------------------------------------------------------
(* calculate_retry_delay                                                   *)

\* The lesser of two.
LEMMA MinOfTwo ==
    ASSUME NEW a \in Nat, NEW b \in Nat
    PROVE  Min({a, b}) = IF a <= b THEN a ELSE b
<1>1. \E x \in {a, b} : \A y \in {a, b} : x <= y
  OBVIOUS
<1>2. Min({a, b}) \in {a, b} /\ \A y \in {a, b} : Min({a, b}) <= y
  BY <1>1 DEF Min
<1> QED
  BY <1>2

\* An element that is no greater, or no less, than any other is the least, or the
\* greatest.
LEMMA MinIs ==
    ASSUME NEW S, NEW a \in S, \A x \in S : x \in Nat /\ a <= x
    PROVE  Min(S) = a
<1>1. Min(S) \in S /\ \A y \in S : Min(S) <= y
  BY DEF Min
<1> QED
  BY <1>1

\* and the maximum.
LEMMA MaxIs ==
    ASSUME NEW S, NEW a \in S, \A x \in S : x \in Nat /\ x <= a
    PROVE  Max(S) = a
<1>1. \E x \in S : \A y \in S : x >= y
  OBVIOUS
<1>2. Max(S) \in S /\ \A y \in S : Max(S) >= y
  BY <1>1 DEF Max
<1> QED
  BY <1>2

\* Up to the tenth, every power of two is twice the one before.
LEMMA PowersDouble ==
    ASSUME NEW k \in 0..10
    PROVE  2 ^ k \in Nat \ {0} /\ (k < 10 => 2 ^ (k + 1) = 2 * 2 ^ k)
<1>0. CASE k = 0
  BY <1>0
<1>1. CASE k = 1
  BY <1>1
<1>2. CASE k = 2
  BY <1>2
<1>3. CASE k = 3
  BY <1>3
<1>4. CASE k = 4
  BY <1>4
<1>5. CASE k = 5
  BY <1>5
<1>6. CASE k = 6
  BY <1>6
<1>7. CASE k = 7
  BY <1>7
<1>8. CASE k = 8
  BY <1>8
<1>9. CASE k = 9
  BY <1>9
<1>10. CASE k = 10
  BY <1>10
<1> QED
  BY <1>0, <1>1, <1>2, <1>3, <1>4, <1>5, <1>6, <1>7, <1>8, <1>9, <1>10

\* The multiplier is positive and doubles until the tenth failure.
LEMMA MultiplierDoubles ==
    ASSUME NEW counter \in Nat
    PROVE  /\ Multiplier(counter) \in Nat \ {0}
           /\ counter < 10 => Multiplier(counter + 1) = 2 * Multiplier(counter)
<1>1. Min({counter, 10}) = IF counter <= 10 THEN counter ELSE 10
  BY MinOfTwo
<1>2. Min({counter + 1, 10}) = IF counter + 1 <= 10 THEN counter + 1 ELSE 10
  BY MinOfTwo
<1>3. PICK k \in 0..10 : k = IF counter <= 10 THEN counter ELSE 10
  OBVIOUS
<1>4. Multiplier(counter) = 2 ^ k
  BY <1>1, <1>3 DEF Multiplier
<1>5. counter < 10 => Multiplier(counter + 1) = 2 ^ (k + 1) /\ k < 10
  BY <1>2, <1>3 DEF Multiplier
<1> QED
  BY <1>4, <1>5, PowersDouble

\* A delay of at most an hour.
Hour(x) == IF x <= 3600 THEN x ELSE 3600

\* The delay before jitter with backoff: at least the configured one, up to an hour.
Doubled(base, counter) == Hour(base * Multiplier(counter))

\* A product with a multiplier is no less than the configured delay.
LEMMA ProductGrows ==
    ASSUME NEW base \in Nat, NEW m \in Nat \ {0}
    PROVE  base * m \in Nat /\ base * m >= base
<1>1. PICK k \in Nat : m = k + 1
  OBVIOUS
<1>2. base * m = base * k + base
  BY <1>1
<1>3. base * k \in Nat
  OBVIOUS
<1> QED
  BY <1>2, <1>3

\* The bounds of a delay before its jitter.
LEMMA DoubledRange ==
    ASSUME NEW base \in Nat, NEW counter \in Nat
    PROVE  /\ Doubled(base, counter) \in Nat
           /\ Doubled(base, counter) <= 3600
           /\ Doubled(base, counter) >= Hour(base)
  BY MultiplierDoubles, ProductGrows DEF Doubled, Hour

\* calculate_retry_delay with backoff, and without it.
Growing(base, counter) == calculate_retry_delay(base, counter, TRUE)
Steady(base, counter) == calculate_retry_delay(base, counter, FALSE)

\* With backoff: doubled, capped, made longer by the jitter and capped again.
LEMMA WithBackoff ==
    ASSUME NEW base \in Nat, NEW counter \in Nat, NEW d, d = Doubled(base, counter)
    PROVE  Growing(base, counter) = {Hour(d + j) : j \in 0..(d \div 10)}
<1>1. d \in Nat
  BY DoubledRange
<1>2. PICK p \in Nat : p = base * Multiplier(counter)
  BY MultiplierDoubles, ProductGrows
<1>3. Min({p, 3600}) = d
  BY <1>2, MinOfTwo DEF Doubled, Hour
<1>4. BaseDelay(base, counter, TRUE) = d
  BY <1>2, <1>3 DEF BaseDelay
<1>5. ASSUME NEW j \in 0..(d \div 10) PROVE Capped(d + j, TRUE) = Hour(d + j)
  <2>1. d + j \in Nat
    BY <1>1
  <2>2. Min({d + j, 3600}) = Hour(d + j)
    BY <2>1, MinOfTwo DEF Hour
  <2> QED
    BY <2>2 DEF Capped
<1>6. Growing(base, counter) = {Capped(d + j, TRUE) : j \in 0..(d \div 10)}
  BY <1>4, Zenon DEF calculate_retry_delay, Growing
<1> QED
  BY <1>5, <1>6, Zenon

\* The same without backoff: nothing is doubled and nothing capped.
LEMMA WithoutBackoff ==
    ASSUME NEW base \in Nat, NEW counter \in Nat
    PROVE  Steady(base, counter) = {base + j : j \in 0..(base \div 10)}
  BY DEF calculate_retry_delay, BaseDelay, Capped, Steady

\* What the jitter and the second cap make of a delay.
LEMMA JitterRange ==
    ASSUME NEW d \in Nat, d <= 3600, NEW j \in 0..(d \div 10)
    PROVE  Hour(d + j) \in d..3600 /\ Hour(d + j) <= Hour(d + (d \div 10))
<1>1. PICK t \in Nat : t = d \div 10 /\ j \in 0..t
  OBVIOUS
<1> QED
  BY <1>1 DEF Hour

\* The least and the greatest delay after some failures, with backoff.
LEMMA DelayBounds ==
    ASSUME NEW base \in Nat, NEW counter \in Nat, NEW d, d = Doubled(base, counter),
           NEW S, S = {Hour(d + j) : j \in 0..(d \div 10)}
    PROVE  Min(S) = d /\ Max(S) = Hour(d + (d \div 10))
<1>1. d \in Nat /\ d <= 3600
  BY DoubledRange
<1>2. S = {Hour(d + j) : j \in 0..(d \div 10)}
  OBVIOUS
<1>4. PICK top : top = Hour(d + (d \div 10))
  OBVIOUS
<1>5. 0 \in 0..(d \div 10) /\ d \div 10 \in 0..(d \div 10) /\ Hour(d + 0) = d
  BY <1>1 DEF Hour
<1>7. d \in S /\ top \in S
  BY <1>2, <1>4, <1>5
<1>8. \A x \in S : x \in Nat /\ d <= x /\ x <= top
  <2> SUFFICES ASSUME NEW j \in 0..(d \div 10)
               PROVE  /\ Hour(d + j) \in Nat /\ d <= Hour(d + j) /\ Hour(d + j) <= top
    BY <1>2
  <2>1. Hour(d + j) \in d..3600 /\ Hour(d + j) <= top
    BY <1>1, <1>4, JitterRange
  <2> QED
    BY <1>1, <2>1
<1>9. Min(S) = d
  BY <1>7, <1>8, MinIs
<1>10. Max(S) = top
  BY <1>7, <1>8, MaxIs
<1> QED
  BY <1>4, <1>9, <1>10

\* The seconds a neighbour may be made to wait.
RangeOf(n) ==
    LET base == n.connect_retry_time
    IN IF n.exponential_backoff THEN Min({base, 3600})..3600 ELSE base..(base + (base \div 10))

\* The speaker's record of a neighbour.
Records ==
    [families : SUBSET Families, hold_time : Nat, connect_retry_time : Nat,
     exponential_backoff : BOOLEAN, max_retry_count : Optional(Nat),
     ribtx : SUBSET Families, counter : Nat, up : BOOLEAN]

\* Every delay of every neighbour after every number of failures is in its range.
LEMMA DelaysInRange ==
    ASSUME NEW n \in Records, NEW counter \in Nat
    PROVE  Delays(n, counter) \subseteq RangeOf(n)
<1>1. PICK base \in Nat : base = n.connect_retry_time
  BY DEF Records
<1>2. CASE n.exponential_backoff = TRUE
  <2>1. PICK d \in Nat : d = Doubled(base, counter) /\ d <= 3600 /\ d >= Hour(base)
    BY DoubledRange
  <2>2. Delays(n, counter) = {Hour(d + j) : j \in 0..(d \div 10)}
    <3>1. Delays(n, counter) = Growing(base, counter)
      BY <1>1, <1>2, Zenon DEF Delays, Growing
    <3>2. Growing(base, counter) = {Hour(d + j) : j \in 0..(d \div 10)}
      BY <2>1, WithBackoff
    <3> QED
      BY <3>1, <3>2, Zenon
  <2>3. RangeOf(n) = Hour(base)..3600
    <3>1. Min({base, 3600}) = Hour(base)
      BY MinOfTwo DEF Hour
    <3> QED
      BY <3>1, <1>1, <1>2 DEF RangeOf
  <2>4. ASSUME NEW j \in 0..(d \div 10) PROVE Hour(d + j) \in Hour(base)..3600
    <3>1. Hour(d + j) \in d..3600
      BY <2>1, JitterRange
    <3>2. Hour(base) \in Nat
      BY DEF Hour
    <3> QED
      BY <3>1, <3>2, <2>1
  <2> QED
    BY <2>2, <2>3, <2>4
<1>3. CASE n.exponential_backoff = FALSE
  <2>1. Delays(n, counter) = {base + j : j \in 0..(base \div 10)}
    <3>1. Delays(n, counter) = Steady(base, counter)
      BY <1>1, <1>3, Zenon DEF Delays, Steady
    <3>2. Steady(base, counter) = {base + j : j \in 0..(base \div 10)}
      BY WithoutBackoff
    <3> QED
      BY <3>1, <3>2, Zenon
  <2>2. RangeOf(n) = base..(base + (base \div 10))
    BY <1>1, <1>3 DEF RangeOf
  <2>3. ASSUME NEW j \in 0..(base \div 10) PROVE base + j \in base..(base + (base \div 10))
    <3>1. PICK t \in Nat : t = base \div 10
      OBVIOUS
    <3> QED
      BY <3>1
  <2> QED
    BY <2>1, <2>2, <2>3
<1> QED
  BY <1>2, <1>3 DEF Records

\* The next delay is longer than any of the last, until it is an hour.
LEMMA DelaysGrow ==
    ASSUME NEW n \in Records, n.exponential_backoff, n.connect_retry_time > 0,
           NEW counter \in Nat, counter < 10
    PROVE  LET next == Min(Delays(n, counter + 1))
           IN next = 3600 \/ next > Max(Delays(n, counter))
<1>1. PICK base \in Nat : base = n.connect_retry_time /\ base > 0
  BY DEF Records
<1>2. /\ Delays(n, counter) = Growing(base, counter)
      /\ Delays(n, counter + 1) = Growing(base, counter + 1)
  <2>1. n.exponential_backoff = TRUE
    BY DEF Records
  <2> QED
    BY <2>1, <1>1, Zenon DEF Delays, Growing
<1>3. PICK d : d = Doubled(base, counter)
  OBVIOUS
<1>4. PICK e : e = Doubled(base, counter + 1)
  OBVIOUS
<1>5. Min(Delays(n, counter + 1)) = e
  <2>1. PICK S : S = {Hour(e + j) : j \in 0..(e \div 10)}
    OBVIOUS
  <2>2. Growing(base, counter + 1) = S
    BY <2>1, <1>4, WithBackoff
  <2>3. Min(S) = e
    BY <2>1, <1>4, DelayBounds
  <2> QED
    BY <2>2, <2>3, <1>2, Zenon
<1>6. Max(Delays(n, counter)) = Hour(d + (d \div 10))
  <2>1. PICK S : S = {Hour(d + j) : j \in 0..(d \div 10)}
    OBVIOUS
  <2>2. Growing(base, counter) = S
    BY <2>1, <1>3, WithBackoff
  <2>3. Max(S) = Hour(d + (d \div 10))
    BY <2>1, <1>3, DelayBounds
  <2> QED
    BY <2>2, <2>3, <1>2, Zenon
<1>7. PICK m \in Nat \ {0} : Multiplier(counter) = m /\ Multiplier(counter + 1) = 2 * m
  BY MultiplierDoubles
<1>8. PICK p \in Nat : p = base * m /\ p > 0
  BY <1>1, ProductGrows
<1>9. base * (2 * m) = 2 * p
  BY <1>8
<1>10. d = Hour(p) /\ e = Hour(2 * p)
  BY <1>3, <1>4, <1>7, <1>8, <1>9 DEF Doubled
<1>11. e = 3600 \/ e > Hour(d + (d \div 10))
  <2>1. CASE 2 * p >= 3600
    BY <2>1, <1>10 DEF Hour
  <2>2. CASE 2 * p < 3600
    <3>1. d = p /\ e = 2 * p
      BY <2>2, <1>8, <1>10 DEF Hour
    <3>2. PICK t \in Nat : t = p \div 10 /\ t < p
      BY <1>8
    <3> QED
      BY <3>1, <3>2, <2>2 DEF Hour
  <2> QED
    BY <2>1, <2>2
<1> QED
  BY <1>5, <1>6, <1>11

-----------------------------------------------------------------------------
(* The invariant                                                           *)

Phases == {"read", "build", "add", "start", "running", "failed"}
Attempts == {"none", "ready", "trying", "sleeping", "returned"}

\* The configuration: Options until it was read, values afterwards.
ConfOK ==
    /\ phase \in Phases /\ IsFile(conf)
    /\ phase = "read" => conf \in Files
    /\ phase # "read" => conf.hold_time \in Nat /\ conf.families \subseteq Families
    /\ phase = "add" => conf.neighbors # None

\* The speaker: records are complete, and are those of configured neighbours.
SpeakerOK ==
    /\ neighbors \in [DOMAIN neighbors -> Records] /\ DOMAIN neighbors \subseteq Hosts
    /\ phase \in {"read", "build"} => DOMAIN neighbors = {}
    /\ \A h \in DOMAIN neighbors :
         conf.neighbors # None /\ \E n \in conf.neighbors : n.ip = h
    /\ rib \subseteq Families
    /\ phase = "running" => rib = conf.families

\* An attempt is one of a running speaker at a neighbour; one that failed sleeps for
\* a time in the neighbour's range.
ConnectOK ==
    /\ connect \in [Hosts -> Attempts] /\ delay \in [Hosts -> Nat]
    /\ \A h \in Hosts : connect[h] # "none" => phase = "running" /\ h \in DOMAIN neighbors
    /\ \A h \in Hosts : connect[h] = "sleeping" => delay[h] \in RangeOf(neighbors[h])

Inv == ConfOK /\ SpeakerOK /\ ConnectOK

\* What a record of a neighbour that changes in other fields keeps.
Updated(h, r) ==
    neighbors' = [neighbors EXCEPT ![h] = r] /\ r \in Records
        /\ RangeOf(r) = RangeOf(neighbors[h])

\* A record's update leaves the speaker well formed and the delays in range.
LEMMA UpdateKeeps ==
    ASSUME Inv, NEW h \in DOMAIN neighbors, NEW r, Updated(h, r),
           UNCHANGED <<phase, conf, rib>>
    PROVE  /\ ConfOK' /\ SpeakerOK' /\ DOMAIN neighbors' = DOMAIN neighbors
           /\ \A g \in DOMAIN neighbors : RangeOf(neighbors'[g]) = RangeOf(neighbors[g])
<1>1. /\ neighbors' \in [DOMAIN neighbors -> Records]
      /\ DOMAIN neighbors' = DOMAIN neighbors
      /\ neighbors'[h] = r /\ \A g \in DOMAIN neighbors \ {h} : neighbors'[g] = neighbors[g]
  BY DEF Updated, Inv, SpeakerOK
<1>2. ConfOK'
  BY DEF Inv, ConfOK, IsFile, IsNeighbor
<1>3. SpeakerOK'
  BY <1>1 DEF Inv, SpeakerOK
<1> QED
  BY <1>1, <1>2, <1>3 DEF Updated

\* RangeOf reads two fields.
LEMMA RangeReads ==
    ASSUME NEW r \in Records, NEW s \in Records,
           r.connect_retry_time = s.connect_retry_time,
           r.exponential_backoff = s.exponential_backoff
    PROVE  RangeOf(r) = RangeOf(s)
  BY DEF RangeOf, Records

\* The three fields that change while the speaker runs.
LEMMA RecordChanges ==
    ASSUME NEW r \in Records
    PROVE  /\ \A S \in SUBSET Families :
                /\ [r EXCEPT !.ribtx = S] \in Records
                /\ RangeOf([r EXCEPT !.ribtx = S]) = RangeOf(r)
           /\ [r EXCEPT !.up = TRUE] \in Records
           /\ RangeOf([r EXCEPT !.up = TRUE]) = RangeOf(r)
           /\ [r EXCEPT !.counter = r.counter + 1, !.up = FALSE] \in Records
           /\ RangeOf([r EXCEPT !.counter = r.counter + 1, !.up = FALSE]) = RangeOf(r)
<1>1. ASSUME NEW S \in SUBSET Families
      PROVE  /\ [r EXCEPT !.ribtx = S] \in Records
             /\ RangeOf([r EXCEPT !.ribtx = S]) = RangeOf(r)
  <2>1. PICK q : q = [r EXCEPT !.ribtx = S]
    OBVIOUS
  <2>2. q \in Records /\ q.connect_retry_time = r.connect_retry_time
        /\ q.exponential_backoff = r.exponential_backoff
    BY <2>1 DEF Records
  <2>3. RangeOf(q) = RangeOf(r)
    BY <2>2, RangeReads
  <2> QED
    BY <2>1, <2>2, <2>3
<1>2. /\ [r EXCEPT !.up = TRUE] \in Records
      /\ RangeOf([r EXCEPT !.up = TRUE]) = RangeOf(r)
  <2>1. PICK q : q = [r EXCEPT !.up = TRUE]
    OBVIOUS
  <2>2. q \in Records /\ q.connect_retry_time = r.connect_retry_time
        /\ q.exponential_backoff = r.exponential_backoff
    BY <2>1 DEF Records
  <2>3. RangeOf(q) = RangeOf(r)
    BY <2>2, RangeReads
  <2> QED
    BY <2>1, <2>2, <2>3
<1>3. /\ [r EXCEPT !.counter = r.counter + 1, !.up = FALSE] \in Records
      /\ RangeOf([r EXCEPT !.counter = r.counter + 1, !.up = FALSE]) = RangeOf(r)
  <2>0. PICK c \in Nat : c = r.counter + 1
    BY DEF Records
  <2>1. PICK q : q = [r EXCEPT !.counter = c, !.up = FALSE]
    OBVIOUS
  <2>2. q \in Records /\ q.connect_retry_time = r.connect_retry_time
        /\ q.exponential_backoff = r.exponential_backoff
    BY <2>1 DEF Records
  <2>3. RangeOf(q) = RangeOf(r)
    BY <2>2, RangeReads
  <2> QED
    BY <2>0, <2>1, <2>2, <2>3
<1> QED
  BY <1>1, <1>2, <1>3

\* Nothing is configured before the file was read.
LEMMA InitInv == ASSUME Init PROVE Inv
<1>1. IsFile(conf)
  BY StartupAssumption DEF Init, StartupAssumption
<1> QED
  BY <1>1 DEF Init, Inv, ConfOK, SpeakerOK, ConnectOK, Phases, Attempts

\* main up to the speaker's start: no attempt yet.
LEMMA MainInv ==
    ASSUME Inv, read_config \/ NewSpeaker \/ add_neighbor \/ Start
    PROVE  Inv'
<1>1. /\ phase \in {"read", "build", "add", "start"}
      /\ UNCHANGED <<connect, delay>>
      /\ \A h \in Hosts : connect[h] = "none"
  BY DEF read_config, NewSpeaker, add_neighbor, Start, Inv, ConnectOK
<1>2. ConnectOK'
  BY <1>1 DEF Inv, ConnectOK
<1>3. CASE read_config
  <2>1. /\ conf.families \in Optional(SUBSET Families) /\ conf.hold_time \in Optional(Nat)
        /\ Ipv4 \in Families
    BY StartupAssumption DEF Inv, ConfOK, IsFile, StartupAssumption
  <2>2. PICK fs \in SUBSET Families : fs = Or(conf.families, {Ipv4})
    BY <2>1 DEF Or, Optional
  <2>3. PICK ht \in Nat : ht = Or(conf.hold_time, 3)
    BY <2>1 DEF Or, Optional
  <2>4. conf' = [conf EXCEPT !.localips = Or(@, DefaultLocalIps), !.hold_time = ht,
                            !.families = fs]
    BY <1>3, <2>2, <2>3 DEF read_config
  <2>5. /\ conf'.families = fs /\ conf'.hold_time = ht /\ conf'.neighbors = conf.neighbors
        /\ conf' \in [localips : {conf'.localips}, families : Optional(SUBSET Families),
                      hold_time : Optional(Nat), neighbors : {conf'.neighbors}]
    BY <2>4 DEF Inv, ConfOK, IsFile, Optional
  <2>6. IsFile(conf')
    BY <2>5 DEF Inv, ConfOK, IsFile
  <2>7. ConfOK'
    BY <1>3, <2>5, <2>6 DEF read_config, ConfOK, Phases
  <2>8. SpeakerOK'
    BY <1>3 DEF read_config, Inv, SpeakerOK
  <2> QED
    BY <1>2, <2>7, <2>8 DEF Inv
<1>4. CASE NewSpeaker
  BY <1>2, <1>4 DEF NewSpeaker, Inv, ConfOK, SpeakerOK, Phases, IsFile, IsNeighbor
<1>5. CASE Start
  BY <1>2, <1>5 DEF Start, Inv, ConfOK, SpeakerOK, Phases, IsFile, IsNeighbor
<1>6. CASE add_neighbor /\ UNCHANGED neighbors
  BY <1>2, <1>6 DEF add_neighbor, Inv, ConfOK, SpeakerOK, Phases, IsFile, IsNeighbor
<1>7. ASSUME NEW n \in Left, n.ip \in Hosts, add_neighbor, UNCHANGED <<phase, conf, rib>>,
             neighbors' = [h \in DOMAIN neighbors \cup {n.ip} |->
                             IF h = n.ip THEN Record(n) ELSE neighbors[h]]
      PROVE  Inv'
  <2>1. phase = "add" /\ conf.neighbors # None /\ n \in conf.neighbors
    BY <1>7 DEF add_neighbor, Left, Inv, ConfOK
  <2>2. /\ IsNeighbor(n) /\ conf.families \in SUBSET Families /\ conf.hold_time \in Nat
    BY <2>1 DEF Inv, ConfOK, IsFile
  <2>3. /\ Inherit(n).families = Or(n.families, conf.families)
        /\ Inherit(n).hold_time = Or(n.hold_time, conf.hold_time)
    BY <2>2 DEF Inherit, IsNeighbor
  <2>4. /\ Or(n.families, conf.families) \in SUBSET Families
        /\ Or(n.hold_time, conf.hold_time) \in Nat
        /\ Or(n.connect_retry, default_connect_retry) \in Nat
        /\ n.exponential_backoff \in BOOLEAN /\ n.max_retry_count \in Optional(Nat)
    BY <2>2 DEF IsNeighbor, Or, Optional, default_connect_retry
  <2>5. Record(n) \in Records
    BY <2>3, <2>4 DEF Record, Records
  <2>6. /\ DOMAIN neighbors' = DOMAIN neighbors \cup {n.ip}
        /\ neighbors' \in [DOMAIN neighbors \cup {n.ip} -> Records]
    BY <1>7, <2>5 DEF Inv, SpeakerOK
  <2>7. SpeakerOK'
    BY <1>7, <2>1, <2>6 DEF Inv, SpeakerOK
  <2>8. ConfOK'
    BY <1>7 DEF Inv, ConfOK, IsFile, IsNeighbor
  <2> QED
    BY <1>2, <2>7, <2>8 DEF Inv
<1> QED
  BY <1>3, <1>4, <1>5, <1>6, <1>7 DEF add_neighbor

\* connect_mgr takes every neighbour.
LEMMA connect_mgrInv == ASSUME Inv, connect_mgr PROVE Inv'
<1>1. ConfOK' /\ SpeakerOK'
  BY DEF connect_mgr, Inv, ConfOK, SpeakerOK, IsFile, IsNeighbor
<1>2. connect' \in [Hosts -> Attempts] /\ \A h \in Hosts : connect'[h] \in {"ready", "none"}
  BY DEF connect_mgr, Attempts
<1>3. \A h \in Hosts : connect'[h] # "none" => h \in DOMAIN neighbors
  BY DEF connect_mgr
<1>4. ConnectOK'
  BY <1>2, <1>3 DEF connect_mgr, Inv, ConnectOK
<1> QED
  BY <1>1, <1>4 DEF Inv

\* A connection to a neighbour is begun, succeeds or fails, or one comes in: its
\* record changes, and the state of its attempt.
LEMMA AttemptInv ==
    ASSUME Inv, NEW h \in Hosts, h \in DOMAIN neighbors, phase = "running",
           NEW r, Updated(h, r), NEW a \in Attempts, NEW d \in Nat,
           connect' = [connect EXCEPT ![h] = a], delay' = [delay EXCEPT ![h] = d],
           a = "sleeping" => d \in RangeOf(neighbors[h]),
           UNCHANGED <<phase, conf, rib>>
    PROVE  Inv'
<1>1. /\ ConfOK' /\ SpeakerOK' /\ DOMAIN neighbors' = DOMAIN neighbors
      /\ \A g \in DOMAIN neighbors : RangeOf(neighbors'[g]) = RangeOf(neighbors[g])
  BY UpdateKeeps
<1>2. /\ connect' \in [Hosts -> Attempts] /\ delay' \in [Hosts -> Nat]
      /\ connect'[h] = a /\ delay'[h] = d
      /\ \A g \in Hosts \ {h} : connect'[g] = connect[g] /\ delay'[g] = delay[g]
  BY DEF Inv, ConnectOK
<1>3. \A g \in Hosts : connect'[g] # "none" => phase' = "running" /\ g \in DOMAIN neighbors'
  BY <1>1, <1>2 DEF Inv, ConnectOK
<1>4. ASSUME NEW g \in Hosts, connect'[g] = "sleeping"
      PROVE  delay'[g] \in RangeOf(neighbors'[g])
  <2>1. g \in DOMAIN neighbors
    BY <1>1, <1>3, <1>4
  <2>2. delay'[g] \in RangeOf(neighbors[g])
    BY <1>2, <1>4, <2>1 DEF Inv, ConnectOK
  <2> QED
    BY <1>1, <2>1, <2>2
<1>5. ConnectOK'
  BY <1>2, <1>3, <1>4 DEF ConnectOK
<1> QED
  BY <1>1, <1>5 DEF Inv

\* A time a neighbour may be made to wait is a number of seconds.
LEMMA RangeIsNat ==
    ASSUME NEW r \in Records, NEW d \in RangeOf(r)
    PROVE  d \in Nat
<1>1. PICK base \in Nat : base = r.connect_retry_time
  BY DEF Records
<1>2. PICK low \in Nat : low = Min({base, 3600})
  <2>1. Min({base, 3600}) = IF base <= 3600 THEN base ELSE 3600
    BY MinOfTwo
  <2> QED
    BY <2>1
<1>3. d \in low..3600 \/ d \in base..(base + (base \div 10))
  BY <1>1, <1>2 DEF RangeOf
<1> QED
  BY <1>3

\* Where an attempt that has begun stands.
LEMMA Attempted ==
    ASSUME Inv, NEW h \in Hosts, connect[h] # "none"
    PROVE  /\ phase = "running" /\ h \in DOMAIN neighbors /\ neighbors[h] \in Records
           /\ connect \in [Hosts -> Attempts] /\ delay \in [Hosts -> Nat]
           /\ delay = [delay EXCEPT ![h] = delay[h]]
           /\ neighbors = [neighbors EXCEPT ![h] = neighbors[h]]
<1>1. phase = "running" /\ h \in DOMAIN neighbors
  BY DEF Inv, ConnectOK
<1> QED
  BY <1>1 DEF Inv, ConnectOK, SpeakerOK

\* The neighbour gets its channels.
LEMMA ConnectInv == ASSUME Inv, NEW h \in Hosts, Connect(h) PROVE Inv'
<1>1. connect[h] = "ready"
  BY DEF Connect
<1>2. PICK r : r = [neighbors[h] EXCEPT !.ribtx = rib]
  OBVIOUS
<1>3. Updated(h, r)
  <2>1. rib \in SUBSET Families
    BY DEF Inv, SpeakerOK
  <2>2. r \in Records /\ RangeOf(r) = RangeOf(neighbors[h])
    BY <1>1, <1>2, <2>1, Attempted, RecordChanges
  <2>3. neighbors' = [neighbors EXCEPT ![h] = r]
    BY <1>2 DEF Connect
  <2> QED
    BY <2>2, <2>3 DEF Updated
<1>4. PICK d \in Nat : delay' = [delay EXCEPT ![h] = d]
  BY <1>1, Attempted DEF Connect
<1>5. connect' = [connect EXCEPT ![h] = "trying"] /\ UNCHANGED <<phase, conf, rib>>
  BY DEF Connect
<1>6. "trying" \in Attempts /\ "trying" # "sleeping"
  BY DEF Attempts
<1> QED
  BY <1>1, <1>3, <1>4, <1>5, <1>6, Attempted, AttemptInv

\* The session is up, whoever began it.
LEMMA EstablishUpdates ==
    ASSUME Inv, NEW h \in DOMAIN neighbors, NEW received, Establish(h, received)
    PROVE  \E r : Updated(h, r)
<1>1. PICK r : r = [neighbors[h] EXCEPT !.up = TRUE]
  OBVIOUS
<1>2. neighbors[h] \in Records
  BY DEF Inv, SpeakerOK
<1>3. r \in Records /\ RangeOf(r) = RangeOf(neighbors[h])
  BY <1>1, <1>2, RecordChanges
<1>4. neighbors' = [neighbors EXCEPT ![h] = r]
  BY <1>1 DEF Establish
<1> QED
  BY <1>3, <1>4 DEF Updated

\* The attempt succeeds.
LEMMA ConnectSucceedsInv == ASSUME Inv, NEW h \in Hosts, ConnectSucceeds(h) PROVE Inv'
<1>1. connect[h] = "trying"
  BY DEF ConnectSucceeds
<1>2. PICK r : Updated(h, r)
  BY <1>1, Attempted, EstablishUpdates DEF ConnectSucceeds
<1>3. PICK d \in Nat : delay' = [delay EXCEPT ![h] = d]
  BY <1>1, Attempted DEF ConnectSucceeds
<1>4. connect' = [connect EXCEPT ![h] = "returned"] /\ UNCHANGED <<phase, conf, rib>>
  BY DEF ConnectSucceeds
<1>5. "returned" \in Attempts /\ "returned" # "sleeping"
  BY DEF Attempts
<1> QED
  BY <1>1, <1>2, <1>3, <1>4, <1>5, Attempted, AttemptInv

\* The attempt fails: one more failure, and a sleep or none.
LEMMA ConnectFailsInv == ASSUME Inv, NEW h \in Hosts, ConnectFails(h) PROVE Inv'
<1>1. connect[h] = "trying"
  BY DEF ConnectFails
<1>2. neighbors[h] \in Records /\ h \in DOMAIN neighbors /\ phase = "running"
  BY <1>1, Attempted
<1>3. PICK c \in Nat : c = neighbors[h].counter + 1
  BY <1>2 DEF Records
<1>4. PICK r : r = [neighbors[h] EXCEPT !.counter = neighbors[h].counter + 1, !.up = FALSE]
  OBVIOUS
<1>5. r \in Records /\ RangeOf(r) = RangeOf(neighbors[h])
  BY <1>2, <1>4, RecordChanges
<1>6. neighbors' = [neighbors EXCEPT ![h] = r]
  BY <1>4 DEF ConnectFails
<1>7. Updated(h, r)
  BY <1>5, <1>6 DEF Updated
<1>8. r.counter = c /\ neighbors'[h].counter = c
  <2>1. r.counter = c
    BY <1>2, <1>3, <1>4 DEF Records
  <2>2. neighbors'[h] = r
    BY <1>2, <1>6 DEF Inv, SpeakerOK
  <2> QED
    BY <2>1, <2>2
<1>9. UNCHANGED <<phase, conf, rib>>
  BY DEF ConnectFails
<1>10. {"sleeping", "returned"} \subseteq Attempts
  BY DEF Attempts
<1>11. CASE connect' = [connect EXCEPT ![h] = "returned"] /\ UNCHANGED delay
  <2>1. PICK d \in Nat : delay' = [delay EXCEPT ![h] = d]
    BY <1>1, <1>11, Attempted
  <2> QED
    BY <2>1, <1>2, <1>7, <1>9, <1>10, <1>11, AttemptInv
<1>12. ASSUME connect' = [connect EXCEPT ![h] = "sleeping"],
              NEW d \in Delays(neighbors[h], c), delay' = [delay EXCEPT ![h] = d]
       PROVE  Inv'
  <2>1. d \in RangeOf(neighbors[h])
    BY <1>2, <1>3, <1>12, DelaysInRange
  <2>2. d \in Nat
    BY <2>1, <1>2, RangeIsNat
  <2> QED
    BY <2>1, <2>2, <1>2, <1>7, <1>9, <1>10, <1>12, AttemptInv
<1> QED
  BY <1>8, <1>11, <1>12 DEF ConnectFails

\* The sleep ends.
LEMMA WakeInv == ASSUME Inv, NEW h \in Hosts, Wake(h) PROVE Inv'
<1>1. connect[h] = "sleeping"
  BY DEF Wake
<1>2. Updated(h, neighbors[h])
  BY <1>1, Attempted DEF Wake, Updated
<1>3. /\ connect' = [connect EXCEPT ![h] = "returned"] /\ delay' = [delay EXCEPT ![h] = 0]
      /\ UNCHANGED <<phase, conf, rib>>
  BY DEF Wake
<1>4. "returned" \in Attempts /\ "returned" # "sleeping" /\ 0 \in Nat
  BY DEF Attempts
<1> QED
  BY <1>1, <1>2, <1>3, <1>4, Attempted, AttemptInv

\* A connection comes in.
LEMMA add_incomingInv == ASSUME Inv, NEW h \in Hosts, add_incoming(h) PROVE Inv'
<1>1. UNCHANGED <<phase, conf, rib, connect, delay>>
  BY DEF add_incoming
<1>2. CASE UNCHANGED neighbors
  BY <1>1, <1>2 DEF Inv, ConfOK, SpeakerOK, ConnectOK, IsFile, IsNeighbor
<1>3. ASSUME h \in DOMAIN neighbors, NEW received, Establish(h, received)
      PROVE  Inv'
  <2>1. PICK r : Updated(h, r)
    BY <1>3, EstablishUpdates
  <2>2. /\ ConfOK' /\ SpeakerOK' /\ DOMAIN neighbors' = DOMAIN neighbors
        /\ \A g \in DOMAIN neighbors : RangeOf(neighbors'[g]) = RangeOf(neighbors[g])
    BY <1>1, <1>3, <2>1, UpdateKeeps
  <2>3. ConnectOK'
    BY <1>1, <2>2 DEF Inv, ConnectOK
  <2> QED
    BY <2>2, <2>3 DEF Inv
<1> QED
  BY <1>2, <1>3 DEF add_incoming

\* Every step keeps the invariant.
LEMMA NextInv == ASSUME Inv, [Next]_vars PROVE Inv'
<1>1. CASE UNCHANGED vars
  BY <1>1 DEF vars, Inv, ConfOK, SpeakerOK, ConnectOK, IsFile, IsNeighbor
<1>2. CASE Main
  BY <1>2, MainInv, connect_mgrInv DEF Main
<1>3. ASSUME NEW h \in Hosts, Connecting(h) \/ add_incoming(h) PROVE Inv'
  BY <1>3, ConnectInv, ConnectSucceedsInv, ConnectFailsInv, WakeInv, add_incomingInv
  DEF Connecting
<1> QED
  BY <1>1, <1>2, <1>3 DEF Next

\* Every reachable state satisfies it.
THEOREM Invariant == Spec => []Inv
<1>1. Init => Inv
  BY InitInv
<1>2. Inv /\ [Next]_vars => Inv'
  BY NextInv
<1> QED
  BY <1>1, <1>2, PTL DEF Spec

\* After read_config no Option is left where main and the sessions expect a value, and
\* every neighbour the speaker has is one of the file, for every file.
THEOREM TypeCorrect == Spec => []TypeOK
<1>1. Inv => TypeOK
  BY DEF Inv, ConfOK, SpeakerOK, ConnectOK, TypeOK, Phases, Attempts, Records
<1> QED
  BY <1>1, Invariant, PTL

\* No failed attempt sleeps less than configured or longer than its cap, whatever
\* connect_retry is and however many attempts failed before.
THEOREM DelaysAreInRange == Spec => []DelayInRange
<1>1. ASSUME Inv PROVE DelayInRange
  <2> SUFFICES ASSUME NEW h \in DOMAIN neighbors
               PROVE  /\ connect[h] = "sleeping" => delay[h] \in RangeOf(neighbors[h])
                      /\ connect[h] = "trying" =>
                           \A counter \in Counters :
                               Delays(neighbors[h], counter) \subseteq RangeOf(neighbors[h])
    BY Zenon DEF DelayInRange, RangeOf
  <2>1. h \in Hosts /\ neighbors[h] \in Records /\ Counters \subseteq Nat
    BY <1>1, StartupAssumption DEF Inv, SpeakerOK, StartupAssumption
  <2>2. connect[h] = "sleeping" => delay[h] \in RangeOf(neighbors[h])
    BY <1>1, <2>1 DEF Inv, ConnectOK
  <2> QED
    BY <2>1, <2>2, DelaysInRange
<1> QED
  BY <1>1, Invariant, PTL

\* A failure more, and the shortest delay is longer than the longest was, or an hour.
Lengthens(n, counter) ==
    LET next == Min(Delays(n, counter + 1))
    IN next = 3600 \/ next > Max(Delays(n, counter))

\* With backoff every delay up to the tenth doubling is longer than any before it,
\* unless it is an hour, for every connect_retry but zero and every jitter.
THEOREM BackoffGrows == Spec => []BacksOff
<1>1. ASSUME Inv PROVE BacksOff
  <2>1. ASSUME NEW h \in DOMAIN neighbors, neighbors[h].exponential_backoff,
               neighbors[h].connect_retry_time > 0,
               NEW counter \in {c \in Counters : c < 10}
        PROVE  Lengthens(neighbors[h], counter)
    <3>1. neighbors[h] \in Records /\ counter \in Nat /\ counter < 10
      BY <1>1, StartupAssumption DEF Inv, SpeakerOK, StartupAssumption
    <3> QED
      BY <2>1, <3>1, DelaysGrow DEF Lengthens
  <2>2. \A h \in DOMAIN neighbors :
           connect[h] = "trying" /\ neighbors[h].exponential_backoff
             /\ neighbors[h].connect_retry_time > 0 =>
             \A counter \in {c \in Counters : c < 10} : Lengthens(neighbors[h], counter)
    BY <2>1, ZenonT(30)
  <2> QED
    BY <2>2, Zenon DEF BacksOff, Lengthens
<1> QED
  BY <1>1, Invariant, PTL

-----------------------------------------------------------------------------
(* Families and ribs                                                       *)

\* A record has families of the speaker only, or is of a neighbour the file makes wider,
\* and nothing runs before the file is read.
RecordsWithin ==
    \A h \in DOMAIN neighbors : neighbors[h].families \subseteq conf.families \/ Wider(h)
Covered == RecordsWithin /\ RibExists /\ (phase = "read" => panicked = {})

\* No step of a running speaker but Establish touches a record's families or panics.
LEMMA EstablishCovered ==
    ASSUME Inv, Covered, NEW h \in DOMAIN neighbors, NEW received, phase = "running",
           Establish(h, received), UNCHANGED <<phase, conf, rib>>
    PROVE  Covered'
<1>0. \A g : Wider(g)' <=> Wider(g)
  BY DEF Wider
<1>1. neighbors[h].families \subseteq rib \/ Wider(h)
  BY DEF Inv, SpeakerOK, Covered, RecordsWithin
<1>2. RibExists'
  BY <1>0, <1>1 DEF Establish, Negotiated, Covered, RibExists
<1>3. DOMAIN neighbors' = DOMAIN neighbors
      /\ \A g \in DOMAIN neighbors : neighbors'[g].families = neighbors[g].families
  BY DEF Establish, Inv, SpeakerOK, Records
<1> QED
  BY <1>0, <1>2, <1>3 DEF Covered, RecordsWithin

\* A record is as wide as its neighbour's line of the file, or as the speaker.
LEMMA AddCovered == ASSUME Inv, Covered, add_neighbor PROVE Covered'
<1>1. UNCHANGED <<conf, panicked>> /\ phase = "add" /\ phase' # "read"
      /\ \A h : Wider(h)' <=> Wider(h)
  BY DEF add_neighbor, Wider
<1>2. RibExists'
  BY <1>1 DEF Covered, RibExists
<1>3. CASE UNCHANGED neighbors
  BY <1>1, <1>2, <1>3 DEF Covered, RecordsWithin
<1>4. ASSUME NEW n \in Left,
             neighbors' = [h \in DOMAIN neighbors \cup {n.ip} |->
                             IF h = n.ip THEN Record(n) ELSE neighbors[h]]
      PROVE  Covered'
  <2>1. conf.neighbors # None /\ n \in conf.neighbors /\ IsNeighbor(n)
    BY <1>1 DEF Left, Inv, ConfOK, IsFile
  <2>2. Inherit(n).families = Or(n.families, conf.families)
    BY <2>1 DEF Inherit, IsNeighbor
  <2>3. Record(n).families \subseteq conf.families \/ Wider(n.ip)
    BY <2>1, <2>2 DEF Record, Or, Wider
  <2>4. RecordsWithin'
    BY <1>1, <1>4, <2>3 DEF Covered, RecordsWithin
  <2> QED
    BY <1>1, <1>2, <2>4 DEF Covered
<1> QED
  BY <1>3, <1>4 DEF add_neighbor

\* Every step keeps it.
LEMMA NextCovered == ASSUME Inv, Covered, [Next]_vars PROVE Covered'
<1>1. CASE UNCHANGED vars
  BY <1>1 DEF vars, Covered, RecordsWithin, RibExists, Wider
<1>2. CASE read_config
  BY <1>2 DEF read_config, Inv, SpeakerOK, Covered, RecordsWithin, RibExists
<1>3. CASE NewSpeaker \/ Start \/ connect_mgr
  <2>1. UNCHANGED <<conf, neighbors, panicked>> /\ phase' # "read"
    BY <1>3 DEF NewSpeaker, Start, connect_mgr
  <2> QED
    BY <2>1 DEF Covered, RecordsWithin, RibExists, Wider
<1>4. ASSUME NEW h \in Hosts, Connect(h) \/ ConnectFails(h) \/ Wake(h) PROVE Covered'
  <2>1. connect[h] # "none" /\ UNCHANGED <<phase, conf, panicked>>
    BY <1>4 DEF Connect, ConnectFails, Wake
  <2>2. h \in DOMAIN neighbors /\ phase = "running"
    BY <2>1, Attempted
  <2>3. /\ DOMAIN neighbors' = DOMAIN neighbors
        /\ \A g \in DOMAIN neighbors : neighbors'[g].families = neighbors[g].families
    <3>1. CASE Connect(h)
      BY <3>1, <2>2 DEF Connect, Inv, SpeakerOK, Records
    <3>2. CASE ConnectFails(h)
      BY <3>2, <2>2 DEF ConnectFails, Inv, SpeakerOK, Records
    <3> QED
      BY <1>4, <3>1, <3>2 DEF Wake
  <2> QED
    BY <2>1, <2>2, <2>3 DEF Covered, RecordsWithin, RibExists, Wider
<1>5. ASSUME NEW h \in Hosts, ConnectSucceeds(h) \/ add_incoming(h) PROVE Covered'
  <2>1. phase = "running" /\ UNCHANGED <<phase, conf, rib>>
    BY <1>5, Attempted DEF ConnectSucceeds, add_incoming
  <2>2. CASE UNCHANGED <<neighbors, panicked>>
    BY <2>1, <2>2 DEF Covered, RecordsWithin, RibExists, Wider
  <2>3. CASE h \in DOMAIN neighbors /\ \E received \in Offers : Establish(h, received)
    BY <2>1, <2>3, EstablishCovered
  <2>4. ConnectSucceeds(h) => h \in DOMAIN neighbors
    BY Attempted DEF ConnectSucceeds
  <2> QED
    BY <1>5, <2>2, <2>3, <2>4 DEF ConnectSucceeds, add_incoming
<1> QED
  BY <1>1, <1>2, <1>3, <1>4, <1>5, AddCovered DEF Next, Main, Connecting

\* For every file, a session fails for want of a rib only if the file gave its neighbour
\* a family the speaker lacks: whichever side began it, whatever the peer announces,
\* whatever the other neighbours are given and in whatever order all of them come up.
THEOREM RibsExist == Spec => []RibExists
<1>1. Init => Covered
  BY DEF Init, Covered, RecordsWithin, RibExists
<1>2. Inv /\ Covered /\ [Next]_vars => Covered'
  BY NextCovered
<1>3. Covered => RibExists
  BY DEF Covered
<1> QED
  BY <1>1, <1>2, <1>3, Invariant, PTL DEF Spec
=============================================================================
