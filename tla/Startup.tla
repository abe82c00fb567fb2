------------------------------- MODULE Startup ------------------------------
(***************************************************************************)
(* From the configuration file to the first sessions: read_config and its  *)
(* defaults (config.rs), main (ubgpd.rs), add_neighbor and start           *)
(* (speaker/types.rs), connect_mgr and add_incoming                        *)
(* (speaker/connection.rs) and the one attempt of connect()                *)
(* (neighbor/fsm.rs), with the delay it sleeps for after a failure.         *)
(*                                                                         *)
(* A file is a record with None for what it leaves out.  A session is      *)
(* represented by the families it negotiates and what they find in the     *)
(* speaker; Neighbor has the rest of it.  The addresses of a file differ,  *)
(* and the listener's own address is one it can bind to.                   *)
(***************************************************************************)
EXTENDS Naturals, FiniteSets, RetryDelay

CONSTANTS
    None,
    Files,        \* the configuration files
    Families, Ipv4,
    Hosts,        \* the addresses connections come from and go to
    Counters,     \* the failures before an attempt that its delay is checked for
    MaxIncoming   \* bound: incoming connections

Optional(S) == S \cup {None}

\* Neighbor and Config of config.rs: what serde lets through.
IsNeighbor(n) ==
    n \in [ip : {n.ip}, families : Optional(SUBSET Families), hold_time : Optional(Nat),
           connect_retry : Optional(Nat), exponential_backoff : BOOLEAN,
           max_retry_count : Optional(Nat)]
IsFile(f) ==
    /\ f \in [localips : {f.localips}, families : Optional(SUBSET Families),
              hold_time : Optional(Nat), neighbors : {f.neighbors}]
    /\ f.neighbors # None => \A n \in f.neighbors : IsNeighbor(n)

ASSUME StartupAssumption ==
    /\ Counters \subseteq Nat
    /\ None \notin Families /\ None \notin Hosts /\ Ipv4 \in Families
    /\ MaxIncoming \in Nat
    /\ \A f \in Files : IsFile(f)

VARIABLES
    phase,      \* of main: read, build, add, start, running, or failed
    conf,       \* the configuration
    neighbors,  \* the speaker's neighbours, by address
    rib,        \* the families the speaker has a rib and managers for
    connect,    \* of each neighbour: none, ready, trying, sleeping or returned
    attempts,   \* how often it was connected to
    delay,      \* the seconds connect() sleeps for, 0 when it does not
    incoming,   \* how many connections came in
    rejected,   \* the addresses whose connection was dropped
    panicked    \* the neighbours whose session ended in an expect()

vars == <<phase, conf, neighbors, rib, connect, attempts, delay, incoming,
          rejected, panicked>>

Init ==
    /\ phase = "read" /\ conf \in Files
    /\ neighbors = [h \in {} |-> None] /\ rib = {}
    /\ connect = [h \in Hosts |-> "none"] /\ attempts = [h \in Hosts |-> 0]
    /\ delay = [h \in Hosts |-> 0]
    /\ incoming = 0 /\ rejected = {} /\ panicked = {}

\* Option::or
Or(a, b) == IF a = None THEN b ELSE a

\* BGP_DEFAULT_LOCAL_IP is the text of a socket address, which is no IpAddr.
DefaultLocalIps == None

read_config ==
    /\ phase = "read" /\ phase' = "build"
    /\ conf' = [conf EXCEPT !.localips = Or(@, DefaultLocalIps), !.hold_time = Or(@, 3),
                            !.families = Or(@, {Ipv4})]
    /\ UNCHANGED <<neighbors, rib, connect, attempts, delay, incoming, rejected, panicked>>

\* BGPSpeaker::new, once main has all it needs.
NewSpeaker ==
    /\ phase = "build"
    /\ phase' = IF conf.localips = None THEN "failed"
                ELSE IF conf.neighbors = None THEN "start" ELSE "add"
    /\ UNCHANGED <<conf, neighbors, rib, connect, attempts, delay, incoming, rejected,
                   panicked>>

\* Mutant: a neighbour without families takes everything there is.
InheritAll(n) == [n EXCEPT !.families = Or(@, Families), !.hold_time = Or(@, conf.hold_time)]

\* Mutant: the hold time is the speaker's business.
InheritFamilies(n) == [n EXCEPT !.families = Or(@, conf.families)]

\* What main gives a neighbour that does not say.
Inherit(n) ==
    [n EXCEPT !.families = Or(@, conf.families), !.hold_time = Or(@, conf.hold_time)]

default_connect_retry == 120

Record(n) ==
    [families |-> Inherit(n).families, hold_time |-> Inherit(n).hold_time,
     connect_retry_time |-> Or(n.connect_retry, default_connect_retry),
     exponential_backoff |-> n.exponential_backoff,
     max_retry_count |-> n.max_retry_count, ribtx |-> {}, counter |-> 0, up |-> FALSE]

Left == {n \in conf.neighbors : n.ip \notin DOMAIN neighbors}

\* An address that is none is an expect() in main.
add_neighbor ==
    /\ phase = "add"
    /\ \/ /\ Left = {} /\ phase' = "start" /\ UNCHANGED neighbors
       \/ \E n \in Left :
            IF n.ip \in Hosts
            THEN /\ UNCHANGED phase
                 /\ neighbors' = [h \in DOMAIN neighbors \cup {n.ip} |->
                                    IF h = n.ip THEN Record(n) ELSE neighbors[h]]
            ELSE phase' = "failed" /\ UNCHANGED neighbors
    /\ UNCHANGED <<conf, rib, connect, attempts, delay, incoming, rejected, panicked>>

\* start up to the end of its critical section.
Start ==
    /\ phase = "start" /\ phase' = "running"
    /\ rib' = conf.families
    /\ UNCHANGED <<conf, neighbors, connect, attempts, delay, incoming, rejected, panicked>>

\* Mutant: only one neighbour is taken from the list.
connect_mgr_one ==
    /\ phase = "running" /\ \A h \in Hosts : connect[h] = "none"
    /\ \E h \in DOMAIN neighbors : connect' = [connect EXCEPT ![h] = "ready"]
    /\ UNCHANGED <<phase, conf, neighbors, rib, attempts, delay, incoming, rejected,
                   panicked>>

connect_mgr ==
    /\ phase = "running" /\ \A h \in Hosts : connect[h] = "none"
    /\ DOMAIN neighbors # {}
    /\ connect' = [h \in Hosts |-> IF h \in DOMAIN neighbors THEN "ready" ELSE "none"]
    /\ UNCHANGED <<phase, conf, neighbors, rib, attempts, delay, incoming, rejected,
                   panicked>>

\* Mutant: the channels stay what add_neighbor was given.
ConnectKeeps(h) ==
    /\ connect[h] = "ready" /\ connect' = [connect EXCEPT ![h] = "trying"]
    /\ attempts' = [attempts EXCEPT ![h] = @ + 1]
    /\ UNCHANGED <<phase, conf, neighbors, rib, delay, incoming, rejected, panicked>>

\* connect() up to the connection it asks for: the neighbour gets its channels.
Connect(h) ==
    /\ connect[h] = "ready" /\ connect' = [connect EXCEPT ![h] = "trying"]
    /\ neighbors' = [neighbors EXCEPT ![h].ribtx = rib]
    /\ attempts' = [attempts EXCEPT ![h] = @ + 1]
    /\ UNCHANGED <<phase, conf, rib, delay, incoming, rejected, panicked>>

\* What a peer may announce; Neighbor has the peer that announces nothing.
Offers == (SUBSET Families) \ {{}}

\* The families both sides have; send_locrib wants a rib for each.
Negotiated(h, received) == neighbors[h].families \cap received

Establish(h, received) ==
    /\ neighbors' = [neighbors EXCEPT ![h].up = TRUE]
    /\ panicked' = IF Negotiated(h, received) \subseteq rib THEN panicked
                   ELSE panicked \cup {h}

ConnectSucceeds(h) ==
    /\ connect[h] = "trying" /\ connect' = [connect EXCEPT ![h] = "returned"]
    /\ \E received \in Offers : Establish(h, received)
    /\ UNCHANGED <<phase, conf, rib, attempts, delay, incoming, rejected>>

\* The counter is compared after it was increased.
should_retry(n) == n.max_retry_count # None => n.counter + 1 < n.max_retry_count

\* What calculate_retry_delay may return for a neighbour.
Delays(n, counter) ==
    calculate_retry_delay(n.connect_retry_time, counter, n.exponential_backoff)

ConnectFails(h) ==
    /\ connect[h] = "trying"
    /\ neighbors' = [neighbors EXCEPT ![h].counter = @ + 1, ![h].up = FALSE]
    /\ \/ /\ should_retry(neighbors[h])
          /\ connect' = [connect EXCEPT ![h] = "sleeping"]
          /\ \E d \in Delays(neighbors[h], neighbors'[h].counter) :
               delay' = [delay EXCEPT ![h] = d]
       \/ /\ ~should_retry(neighbors[h])
          /\ connect' = [connect EXCEPT ![h] = "returned"] /\ UNCHANGED delay
    /\ UNCHANGED <<phase, conf, rib, attempts, incoming, rejected, panicked>>

\* The sleep ends in the error connect() returns; its task is nobody's concern.
Wake(h) ==
    /\ connect[h] = "sleeping" /\ connect' = [connect EXCEPT ![h] = "returned"]
    /\ delay' = [delay EXCEPT ![h] = 0]
    /\ UNCHANGED <<phase, conf, neighbors, rib, attempts, incoming, rejected, panicked>>

\* listen and add_incoming, for a neighbour whose record is not locked.
add_incoming(h) ==
    /\ phase = "running" /\ incoming < MaxIncoming /\ incoming' = incoming + 1
    /\ \/ /\ h \in DOMAIN neighbors /\ ~neighbors[h].up
          /\ \E received \in Offers : Establish(h, received)
          /\ UNCHANGED rejected
       \/ /\ h \notin DOMAIN neighbors
          /\ rejected' = rejected \cup {h} /\ UNCHANGED <<neighbors, panicked>>
    /\ UNCHANGED <<phase, conf, rib, connect, attempts, delay>>

Main == read_config \/ NewSpeaker \/ add_neighbor \/ Start \/ connect_mgr
Connecting(h) == Connect(h) \/ ConnectSucceeds(h) \/ ConnectFails(h) \/ Wake(h)

Next == Main \/ \E h \in Hosts : Connecting(h) \/ add_incoming(h)

Spec == Init /\ [][Next]_vars

\* main and the tasks it spawned run; a connection attempt and a sleep end.
FairSpec == Spec /\ WF_vars(Main) /\ \A h \in Hosts : WF_vars(Connecting(h))

-----------------------------------------------------------------------------
(* Properties                                                              *)

\* Options have values once they were read, and every neighbour is a configured one.
TypeOK ==
    /\ phase \in {"read", "build", "add", "start", "running", "failed"}
    /\ phase # "read" => conf.hold_time \in Nat /\ conf.families \subseteq Families
    /\ \A h \in DOMAIN neighbors :
         /\ neighbors[h].families \subseteq Families /\ neighbors[h].hold_time \in Nat
         /\ neighbors[h].ribtx \subseteq Families
         /\ \E n \in conf.neighbors : n.ip = h
    /\ connect \in [Hosts -> {"none", "ready", "trying", "sleeping", "returned"}]

\* The file gives the neighbour at h a family of its own that the speaker does not have;
\* neither read_config nor add_neighbor looks.
Wider(h) ==
    /\ conf.neighbors # None
    /\ \E n \in conf.neighbors :
         n.ip = h /\ n.families # None /\ ~(n.families \subseteq conf.families)

\* expect("BUG: RIB should exist for negotiated address family") fails only for a
\* neighbour the file itself makes wider than the speaker: a session of any other,
\* whoever began it, whatever the peer announces and whatever the other neighbours have,
\* finds a rib for each of its families.
RibExists == \A h \in panicked : Wider(h)

\* The same for every neighbour (neighbor/message_handler.rs, send_locrib).
RibAlwaysExists == panicked = {}

\* The daemon comes up (README.md, "Config").
Starts == phase # "failed"

\* "No neighbors configured, BGP speaker will accept incoming connections only"
AcceptsIncoming == conf.neighbors = None => rejected = {}

\* A failed connection is tried again while retries are left (connect_retry and
\* max_retry_count of the configuration).
Retries == \A h \in Hosts : connect[h] = "sleeping" ~> attempts[h] > 1

\* A failed attempt never sleeps less than configured or, with backoff, an hour,
\* and never longer than an hour with backoff, a tenth more than configured without,
\* however many attempts had failed and whatever the jitter is.
DelayInRange ==
    \A h \in DOMAIN neighbors :
        LET base == neighbors[h].connect_retry_time
            range == IF neighbors[h].exponential_backoff
                     THEN Min({base, 3600})..3600 ELSE base..(base + (base \div 10))
        IN /\ connect[h] = "sleeping" => delay[h] \in range
           /\ connect[h] = "trying" =>
                \A counter \in Counters : Delays(neighbors[h], counter) \subseteq range

\* Backoff never makes a neighbour more eager: even with the least jitter the next
\* delay is longer than the last one with the most, until they are an hour long or
\* the tenth doubling was the last.
BacksOff ==
    \A h \in DOMAIN neighbors :
        LET n == neighbors[h]
        IN connect[h] = "trying" /\ n.exponential_backoff /\ n.connect_retry_time > 0 =>
             \A counter \in {c \in Counters : c < 10} :
                LET next == Min(Delays(n, counter + 1))
                IN next = 3600 \/ next > Max(Delays(n, counter))

\* Every configured neighbour is connected to.
AllTried ==
    \A h \in Hosts :
        (phase = "running" /\ h \in DOMAIN neighbors) ~> connect[h] = "returned"

\* A session that came in before connect() ran has no channel to send its routes on.
\* It gets one for every family of the speaker.
RibtxFollows ==
    \A h \in Hosts :
        (h \in DOMAIN neighbors /\ neighbors[h].up) ~>
            (h \in DOMAIN neighbors /\ neighbors[h].ribtx = conf.families)
=============================================================================
