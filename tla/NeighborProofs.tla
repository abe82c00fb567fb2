--------------------------- MODULE NeighborProofs ---------------------------
(***************************************************************************)
(* Safety of Neighbor for any number of connections, any messages, any     *)
(* queue capacity and any bounds: the type invariant, RidKnown and         *)
(* OnlyValidatedPeer, from one inductive invariant; OneOpenPerConnection   *)
(* from a second one, Stages, about the connections that met no other;     *)
(* the refinement of BGPFsm from the two; AdjRibMirror from a third one,   *)
(* Mirrored.                                                               *)
(***************************************************************************)
EXTENDS Neighbor, FiniteSetTheorems, TLAPS

USE DEF history

OpenMsgs == [type : {"Open"}, body : Opens]
UpdateMsgs == [type : {"Update"}, body : Updates]

\* What a task's place p says about its locals l: which message it is handling,
\* that a sender it is going to use was cloned when n.tx was Some, and that the
\* router id it stamps on routes is one that validate_open let through.
TaskOK(p, l) ==
    /\ p \in PCs /\ l \in Locals
    /\ p \in {"open", "collide", "validate"} => l.msg \in OpenMsgs
    /\ p \in {"update", "adjwd", "adjadd", "ribsend"} => l.msg \in UpdateMsgs
    /\ p \in {"collide", "validate", "spawnka", "push"} => l.chan \in Conns
    /\ p = "push" => l.ev \in Events
    /\ p \in HasRid => l.rid # None
    /\ l.rid \in ValidRids \cup {None}

TasksOK == \A c \in Conns : TaskOK(pc[c], loc[c])

\* A timer that will send has a sender, the listener has a socket in its hands.
Wired ==
    /\ \A c \in Conns : hold[c] \in {"sleep", "send"} => holdtx[c] \in Conns
    /\ listening \in {"check", "adopt"} => accepted \in Inbound

\* The parts of RidKnown and OnlyValidatedPeer that are about the record.
PeerKnown ==
    /\ state \in {"OpenConfirm", "Established"} => remote_rid # None
    /\ \A c \in Conns : pc[c] \in NeedsRid => remote_rid # None
    /\ remote_rid \in ValidRids \cup {None}
    /\ \A f \in SpeakerFamilies : \A r \in ribsent[f] : r[1] \in ValidRids
    /\ bug # "rid"

Inv == TypeOK /\ TasksOK /\ Wired /\ PeerKnown

\* What every step must show of the tasks' places.
Moved ==
    /\ pc' \in [Conns -> PCs] /\ loc' \in [Conns -> Locals] /\ TasksOK'
    /\ \A c \in Conns : pc'[c] \in NeedsRid => remote_rid' # None

-----------------------------------------------------------------------------
(* Facts about the constants and the helpers                               *)

\* The assumption on the constants, less what no proof needs.
LEMMA Assumptions ==
    /\ Out \in Conns /\ None \notin Conns /\ None \notin Rids /\ None \notin Msgs
    /\ None \notin States /\ None \notin Events
    /\ Ipv4Unicast \in AllFamilies /\ IsFiniteSet(AllFamilies)
    /\ Families \subseteq AllFamilies /\ SpeakerFamilies \subseteq AllFamilies
    /\ \A o \in Opens : o.rid \in Rids /\ o.mp \subseteq AllFamilies
    /\ MaxTicks \in Nat \cup {None}
  BY NeighborAssumption DEF NeighborAssumption

\* A router id that passed validate_open is a router id.
LEMMA ValidRidsType == ValidRids \subseteq Rids
  BY Assumptions DEF ValidRids

\* Fresh locals are well formed.
LEMMA NoLocalsType == NoLocals \in Locals /\ NoLocals.rid = None
  BY DEF NoLocals, Locals

\* The places at which a task needs nothing of its locals.
LEMMA FreshTask ==
    ASSUME NEW p \in {"none", "spawned", "first", "sendopen", "loop", "join", "dead"}
    PROVE  TaskOK(p, NoLocals)
  BY NoLocalsType DEF TaskOK, PCs, HasRid

\* Setting one local leaves the record well formed and the other locals alone.
LEMMA LocalsUpdate ==
    ASSUME NEW l \in Locals
    PROVE  /\ \A s \in States : [l EXCEPT !.seen = s] \in Locals
           /\ \A t \in Conns : [l EXCEPT !.chan = t] \in Locals
           /\ \A e \in Events : [l EXCEPT !.ev = e] \in Locals
           /\ \A r \in Rids : [l EXCEPT !.rid = r] \in Locals
  BY DEF Locals

\* What a set local and the others read as afterwards.
LEMMA LocalsFields ==
    ASSUME NEW l \in Locals, NEW x
    PROVE  /\ [l EXCEPT !.chan = x].msg = l.msg /\ [l EXCEPT !.chan = x].chan = x
           /\ [l EXCEPT !.chan = x].rid = l.rid
           /\ [l EXCEPT !.ev = x].msg = l.msg /\ [l EXCEPT !.ev = x].chan = l.chan
           /\ [l EXCEPT !.ev = x].ev = x /\ [l EXCEPT !.ev = x].rid = l.rid
           /\ [l EXCEPT !.rid = x].msg = l.msg /\ [l EXCEPT !.rid = x].rid = x
           /\ [l EXCEPT !.seen = x].rid = l.rid
  BY DEF Locals

\* GotoWith moves one task, to a place and locals that fit each other.
LEMMA Jump ==
    ASSUME Inv, NEW c \in Conns, NEW p, NEW l, GotoWith(c, p, l), TaskOK(p, l),
           p \in NeedsRid => remote_rid' # None,
           remote_rid # None => remote_rid' # None
    PROVE  Moved
<1>1. /\ pc' = [pc EXCEPT ![c] = p] /\ loc' = [loc EXCEPT ![c] = l]
      /\ pc \in [Conns -> PCs] /\ loc \in [Conns -> Locals]
      /\ p \in PCs /\ l \in Locals
  BY DEF GotoWith, Inv, TypeOK, TaskOK
<1>2. /\ pc' \in [Conns -> PCs] /\ loc' \in [Conns -> Locals]
      /\ pc'[c] = p /\ loc'[c] = l
      /\ \A d \in Conns \ {c} : pc'[d] = pc[d] /\ loc'[d] = loc[d]
  BY <1>1
<1>3. \A d \in Conns : TaskOK(pc'[d], loc'[d])
  BY <1>2 DEF Inv, TasksOK
<1> QED
  BY <1>2, <1>3 DEF Inv, PeerKnown, Moved, TasksOK

\* Goto is GotoWith with the locals the task has.
LEMMA JumpOnly ==
    ASSUME Inv, NEW c \in Conns, NEW p, Goto(c, p), TaskOK(p, loc[c]),
           p \in NeedsRid => remote_rid' # None,
           remote_rid # None => remote_rid' # None
    PROVE  Moved
<1>1. /\ pc' = [pc EXCEPT ![c] = p] /\ loc' = loc
      /\ pc \in [Conns -> PCs] /\ loc \in [Conns -> Locals]
      /\ p \in PCs
  BY DEF Goto, Inv, TypeOK, TaskOK
<1>2. /\ pc' \in [Conns -> PCs] /\ pc'[c] = p /\ loc'[c] = loc[c]
      /\ \A d \in Conns \ {c} : pc'[d] = pc[d] /\ loc'[d] = loc[d]
  BY <1>1
<1>3. \A d \in Conns : TaskOK(pc'[d], loc'[d])
  BY <1>2 DEF Inv, TasksOK
<1> QED
  BY <1>1, <1>2, <1>3 DEF Inv, PeerKnown, Moved, TasksOK

\* No task moves.
LEMMA Stay ==
    ASSUME Inv, pc' = pc, loc' = loc, remote_rid' = remote_rid
    PROVE  Moved
<1>1. TasksOK'
  BY DEF Inv, TasksOK
<1> QED
  BY <1>1 DEF Inv, TypeOK, PeerKnown, Moved

\* Dropping a socket and its channel.
LEMMA HangUpType ==
    ASSUME TypeOK, NEW c \in Conns, HangUp(c)
    PROVE  /\ link' \in [Conns -> {"down", "up", "eof", "reset"}]
           /\ inbox' \in [Conns -> Seq(Msgs)] /\ queue' \in [Conns -> Seq(Events)]
  BY DEF TypeOK, HangUp

\* Writing on a socket.
LEMMA WrittenType ==
    ASSUME TypeOK, NEW c \in Conns, Written(c)
    PROVE  link' \in [Conns -> {"down", "up", "eof", "reset"}]
  BY DEF TypeOK, Written

\* Sending an event on a channel.
LEMMA EnqueueType ==
    ASSUME TypeOK, NEW t \in Conns, NEW e \in Events, Enqueue(t, e)
    PROVE  queue' \in [Conns -> Seq(Events)]
  BY DEF TypeOK, Enqueue

\* Counting a timer's expiry.
LEMMA TickType ==
    ASSUME TypeOK, NEW t, Tick(t)
    PROVE  ticks' \in Nat
  BY DEF TypeOK, Tick

\* One RibUpdate per negotiated family keeps a channel a channel.
LEMMA AnnounceType ==
    ASSUME TypeOK, NEW S \in SUBSET AllFamilies, Announce(S)
    PROVE  queue' \in [Conns -> Seq(Events)]
<1>1. CASE S = {}
  BY <1>1 DEF Announce, TypeOK
<1>2. CASE S # {}
  <2> DEFINE n == Cardinality(S)
             more == [i \in 1..n |-> "RibUpdate"]
  <2>1. n \in Nat
    BY Assumptions, FS_Subset, FS_CardinalityType
  <2>2. more \in Seq(Events)
    BY <2>1 DEF Events
  <2>3. tx \in Conns /\ queue[tx] \in Seq(Events)
    BY <1>2 DEF Announce, TypeOK
  <2>4. queue' = [queue EXCEPT ![tx] = queue[tx] \o more]
    BY <1>2 DEF Announce
  <2>5. queue[tx] \o more \in Seq(Events)
    BY <2>2, <2>3
  <2> HIDE DEF more
  <2> QED
    BY <2>4, <2>5 DEF TypeOK
<1> QED
  BY <1>1, <1>2

\* A connection that comes adds connections to the history.
LEMMA ArrivesType ==
    ASSUME TypeOK, NEW c \in Conns, Arrives(c)
    PROVE  met' \subseteq Conns
  BY DEF TypeOK, Arrives, Others

\* What the fields of an UPDATE select stays within the constants.
LEMMA UpdateType ==
    ASSUME NEW u \in Updates
    PROVE  /\ UpdateAf(u) \in AllFamilies
           /\ UpdateAdded(u) \subseteq Nlris /\ UpdateWithdrawn(u) \subseteq Nlris
<1> DEFINE A == [kind : {"reach", "unreach"}, af : AllFamilies, nlris : SUBSET Nlris]
<1>1. /\ u.withdrawn \subseteq Nlris /\ u.nlri \subseteq Nlris /\ u.mp \in Seq(A)
      /\ Ipv4Unicast \in AllFamilies
  BY NeighborAssumption DEF NeighborAssumption
<1>2. ASSUME u.mp # <<>> PROVE /\ Head(u.mp).af \in AllFamilies
                              /\ Head(u.mp).nlris \subseteq Nlris
  <2>1. Head(u.mp) \in A
    <3> HIDE DEF A
    <3> QED
      BY <1>1, <1>2
  <2> QED
    BY <2>1
<1> QED
  BY <1>1, <1>2 DEF UpdateAf, UpdateAdded, UpdateWithdrawn

-----------------------------------------------------------------------------
(* The initial state                                                       *)

\* A neighbour that has just been configured satisfies Inv.
LEMMA InitInv == Init => Inv
<1> SUFFICES ASSUME Init PROVE Inv
  OBVIOUS
<1>1. TypeOK
  <2>1. \A S : <<>> \in Seq(S)
    OBVIOUS
  <2> QED
    BY <2>1, NoLocalsType, Assumptions DEF Init, TypeOK, States, PCs
<1>2. TasksOK
  BY FreshTask DEF Init, TasksOK
<1>3. Wired /\ PeerKnown
  BY DEF Init, Wired, PeerKnown, NeedsRid
<1> QED
  BY <1>1, <1>2, <1>3 DEF Inv

-----------------------------------------------------------------------------
(* The connect task and the listener                                       *)

\* connect() takes the RIB senders and starts to dial.
LEMMA ConnectStartInv == ASSUME Inv, ConnectStart PROVE Inv'
<1>1. Moved
  BY Stay DEF ConnectStart, nbvars, envvars, spawners, timers, fsmvars, logvars
<1> QED
  BY <1>1
  DEF Moved, Inv, TypeOK, Wired, PeerKnown, ConnectStart,
      nbvars, envvars, spawners, timers, fsmvars, logvars

\* The dial fails: Idle, whatever another connection was doing.
LEMMA ConnectFailsInv == ASSUME Inv, ConnectFails PROVE Inv'
<1>1. Moved
  BY Stay DEF ConnectFails, nbvars, envvars, spawners, timers, fsmvars, logvars
<1>2. met' \subseteq Conns
  BY Assumptions DEF ConnectFails, Inv, TypeOK
<1> QED
  BY <1>1, <1>2
  DEF Moved, Inv, TypeOK, Wired, PeerKnown, ConnectFails,
      States, nbvars, envvars, spawners, timers, fsmvars, logvars

\* The dial succeeds: Connect, and an fsm_tcp task for the socket.
LEMMA ConnectSucceedsInv == ASSUME Inv, ConnectSucceeds PROVE Inv'
<1>1. TaskOK("spawned", loc[Out])
  BY Assumptions DEF Inv, TasksOK, TaskOK, HasRid, PCs
<1>2. Moved
  BY <1>1, JumpOnly, Assumptions DEF ConnectSucceeds, NeedsRid
<1>3. met' \subseteq Conns
  BY Assumptions, ArrivesType DEF ConnectSucceeds, Inv
<1> QED
  BY <1>2, <1>3, Assumptions
  DEF Moved, Inv, TypeOK, Wired, PeerKnown, ConnectSucceeds,
      States, nbvars, envvars, spawners, timers, fsmvars, logvars

\* add_incoming finds the neighbour of an accepted socket.
LEMMA AcceptMatchedInv == ASSUME Inv, NEW c \in Inbound, AcceptMatched(c) PROVE Inv'
<1>1. Moved
  BY Stay DEF AcceptMatched, nbvars, envvars, spawners, timers, fsmvars, logvars
<1> QED
  BY <1>1
  DEF Moved, Inv, TypeOK, Wired, PeerKnown, AcceptMatched,
      Inbound, nbvars, envvars, spawners, timers, fsmvars, logvars

\* add_incoming finds every record locked and drops the socket.
LEMMA AcceptContendedInv == ASSUME Inv, NEW c \in Inbound, AcceptContended(c) PROVE Inv'
<1>1. c \in Conns /\ TaskOK("dead", loc[c])
  BY DEF Inv, TasksOK, TaskOK, HasRid, PCs, Inbound
<1>2. Moved
  BY <1>1, JumpOnly DEF AcceptContended, NeedsRid, nbvars
<1> QED
  BY <1>2
  DEF Moved, Inv, TypeOK, Wired, PeerKnown, AcceptContended,
      nbvars, envvars, spawners, timers, fsmvars, logvars

\* add_incoming reads the state under its first lock.
LEMMA AcceptCheckInv == ASSUME Inv, AcceptCheck PROVE Inv'
<1>1. accepted \in Conns /\ TaskOK("dead", loc[accepted])
  BY DEF AcceptCheck, Inv, Wired, TasksOK, TaskOK, HasRid, PCs, Inbound
<1>2. /\ UNCHANGED <<nbvars, sent, faults, connecting, connect_retry_counter, timers,
                       loc, ribsent, opens_sent, bug, names, lost>>
      /\ listening' \in {"adopt", "accept"}
  BY DEF AcceptCheck
<1>3. CASE /\ HangUp(accepted) /\ pc' = [pc EXCEPT ![accepted] = "dead"]
           /\ listening' = "accept" /\ accepted' = None /\ UNCHANGED met
  <2>1. Goto(accepted, "dead")
    BY <1>2, <1>3 DEF Goto
  <2>2. Moved
    BY <1>1, <1>2, <2>1, JumpOnly DEF NeedsRid, nbvars
  <2>3. /\ link' \in [Conns -> {"down", "up", "eof", "reset"}]
        /\ inbox' \in [Conns -> Seq(Msgs)] /\ queue' \in [Conns -> Seq(Events)]
    BY <1>1, <1>3, HangUpType DEF Inv
  <2> QED
    BY <1>2, <1>3, <2>2, <2>3 DEF Moved, Inv, TypeOK, Wired, PeerKnown, nbvars, timers
<1>4. CASE /\ UNCHANGED <<accepted, link, inbox, queue, pc>> /\ Arrives(accepted)
           /\ listening' = "adopt"
  <2>1. Moved
    BY <1>2, <1>4, Stay DEF nbvars
  <2>2. met' \subseteq Conns
    BY <1>1, <1>4, ArrivesType DEF Inv
  <2>3. accepted \in Inbound
    BY DEF AcceptCheck, Inv, Wired
  <2> QED
    BY <1>2, <1>4, <2>1, <2>2, <2>3
    DEF Moved, Inv, TypeOK, Wired, PeerKnown, nbvars, timers
<1> QED
  BY <1>3, <1>4 DEF AcceptCheck

\* add_incoming writes Active under its second lock.
LEMMA AcceptAdoptInv == ASSUME Inv, AcceptAdopt PROVE Inv'
<1>1. accepted \in Conns /\ TaskOK("spawned", loc[accepted])
  BY DEF AcceptAdopt, Inv, Wired, TasksOK, TaskOK, HasRid, PCs, Inbound
<1>2. Moved
  BY <1>1, JumpOnly DEF AcceptAdopt, NeedsRid, nbvars
<1> QED
  BY <1>2
  DEF Moved, Inv, TypeOK, Wired, PeerKnown, AcceptAdopt,
      States, nbvars, envvars, spawners, timers, fsmvars, logvars

-----------------------------------------------------------------------------
(* fsm_tcp                                                                 *)

\* fsm_tcp installs its channel and reads the state.
LEMMA FsmStartInv == ASSUME Inv, NEW c \in Conns, FsmStart(c) PROVE Inv'
<1>1. TaskOK("first", [NoLocals EXCEPT !.seen = state])
  BY NoLocalsType, LocalsUpdate, LocalsFields DEF Inv, TypeOK, TaskOK, HasRid, PCs
<1>2. Moved
  <2>1. CASE GotoWith(c, "first", [NoLocals EXCEPT !.seen = state])
    BY <1>1, <2>1, Jump DEF FsmStart, NeedsRid
  <2>2. CASE EnterLoop(c)
    BY <2>2, Jump, FreshTask DEF FsmStart, EnterLoop, BackToLoop, NeedsRid
  <2> QED
    BY <2>1, <2>2 DEF FsmStart
<1>3. hold' \in [Conns -> {"off", "start", "sleep", "send", "done"}] /\ Wired'
  BY DEF FsmStart, EnterLoop, Inv, TypeOK, Wired, spawners
<1>4. tx' \in Conns /\ UNCHANGED <<state, remote_rid, mp_received, ribtx, adjrib,
                     envvars, spawners, holdtx, katimers, ticks, queue, logvars>>
  BY DEF FsmStart
<1> QED
  BY <1>2, <1>3, <1>4
  DEF Moved, Inv, TypeOK, PeerKnown, envvars, spawners, logvars

\* The event chosen from that state meets the state of now.
LEMMA FirstEventInv == ASSUME Inv, NEW c \in Conns, FirstEvent(c) PROVE Inv'
<1>1. TaskOK("sendopen", loc[c])
  BY DEF Inv, TasksOK, TaskOK, HasRid, PCs
<1>2. Moved
  <2>1. CASE Goto(c, "sendopen")
    BY <1>1, <2>1, JumpOnly DEF FirstEvent, NeedsRid, nbvars
  <2>2. CASE EnterLoop(c)
    BY <2>2, Jump, FreshTask DEF FirstEvent, EnterLoop, BackToLoop, NeedsRid, nbvars
  <2> QED
    BY <2>1, <2>2 DEF FirstEvent
<1>3. hold' \in [Conns -> {"off", "start", "sleep", "send", "done"}] /\ Wired'
  BY DEF FirstEvent, EnterLoop, Inv, TypeOK, Wired, spawners
<1>4. UNCHANGED <<nbvars, envvars, spawners, holdtx, katimers, ticks, queue, logvars>>
  BY DEF FirstEvent
<1> QED
  BY <1>2, <1>3, <1>4
  DEF Moved, Inv, TypeOK, PeerKnown, nbvars, envvars, spawners, logvars

\* The OPEN is written, or fsm_tcp returns early.
LEMMA SendOpenInv == ASSUME Inv, NEW c \in Conns, SendOpen(c) PROVE Inv'
<1>1. Moved
  <2>1. CASE EnterLoop(c)
    BY <2>1, Jump, FreshTask DEF SendOpen, EnterLoop, BackToLoop, NeedsRid
  <2>2. CASE GotoWith(c, "dead", NoLocals)
    BY <2>2, Jump, FreshTask DEF SendOpen, NeedsRid
  <2> QED
    BY <2>1, <2>2 DEF SendOpen
<1>2. /\ link' \in [Conns -> {"down", "up", "eof", "reset"}]
      /\ inbox' \in [Conns -> Seq(Msgs)] /\ queue' \in [Conns -> Seq(Events)]
  BY HangUpType, WrittenType DEF SendOpen, Inv, TypeOK
<1>3. hold' \in [Conns -> {"off", "start", "sleep", "send", "done"}] /\ Wired'
  BY DEF SendOpen, EnterLoop, Inv, TypeOK, Wired, spawners
<1>4. opens_sent' \in [Conns -> Nat]
  <2>1. opens_sent \in [Conns -> Nat]
    BY DEF Inv, TypeOK
  <2>2. \/ opens_sent' = [opens_sent EXCEPT ![c] = @ + 1]
        \/ opens_sent' = opens_sent
    BY DEF SendOpen
  <2> QED
    BY <2>1, <2>2
<1>5. state' \in States
  BY DEF SendOpen, Inv, TypeOK, States
<1>6. state' \in {"OpenConfirm", "Established"} => remote_rid # None
  BY DEF SendOpen, Inv, PeerKnown
<1>7. UNCHANGED <<tx, remote_rid, mp_received, ribtx, adjrib, sent, faults, spawners,
                  holdtx, katimers, ticks, ribsent, bug, history>>
  BY DEF SendOpen
<1> QED
  BY <1>1, <1>2, <1>3, <1>4, <1>5, <1>6, <1>7
  DEF Moved, Inv, TypeOK, PeerKnown, spawners

\* fsm_loop takes an event and writes what its handler says.
LEMMA HandleEventInv == ASSUME Inv, NEW c \in Conns, HandleEvent(c) PROVE Inv'
<1>1. TaskOK("join", loc[c])
  BY DEF Inv, TasksOK, TaskOK, HasRid, PCs
<1>2. Moved
  <2>1. CASE Goto(c, "join")
    BY <1>1, <2>1, JumpOnly DEF HandleEvent, NeedsRid, nbvars
  <2>2. CASE UNCHANGED <<pc, loc>>
    BY <2>2, Stay DEF HandleEvent, nbvars
  <2> QED
    BY <2>1, <2>2 DEF HandleEvent
<1>3. link' \in [Conns -> {"down", "up", "eof", "reset"}]
  BY WrittenType DEF HandleEvent, Inv, TypeOK
<1>4. queue' \in [Conns -> Seq(Events)]
  BY DEF HandleEvent, Inv, TypeOK
<1>5. opens_sent' \in [Conns -> Nat]
  BY DEF HandleEvent, Inv, TypeOK
<1> QED
  BY <1>2, <1>3, <1>4, <1>5
  DEF Moved, Inv, TypeOK, Wired, PeerKnown, HandleEvent,
      nbvars, envvars, spawners, timers, fsmvars, logvars

\* fsm_loop takes a message: the state read with it decides who handles it.
LEMMA ReadMessageInv == ASSUME Inv, NEW c \in Conns, ReadMessage(c) PROVE Inv'
<1> DEFINE m == Head(inbox[c])
           next == Dispatch(state, m.type)
           l == [NoLocals EXCEPT !.msg = m, !.seen = state]
<1>1. m \in Msgs /\ inbox' \in [Conns -> Seq(Msgs)]
  BY DEF ReadMessage, Inv, TypeOK
<1>2. l \in Locals /\ l.msg = m /\ l.rid = None
  BY <1>1 DEF NoLocals, Locals, Inv, TypeOK
<1>3. /\ next \in {"open", "notify", "establish", "withdraw", "update", "loop"}
      /\ next = "open" => m.type = "Open"
      /\ next = "update" => m.type = "Update"
      /\ next \in NeedsRid => state \in {"OpenConfirm", "Established"}
  BY DEF Dispatch, NeedsRid
<1>4. /\ m.type = "Open" => m \in OpenMsgs
      /\ m.type = "Update" => m \in UpdateMsgs
  BY <1>1 DEF Msgs, OpenMsgs, UpdateMsgs
<1> HIDE DEF m, next, l
<1>5. next # "loop" => TaskOK(next, l)
  BY <1>2, <1>3, <1>4 DEF TaskOK, HasRid, PCs
<1>6. Moved
  <2>1. CASE next # "loop"
    <3>1. GotoWith(c, next, l) /\ remote_rid' = remote_rid
      BY <2>1 DEF ReadMessage, m, next, l, nbvars
    <3> QED
      BY <1>3, <1>5, <2>1, <3>1, Jump DEF Inv, PeerKnown
  <2>2. CASE next = "loop"
    BY <2>2, Stay DEF ReadMessage, m, next, nbvars
  <2> QED
    BY <2>1, <2>2
<1> QED
  BY <1>1, <1>6
  DEF Moved, Inv, TypeOK, Wired, PeerKnown, ReadMessage,
      nbvars, envvars, spawners, timers, fsmvars, logvars

\* fsm_loop meets a socket error.
LEMMA ReadErrorInv == ASSUME Inv, NEW c \in Conns, ReadError(c) PROVE Inv'
<1>1. TaskOK("join", loc[c])
  BY DEF Inv, TasksOK, TaskOK, HasRid, PCs
<1>2. Moved
  BY <1>1, JumpOnly DEF ReadError, NeedsRid, nbvars
<1> QED
  BY <1>2
  DEF Moved, Inv, TypeOK, Wired, PeerKnown, ReadError,
      nbvars, envvars, spawners, timers, fsmvars, logvars

\* A handler sends its event on the sender it cloned.
LEMMA PushInv == ASSUME Inv, NEW c \in Conns, Push(c) PROVE Inv'
<1>1. Moved
  <2>1. CASE BackToLoop(c)
    BY <2>1, Jump, FreshTask DEF Push, BackToLoop, NeedsRid, nbvars
  <2>2. CASE GotoWith(c, "join", NoLocals)
    BY <2>2, Jump, FreshTask DEF Push, NeedsRid, nbvars
  <2> QED
    BY <2>1, <2>2 DEF Push
<1>2. loc[c].chan \in Conns /\ loc[c].ev \in Events
  BY DEF Push, Inv, TasksOK, TaskOK
<1>3. queue' \in [Conns -> Seq(Events)]
  BY <1>2, EnqueueType DEF Push, Inv, TypeOK
<1> QED
  BY <1>1, <1>3
  DEF Moved, Inv, TypeOK, Wired, PeerKnown, Push,
      nbvars, envvars, spawners, timers, fsmvars, logvars

\* A handler clones n.tx.
LEMMA TakeTxInv == ASSUME Inv, NEW c \in Conns, TakeTx(c) PROVE Inv'
<1> DEFINE l == loc[c]
<1>1. TaskOK(pc[c], l) /\ l \in Locals
  BY DEF Inv, TasksOK, TaskOK
<1>2. CASE tx = None
  <2>1. Moved
    BY <1>2, Jump, FreshTask DEF TakeTx, NeedsRid, nbvars
  <2> QED
    BY <2>1 DEF Moved, Inv, TypeOK, Wired, PeerKnown, TakeTx,
        nbvars, envvars, spawners, timers, fsmvars, logvars
<1>3. CASE tx # None
  <2> DEFINE k == [l EXCEPT !.chan = tx]
             n == [l EXCEPT !.chan = tx, !.ev = "NotifMsg"]
  <2>1. tx \in Conns
    BY <1>3 DEF Inv, TypeOK
  <2>2. /\ k \in Locals /\ k.msg = l.msg /\ k.chan = tx /\ k.rid = l.rid
        /\ n = [k EXCEPT !.ev = "NotifMsg"]
    BY <1>1, <2>1, LocalsUpdate, LocalsFields
  <2>3. n \in Locals /\ n.chan = tx /\ n.ev = "NotifMsg" /\ n.rid = l.rid
    BY <1>1, <2>1 DEF Locals, Events
  <2> HIDE DEF k, n
  <2>4. /\ pc[c] = "open" => TaskOK("collide", k)
        /\ TaskOK("push", n)
    BY <1>1, <2>1, <2>2, <2>3 DEF TaskOK, HasRid, PCs, Events
  <2>5. \/ pc[c] = "open" /\ GotoWith(c, "collide", k)
        \/ GotoWith(c, "push", n)
    BY <1>3 DEF TakeTx, k, n
  <2>6. Moved
    BY <2>4, <2>5, Jump DEF TakeTx, NeedsRid, nbvars
  <2> QED
    BY <2>6 DEF Moved, Inv, TypeOK, Wired, PeerKnown, TakeTx,
        nbvars, envvars, spawners, timers, fsmvars, logvars
<1> QED
  BY <1>2, <1>3
  DEF Moved, Inv, TypeOK, Wired, PeerKnown, TakeTx,
      nbvars, envvars, spawners, timers, fsmvars, logvars

\* The OPEN is compared with the session that is opening.
LEMMA collision_detectionInv == ASSUME Inv, NEW c \in Conns, collision_detection(c) PROVE Inv'
<1> DEFINE k == [loc[c] EXCEPT !.ev = "OpenCollisionDump"]
<1>1. TaskOK("validate", loc[c]) /\ loc[c] \in Locals /\ loc[c].chan \in Conns
  BY DEF collision_detection, Inv, TasksOK, TaskOK, HasRid, PCs
<1>2. k \in Locals /\ k.chan = loc[c].chan /\ k.ev \in Events /\ k.rid = loc[c].rid
  BY <1>1, LocalsUpdate, LocalsFields DEF Events
<1> HIDE DEF k
<1>3. TaskOK("push", k)
  BY <1>1, <1>2 DEF TaskOK, HasRid, PCs
<1>4. Goto(c, "validate") \/ GotoWith(c, "push", k)
  BY DEF collision_detection, k
<1>5. Moved
  BY <1>1, <1>3, <1>4, Jump, JumpOnly DEF collision_detection, NeedsRid, nbvars
<1>6. queue' \in [Conns -> Seq(Events)]
  BY EnqueueType DEF collision_detection, Collision, Events, Inv, TypeOK
<1> QED
  BY <1>5, <1>6
  DEF Moved, Inv, TypeOK, Wired, PeerKnown, collision_detection,
      nbvars, envvars, spawners, timers, fsmvars, logvars

\* The only step that writes the router id: after validate_open.
LEMMA ValidateOpenInv == ASSUME Inv, NEW c \in Conns, ValidateOpen(c) PROVE Inv'
<1> DEFINE o == loc[c].msg.body
           k == [loc[c] EXCEPT !.ev = "BGPOpenMsgErr"]
<1>1. /\ TaskOK("spawnka", loc[c]) /\ loc[c] \in Locals /\ loc[c].chan \in Conns
      /\ loc[c].msg \in OpenMsgs
  BY DEF ValidateOpen, Inv, TasksOK, TaskOK, HasRid, PCs
<1>2. /\ o \in Opens /\ o.rid \in Rids /\ o.mp \subseteq AllFamilies
      /\ validate_open(o) => o.rid \in ValidRids
      /\ o.rid # None
  BY <1>1, Assumptions DEF OpenMsgs, ValidRids, validate_open
<1>3. k \in Locals /\ k.chan = loc[c].chan /\ k.ev \in Events /\ k.rid = loc[c].rid
  BY <1>1, LocalsUpdate, LocalsFields DEF Events
<1> HIDE DEF k, o
<1>4. TaskOK("push", k)
  BY <1>1, <1>3 DEF TaskOK, HasRid, PCs
<1>5. \/ /\ validate_open(o) /\ remote_rid' = o.rid /\ mp_received' = o.mp
         /\ state' = "OpenConfirm" /\ Goto(c, "spawnka")
      \/ GotoWith(c, "push", k) /\ UNCHANGED <<remote_rid, mp_received, state>>
  BY DEF ValidateOpen, k, o
<1>6. Moved
  BY <1>1, <1>2, <1>4, <1>5, Jump, JumpOnly DEF NeedsRid
<1> QED
  BY <1>2, <1>5, <1>6
  DEF Moved, Inv, TypeOK, Wired, PeerKnown, ValidateOpen,
      States, nbvars, envvars, spawners, timers, fsmvars, logvars

\* The keepalive timer gets a clone of n.tx.
LEMMA SpawnKeepaliveInv == ASSUME Inv, NEW c \in Conns, SpawnKeepalive(c) PROVE Inv'
<1> DEFINE k == [loc[c] EXCEPT !.ev = "BGPOpen"]
<1>1. /\ loc[c] \in Locals /\ loc[c].chan \in Conns
      /\ loc[c].rid \in ValidRids \cup {None}
  BY DEF SpawnKeepalive, Inv, TasksOK, TaskOK
<1>2. k \in Locals /\ k.chan = loc[c].chan /\ k.ev \in Events /\ k.rid = loc[c].rid
  BY <1>1, LocalsUpdate, LocalsFields DEF Events
<1> HIDE DEF k
<1>3. TaskOK("push", k)
  BY <1>1, <1>2 DEF TaskOK, HasRid, PCs
<1>4. \/ GotoWith(c, "push", k) \/ GotoWith(c, "loop", NoLocals)
      \/ GotoWith(c, "join", NoLocals)
  BY DEF SpawnKeepalive, BackToLoop, k
<1>5. Moved
  BY <1>3, <1>4, Jump, FreshTask DEF SpawnKeepalive, NeedsRid, nbvars
<1>6. katimers' \subseteq Conns
  BY DEF SpawnKeepalive, Inv, TypeOK
<1> QED
  BY <1>5, <1>6
  DEF Moved, Inv, TypeOK, Wired, PeerKnown, SpawnKeepalive,
      nbvars, envvars, spawners, timers, fsmvars, logvars

\* Established, and send_locrib with its expect() calls.
LEMMA EstablishInv == ASSUME Inv, NEW c \in Conns, Establish(c) PROVE Inv'
<1>1. remote_rid # None
  BY DEF Establish, Inv, PeerKnown, NeedsRid
<1>2. GotoWith(c, "loop", NoLocals) \/ GotoWith(c, "dead", NoLocals)
  BY DEF Establish, BackToLoop, Panic
<1>3. Moved
  BY <1>1, <1>2, Jump, FreshTask DEF Establish, NeedsRid
<1>4. Negotiated \in SUBSET AllFamilies
  BY Assumptions DEF Negotiated
<1>5. /\ link' \in [Conns -> {"down", "up", "eof", "reset"}]
      /\ inbox' \in [Conns -> Seq(Msgs)] /\ queue' \in [Conns -> Seq(Events)]
  <2>1. CASE HangUp(c)
    BY <2>1, HangUpType DEF Inv
  <2>2. CASE Announce(Negotiated) /\ UNCHANGED <<link, inbox>>
    <3>1. queue' \in [Conns -> Seq(Events)]
      BY <1>4, <2>2, AnnounceType DEF Inv
    <3> QED
      BY <2>2, <3>1 DEF Inv, TypeOK
  <2> QED
    BY <2>1, <2>2 DEF Establish, Panic
<1>6. bug' \in {"none", "caps", "rib", "tx", "send"}
  BY DEF Establish, Panic, Inv, TypeOK, PeerKnown
<1> QED
  BY <1>1, <1>3, <1>5, <1>6
  DEF Moved, Inv, TypeOK, Wired, PeerKnown, Establish,
      States, nbvars, envvars, spawners, timers, fsmvars, logvars

\* A NOTIFICATION: the router id is taken.
LEMMA ReadPeerInv == ASSUME Inv, NEW c \in Conns, ReadPeer(c) PROVE Inv'
<1> DEFINE k == [loc[c] EXCEPT !.rid = remote_rid]
<1>1. loc[c] \in Locals /\ remote_rid \in ValidRids
  BY DEF ReadPeer, Inv, TasksOK, TaskOK, PeerKnown, NeedsRid
<1>2. remote_rid \in Rids /\ remote_rid # None
  BY <1>1, ValidRidsType, Assumptions
<1>3. k \in Locals /\ k.rid = remote_rid
  BY <1>1, <1>2, LocalsUpdate, LocalsFields
<1> HIDE DEF k
<1>4. TaskOK("purge", k)
  BY <1>1, <1>2, <1>3 DEF TaskOK, HasRid, PCs
<1>5. GotoWith(c, "purge", k)
  BY DEF ReadPeer, k
<1>6. Moved
  BY <1>2, <1>4, <1>5, Jump DEF ReadPeer, nbvars
<1> QED
  BY <1>6
  DEF Moved, Inv, TypeOK, Wired, PeerKnown, ReadPeer,
      nbvars, envvars, spawners, timers, fsmvars, logvars

\* Its routes are withdrawn.
LEMMA WithdrawAllInv == ASSUME Inv, NEW c \in Conns, WithdrawAll(c) PROVE Inv'
<1>1. TaskOK("idle", loc[c]) /\ remote_rid # None
  BY DEF WithdrawAll, Inv, TasksOK, TaskOK, HasRid, PCs, PeerKnown, NeedsRid
<1>2. Moved
  BY <1>1, JumpOnly DEF WithdrawAll, nbvars
<1>3. /\ ribsent' \in [SpeakerFamilies -> SUBSET (Rids \X Nlris)]
      /\ \A f \in SpeakerFamilies : ribsent'[f] \subseteq ribsent[f]
  BY DEF WithdrawAll, Inv, TypeOK
<1>4. PeerKnown'
  BY <1>2, <1>3 DEF Inv, PeerKnown, Moved, WithdrawAll, nbvars, logvars
<1> QED
  BY <1>2, <1>3, <1>4
  DEF Moved, Inv, TypeOK, Wired, PeerKnown, WithdrawAll,
      nbvars, envvars, spawners, timers, fsmvars, logvars

\* Then the record is reset.
LEMMA GoIdleInv == ASSUME Inv, NEW c \in Conns, GoIdle(c) PROVE Inv'
<1>1. TaskOK("fails", loc[c])
  BY DEF Inv, TasksOK, TaskOK, HasRid, PCs
<1>2. Moved
  BY <1>1, JumpOnly DEF GoIdle, NeedsRid
<1> QED
  BY <1>2
  DEF Moved, Inv, TypeOK, Wired, PeerKnown, GoIdle,
      States, nbvars, envvars, spawners, timers, fsmvars, logvars

\* Then TcpConnectionFails is sent on n.tx.
LEMMA RequestCloseInv == ASSUME Inv, NEW c \in Conns, RequestClose(c) PROVE Inv'
<1>1. Moved
  BY Jump, FreshTask DEF RequestClose, BackToLoop, NeedsRid, nbvars
<1>2. queue' \in [Conns -> Seq(Events)]
  BY EnqueueType DEF RequestClose, Events, Inv, TypeOK
<1> QED
  BY <1>1, <1>2
  DEF Moved, Inv, TypeOK, Wired, PeerKnown, RequestClose,
      nbvars, envvars, spawners, timers, fsmvars, logvars

\* An UPDATE: the router id is taken.
LEMMA StampUpdateInv == ASSUME Inv, NEW c \in Conns, StampUpdate(c) PROVE Inv'
<1> DEFINE k == [loc[c] EXCEPT !.rid = remote_rid]
<1>1. loc[c] \in Locals /\ loc[c].msg \in UpdateMsgs /\ remote_rid \in ValidRids
  BY DEF StampUpdate, Inv, TasksOK, TaskOK, PeerKnown, NeedsRid
<1>2. remote_rid \in Rids /\ remote_rid # None
  BY <1>1, ValidRidsType, Assumptions
<1>3. k \in Locals /\ k.msg = loc[c].msg /\ k.rid = remote_rid
  BY <1>1, <1>2, LocalsUpdate, LocalsFields
<1> HIDE DEF k
<1>4. TaskOK("adjwd", k)
  BY <1>1, <1>2, <1>3 DEF TaskOK, HasRid, PCs
<1>5. GotoWith(c, "adjwd", k) /\ UNCHANGED <<link, inbox, queue, bug>>
  BY <1>2 DEF StampUpdate, k
<1>6. Moved
  BY <1>2, <1>4, <1>5, Jump DEF StampUpdate, nbvars
<1> QED
  BY <1>5, <1>6
  DEF Moved, Inv, TypeOK, Wired, PeerKnown, StampUpdate,
      nbvars, envvars, spawners, timers, fsmvars, logvars

\* Its withdrawn prefixes leave the Adj-RIB-In.
LEMMA adjrib_withdrawInv == ASSUME Inv, NEW c \in Conns, adjrib_withdraw(c) PROVE Inv'
<1> DEFINE u == loc[c].msg.body
<1>1. /\ loc[c].msg \in UpdateMsgs /\ remote_rid # None
      /\ TaskOK("adjadd", loc[c])
  BY DEF adjrib_withdraw, Inv, TasksOK, TaskOK, HasRid, PCs, PeerKnown, NeedsRid
<1>2. u \in Updates
  BY <1>1 DEF UpdateMsgs
<1>3. Moved
  BY <1>1, JumpOnly DEF adjrib_withdraw
<1>4. adjrib' = [adjrib EXCEPT ![UpdateAf(u)] = @ \ UpdateWithdrawn(u)]
  BY DEF adjrib_withdraw
<1> HIDE DEF u
<1>5. adjrib' \in [AllFamilies -> SUBSET Nlris]
  BY <1>2, <1>4, UpdateType DEF Inv, TypeOK
<1> QED
  BY <1>3, <1>5
  DEF Moved, Inv, TypeOK, Wired, PeerKnown, adjrib_withdraw,
      nbvars, envvars, spawners, timers, fsmvars, logvars

\* Its announced prefixes enter it.
LEMMA adjrib_addInv == ASSUME Inv, NEW c \in Conns, adjrib_add(c) PROVE Inv'
<1> DEFINE u == loc[c].msg.body
<1>1. /\ loc[c].msg \in UpdateMsgs /\ remote_rid # None
      /\ TaskOK("ribsend", loc[c])
  BY DEF adjrib_add, Inv, TasksOK, TaskOK, HasRid, PCs, PeerKnown, NeedsRid
<1>2. u \in Updates
  BY <1>1 DEF UpdateMsgs
<1>3. Moved
  BY <1>1, JumpOnly DEF adjrib_add
<1>4. adjrib' = [adjrib EXCEPT ![UpdateAf(u)] = @ \cup UpdateAdded(u)]
  BY DEF adjrib_add
<1> HIDE DEF u
<1>5. adjrib' \in [AllFamilies -> SUBSET Nlris]
  BY <1>2, <1>4, UpdateType DEF Inv, TypeOK
<1> QED
  BY <1>3, <1>5
  DEF Moved, Inv, TypeOK, Wired, PeerKnown, adjrib_add,
      nbvars, envvars, spawners, timers, fsmvars, logvars

\* The routes reach the RIB manager under the router id taken before.
LEMMA SendToRibInv == ASSUME Inv, NEW c \in Conns, SendToRib(c) PROVE Inv'
<1> DEFINE u == loc[c].msg.body
           f == UpdateAf(u)
           r == loc[c].rid
           new == {r} \X UpdateAdded(u)
           old == {r} \X UpdateWithdrawn(u)
<1>1. loc[c].msg \in UpdateMsgs /\ r \in ValidRids /\ remote_rid # None
  BY DEF SendToRib, Inv, TasksOK, TaskOK, HasRid, PeerKnown, NeedsRid
<1>2. u \in Updates /\ r \in Rids
  BY <1>1, ValidRidsType DEF UpdateMsgs
<1>3. /\ \/ f \in SpeakerFamilies /\ ribsent' = [ribsent EXCEPT ![f] = (@ \cup new) \ old]
         \/ ribsent' = ribsent
      /\ GotoWith(c, "loop", NoLocals)
      /\ UNCHANGED <<nbvars, envvars, spawners, timers, queue, opens_sent, bug, met, names>>
      /\ \/ lost' = [lost EXCEPT ![f] = (@ \ (UpdateAdded(u) \cup UpdateWithdrawn(u)))
                                       \cup UpdateAdded(u)]
         \/ lost' = [lost EXCEPT ![f] = (@ \ (UpdateAdded(u) \cup UpdateWithdrawn(u)))
                                       \cup (UpdateAdded(u) \cap UpdateWithdrawn(u))]
  BY <1>1 DEF SendToRib, BackToLoop, envvars
<1> HIDE DEF u, f, r
<1>4. new \subseteq Rids \X Nlris /\ \A x \in new : x[1] \in ValidRids
  BY <1>1, <1>2, UpdateType
<1>5. Moved
  BY <1>3, Jump, FreshTask DEF NeedsRid, nbvars
<1> HIDE DEF new, old
<1>6. /\ ribsent' \in [SpeakerFamilies -> SUBSET (Rids \X Nlris)]
      /\ \A g \in SpeakerFamilies : \A x \in ribsent'[g] : x[1] \in ValidRids
  <2>1. CASE ribsent' = ribsent
    BY <2>1 DEF Inv, TypeOK, PeerKnown
  <2>2. CASE f \in SpeakerFamilies /\ ribsent' = [ribsent EXCEPT ![f] = (@ \cup new) \ old]
    BY <1>4, <2>2 DEF Inv, TypeOK, PeerKnown
  <2> QED
    BY <1>3, <2>1, <2>2
<1>7. lost' \in [AllFamilies -> SUBSET Nlris]
  <2>1. UpdateAdded(u) \subseteq Nlris
    BY <1>2, UpdateType
  <2> QED
    BY <1>3, <2>1 DEF Inv, TypeOK
<1> QED
  BY <1>3, <1>5, <1>6, <1>7
  DEF Moved, Inv, TypeOK, Wired, PeerKnown, nbvars, envvars, spawners, timers

\* fsm_tcp's cleanup.
LEMMA FinishInv == ASSUME Inv, NEW c \in Conns, Finish(c) PROVE Inv'
<1>1. Moved
  BY Jump, FreshTask DEF Finish, NeedsRid
<1>2. /\ link' \in [Conns -> {"down", "up", "eof", "reset"}]
      /\ inbox' \in [Conns -> Seq(Msgs)] /\ queue' \in [Conns -> Seq(Events)]
  BY HangUpType DEF Finish, Inv
<1> QED
  BY <1>1, <1>2
  DEF Moved, Inv, TypeOK, Wired, PeerKnown, Finish,
      States, nbvars, envvars, spawners, timers, fsmvars, logvars

-----------------------------------------------------------------------------
(* Timers, the RIB manager's notices and the peer                          *)

\* timer_hold clones n.tx.
LEMMA HoldReadInv == ASSUME Inv, NEW c \in Conns, HoldRead(c) PROVE Inv'
<1>1. Moved
  BY Stay DEF HoldRead, nbvars, fsmvars
<1>2. /\ hold' \in [Conns -> {"off", "start", "sleep", "send", "done"}]
      /\ holdtx' \in [Conns -> Conns \cup {None}]
  <2>1. CASE tx = None
    BY <2>1 DEF HoldRead, Inv, TypeOK
  <2>2. CASE tx # None
    <3>1. /\ hold \in [Conns -> {"off", "start", "sleep", "send", "done"}]
          /\ holdtx \in [Conns -> Conns \cup {None}] /\ tx \in Conns
      BY <2>2 DEF Inv, TypeOK
    <3>2. hold' = [hold EXCEPT ![c] = "sleep"] /\ holdtx' = [holdtx EXCEPT ![c] = tx]
      BY <2>2 DEF HoldRead
    <3> QED
      BY <3>1, <3>2
  <2> QED
    BY <2>1, <2>2
<1>3. Wired'
  BY DEF HoldRead, Inv, TypeOK, Wired, spawners
<1> QED
  BY <1>1, <1>2, <1>3
  DEF Moved, Inv, TypeOK, PeerKnown, HoldRead,
      nbvars, envvars, spawners, timers, fsmvars, logvars

\* timer_hold has slept.
LEMMA HoldExpiresInv == ASSUME Inv, NEW c \in Conns, HoldExpires(c) PROVE Inv'
<1>1. Moved
  BY Stay DEF HoldExpires, nbvars, fsmvars
<1>2. ticks' \in Nat
  BY TickType DEF HoldExpires, Inv
<1> QED
  BY <1>1, <1>2
  DEF Moved, Inv, TypeOK, Wired, PeerKnown, HoldExpires,
      nbvars, envvars, spawners, timers, fsmvars, logvars

\* timer_hold sends, or finds the channel closed.
LEMMA HoldSendInv == ASSUME Inv, NEW c \in Conns, HoldSend(c) PROVE Inv'
<1>1. Moved
  BY Stay DEF HoldSend, nbvars
<1>2. queue' \in [Conns -> Seq(Events)]
  BY EnqueueType DEF HoldSend, Events, Inv, TypeOK, Wired
<1>3. hold' \in [Conns -> {"off", "start", "sleep", "send", "done"}] /\ Wired'
  BY DEF HoldSend, Inv, TypeOK, Wired, spawners
<1> QED
  BY <1>1, <1>2, <1>3
  DEF Moved, Inv, TypeOK, PeerKnown, HoldSend,
      nbvars, envvars, spawners, timers, fsmvars, logvars

\* timer_hold is told to stop.
LEMMA HoldStopInv == ASSUME Inv, NEW c \in Conns, HoldStop(c) PROVE Inv'
<1>1. Moved
  BY Stay DEF HoldStop, nbvars, envvars, spawners, timers, fsmvars, logvars
<1> QED
  BY <1>1
  DEF Moved, Inv, TypeOK, Wired, PeerKnown, HoldStop,
      nbvars, envvars, spawners, timers, fsmvars, logvars

\* timer_keepalive sends, or ends.
LEMMA KeepaliveTickInv == ASSUME Inv, NEW c \in Conns, KeepaliveTick(c) PROVE Inv'
<1>1. Moved
  BY Stay DEF KeepaliveTick, nbvars
<1>2. queue' \in [Conns -> Seq(Events)]
  BY EnqueueType DEF KeepaliveTick, Events, Inv, TypeOK, Wired
<1>3. ticks' \in Nat
  BY TickType DEF KeepaliveTick, Inv, TypeOK
<1> QED
  BY <1>1, <1>2, <1>3
  DEF Moved, Inv, TypeOK, Wired, PeerKnown, KeepaliveTick,
      nbvars, envvars, spawners, timers, fsmvars, logvars

\* The RIB manager tells the neighbour about its routes.
LEMMA RibMgrNotifyInv == ASSUME Inv, RibMgrNotify PROVE Inv'
<1>1. Moved
  BY Stay DEF RibMgrNotify, nbvars
<1>2. queue' \in [Conns -> Seq(Events)]
  BY EnqueueType DEF RibMgrNotify, Events, Inv, TypeOK, Wired
<1>3. ticks' \in Nat
  BY TickType DEF RibMgrNotify, Inv, TypeOK
<1> QED
  BY <1>1, <1>2, <1>3
  DEF Moved, Inv, TypeOK, Wired, PeerKnown, RibMgrNotify,
      nbvars, envvars, spawners, timers, fsmvars, logvars

\* The peer sends.
LEMMA PeerSendInv == ASSUME Inv, NEW c \in Conns, PeerSend(c) PROVE Inv'
<1>1. Moved
  BY Stay DEF PeerSend, nbvars, envvars, spawners, timers, fsmvars, logvars
<1> QED
  BY <1>1
  DEF Moved, Inv, TypeOK, Wired, PeerKnown, PeerSend,
      nbvars, envvars, spawners, timers, fsmvars, logvars

\* The peer closes.
LEMMA PeerCloseInv == ASSUME Inv, NEW c \in Conns, PeerClose(c) PROVE Inv'
<1>1. Moved
  BY Stay DEF PeerClose, nbvars, envvars, spawners, timers, fsmvars, logvars
<1> QED
  BY <1>1
  DEF Moved, Inv, TypeOK, Wired, PeerKnown, PeerClose,
      nbvars, envvars, spawners, timers, fsmvars, logvars

\* The connection breaks.
LEMMA PeerResetInv == ASSUME Inv, NEW c \in Conns, PeerReset(c) PROVE Inv'
<1>1. Moved
  BY Stay DEF PeerReset, nbvars, envvars, spawners, timers, fsmvars, logvars
<1> QED
  BY <1>1
  DEF Moved, Inv, TypeOK, Wired, PeerKnown, PeerReset,
      nbvars, envvars, spawners, timers, fsmvars, logvars

-----------------------------------------------------------------------------
(* The theorems                                                            *)

\* Inv is inductive: every action of every task, and a stuttering step.
LEMMA NextInv == Inv /\ [Next]_vars => Inv'
<1> SUFFICES ASSUME Inv, [Next]_vars PROVE Inv'
  OBVIOUS
<1>1. CASE ConnectStart
  BY <1>1, ConnectStartInv
<1>2. CASE ConnectFails
  BY <1>2, ConnectFailsInv
<1>3. CASE ConnectSucceeds
  BY <1>3, ConnectSucceedsInv
<1>4. CASE AcceptCheck
  BY <1>4, AcceptCheckInv
<1>5. CASE AcceptAdopt
  BY <1>5, AcceptAdoptInv
<1>6. CASE RibMgrNotify
  BY <1>6, RibMgrNotifyInv
<1>7. ASSUME NEW c \in Inbound, AcceptMatched(c) \/ AcceptContended(c) PROVE Inv'
  BY <1>7, AcceptMatchedInv, AcceptContendedInv
<1>8. ASSUME NEW c \in Conns, FsmTask(c) PROVE Inv'
  <2>1. CASE FsmStart(c)
    BY <2>1, FsmStartInv
  <2>2. CASE FirstEvent(c)
    BY <2>2, FirstEventInv
  <2>3. CASE SendOpen(c)
    BY <2>3, SendOpenInv
  <2>4. CASE HandleEvent(c)
    BY <2>4, HandleEventInv
  <2>5. CASE ReadMessage(c)
    BY <2>5, ReadMessageInv
  <2>6. CASE ReadError(c)
    BY <2>6, ReadErrorInv
  <2>7. CASE Push(c)
    BY <2>7, PushInv
  <2>8. CASE TakeTx(c)
    BY <2>8, TakeTxInv
  <2>9. CASE collision_detection(c)
    BY <2>9, collision_detectionInv
  <2>10. CASE ValidateOpen(c)
    BY <2>10, ValidateOpenInv
  <2>11. CASE SpawnKeepalive(c)
    BY <2>11, SpawnKeepaliveInv
  <2>12. CASE Establish(c)
    BY <2>12, EstablishInv
  <2>13. CASE ReadPeer(c)
    BY <2>13, ReadPeerInv
  <2>14. CASE WithdrawAll(c)
    BY <2>14, WithdrawAllInv
  <2>15. CASE GoIdle(c)
    BY <2>15, GoIdleInv
  <2>16. CASE RequestClose(c)
    BY <2>16, RequestCloseInv
  <2>17. CASE StampUpdate(c)
    BY <2>17, StampUpdateInv
  <2>18. CASE adjrib_withdraw(c)
    BY <2>18, adjrib_withdrawInv
  <2>19. CASE adjrib_add(c)
    BY <2>19, adjrib_addInv
  <2>20. CASE SendToRib(c)
    BY <2>20, SendToRibInv
  <2>21. CASE Finish(c)
    BY <2>21, FinishInv
  <2> QED
    BY <1>8, <2>1, <2>2, <2>3, <2>4, <2>5, <2>6, <2>7, <2>8, <2>9,
       <2>10, <2>11, <2>12, <2>13, <2>14, <2>15, <2>16, <2>17, <2>18, <2>19, <2>20, <2>21
    DEF FsmTask
<1>9. ASSUME NEW c \in Conns, HoldTimer(c) PROVE Inv'
  BY <1>9, HoldReadInv, HoldExpiresInv, HoldSendInv, HoldStopInv DEF HoldTimer
<1>10. ASSUME NEW c \in Conns, KeepaliveTick(c) PROVE Inv'
  BY <1>10, KeepaliveTickInv
<1>11. ASSUME NEW c \in Conns, Peer(c) PROVE Inv'
  BY <1>11, PeerSendInv, PeerCloseInv, PeerResetInv DEF Peer
<1>12. CASE UNCHANGED vars
  <2>1. Moved
    BY <1>12, Stay DEF vars, nbvars, fsmvars
  <2> QED
    BY <1>12, <2>1 DEF Moved, Inv, TypeOK, Wired, PeerKnown, vars,
       nbvars, envvars, spawners, timers, fsmvars, logvars
<1> QED
  BY <1>1, <1>2, <1>3, <1>4, <1>5, <1>6, <1>7, <1>8, <1>9, <1>10, <1>11, <1>12
  DEF Next, ConnectTask, Listener

\* Every reachable state of a neighbour satisfies Inv.
THEOREM Invariant == Spec => []Inv
  BY InitInv, NextInv, PTL DEF Spec

\* Type correctness: each field of BGPNeighbor, each task's locals, each channel
\* and each timer holds what its Rust type (and the None cases the code handles)
\* allows, whatever the peer sends and however the tasks interleave.
THEOREM TypeCorrect == Spec => []TypeOK
<1>1. Inv => TypeOK
  BY DEF Inv
<1> QED
  BY <1>1, Invariant, PTL

\* The expect("BUG: Remote RID should be set ...") of handle_update and of
\* RouteAttributes::new cannot fail, with any number of connections.
THEOREM RidAlwaysKnown == Spec => []RidKnown
<1>1. Inv => RidKnown
  BY DEF Inv, PeerKnown, TasksOK, TaskOK, RidKnown
<1> QED
  BY <1>1, Invariant, PTL

\* The panic itself: no task of the daemon ever ends in it.
THEOREM NoRidPanic == Spec => [](bug # "rid")
<1>1. Inv => bug # "rid"
  BY DEF Inv, PeerKnown
<1> QED
  BY <1>1, Invariant, PTL

\* Every router id in the record, in a task's hands or on a route of a RIB
\* manager was carried by an OPEN that validate_open accepted.
THEOREM PeerIsValidated == Spec => []OnlyValidatedPeer
<1>1. Inv => OnlyValidatedPeer
  BY DEF Inv, PeerKnown, TasksOK, TaskOK, OnlyValidatedPeer
<1> QED
  BY <1>1, Invariant, PTL

-----------------------------------------------------------------------------
(***************************************************************************)
(* What holds of a connection as long as it is the only one at work on the *)
(* record, with the listener and the connect task running beside it: it    *)
(* sends one OPEN; the neighbour only makes the transitions of BGPFsm; and *)
(* between two messages its Adj-RIB-In is what the RIB managers hold of    *)
(* it.  TLC finds each of the three violated where connections meet.       *)
(***************************************************************************)

Adopting(c) == listening = "adopt" /\ accepted = c
Present(c) == Alive(c) \/ Adopting(c)

\* Two connections at work have met, a connection that did not begin is not in anybody's
\* hands, and only the one the listener or the connect task is about to bring begins.
Alone ==
    /\ \A c \in Conns : \A d \in Conns \ {c} : Present(c) /\ Present(d) => c \in met
    /\ listening \in {"check", "adopt"} => pc[accepted] = "none"
    /\ connecting # "done" => pc[Out] = "none"
    /\ \A c \in Conns : pc[c] \in {"none", "spawned"} =>
         tx # c /\ \A d \in Conns : loc[d].chan # c

\* The state connect() or the listener wrote when it brought connection c.
Begun(c) == IF c = Out THEN "Connect" ELSE "Active"

\* The places of a task before it sent its OPEN, while it handles the peer's, and
\* while it handles a message of the established session.
Opening == {"spawned", "first", "sendopen"}
Receiving == {"open", "collide", "validate"}
InSession == {"withdraw", "purge", "idle", "update", "adjwd", "adjadd", "ribsend"}

Quieter == Events \ {"BGPOpen"}

\* Nothing asks a task for a second OPEN: BGPOpen is for an OPEN received in Active,
\* and the state is not Active again once the task is in its loop.
NoSecondOpen(c) ==
    /\ opens_sent[c] <= 1
    /\ pc[c] \in {"none"} \cup Opening => opens_sent[c] = 0
    /\ queue[c] \in Seq(Quieter)
    /\ loc[c].ev # "BGPOpen"
    /\ pc[c] \in Opening => state \in {"Idle", Begun(c)}
    /\ pc[c] = "first" => loc[c].seen = Begun(c)
    /\ Alive(c) /\ pc[c] \notin Opening => state # "Active" /\ loc[c].seen # "Active"

\* The state that a message was dispatched on is still the state when its handler
\* gets there.
StateKept(c) ==
    /\ pc[c] \in Opening => state = Begun(c)
    /\ pc[c] \in Receiving => state = "OpenSent"
    /\ pc[c] \in {"spawnka", "establish"} => state = "OpenConfirm"
    /\ pc[c] \in InSession => state = "Established"

Stage(c) == (c \notin met => NoSecondOpen(c)) /\ (met = {} => StateKept(c))

Stages == Alone /\ \A c \in Conns : Stage(c)

Shared == Families \cap SpeakerFamilies

\* Routes as the RIB managers have them.
Stamped(S) == {remote_rid} \X S

\* What the tables of the family of UPDATE u have in common while its handler is at p.
Pending(p, u, f) ==
    /\ ribsent[f] \subseteq Stamped(Nlris)
    /\ \A n \in Nlris \ (UpdateAdded(u) \cup UpdateWithdrawn(u)) :
         <<remote_rid, n>> \in ribsent[f] <=> n \in adjrib[f] \ lost[f]
    /\ adjrib[f] \cap (UpdateWithdrawn(u) \ UpdateAdded(u)) = {}
    /\ p = "ribsend" => UpdateAdded(u) \subseteq adjrib[f]

\* Nothing is learnt before the peer introduced itself, or told without the channels.
NothingYet ==
    /\ remote_rid # None => remote_rid \in names
    /\ remote_rid = None => /\ \A f \in AllFamilies : adjrib[f] = {}
                            /\ \A f \in SpeakerFamilies : ribsent[f] = {}
    /\ ~ribtx => \A f \in SpeakerFamilies : ribsent[f] = {}

\* A handler acts for the peer the record names; between two handlers the tables agree,
\* within one they differ by the rest of the message at hand.
Agreeing(c) ==
    /\ pc[c] \in HasRid => loc[c].rid = remote_rid
    /\ pc[c] = "idle" => \A f \in Shared : ribsent[f] = {}
    /\ pc[c] \in {"adjadd", "ribsend"} =>
         LET u == loc[c].msg.body
         IN \A f \in Shared : IF f = UpdateAf(u) THEN Pending(pc[c], u, f)
                              ELSE ribsent[f] = Stamped(adjrib[f] \ lost[f])

Resting == \A c \in Conns : pc[c] \notin Handling

Settled == \A f \in Shared : ribsent[f] = Stamped(adjrib[f] \ lost[f])

Mirrored ==
    /\ NothingYet
    /\ OneAtATime /\ SamePeer => (\A c \in Conns : Agreeing(c)) /\ (Resting => Settled)

-----------------------------------------------------------------------------
(* One step of one task                                                    *)

\* What a step of the task of c leaves alone.
Frame(c) ==
    /\ Alive(c) /\ UNCHANGED <<connecting, listening, accepted, met>>
    /\ pc'[c] \notin {"none", "spawned"}
    /\ tx' \in {tx, c, None} /\ loc'[c].chan \in {loc[c].chan, tx, None}
    /\ \A d \in Conns \ {c} :
         /\ pc'[d] = pc[d] /\ loc'[d] = loc[d] /\ opens_sent'[d] = opens_sent[d]
         /\ pc[d] \in {"none", "dead"} => queue'[d] = queue[d]

\* GotoWith, seen from every task.
LEMMA Moves ==
    ASSUME Inv, NEW c \in Conns, NEW p, NEW l, GotoWith(c, p, l)
    PROVE  /\ pc'[c] = p /\ loc'[c] = l
           /\ \A d \in Conns \ {c} : pc'[d] = pc[d] /\ loc'[d] = loc[d]
  BY DEF Inv, TypeOK, GotoWith

\* Goto leaves the locals of the task alone too.
LEMMA MovesOnly ==
    ASSUME Inv, NEW c \in Conns, NEW p, Goto(c, p)
    PROVE  /\ pc'[c] = p /\ loc'[c] = loc[c]
           /\ \A d \in Conns \ {c} : pc'[d] = pc[d] /\ loc'[d] = loc[d]
  BY DEF Inv, TypeOK, Goto

\* No event reaches a connection that did not begin, or has ended.
LEMMA Unreached ==
    ASSUME Inv, Alone, NEW t \in Conns, NEW q, ~Closed(t),
           queue' = [queue EXCEPT ![t] = q],
           \/ t = tx \/ \E c \in Conns : t = loc[c].chan
    PROVE  \A d \in Conns : pc[d] \in {"none", "dead"} => queue'[d] = queue[d]
  BY DEF Alone, Closed, Inv, TypeOK

\* What a task that ends takes with it is its own.
LEMMA HangUpOwn ==
    ASSUME Inv, NEW c \in Conns, HangUp(c)
    PROVE  queue'[c] = <<>> /\ \A d \in Conns \ {c} : queue'[d] = queue[d]
  BY DEF HangUp, Inv, TypeOK

\* An event other than BGPOpen leaves the channels without one.
LEMMA EnqueueQuieter ==
    ASSUME Inv, NEW t \in Conns, NEW e \in Quieter, Enqueue(t, e),
           NEW c \in Conns, queue[c] \in Seq(Quieter)
    PROVE  queue'[c] \in Seq(Quieter)
<1>1. queue'[c] = IF c = t THEN Append(queue[c], e) ELSE queue[c]
  BY DEF Enqueue, Inv, TypeOK
<1> QED
  BY <1>1

\* Nor do the RibUpdates of send_locrib.
LEMMA AnnounceQuieter ==
    ASSUME Inv, NEW S \in SUBSET AllFamilies, Announce(S),
           NEW c \in Conns, queue[c] \in Seq(Quieter)
    PROVE  queue'[c] \in Seq(Quieter)
<1>1. CASE S = {}
  BY <1>1 DEF Announce
<1>2. CASE S # {}
  <2> DEFINE n == Cardinality(S)
             more == [i \in 1..n |-> "RibUpdate"]
  <2>1. n \in Nat
    BY Assumptions, FS_Subset, FS_CardinalityType
  <2>2. more \in Seq(Quieter)
    BY <2>1 DEF Quieter, Events
  <2>3. tx \in Conns /\ queue' = [queue EXCEPT ![tx] = queue[tx] \o more]
    BY <1>2 DEF Announce, Inv, TypeOK
  <2> HIDE DEF more
  <2>4. queue'[c] = IF c = tx THEN queue[c] \o more ELSE queue[c]
    BY <2>3 DEF Inv, TypeOK
  <2> QED
    BY <2>2, <2>4
<1> QED
  BY <1>1, <1>2

\* A step of one task keeps Alone, and says nothing of the other connections: a
\* connection that met none is not at work beside it.
LEMMA FrameAlone ==
    ASSUME Inv, Stages, NEW c \in Conns, Frame(c)
    PROVE  Alone' /\ \A d \in Conns \ {c} : Stage(d)'
<1>1. /\ pc \in [Conns -> PCs] /\ loc \in [Conns -> Locals] /\ tx \in Conns \cup {None}
      /\ None \notin Conns
      /\ listening \in {"check", "adopt"} => accepted \in Conns
      /\ Out \in Conns
  BY Assumptions DEF Inv, TypeOK, Wired, Inbound
<1>2. \A d \in Conns : Present(d)' => Present(d)
  BY DEF Frame, Present, Alive, Adopting
<1>3. Alone'
  <2>1. \A a \in Conns : \A b \in Conns \ {a} : Present(a)' /\ Present(b)' => a \in met'
    BY <1>2 DEF Stages, Alone, Frame
  <2>2. listening' \in {"check", "adopt"} => pc'[accepted'] = "none"
    BY <1>1 DEF Stages, Alone, Frame, Alive
  <2>3. connecting' # "done" => pc'[Out] = "none"
    BY <1>1 DEF Stages, Alone, Frame, Alive
  <2>4. \A a \in Conns : pc'[a] \in {"none", "spawned"} =>
          pc[a] \in {"none", "spawned"} /\ a # c
    BY DEF Frame
  <2>5. \A a \in Conns : pc'[a] \in {"none", "spawned"} =>
          tx' # a /\ \A d \in Conns : loc'[d].chan # a
    BY <1>1, <2>4 DEF Stages, Alone, Frame
  <2> QED
    BY <2>1, <2>2, <2>3, <2>5 DEF Alone
<1>4. ASSUME NEW d \in Conns \ {c} PROVE Stage(d)'
  <2>1. Alive(d) => met # {} /\ d \in met
    BY DEF Stages, Alone, Present, Frame
  <2>2. CASE Alive(d)
    BY <2>1, <2>2 DEF Stage, Frame
  <2>3. CASE ~Alive(d)
    <3>1. pc[d] \in {"none", "dead"} /\ Stage(d)
      BY <2>3 DEF Alive, Stages
    <3>2. UNCHANGED <<met, pc[d], loc[d], opens_sent[d], queue[d]>>
      BY <3>1 DEF Frame
    <3> QED
      BY <3>1, <3>2 DEF Stage, NoSecondOpen, StateKept, Opening, Receiving, InSession, Alive
  <2> QED
    BY <2>2, <2>3
<1> QED
  BY <1>3, <1>4

-----------------------------------------------------------------------------
(* The handshake                                                           *)

\* Fresh locals name no state, event or channel.
LEMMA Blank ==
    /\ NoLocals.seen = None /\ NoLocals.ev = None /\ NoLocals.chan = None
    /\ None # "Active" /\ None # "BGPOpen" /\ None # "Connect"
    /\ None \notin Conns /\ Out \in Conns
  BY Assumptions DEF NoLocals, States, Events

\* A step within the loop, or out of it, that neither touches the state nor writes or
\* asks for an OPEN.
LEMMA StageLeaves ==
    ASSUME Inv, Stages, NEW c \in Conns, Frame(c), pc[c] \notin Opening,
           state' = state, opens_sent'[c] = opens_sent[c],
           queue[c] \in Seq(Quieter) => queue'[c] \in Seq(Quieter),
           loc'[c].ev \in {loc[c].ev, None, "NotifMsg"},
           loc'[c].seen \in {loc[c].seen, None},
           pc'[c] \in {"loop", "join", "dead", "fails", "notify", "push"}
    PROVE  Stage(c)'
<1>1. pc[c] # "none" /\ Alive(c) /\ met' = met
  BY DEF Frame, Alive
<1>2. Stage(c) /\ None # "Active" /\ None # "BGPOpen"
  BY Blank DEF Stages
<1>3. ASSUME c \notin met PROVE NoSecondOpen(c)'
  BY <1>1, <1>2, <1>3 DEF Stage, NoSecondOpen, Opening
<1> QED
  BY <1>1, <1>3 DEF Stage, StateKept, Opening, Receiving, InSession

\* fsm_tcp up to its loop: its channel, and the state it finds.
LEMMA FsmStartStage ==
    ASSUME Inv, Stages, NEW c \in Conns, FsmStart(c) PROVE Frame(c) /\ Stage(c)'
<1> DEFINE l == [NoLocals EXCEPT !.seen = state]
<1>1. /\ pc[c] = "spawned" /\ tx' = c /\ queue' = queue /\ state' = state
      /\ UNCHANGED <<connecting, listening, accepted, met, opens_sent>>
      /\ \/ state \in {"Active", "Connect"} /\ GotoWith(c, "first", l)
         \/ state \notin {"Active", "Connect"} /\ GotoWith(c, "loop", NoLocals)
  BY DEF FsmStart, EnterLoop, BackToLoop, spawners, logvars
<1>2. l.seen = state /\ l.ev = None /\ l.chan = None
  BY DEF NoLocals
<1> HIDE DEF l
<1>3. /\ pc'[c] \in {"first", "loop"}
      /\ \/ pc'[c] = "first" /\ loc'[c] = l /\ state \in {"Active", "Connect"}
         \/ pc'[c] = "loop" /\ loc'[c] = NoLocals /\ state \notin {"Active", "Connect"}
      /\ \A d \in Conns \ {c} : pc'[d] = pc[d] /\ loc'[d] = loc[d]
  BY <1>1, Moves
<1>4. Frame(c)
  BY <1>1, <1>2, <1>3, Blank DEF Frame, Alive
<1>5. Stage(c) /\ pc[c] \in Opening
  BY <1>1 DEF Stages, Opening
<1>6. ASSUME c \notin met PROVE NoSecondOpen(c)'
  BY <1>1, <1>2, <1>3, <1>5, <1>6, Blank DEF Stage, NoSecondOpen, Opening, Begun
<1>7. ASSUME met = {} PROVE StateKept(c)'
  BY <1>1, <1>3, <1>5, <1>7
  DEF Stage, StateKept, Opening, Receiving, InSession, Begun
<1> QED
  BY <1>1, <1>4, <1>6, <1>7 DEF Stage

\* The event chosen from that state meets the state of now.
LEMMA FirstEventStage ==
    ASSUME Inv, Stages, NEW c \in Conns, FirstEvent(c) PROVE Frame(c) /\ Stage(c)'
<1>1. /\ pc[c] = "first" /\ UNCHANGED <<tx, queue, state>>
      /\ UNCHANGED <<connecting, listening, accepted, met, opens_sent>>
      /\ \/ state = loc[c].seen /\ Goto(c, "sendopen")
         \/ state # loc[c].seen /\ GotoWith(c, "loop", NoLocals)
  BY DEF FirstEvent, EnterLoop, BackToLoop, nbvars, spawners, logvars
<1>2. /\ \/ pc'[c] = "sendopen" /\ loc'[c] = loc[c]
         \/ pc'[c] = "loop" /\ loc'[c] = NoLocals /\ state # loc[c].seen
      /\ \A d \in Conns \ {c} : pc'[d] = pc[d] /\ loc'[d] = loc[d]
  BY <1>1, Moves, MovesOnly
<1>3. Frame(c)
  BY <1>1, <1>2, Blank DEF Frame, Alive
<1>4. Stage(c) /\ pc[c] \in Opening
  BY <1>1 DEF Stages, Opening
<1>5. ASSUME c \notin met PROVE NoSecondOpen(c)'
  BY <1>1, <1>2, <1>4, <1>5, Blank DEF Stage, NoSecondOpen, Opening, Begun
<1>6. ASSUME met = {} PROVE StateKept(c)'
  BY <1>1, <1>2, <1>4, <1>6
  DEF Stage, StateKept, Opening, Receiving, InSession, Begun
<1> QED
  BY <1>1, <1>3, <1>5, <1>6 DEF Stage

\* The one OPEN: none was written before.
LEMMA SendOpenStage ==
    ASSUME Inv, Stages, NEW c \in Conns, SendOpen(c) PROVE Frame(c) /\ Stage(c)'
<1>1. /\ pc[c] = "sendopen" /\ tx' = tx
      /\ UNCHANGED <<connecting, listening, accepted, met>>
      /\ \/ /\ opens_sent' = [opens_sent EXCEPT ![c] = @ + 1] /\ state' = "OpenSent"
            /\ GotoWith(c, "loop", NoLocals) /\ queue' = queue
         \/ /\ HangUp(c) /\ GotoWith(c, "dead", NoLocals) /\ UNCHANGED <<state, opens_sent>>
  BY DEF SendOpen, EnterLoop, BackToLoop, spawners
<1>2. /\ \/ /\ pc'[c] = "loop" /\ state' = "OpenSent" /\ queue'[c] = queue[c]
            /\ opens_sent'[c] = opens_sent[c] + 1
         \/ /\ pc'[c] = "dead" /\ queue'[c] = <<>> /\ UNCHANGED <<state, opens_sent>>
      /\ loc'[c] = NoLocals
      /\ \A d \in Conns \ {c} : /\ pc'[d] = pc[d] /\ loc'[d] = loc[d]
                                /\ opens_sent'[d] = opens_sent[d] /\ queue'[d] = queue[d]
  BY <1>1, Moves, HangUpOwn DEF Inv, TypeOK
<1>3. Frame(c)
  BY <1>1, <1>2, Blank DEF Frame, Alive
<1>4. Stage(c) /\ pc[c] \in Opening /\ opens_sent[c] \in Nat
  BY <1>1 DEF Stages, Opening, Inv, TypeOK
<1>5. ASSUME c \notin met PROVE NoSecondOpen(c)'
  <2>1. opens_sent[c] = 0 /\ queue[c] \in Seq(Quieter) /\ <<>> \in Seq(Quieter)
    BY <1>4, <1>5 DEF Stage, NoSecondOpen
  <2>2. /\ queue'[c] \in Seq(Quieter) /\ opens_sent'[c] \in {0, 1}
        /\ pc'[c] \in {"loop", "dead"} /\ (pc'[c] = "loop" => state' # "Active")
    <3>1. CASE /\ pc'[c] = "loop" /\ state' = "OpenSent" /\ queue'[c] = queue[c]
               /\ opens_sent'[c] = opens_sent[c] + 1
      BY <2>1, <3>1
    <3>2. CASE pc'[c] = "dead" /\ queue'[c] = <<>> /\ UNCHANGED <<state, opens_sent>>
      BY <2>1, <3>2
    <3> QED
      BY <1>2, <3>1, <3>2
  <2>3. loc'[c].ev # "BGPOpen" /\ loc'[c].seen # "Active"
    BY <1>2, Blank
  <2> QED
    BY <2>2, <2>3 DEF NoSecondOpen, Opening, Alive
<1>6. ASSUME met = {} PROVE StateKept(c)'
  BY <1>2 DEF StateKept, Opening, Receiving, InSession
<1> QED
  BY <1>1, <1>3, <1>5, <1>6 DEF Stage

\* fsm_loop takes an event, which is no BGPOpen if the connection met none.
LEMMA HandleEventStage ==
    ASSUME Inv, Stages, NEW c \in Conns, HandleEvent(c) PROVE Frame(c) /\ Stage(c)'
<1> DEFINE e == Head(queue[c])
<1>1. /\ pc[c] = "loop" /\ UNCHANGED <<tx, state>> /\ queue[c] # <<>>
      /\ UNCHANGED <<connecting, listening, accepted, met>>
      /\ queue' = [queue EXCEPT ![c] = Tail(@)]
      /\ \/ Goto(c, "join") \/ UNCHANGED <<pc, loc>>
      /\ \/ opens_sent' = opens_sent
         \/ opens_sent' = [opens_sent EXCEPT ![c] =
                             IF Reply(state, e) = "open" THEN @ + 1 ELSE @]
  BY DEF HandleEvent, nbvars, spawners
<1> HIDE DEF e
<1>2. /\ pc'[c] \in {"loop", "join"} /\ loc'[c] = loc[c]
      /\ queue'[c] = Tail(queue[c])
      /\ \A d \in Conns \ {c} : /\ pc'[d] = pc[d] /\ loc'[d] = loc[d]
                                /\ opens_sent'[d] = opens_sent[d] /\ queue'[d] = queue[d]
  BY <1>1, MovesOnly DEF Inv, TypeOK
<1>3. Frame(c)
  BY <1>1, <1>2 DEF Frame, Alive
<1>4. ASSUME queue[c] \in Seq(Quieter)
      PROVE  opens_sent'[c] = opens_sent[c] /\ queue'[c] \in Seq(Quieter)
  <2>1. e \in Quieter /\ Tail(queue[c]) \in Seq(Quieter)
    BY <1>1, <1>4 DEF e
  <2>2. Reply(state, e) # "open"
    BY <2>1 DEF Reply, Quieter
  <2> QED
    BY <1>1, <1>2, <2>1, <2>2 DEF Inv, TypeOK
<1>5. c \notin met => queue[c] \in Seq(Quieter)
  BY DEF Stages, Stage, NoSecondOpen
<1>6. CASE queue[c] \in Seq(Quieter)
  BY <1>1, <1>2, <1>3, <1>4, <1>6, StageLeaves DEF Opening
<1>7. CASE queue[c] \notin Seq(Quieter)
  <2>1. c \in met' /\ met' # {}
    BY <1>1, <1>5, <1>7
  <2> QED
    BY <1>3, <2>1 DEF Stage
<1> QED
  BY <1>3, <1>6, <1>7

\* fsm_loop takes a message: each handler is reached in one state only.
LEMMA ReadMessageStage ==
    ASSUME Inv, Stages, NEW c \in Conns, ReadMessage(c) PROVE Frame(c) /\ Stage(c)'
<1> DEFINE m == Head(inbox[c])
           next == Dispatch(state, m.type)
           l == [NoLocals EXCEPT !.msg = m, !.seen = state]
<1>1. /\ pc[c] = "loop" /\ UNCHANGED <<tx, state, queue, opens_sent>>
      /\ UNCHANGED <<connecting, listening, accepted, met>>
      /\ \/ next = "loop" /\ UNCHANGED <<pc, loc>>
         \/ next # "loop" /\ GotoWith(c, next, l)
  BY DEF ReadMessage, nbvars, spawners, logvars
<1>2. l.seen = state /\ l.ev = None /\ l.chan = None
  BY DEF NoLocals
<1>3. /\ next \in {"open", "notify", "establish", "withdraw", "update", "loop"}
      /\ next = "open" => state \in {"Active", "OpenSent"}
      /\ next = "establish" => state = "OpenConfirm"
      /\ next \in {"withdraw", "update"} => state = "Established"
  BY DEF Dispatch
<1> HIDE DEF m, next, l
<1>4. /\ pc'[c] = next /\ loc'[c] \in {l, loc[c]}
      /\ \A d \in Conns \ {c} : pc'[d] = pc[d] /\ loc'[d] = loc[d]
  BY <1>1, Moves
<1>5. Frame(c)
  BY <1>1, <1>2, <1>3, <1>4, Blank DEF Frame, Alive
<1>6. Stage(c) /\ Alive(c)
  BY <1>1 DEF Stages, Alive
<1>7. ASSUME c \notin met PROVE NoSecondOpen(c)' /\ state # "Active"
  BY <1>1, <1>2, <1>3, <1>4, <1>6, <1>7, Blank DEF Stage, NoSecondOpen, Opening
<1>8. ASSUME met = {} PROVE StateKept(c)'
  BY <1>1, <1>3, <1>4, <1>7, <1>8 DEF StateKept, Opening, Receiving, InSession
<1> QED
  BY <1>1, <1>5, <1>7, <1>8 DEF Stage

\* fsm_loop meets a socket error.
LEMMA ReadErrorStage ==
    ASSUME Inv, Stages, NEW c \in Conns, ReadError(c) PROVE Frame(c) /\ Stage(c)'
<1>1. /\ pc[c] = "loop" /\ UNCHANGED <<tx, state, queue, opens_sent>>
      /\ UNCHANGED <<connecting, listening, accepted, met>> /\ Goto(c, "join")
  BY DEF ReadError, nbvars, spawners, logvars
<1>2. /\ pc'[c] = "join" /\ loc'[c] = loc[c]
      /\ \A d \in Conns \ {c} : pc'[d] = pc[d] /\ loc'[d] = loc[d]
  BY <1>1, MovesOnly
<1>3. Frame(c)
  BY <1>1, <1>2 DEF Frame, Alive
<1> QED
  BY <1>1, <1>2, <1>3, StageLeaves DEF Opening

\* A handler sends its event.
LEMMA PushStage ==
    ASSUME Inv, Stages, NEW c \in Conns, Push(c) PROVE Frame(c) /\ Stage(c)'
<1> DEFINE t == loc[c].chan
           e == loc[c].ev
<1>1. /\ pc[c] = "push" /\ UNCHANGED <<tx, state, opens_sent>>
      /\ UNCHANGED <<connecting, listening, accepted, met>>
      /\ \/ ~Closed(t) /\ Enqueue(t, e) /\ GotoWith(c, "loop", NoLocals)
         \/ queue' = queue /\ GotoWith(c, "join", NoLocals)
      /\ t \in Conns /\ e \in Events
  BY DEF Push, Room, BackToLoop, nbvars, spawners, logvars, Inv, TasksOK, TaskOK
<1>2. /\ pc'[c] \in {"loop", "join"} /\ loc'[c] = NoLocals
      /\ \A d \in Conns \ {c} : pc'[d] = pc[d] /\ loc'[d] = loc[d]
  BY <1>1, Moves
<1>3. \A d \in Conns : pc[d] \in {"none", "dead"} => queue'[d] = queue[d]
  <2>1. CASE queue' = queue
    BY <2>1
  <2>2. CASE ~Closed(t) /\ queue' = [queue EXCEPT ![t] = Append(queue[t], e)]
    BY <1>1, <2>2, Unreached DEF Stages
  <2> QED
    BY <1>1, <2>1, <2>2 DEF Enqueue
<1>4. Frame(c)
  BY <1>1, <1>2, <1>3, Blank DEF Frame, Alive
<1>5. ASSUME c \notin met, queue[c] \in Seq(Quieter) PROVE queue'[c] \in Seq(Quieter)
  <2>1. e \in Quieter
    BY <1>1, <1>5 DEF Stages, Stage, NoSecondOpen, Quieter
  <2> QED
    BY <1>1, <1>5, <2>1, EnqueueQuieter
<1>6. CASE c \notin met
  <2>1. queue[c] \in Seq(Quieter)
    BY <1>6 DEF Stages, Stage, NoSecondOpen
  <2> QED
    BY <1>1, <1>2, <1>4, <1>5, <1>6, <2>1, StageLeaves, Blank DEF Opening
<1>7. CASE c \in met
  <2>1. c \in met' /\ met' # {}
    BY <1>1, <1>7
  <2> QED
    BY <1>4, <2>1 DEF Stage
<1> QED
  BY <1>4, <1>6, <1>7

\* A handler goes on, or changes the state, and neither writes nor asks for an OPEN.
LEMMA StageHandles ==
    ASSUME Inv, Stages, NEW c \in Conns, Frame(c), pc[c] \notin Opening,
           pc'[c] \notin Opening, opens_sent'[c] = opens_sent[c],
           queue[c] \in Seq(Quieter) => queue'[c] \in Seq(Quieter),
           c \notin met => loc'[c].ev # "BGPOpen",
           loc'[c].seen \in {loc[c].seen, None},
           state' = state \/ state' # "Active",
           met = {} => StateKept(c)'
    PROVE  Stage(c)'
<1>1. pc[c] # "none" /\ pc'[c] # "none" /\ Alive(c) /\ met' = met
  BY DEF Frame, Alive
<1>2. Stage(c) /\ None # "Active"
  BY Blank DEF Stages
<1>3. ASSUME c \notin met PROVE NoSecondOpen(c)'
  <2>1. NoSecondOpen(c)
    BY <1>2, <1>3 DEF Stage
  <2>2. /\ opens_sent'[c] <= 1 /\ queue'[c] \in Seq(Quieter) /\ loc'[c].ev # "BGPOpen"
        /\ state' # "Active" /\ loc'[c].seen # "Active"
    BY <1>1, <1>2, <1>3, <2>1 DEF NoSecondOpen
  <2> QED
    BY <1>1, <2>2 DEF NoSecondOpen, Opening
<1> QED
  BY <1>1, <1>3 DEF Stage

\* A handler clones n.tx.
LEMMA TakeTxStage ==
    ASSUME Inv, Stages, NEW c \in Conns, TakeTx(c) PROVE Frame(c) /\ Stage(c)'
<1> DEFINE k == [loc[c] EXCEPT !.chan = tx, !.ev = "NotifMsg"]
           l == [loc[c] EXCEPT !.chan = tx]
<1>1. /\ pc[c] \in {"notify", "open"} /\ UNCHANGED <<tx, state, queue, opens_sent>>
      /\ UNCHANGED <<connecting, listening, accepted, met>>
      /\ \/ GotoWith(c, "join", NoLocals)
         \/ GotoWith(c, "push", k)
         \/ pc[c] = "open" /\ GotoWith(c, "collide", l)
  BY DEF TakeTx, nbvars, spawners, logvars
<1>2. /\ k.chan = tx /\ k.ev = "NotifMsg" /\ k.seen = loc[c].seen
      /\ l.chan = tx /\ l.ev = loc[c].ev /\ l.seen = loc[c].seen
  BY DEF Inv, TypeOK, Locals
<1> HIDE DEF k, l
<1>3. /\ \/ pc'[c] = "join" /\ loc'[c] = NoLocals
         \/ pc'[c] = "push" /\ loc'[c] = k
         \/ pc[c] = "open" /\ pc'[c] = "collide" /\ loc'[c] = l
      /\ \A d \in Conns \ {c} : pc'[d] = pc[d] /\ loc'[d] = loc[d]
  BY <1>1, Moves
<1>4. Frame(c)
  BY <1>1, <1>2, <1>3, Blank DEF Frame, Alive
<1>5. Stage(c)
  BY DEF Stages
<1>6. ASSUME c \notin met PROVE loc'[c].ev # "BGPOpen"
  BY <1>2, <1>3, <1>5, <1>6, Blank DEF Stage, NoSecondOpen
<1>7. ASSUME met = {} PROVE StateKept(c)'
  BY <1>1, <1>3, <1>5, <1>7 DEF Stage, StateKept, Opening, Receiving, InSession
<1> QED
  BY <1>1, <1>2, <1>3, <1>4, <1>6, <1>7, StageHandles, Blank DEF Opening

\* The OPEN is compared with the session itself.
LEMMA CollisionStage ==
    ASSUME Inv, Stages, NEW c \in Conns, collision_detection(c) PROVE Frame(c) /\ Stage(c)'
<1> DEFINE k == [loc[c] EXCEPT !.ev = "OpenCollisionDump"]
           e == "OpenCollisionDump"
<1>1. /\ pc[c] = "collide" /\ UNCHANGED <<tx, state, opens_sent>>
      /\ UNCHANGED <<connecting, listening, accepted, met>>
      /\ Goto(c, "validate") \/ GotoWith(c, "push", k)
      /\ queue' = queue \/ (tx \in Conns /\ ~Closed(tx) /\ Enqueue(tx, e))
  BY DEF collision_detection, Collision, Room, nbvars, spawners, logvars, Inv, TypeOK
<1>2. k.chan = loc[c].chan /\ k.ev = e /\ k.seen = loc[c].seen /\ e \in Quieter
  BY DEF Inv, TypeOK, Locals, Quieter, Events
<1> HIDE DEF k
<1>3. /\ \/ pc'[c] = "validate" /\ loc'[c] = loc[c]
         \/ pc'[c] = "push" /\ loc'[c] = k
      /\ \A d \in Conns \ {c} : pc'[d] = pc[d] /\ loc'[d] = loc[d]
  BY <1>1, Moves, MovesOnly
<1>4. \A d \in Conns : pc[d] \in {"none", "dead"} => queue'[d] = queue[d]
  <2>1. CASE queue' = queue
    BY <2>1
  <2>2. CASE tx \in Conns /\ ~Closed(tx)
             /\ queue' = [queue EXCEPT ![tx] = Append(queue[tx], e)]
    BY <2>2, Unreached DEF Stages
  <2> QED
    BY <1>1, <2>1, <2>2 DEF Enqueue
<1>5. Frame(c)
  BY <1>1, <1>2, <1>3, <1>4 DEF Frame, Alive
<1>6. queue[c] \in Seq(Quieter) => queue'[c] \in Seq(Quieter)
  BY <1>1, <1>2, EnqueueQuieter
<1>7. Stage(c)
  BY DEF Stages
<1>8. ASSUME c \notin met PROVE loc'[c].ev # "BGPOpen"
  BY <1>2, <1>3, <1>7, <1>8 DEF Stage, NoSecondOpen
<1>9. ASSUME met = {} PROVE StateKept(c)'
  BY <1>1, <1>3, <1>7, <1>9 DEF Stage, StateKept, Opening, Receiving, InSession
<1> QED
  BY <1>1, <1>2, <1>3, <1>5, <1>6, <1>8, <1>9, StageHandles DEF Opening

\* OpenConfirm, or an event about an OPEN that is not the configured peer's.
LEMMA ValidateOpenStage ==
    ASSUME Inv, Stages, NEW c \in Conns, ValidateOpen(c) PROVE Frame(c) /\ Stage(c)'
<1> DEFINE k == [loc[c] EXCEPT !.ev = "BGPOpenMsgErr"]
<1>1. /\ pc[c] = "validate" /\ UNCHANGED <<tx, queue, opens_sent>>
      /\ UNCHANGED <<connecting, listening, accepted, met>>
      /\ \/ state' = "OpenConfirm" /\ Goto(c, "spawnka")
         \/ state' = state /\ GotoWith(c, "push", k)
  BY DEF ValidateOpen, spawners
<1>2. k.chan = loc[c].chan /\ k.ev = "BGPOpenMsgErr" /\ k.seen = loc[c].seen
  BY DEF Inv, TypeOK, Locals
<1> HIDE DEF k
<1>3. /\ \/ state' = "OpenConfirm" /\ pc'[c] = "spawnka" /\ loc'[c] = loc[c]
         \/ state' = state /\ pc'[c] = "push" /\ loc'[c] = k
      /\ \A d \in Conns \ {c} : pc'[d] = pc[d] /\ loc'[d] = loc[d]
  BY <1>1, Moves, MovesOnly
<1>4. Frame(c)
  BY <1>1, <1>2, <1>3 DEF Frame, Alive
<1>5. Stage(c)
  BY DEF Stages
<1>6. ASSUME c \notin met PROVE loc'[c].ev # "BGPOpen"
  BY <1>2, <1>3, <1>5, <1>6 DEF Stage, NoSecondOpen
<1>7. ASSUME met = {} PROVE StateKept(c)'
  BY <1>1, <1>3, <1>5, <1>7 DEF Stage, StateKept, Opening, Receiving, InSession
<1> QED
  BY <1>1, <1>2, <1>3, <1>4, <1>6, <1>7, StageHandles DEF Opening

\* The OPEN was not received in Active, if the connection met none: no BGPOpen.
LEMMA SpawnKeepaliveStage ==
    ASSUME Inv, Stages, NEW c \in Conns, SpawnKeepalive(c) PROVE Frame(c) /\ Stage(c)'
<1> DEFINE k == [loc[c] EXCEPT !.ev = "BGPOpen"]
<1>1. /\ pc[c] = "spawnka" /\ UNCHANGED <<tx, state, queue, opens_sent>>
      /\ UNCHANGED <<connecting, listening, accepted, met>>
      /\ \/ GotoWith(c, "join", NoLocals) \/ GotoWith(c, "loop", NoLocals)
         \/ loc[c].seen = "Active" /\ GotoWith(c, "push", k)
  BY DEF SpawnKeepalive, BackToLoop, nbvars, spawners, logvars
<1>2. k.chan = loc[c].chan /\ k.seen = loc[c].seen
  BY DEF Inv, TypeOK, Locals
<1> HIDE DEF k
<1>3. /\ \/ pc'[c] \in {"join", "loop"} /\ loc'[c] = NoLocals
         \/ loc[c].seen = "Active" /\ pc'[c] = "push" /\ loc'[c] = k
      /\ \A d \in Conns \ {c} : pc'[d] = pc[d] /\ loc'[d] = loc[d]
  BY <1>1, Moves
<1>4. Frame(c)
  BY <1>1, <1>2, <1>3, Blank DEF Frame, Alive
<1>5. Stage(c)
  BY DEF Stages
<1>6. ASSUME c \notin met PROVE loc'[c].ev # "BGPOpen"
  BY <1>1, <1>3, <1>5, <1>6, Blank DEF Stage, NoSecondOpen, Opening, Alive
<1>7. ASSUME met = {} PROVE StateKept(c)'
  BY <1>1, <1>3, <1>5, <1>7 DEF Stage, StateKept, Opening, Receiving, InSession
<1> QED
  BY <1>1, <1>2, <1>3, <1>4, <1>6, <1>7, StageHandles, Blank DEF Opening

\* Established, from OpenConfirm if the connection met none.
LEMMA EstablishStage ==
    ASSUME Inv, Stages, NEW c \in Conns, Establish(c) PROVE Frame(c) /\ Stage(c)'
<1>1. /\ pc[c] = "establish" /\ state' = "Established" /\ UNCHANGED <<tx, opens_sent>>
      /\ UNCHANGED <<connecting, listening, accepted, met>>
      /\ \/ Announce(Negotiated) /\ GotoWith(c, "loop", NoLocals)
         \/ HangUp(c) /\ GotoWith(c, "dead", NoLocals)
  BY DEF Establish, Panic, BackToLoop, spawners, logvars
<1>2. /\ pc'[c] \in {"loop", "dead"} /\ loc'[c] = NoLocals
      /\ \A d \in Conns \ {c} : pc'[d] = pc[d] /\ loc'[d] = loc[d]
  BY <1>1, Moves
<1>3. Negotiated \in SUBSET AllFamilies
  BY Assumptions DEF Negotiated
<1>4. \A d \in Conns \ {c} : pc[d] \in {"none", "dead"} => queue'[d] = queue[d]
  <2>1. CASE HangUp(c)
    BY <2>1, HangUpOwn
  <2>2. CASE Announce(Negotiated)
    <3>1. CASE queue' = queue
      BY <3>1
    <3>2. CASE queue' # queue
      <4>1. PICK q : queue' = [queue EXCEPT ![tx] = q]
        BY <2>2, <3>2 DEF Announce
      <4>2. tx \in Conns /\ ~Closed(tx)
        BY <2>2, <3>2 DEF Announce, Room, Inv, TypeOK
      <4> QED
        BY <4>1, <4>2, Unreached DEF Stages
    <3> QED
      BY <3>1, <3>2
  <2> QED
    BY <1>1, <2>1, <2>2
<1>5. Frame(c)
  BY <1>1, <1>2, <1>4, Blank DEF Frame, Alive
<1>6. queue[c] \in Seq(Quieter) => queue'[c] \in Seq(Quieter)
  <2>1. <<>> \in Seq(Quieter)
    OBVIOUS
  <2> QED
    BY <1>1, <1>3, <2>1, AnnounceQuieter, HangUpOwn
<1>7. StateKept(c)'
  BY <1>2 DEF StateKept, Opening, Receiving, InSession
<1> QED
  BY <1>1, <1>2, <1>5, <1>6, <1>7, StageHandles, Blank DEF Opening

\* The steps of a handler of the established session that lead to the next one.
LEMMA HandlersStage ==
    ASSUME Inv, Stages, NEW c \in Conns,
           \/ ReadPeer(c) \/ WithdrawAll(c) \/ StampUpdate(c)
           \/ adjrib_withdraw(c) \/ adjrib_add(c) \/ SendToRib(c)
    PROVE  Frame(c) /\ Stage(c)'
<1> DEFINE k == [loc[c] EXCEPT !.rid = remote_rid]
<1>1. pc[c] \in InSession \ {"idle"} /\ remote_rid # None
  BY DEF ReadPeer, WithdrawAll, StampUpdate, adjrib_withdraw, adjrib_add, SendToRib,
     InSession, Inv, PeerKnown, NeedsRid
<1>2. /\ UNCHANGED <<tx, state, queue, opens_sent>>
      /\ UNCHANGED <<connecting, listening, accepted, met>>
      /\ \/ GotoWith(c, "loop", NoLocals)
         \/ \E p \in {"purge", "adjwd"} : GotoWith(c, p, k)
         \/ \E p \in {"idle", "adjadd", "ribsend"} : Goto(c, p)
  BY <1>1 DEF ReadPeer, WithdrawAll, StampUpdate, adjrib_withdraw, adjrib_add, SendToRib,
     BackToLoop, nbvars, spawners, logvars
<1>3. k.chan = loc[c].chan /\ k.seen = loc[c].seen /\ k.ev = loc[c].ev
  BY DEF Inv, TypeOK, Locals
<1> HIDE DEF k
<1>4. /\ \/ pc'[c] = "loop" /\ loc'[c] = NoLocals
         \/ pc'[c] \in {"purge", "adjwd"} /\ loc'[c] = k
         \/ pc'[c] \in {"idle", "adjadd", "ribsend"} /\ loc'[c] = loc[c]
      /\ \A d \in Conns \ {c} : pc'[d] = pc[d] /\ loc'[d] = loc[d]
  BY <1>2, Moves, MovesOnly
<1>5. Frame(c)
  BY <1>1, <1>2, <1>3, <1>4, Blank DEF Frame, Alive, InSession
<1>6. Stage(c)
  BY DEF Stages
<1>7. ASSUME c \notin met PROVE loc'[c].ev # "BGPOpen"
  BY <1>3, <1>4, <1>6, <1>7, Blank DEF Stage, NoSecondOpen
<1>8. ASSUME met = {} PROVE StateKept(c)'
  BY <1>1, <1>2, <1>4, <1>6, <1>8 DEF Stage, StateKept, Opening, Receiving, InSession
<1> QED
  BY <1>1, <1>2, <1>3, <1>4, <1>5, <1>7, <1>8, StageHandles, Blank DEF Opening, InSession

\* NOTIFICATION: Idle, while the socket is still open, and the loop is told to end.
LEMMA CloseStage ==
    ASSUME Inv, Stages, NEW c \in Conns, GoIdle(c) \/ RequestClose(c)
    PROVE  Frame(c) /\ Stage(c)'
<1> DEFINE e == "TcpConnectionFails"
<1>1. /\ UNCHANGED <<tx, opens_sent, connecting, listening, accepted, met>>
      /\ \/ pc[c] = "idle" /\ state' = "Idle" /\ queue' = queue /\ Goto(c, "fails")
         \/ /\ pc[c] = "fails" /\ state' = state /\ GotoWith(c, "loop", NoLocals)
            /\ queue' = queue \/ (tx \in Conns /\ ~Closed(tx) /\ Enqueue(tx, e))
  BY DEF GoIdle, RequestClose, BackToLoop, Room, nbvars, spawners, logvars, Inv, TypeOK
<1>2. /\ pc'[c] \in {"fails", "loop"} /\ loc'[c] \in {loc[c], NoLocals}
      /\ \A d \in Conns \ {c} : pc'[d] = pc[d] /\ loc'[d] = loc[d]
  BY <1>1, Moves, MovesOnly
<1>3. \A d \in Conns : pc[d] \in {"none", "dead"} => queue'[d] = queue[d]
  <2>1. CASE queue' = queue
    BY <2>1
  <2>2. CASE tx \in Conns /\ ~Closed(tx)
             /\ queue' = [queue EXCEPT ![tx] = Append(queue[tx], e)]
    BY <2>2, Unreached DEF Stages
  <2> QED
    BY <1>1, <2>1, <2>2 DEF Enqueue
<1>4. Frame(c)
  BY <1>1, <1>2, <1>3, Blank DEF Frame, Alive
<1>5. queue[c] \in Seq(Quieter) => queue'[c] \in Seq(Quieter)
  <2>1. e \in Quieter
    BY DEF Quieter, Events
  <2> QED
    BY <1>1, <2>1, EnqueueQuieter
<1>6. ASSUME c \notin met PROVE loc'[c].ev # "BGPOpen"
  BY <1>2, <1>6, Blank DEF Stages, Stage, NoSecondOpen
<1>7. StateKept(c)'
  BY <1>2 DEF StateKept, Opening, Receiving, InSession
<1> QED
  BY <1>1, <1>2, <1>4, <1>5, <1>6, <1>7, StageHandles, Blank DEF Opening

\* The end of a task.
LEMMA FinishStage ==
    ASSUME Inv, Stages, NEW c \in Conns, Finish(c) PROVE Frame(c) /\ Stage(c)'
<1>1. /\ pc[c] = "join" /\ state' = "Idle" /\ tx' = None /\ opens_sent' = opens_sent
      /\ UNCHANGED <<connecting, listening, accepted, met>>
      /\ HangUp(c) /\ GotoWith(c, "dead", NoLocals)
  BY DEF Finish, spawners, logvars
<1>2. /\ pc'[c] = "dead" /\ loc'[c] = NoLocals
      /\ \A d \in Conns \ {c} : pc'[d] = pc[d] /\ loc'[d] = loc[d]
      /\ queue'[c] = <<>> /\ \A d \in Conns \ {c} : queue'[d] = queue[d]
  BY <1>1, Moves, HangUpOwn
<1>3. Frame(c)
  BY <1>1, <1>2, Blank DEF Frame, Alive
<1>4. <<>> \in Seq(Quieter)
  OBVIOUS
<1>5. StateKept(c)'
  BY <1>2 DEF StateKept, Opening, Receiving, InSession
<1> QED
  BY <1>1, <1>2, <1>3, <1>4, <1>5, StageHandles, Blank DEF Opening

\* Whatever the task of a connection does.
LEMMA FsmTaskStage ==
    ASSUME Inv, Stages, NEW c \in Conns, FsmTask(c) PROVE Frame(c) /\ Stages'
<1>1. Frame(c) /\ Stage(c)'
  BY FsmStartStage, FirstEventStage, SendOpenStage, HandleEventStage, ReadMessageStage,
     ReadErrorStage, PushStage, TakeTxStage, CollisionStage, ValidateOpenStage,
     SpawnKeepaliveStage, EstablishStage, HandlersStage, CloseStage, FinishStage
  DEF FsmTask
<1>2. Alone' /\ \A d \in Conns \ {c} : Stage(d)'
  BY <1>1, FrameAlone
<1> QED
  BY <1>1, <1>2 DEF Stages

-----------------------------------------------------------------------------
(* The connections that come, and what runs beside the tasks               *)

\* A connection that comes takes note of the others, and they of it.
LEMMA ArrivesMeets ==
    ASSUME Inv, Stages, NEW c \in Conns, Arrives(c)
    PROVE  /\ met \subseteq met'
           /\ \A d \in Conns \ {c} : Present(d) => c \in met' /\ d \in met'
           /\ \A d \in Conns \ {c} : met' = {} => ~Present(d)
<1>1. \A d \in Conns \ {c} : Present(d) <=> d \in Others(c)
  BY DEF Present, Adopting, Others
<1>2. CASE Others(c) = {}
  BY <1>1, <1>2 DEF Arrives
<1>3. CASE Others(c) # {}
  <2>1. met' = met \cup Others(c) \cup {c}
    BY <1>3 DEF Arrives
  <2> QED
    BY <1>1, <2>1
<1> QED
  BY <1>2, <1>3

\* A connection that begins, or is refused before it does: nothing was asked of it.
LEMMA StageBegins ==
    ASSUME Inv, Stages, NEW c \in Conns, pc[c] = "none", opens_sent'[c] = opens_sent[c],
           met \subseteq met', queue'[c] \in {queue[c], <<>>}, loc'[c] = loc[c],
           \/ pc'[c] = "spawned" /\ state' = Begun(c)
           \/ pc'[c] \in {"none", "dead"}
    PROVE  Stage(c)'
<1>1. <<>> \in Seq(Quieter) /\ Stage(c)
  BY DEF Stages
<1>2. ASSUME c \notin met' PROVE NoSecondOpen(c)'
  BY <1>1, <1>2 DEF Stage, NoSecondOpen, Opening, Alive, Begun
<1>3. StateKept(c)'
  BY DEF StateKept, Opening, Receiving, InSession, Begun
<1> QED
  BY <1>2, <1>3 DEF Stage

\* A connection that is not concerned, while another one changes the state.
LEMMA StageBeside ==
    ASSUME Inv, Stages, NEW d \in Conns, met \subseteq met',
           UNCHANGED <<pc[d], loc[d], opens_sent[d], queue[d]>>,
           state' = state \/ ~Alive(d) \/ d \in met'
    PROVE  Stage(d)'
<1>1. CASE state' = state
  <2>1. Stage(d)
    BY DEF Stages
  <2> QED
    BY <1>1, <2>1 DEF Stage, NoSecondOpen, StateKept, Alive, Begun
<1>2. CASE ~Alive(d)
  <2>1. Stage(d) /\ pc[d] \in {"none", "dead"}
    BY <1>2 DEF Stages, Alive
  <2> QED
    BY <2>1 DEF Stage, NoSecondOpen, StateKept, Opening, Receiving, InSession, Alive
<1>3. CASE d \in met'
  BY <1>3 DEF Stage
<1> QED
  BY <1>1, <1>2, <1>3

\* connect() gives up on the neighbour, and writes Idle whoever has it.
LEMMA ConnectFailsStage ==
    ASSUME Inv, Stages, ConnectStart \/ ConnectFails PROVE Stages'
<1>1. /\ connecting # "done" /\ met \subseteq met'
      /\ UNCHANGED <<pc, loc, queue, opens_sent, tx, listening, accepted>>
      /\ state' = state \/ (state' = "Idle" /\ (Others(Out) # {} => met' = met \cup {Out}))
  BY DEF ConnectStart, ConnectFails, fsmvars, logvars
<1>2. pc[Out] = "none" /\ Out \in Conns
  BY <1>1, Blank DEF Stages, Alone
<1>3. Alone'
  BY <1>1, <1>2 DEF Stages, Alone, Present, Alive, Adopting
<1>4. ASSUME NEW d \in Conns PROVE Stage(d)'
  <2>1. CASE state' = state \/ ~Alive(d)
    BY <1>1, <2>1, StageBeside
  <2>2. CASE state' # state /\ Alive(d)
    <3>1. d \in Others(Out)
      BY <1>2, <2>2 DEF Others, Alive
    <3>2. Out \in met' /\ state' = "Idle"
      BY <1>1, <2>2, <3>1
    <3>3. Stage(d)
      BY DEF Stages
    <3>4. ASSUME d \notin met' PROVE NoSecondOpen(d)'
      BY <1>1, <3>2, <3>3, <3>4 DEF Stage, NoSecondOpen, Alive, Begun
    <3> QED
      BY <3>2, <3>4 DEF Stage
  <2> QED
    BY <2>1, <2>2
<1> QED
  BY <1>3, <1>4 DEF Stages

\* connect() brings its connection.
LEMMA ConnectSucceedsStage ==
    ASSUME Inv, Stages, ConnectSucceeds PROVE Stages'
<1>1. /\ connecting = "tcp" /\ connecting' = "done" /\ state' = "Connect"
      /\ Goto(Out, "spawned") /\ Arrives(Out) /\ loc' = loc
      /\ UNCHANGED <<queue, opens_sent, tx, listening, accepted>> /\ Out \in Conns
  BY Blank DEF ConnectSucceeds, Goto
<1>2. pc[Out] = "none"
  BY <1>1 DEF Stages, Alone
<1>3. pc'[Out] = "spawned" /\ \A d \in Conns \ {Out} : pc'[d] = pc[d]
  BY <1>1, MovesOnly
<1>4. /\ met \subseteq met'
      /\ \A d \in Conns \ {Out} : Present(d) => Out \in met' /\ d \in met'
  BY <1>1, ArrivesMeets
<1>5. accepted # Out \/ listening = "accept"
  BY DEF Inv, Wired, Inbound, TypeOK
<1>6. Alone'
  <2>1. \A d \in Conns \ {Out} : Present(d)' => Present(d)
    BY <1>1, <1>3 DEF Present, Alive, Adopting
  <2>2. \A a \in Conns : \A b \in Conns \ {a} : Present(a)' /\ Present(b)' => a \in met'
    BY <1>4, <2>1 DEF Stages, Alone
  <2>3. listening' \in {"check", "adopt"} => pc'[accepted'] = "none"
    BY <1>1, <1>3, <1>5 DEF Stages, Alone, Inv, Wired, Inbound
  <2>4. \A a \in Conns : pc'[a] \in {"none", "spawned"} =>
          tx' # a /\ \A d \in Conns : loc'[d].chan # a
    BY <1>1, <1>2, <1>3 DEF Stages, Alone
  <2> QED
    BY <1>1, <2>2, <2>3, <2>4 DEF Alone
<1>7. Stage(Out)'
  BY <1>1, <1>2, <1>3, <1>4, StageBegins DEF Begun
<1>8. ASSUME NEW d \in Conns \ {Out} PROVE Stage(d)'
  BY <1>1, <1>3, <1>4, StageBeside DEF Present
<1> QED
  BY <1>6, <1>7, <1>8 DEF Stages

\* The listener takes a socket, or fails to.
LEMMA AcceptStage ==
    ASSUME Inv, Stages, NEW c \in Inbound, AcceptMatched(c) \/ AcceptContended(c)
    PROVE  Stages'
<1>1. /\ listening = "accept" /\ pc[c] = "none" /\ c \in Conns /\ c # Out
      /\ UNCHANGED <<state, loc, queue, opens_sent, tx, connecting, met>>
      /\ \/ listening' = "check" /\ accepted' = c /\ pc' = pc
         \/ UNCHANGED <<listening, accepted>> /\ Goto(c, "dead")
  BY DEF AcceptMatched, AcceptContended, Goto, nbvars, spawners, fsmvars, logvars, Inbound
<1>2. pc'[c] \in {"none", "dead"} /\ \A d \in Conns \ {c} : pc'[d] = pc[d]
  BY <1>1, MovesOnly
<1>3. Alone'
  <2>1. \A d \in Conns : Present(d)' => Present(d)
    BY <1>1, <1>2 DEF Present, Alive, Adopting
  <2>2. \A a \in Conns : \A b \in Conns \ {a} : Present(a)' /\ Present(b)' => a \in met'
    BY <1>1, <2>1 DEF Stages, Alone
  <2>3. listening' \in {"check", "adopt"} => pc'[accepted'] = "none"
    BY <1>1
  <2>4. connecting' # "done" => pc'[Out] = "none"
    BY <1>1, <1>2, Blank DEF Stages, Alone
  <2>5. \A a \in Conns : pc'[a] \in {"none", "spawned"} =>
          tx' # a /\ \A d \in Conns : loc'[d].chan # a
    BY <1>1, <1>2 DEF Stages, Alone
  <2> QED
    BY <2>2, <2>3, <2>4, <2>5 DEF Alone
<1>4. Stage(c)'
  BY <1>1, <1>2, StageBegins
<1>5. ASSUME NEW d \in Conns \ {c} PROVE Stage(d)'
  BY <1>1, <1>2, StageBeside
<1> QED
  BY <1>3, <1>4, <1>5 DEF Stages

\* It lets the socket in, or closes it.
LEMMA AcceptCheckStage == ASSUME Inv, Stages, AcceptCheck PROVE Stages'
<1>0. PICK a \in Conns : a = accepted
  BY DEF AcceptCheck, Inv, Wired, Inbound
<1>1. /\ listening = "check" /\ a \in Conns /\ a # Out /\ pc[a] = "none"
      /\ UNCHANGED <<state, loc, opens_sent, tx, connecting>>
  BY <1>0 DEF AcceptCheck, nbvars, Inv, Wired, Inbound, Stages, Alone
<1>2. CASE listening' = "adopt"
  <2>1. accepted' = a /\ Arrives(a) /\ UNCHANGED <<queue, pc>>
    BY <1>0, <1>2 DEF AcceptCheck
  <2>2. /\ met \subseteq met'
        /\ \A d \in Conns \ {a} : Present(d) => a \in met' /\ d \in met'
    BY <1>1, <2>1, ArrivesMeets
  <2>3. \A d \in Conns \ {a} : Present(d)' => Present(d)
    BY <2>1 DEF Present, Alive, Adopting
  <2>4. \A x \in Conns : \A y \in Conns \ {x} : Present(x)' /\ Present(y)' => x \in met'
    BY <1>1, <2>2, <2>3 DEF Stages, Alone
  <2>5. Alone'
    BY <1>1, <2>1, <2>4 DEF Stages, Alone
  <2>6. \A d \in Conns : Stage(d)'
    BY <1>1, <2>1, <2>2, StageBeside
  <2> QED
    BY <2>5, <2>6 DEF Stages
<1>3. CASE listening' # "adopt"
  <2>1. /\ listening' = "accept" /\ HangUp(a) /\ Goto(a, "dead") /\ met' = met
    BY <1>0, <1>3 DEF AcceptCheck, Goto
  <2>2. /\ pc'[a] = "dead" /\ \A d \in Conns \ {a} : pc'[d] = pc[d]
        /\ queue'[a] = <<>> /\ \A d \in Conns \ {a} : queue'[d] = queue[d]
    BY <1>1, <2>1, MovesOnly, HangUpOwn
  <2>3. Alone'
    BY <1>1, <2>1, <2>2, Blank DEF Stages, Alone, Present, Alive, Adopting
  <2>4. Stage(a)'
    BY <1>1, <2>1, <2>2, StageBegins
  <2>5. ASSUME NEW d \in Conns \ {a} PROVE Stage(d)'
    BY <1>1, <2>1, <2>2, StageBeside
  <2> QED
    BY <2>3, <2>4, <2>5 DEF Stages
<1> QED
  BY <1>2, <1>3

\* The socket gets its task, and the record Active.
LEMMA AcceptAdoptStage == ASSUME Inv, Stages, AcceptAdopt PROVE Stages'
<1>0. PICK a \in Conns : a = accepted
  BY DEF AcceptAdopt, Inv, Wired, Inbound
<1>1. /\ listening = "adopt" /\ a \in Conns /\ a # Out /\ pc[a] = "none"
      /\ listening' = "accept" /\ state' = "Active" /\ Goto(a, "spawned") /\ loc' = loc
      /\ UNCHANGED <<queue, opens_sent, tx, connecting, met>>
  BY <1>0 DEF AcceptAdopt, Goto, logvars, Inv, Wired, Inbound, Stages, Alone
<1>2. pc'[a] = "spawned" /\ \A d \in Conns \ {a} : pc'[d] = pc[d]
  BY <1>1, MovesOnly
<1>3. Adopting(a)
  BY <1>0, <1>1 DEF Adopting
<1>4. \A d \in Conns : Present(d)' => Present(d)
  BY <1>1, <1>2, <1>3 DEF Present, Alive, Adopting
<1>5. \A x \in Conns : \A y \in Conns \ {x} : Present(x)' /\ Present(y)' => x \in met'
  BY <1>1, <1>4 DEF Stages, Alone
<1>6. \A d \in Conns : pc'[d] \in {"none", "spawned"} =>
        tx' # d /\ \A b \in Conns : loc'[b].chan # d
  BY <1>1, <1>2 DEF Stages, Alone
<1>7. Alone'
  BY <1>1, <1>2, <1>5, <1>6, Blank DEF Stages, Alone
<1>8. Stage(a)'
  BY <1>1, <1>2, StageBegins DEF Begun
<1>9. ASSUME NEW d \in Conns \ {a} PROVE Stage(d)'
  <2>1. Alive(d) => d \in met
    BY <1>1, <1>3 DEF Stages, Alone, Present
  <2> QED
    BY <1>1, <1>2, <2>1, StageBeside
<1> QED
  BY <1>7, <1>8, <1>9 DEF Stages

\* What the timers, the RIB managers and the peer leave alone.
Aside == UNCHANGED <<state, pc, loc, opens_sent, tx, connecting, listening, accepted, met>>

\* The timers and the RIB managers send other events, the peer none.
LEMMA AsideStage ==
    ASSUME Inv, Stages, Aside,
           \/ queue' = queue
           \/ \E t \in Conns : \E e \in Quieter : ~Closed(t) /\ Enqueue(t, e)
    PROVE  Stages'
<1>1. Alone'
  BY DEF Aside, Stages, Alone, Present, Alive, Adopting
<1>2. ASSUME NEW d \in Conns PROVE Stage(d)'
  <2>1. queue[d] \in Seq(Quieter) => queue'[d] \in Seq(Quieter)
    BY EnqueueQuieter
  <2>2. Stage(d)
    BY DEF Stages
  <2> QED
    BY <2>1, <2>2 DEF Aside, Stage, NoSecondOpen, StateKept, Alive, Begun
<1> QED
  BY <1>1, <1>2 DEF Stages

\* Each of them, action by action.
LEMMA BesideStage ==
    ASSUME Inv, NEW c \in Conns,
           HoldTimer(c) \/ KeepaliveTick(c) \/ RibMgrNotify \/ Peer(c)
    PROVE  /\ Aside
           /\ \/ queue' = queue
              \/ \E t \in Conns : \E e \in Quieter : ~Closed(t) /\ Enqueue(t, e)
<1> "KeepaliveTimerExpires" \in Quieter /\ "RibUpdate" \in Quieter
  BY DEF Quieter, Events
<1>1. CASE HoldSend(c)
  BY <1>1 DEF HoldSend, Room, Aside, nbvars, spawners, logvars, Inv, Wired
<1>2. CASE HoldRead(c) \/ HoldExpires(c) \/ HoldStop(c)
  BY <1>2 DEF HoldRead, HoldExpires, HoldStop, Aside, nbvars, spawners, fsmvars, logvars
<1>3. CASE KeepaliveTick(c)
  BY <1>3 DEF KeepaliveTick, Room, Aside, nbvars, spawners, logvars
<1>4. CASE RibMgrNotify
  BY <1>4 DEF RibMgrNotify, Room, Aside, nbvars, spawners, logvars, Inv, TypeOK
<1>5. CASE Peer(c)
  BY <1>5 DEF Peer, PeerSend, PeerClose, PeerReset, Aside, nbvars, spawners, fsmvars, logvars
<1> QED
  BY <1>1, <1>2, <1>3, <1>4, <1>5 DEF HoldTimer

\* No connection yet.
LEMMA InitStages == ASSUME Init PROVE Stages
<1>1. <<>> \in Seq(Quieter)
  OBVIOUS
<1>2. Alone
  BY Blank DEF Init, Alone, Present, Alive, Adopting
<1>3. ASSUME NEW c \in Conns PROVE Stage(c)
  BY <1>1, Blank DEF Init, Stage, NoSecondOpen, StateKept, Opening, Receiving, InSession, Alive
<1> QED
  BY <1>2, <1>3 DEF Stages

\* Every step keeps the connections in their stages.
LEMMA NextStages == ASSUME Inv, Stages, [Next]_vars PROVE Stages'
<1>1. CASE UNCHANGED vars
  <2>1. Aside /\ queue' = queue
    BY <1>1 DEF vars, nbvars, spawners, fsmvars, logvars, Aside
  <2> QED
    BY <2>1, AsideStage
<1>2. CASE ConnectTask
  BY <1>2, ConnectFailsStage, ConnectSucceedsStage DEF ConnectTask
<1>3. CASE Listener \/ \E c \in Inbound : AcceptMatched(c) \/ AcceptContended(c)
  BY <1>3, AcceptStage, AcceptCheckStage, AcceptAdoptStage DEF Listener
<1>4. ASSUME NEW c \in Conns, FsmTask(c) PROVE Stages'
  BY <1>4, FsmTaskStage
<1>5. ASSUME NEW c \in Conns, HoldTimer(c) \/ KeepaliveTick(c) \/ RibMgrNotify \/ Peer(c)
      PROVE  Stages'
  BY <1>5, BesideStage, AsideStage
<1> QED
  BY <1>1, <1>2, <1>3, <1>4, <1>5, Blank DEF Next

\* A connection that met no other has the record to itself.
THEOREM StagesAlways == Spec => []Stages
<1>1. Init => Stages
  BY InitStages
<1>2. Inv /\ Stages /\ [Next]_vars => Stages'
  BY NextStages
<1> QED
  BY <1>1, <1>2, Invariant, PTL DEF Spec

\* A connection carries one OPEN of ours unless another connection came while it had the
\* record: TcpConnectionConfirmed sends it, and BGPOpen is not asked for again.
THEOREM OneOpenIsSent == Spec => []OneOpenPerConnection
<1>1. Inv /\ Stages => OneOpenPerConnection
  BY DEF Inv, TypeOK, Stages, Stage, NoSecondOpen, OneOpenPerConnection
<1> QED
  BY <1>1, StagesAlways, Invariant, PTL

-----------------------------------------------------------------------------
(* The transitions of the neighbour                                        *)

Owned == \E c \in Conns : Alive(c)

\* The steps of BGPFsm, in terms of the tasks.
Transition ==
    \/ ~Owned /\ Owned' /\ state' \in {"Connect", "Active"}
    \/ Owned /\ <<state, state'>> \in Fsm!Edges
    \/ state' = "Idle" /\ (Owned' => Owned)
    \/ state' = state /\ (Owned' => Owned)

\* They are its steps.
LEMMA TransitionIsStep == ASSUME Transition PROVE [Fsm!Next]_(Fsm!vars)
<1>1. Owned \in BOOLEAN /\ Owned' \in BOOLEAN
  BY DEF Owned
<1>2. CASE ~Owned /\ Owned' /\ state' \in {"Connect", "Active"}
  BY <1>2 DEF Fsm!Next, Fsm!Begin, Owned
<1>3. CASE Owned /\ <<state, state'>> \in Fsm!Edges
  BY <1>3 DEF Fsm!Next, Fsm!Advance, Owned
<1>4. CASE state' = "Idle" /\ (Owned' => Owned)
  BY <1>4 DEF Fsm!Next, Fsm!Fall, Owned
<1>5. CASE state' = state /\ (Owned' => Owned)
  <2>1. CASE Owned /\ ~Owned'
    BY <1>5, <2>1 DEF Fsm!Next, Fsm!Leave, Owned
  <2>2. CASE Owned' = Owned
    BY <1>5, <2>2 DEF Fsm!vars, Owned
  <2> QED
    BY <1>1, <1>5, <2>1, <2>2
<1> QED
  BY <1>2, <1>3, <1>4, <1>5 DEF Transition

\* The task of a connection that met none advances the state from where it found it.
LEMMA TaskTransition ==
    ASSUME Inv, Stages, met = {}, NEW c \in Conns, FsmTask(c)
    PROVE  Transition
<1>1. Owned /\ StateKept(c)
  BY FsmTaskStage DEF Frame, Owned, Stages, Stage
<1>2. CASE SendOpen(c)
  <2>1. pc[c] = "sendopen" /\ state' \in {state, "OpenSent"}
    BY <1>2 DEF SendOpen
  <2> QED
    BY <1>1, <2>1 DEF Transition, Fsm!Edges, StateKept, Opening, Begun
<1>3. CASE ValidateOpen(c)
  <2>1. pc[c] = "validate" /\ state' \in {state, "OpenConfirm"}
    BY <1>3 DEF ValidateOpen
  <2> QED
    BY <1>1, <2>1 DEF Transition, Fsm!Edges, StateKept, Receiving
<1>4. CASE Establish(c)
  <2>1. pc[c] = "establish" /\ state' = "Established"
    BY <1>4 DEF Establish
  <2> QED
    BY <1>1, <2>1 DEF Transition, Fsm!Edges, StateKept
<1>5. CASE GoIdle(c) \/ Finish(c)
  BY <1>1, <1>5 DEF GoIdle, Finish, Transition
<1>6. CASE \/ FsmStart(c) \/ FirstEvent(c) \/ HandleEvent(c) \/ ReadMessage(c)
           \/ ReadError(c) \/ Push(c) \/ TakeTx(c) \/ collision_detection(c)
           \/ SpawnKeepalive(c) \/ ReadPeer(c) \/ WithdrawAll(c) \/ RequestClose(c)
           \/ StampUpdate(c) \/ adjrib_withdraw(c) \/ adjrib_add(c) \/ SendToRib(c)
  <2>1. state' = state
    BY <1>6 DEF FsmStart, FirstEvent, HandleEvent, ReadMessage, ReadError, Push, TakeTx,
       collision_detection, SpawnKeepalive, ReadPeer, WithdrawAll, RequestClose,
       StampUpdate, adjrib_withdraw, adjrib_add, SendToRib, nbvars
  <2> QED
    BY <1>1, <2>1 DEF Transition
<1> QED
  BY <1>2, <1>3, <1>4, <1>5, <1>6 DEF FsmTask

\* connect() and the listener bring a connection to a record that nobody has.
LEMMA BeginTransition ==
    ASSUME Inv, Stages, met' = {}, ConnectSucceeds \/ AcceptAdopt
    PROVE  Transition
<1>1. CASE ConnectSucceeds
  <2>1. Arrives(Out) /\ Goto(Out, "spawned") /\ state' = "Connect" /\ Out \in Conns
    BY <1>1, Blank DEF ConnectSucceeds
  <2>2. pc[Out] = "none"
    BY <1>1 DEF ConnectSucceeds, Stages, Alone
  <2>3. \A d \in Conns \ {Out} : ~Present(d)
    BY <2>1, ArrivesMeets
  <2>4. ~Owned
    BY <2>2, <2>3 DEF Owned, Present, Alive
  <2>5. Owned'
    BY <2>1, MovesOnly DEF Owned, Alive
  <2> QED
    BY <2>1, <2>4, <2>5 DEF Transition
<1>2. CASE AcceptAdopt
  <2>1. PICK a \in Conns : a = accepted
    BY <1>2 DEF AcceptAdopt, Inv, Wired, Inbound
  <2>2. Adopting(a) /\ Goto(a, "spawned") /\ state' = "Active" /\ met = {}
    BY <1>2, <2>1 DEF AcceptAdopt, Adopting, logvars
  <2>3. pc[a] = "none"
    BY <2>1, <2>2 DEF Stages, Alone, Adopting
  <2>4. \A d \in Conns \ {a} : ~Present(d)
    BY <2>2 DEF Stages, Alone, Present
  <2>5. ~Owned
    BY <2>3, <2>4 DEF Owned, Present, Alive
  <2>6. Owned'
    BY <2>2, MovesOnly DEF Owned, Alive
  <2> QED
    BY <2>2, <2>5, <2>6 DEF Transition
<1> QED
  BY <1>1, <1>2

\* As long as connections come one at a time, a step of the neighbour is one of BGPFsm.
LEMMA StepIsTransition ==
    ASSUME Inv, Stages, met = {}, met' = {}, [Next]_vars
    PROVE  Transition
<1>1. CASE UNCHANGED vars
  <2>1. state' = state /\ pc' = pc
    BY <1>1 DEF vars, nbvars, fsmvars
  <2> QED
    BY <2>1 DEF Transition, Owned, Alive
<1>2. CASE ConnectStart \/ ConnectFails
  <2>1. state' \in {state, "Idle"} /\ pc' = pc
    BY <1>2 DEF ConnectStart, ConnectFails, fsmvars
  <2> QED
    BY <2>1 DEF Transition, Owned, Alive
<1>3. CASE ConnectSucceeds \/ AcceptAdopt
  BY <1>3, BeginTransition
<1>4. CASE AcceptCheck \/ \E c \in Inbound : AcceptMatched(c) \/ AcceptContended(c)
  <2>1. /\ state' = state
        /\ \/ pc' = pc
           \/ \E c \in Conns : pc' = [pc EXCEPT ![c] = "dead"]
    BY <1>4 DEF AcceptCheck, AcceptMatched, AcceptContended, Goto, nbvars, fsmvars,
       Inv, Wired, Inbound
  <2>2. \A d \in Conns : Alive(d)' => Alive(d)
    BY <2>1 DEF Alive, Inv, TypeOK
  <2> QED
    BY <2>1, <2>2 DEF Transition, Owned
<1>5. ASSUME NEW c \in Conns, FsmTask(c) PROVE Transition
  BY <1>5, TaskTransition
<1>6. ASSUME NEW c \in Conns, HoldTimer(c) \/ KeepaliveTick(c) \/ RibMgrNotify \/ Peer(c)
      PROVE  Transition
  <2>1. Aside
    BY <1>6, BesideStage
  <2> QED
    BY <2>1 DEF Aside, Transition, Owned, Alive
<1> QED
  BY <1>1, <1>2, <1>3, <1>4, <1>5, <1>6, Blank DEF Next, ConnectTask, Listener

\* The detailed neighbour implements BGPFsm as long as connections come one at a time,
\* made by either side, with the listener and the connect task at work beside them: an
\* observer of its state sees a connection begin on a record that no other one has, the
\* transitions the handlers log, and falls back to Idle.
THEOREM Refines == Spec /\ []OneAtATime => FsmTransitions
<1>1. Init => Fsm!Init
  <2>1. ASSUME Init PROVE ~Owned /\ state = "Idle"
    BY <2>1 DEF Init, Owned, Alive
  <2>2. Owned \in BOOLEAN
    BY DEF Owned
  <2> QED
    BY <2>1, <2>2 DEF Fsm!Init, Owned
<1>2. Inv /\ Stages /\ OneAtATime /\ OneAtATime' /\ [Next]_vars => [Fsm!Next]_(Fsm!vars)
  BY StepIsTransition, TransitionIsStep DEF OneAtATime
<1> QED
  BY <1>1, <1>2, Invariant, StagesAlways, PTL DEF Spec, FsmTransitions, Fsm!Spec

-----------------------------------------------------------------------------
(* Adj-RIB-In and RIB managers                                             *)

Tables == <<remote_rid, adjrib, ribsent, lost>>

\* Most steps touch no table and no name; ribtx is set for good.
Untouched == UNCHANGED <<Tables, names>> /\ (ribtx => ribtx')

\* All but six actions are such steps.
LEMMA UntouchedBy ==
    ASSUME [Next]_vars,
           ~\E c \in Conns : \/ ValidateOpen(c) \/ WithdrawAll(c) \/ GoIdle(c)
                             \/ adjrib_withdraw(c) \/ adjrib_add(c) \/ SendToRib(c)
    PROVE  Untouched
<1> USE DEF Untouched, Tables
<1>1. CASE UNCHANGED vars
  BY <1>1 DEF vars, nbvars, logvars
<1>2. CASE ConnectTask
  BY <1>2 DEF ConnectTask, ConnectStart, ConnectFails, ConnectSucceeds, logvars
<1>3. CASE Listener \/ \E c \in Inbound : AcceptMatched(c) \/ AcceptContended(c)
  BY <1>3 DEF Listener, AcceptMatched, AcceptContended, AcceptCheck, AcceptAdopt,
     nbvars, logvars
<1>4. ASSUME NEW c \in Conns,
             \/ FsmStart(c) \/ FirstEvent(c) \/ SendOpen(c) \/ HandleEvent(c)
             \/ ReadMessage(c) \/ ReadError(c) \/ Push(c) \/ TakeTx(c)
             \/ collision_detection(c) \/ SpawnKeepalive(c) \/ Establish(c) \/ ReadPeer(c)
             \/ RequestClose(c) \/ StampUpdate(c) \/ Finish(c)
      PROVE  Untouched
  BY <1>4 DEF FsmStart, FirstEvent, SendOpen, HandleEvent, ReadMessage, ReadError, Push,
     TakeTx, collision_detection, SpawnKeepalive, Establish, ReadPeer, RequestClose,
     StampUpdate, Finish, nbvars, logvars
<1>5. ASSUME NEW c \in Conns, HoldTimer(c) \/ KeepaliveTick(c) \/ RibMgrNotify \/ Peer(c)
      PROVE  Untouched
  BY <1>5 DEF HoldTimer, HoldRead, HoldExpires, HoldSend, HoldStop, KeepaliveTick,
     RibMgrNotify, Peer, PeerSend, PeerClose, PeerReset, nbvars, logvars
<1> QED
  BY <1>1, <1>2, <1>3, <1>4, <1>5, Blank DEF Next, FsmTask

\* A handler of the established session acts for a peer that is known.
LEMMA AtWork ==
    ASSUME Inv, NEW c \in Conns, pc[c] \in InSession
    PROVE  /\ remote_rid # None /\ remote_rid \in Rids
           /\ pc[c] \in {"adjwd", "adjadd", "ribsend"} => loc[c].msg.body \in Updates
<1>1. pc[c] \in {"adjwd", "adjadd", "ribsend"} => loc[c].msg \in UpdateMsgs
  BY DEF Inv, TasksOK, TaskOK
<1> QED
  BY <1>1 DEF Inv, PeerKnown, NeedsRid, InSession, TypeOK, UpdateMsgs

\* Nothing is learnt before its time, whatever the connections do.
LEMMA NextNothing == ASSUME Inv, NothingYet, [Next]_vars PROVE NothingYet'
<1>1. CASE Untouched
  BY <1>1 DEF NothingYet, Untouched, Tables
<1>2. ASSUME NEW c \in Conns, ValidateOpen(c) PROVE NothingYet'
  <2>1. loc[c].msg \in OpenMsgs
    BY <1>2 DEF ValidateOpen, Inv, TasksOK, TaskOK
  <2>2. loc[c].msg.body \in Opens
    BY <2>1 DEF OpenMsgs
  <2>3. loc[c].msg.body.rid # None
    BY <2>2, Assumptions
  <2>4. /\ UNCHANGED <<adjrib, ribsent, ribtx>>
        /\ \/ remote_rid' = loc[c].msg.body.rid /\ remote_rid' \in names'
           \/ UNCHANGED <<remote_rid, names>>
    BY <1>2 DEF ValidateOpen
  <2> QED
    BY <2>3, <2>4 DEF NothingYet
<1>3. ASSUME NEW c \in Conns, WithdrawAll(c) PROVE NothingYet'
  <2>1. /\ UNCHANGED <<remote_rid, adjrib, ribtx, names>>
        /\ \A f \in SpeakerFamilies : ribsent'[f] \subseteq ribsent[f]
    BY <1>3 DEF WithdrawAll, nbvars
  <2> QED
    BY <2>1 DEF NothingYet
<1>4. ASSUME NEW c \in Conns, GoIdle(c) PROVE NothingYet'
  BY <1>4, Assumptions DEF GoIdle, NothingYet
<1>5. ASSUME NEW c \in Conns, adjrib_withdraw(c) \/ adjrib_add(c) PROVE NothingYet'
  <2>1. remote_rid # None
    BY <1>5, AtWork DEF adjrib_withdraw, adjrib_add, InSession
  <2> QED
    BY <1>5, <2>1 DEF adjrib_withdraw, adjrib_add, NothingYet, logvars
<1>6. ASSUME NEW c \in Conns, SendToRib(c) PROVE NothingYet'
  <2>1. remote_rid # None
    BY <1>6, AtWork DEF SendToRib, InSession
  <2>2. UNCHANGED <<remote_rid, ribtx, names>> /\ (ribtx \/ ribsent' = ribsent)
    BY <1>6, <2>1 DEF SendToRib, nbvars
  <2> QED
    BY <2>1, <2>2 DEF NothingYet
<1> QED
  BY <1>1, <1>2, <1>3, <1>4, <1>5, <1>6, UntouchedBy

\* A task that met no other is the only one at work.
LEMMA Apart ==
    ASSUME Inv, Stages, met = {}, NEW c \in Conns, Alive(c)
    PROVE  \A d \in Conns \ {c} : pc[d] \in {"none", "dead"}
  BY DEF Stages, Alone, Present, Alive

\* So it is enough to look at that task.
LEMMA MirrorTask ==
    ASSUME Inv, Stages, met = {}, NEW c \in Conns, Frame(c), Agreeing(c)',
           pc'[c] \notin Handling => Settled'
    PROVE  (\A d \in Conns : Agreeing(d)') /\ (Resting' => Settled')
<1>1. \A d \in Conns \ {c} : pc'[d] \in {"none", "dead"}
  BY Apart DEF Frame
<1>2. \A d \in Conns \ {c} : Agreeing(d)'
  BY <1>1 DEF Agreeing, HasRid
<1> QED
  BY <1>2 DEF Resting

\* Between two messages the task has nothing to add to the tables.
LEMMA AtRest ==
    ASSUME Inv, Stages, met = {}, NEW c \in Conns, Alive(c), Resting => Settled,
           pc[c] \notin Handling
    PROVE  Settled
  BY Apart DEF Resting, Handling

\* A step that touches no table, to and from places where they agree.
LEMMA MirrorKept ==
    ASSUME Inv, Settled, NEW c \in Conns, UNCHANGED Tables,
           pc'[c] \notin Handling, pc'[c] \in HasRid => loc'[c].rid = remote_rid
    PROVE  Agreeing(c)' /\ Settled'
<1>1. Settled'
  BY DEF Settled, Tables, Stamped
<1> QED
  BY <1>1 DEF Agreeing, Handling, Tables

\* The history only grows.
LEMMA HistoryGrows ==
    ASSUME Inv, Stages, [Next]_vars PROVE met \subseteq met' /\ names \subseteq names'
<1>1. CASE UNCHANGED vars
  BY <1>1 DEF vars, logvars
<1>2. CASE ConnectTask
  BY <1>2, ArrivesMeets, Blank DEF ConnectTask, ConnectStart, ConnectFails,
     ConnectSucceeds, logvars
<1>3. CASE Listener \/ \E c \in Inbound : AcceptMatched(c) \/ AcceptContended(c)
  BY <1>3, ArrivesMeets DEF Listener, AcceptMatched, AcceptContended, AcceptCheck,
     AcceptAdopt, logvars, Inv, Wired, Inbound
<1>4. ASSUME NEW c \in Conns, FsmTask(c) PROVE met \subseteq met' /\ names \subseteq names'
  <2>1. met' = met
    BY <1>4, FsmTaskStage DEF Frame
  <2>2. CASE ValidateOpen(c)
    BY <2>1, <2>2 DEF ValidateOpen
  <2>3. CASE WithdrawAll(c) \/ GoIdle(c) \/ adjrib_withdraw(c) \/ adjrib_add(c) \/ SendToRib(c)
    BY <2>1, <2>3 DEF WithdrawAll, GoIdle, adjrib_withdraw, adjrib_add, SendToRib, logvars
  <2>4. CASE \/ FsmStart(c) \/ FirstEvent(c) \/ SendOpen(c) \/ HandleEvent(c)
             \/ ReadMessage(c) \/ ReadError(c) \/ Push(c) \/ TakeTx(c)
             \/ collision_detection(c) \/ SpawnKeepalive(c) \/ Establish(c) \/ ReadPeer(c)
             \/ RequestClose(c) \/ StampUpdate(c) \/ Finish(c)
    BY <2>1, <2>4 DEF FsmStart, FirstEvent, SendOpen, HandleEvent, ReadMessage, ReadError,
       Push, TakeTx, collision_detection, SpawnKeepalive, Establish, ReadPeer, RequestClose,
       StampUpdate, Finish, nbvars, logvars
  <2> QED
    BY <1>4, <2>2, <2>3, <2>4 DEF FsmTask
<1>5. ASSUME NEW c \in Conns, HoldTimer(c) \/ KeepaliveTick(c) \/ RibMgrNotify \/ Peer(c)
      PROVE  met \subseteq met' /\ names \subseteq names'
  BY <1>5 DEF HoldTimer, HoldRead, HoldExpires, HoldSend, HoldStop, KeepaliveTick,
     RibMgrNotify, Peer, PeerSend, PeerClose, PeerReset, nbvars, logvars
<1> QED
  BY <1>1, <1>2, <1>3, <1>4, <1>5, Blank DEF Next

\* The peer keeps the name it had, if it had one; it introduces itself before it is
\* learnt from.
LEMMA ValidateOpenMirror ==
    ASSUME Inv, NothingYet, Settled, NEW c \in Conns, ValidateOpen(c),
           names \subseteq names', SamePeer'
    PROVE  Agreeing(c)' /\ Settled'
<1> DEFINE k == [loc[c] EXCEPT !.ev = "BGPOpenMsgErr"]
           r == loc[c].msg.body.rid
<1>1. /\ UNCHANGED <<adjrib, ribsent, lost>>
      /\ (remote_rid' = r /\ r \in names') \/ remote_rid' = remote_rid
      /\ Goto(c, "spawnka") \/ GotoWith(c, "push", k)
  BY DEF ValidateOpen
<1> HIDE DEF k, r
<1>2. pc'[c] \in {"spawnka", "push"}
  BY <1>1, Moves, MovesOnly
<1>3. Settled'
  <2>1. CASE remote_rid = None
    <3>1. \A f \in Shared : adjrib'[f] = {} /\ ribsent'[f] = {}
      BY <1>1, <2>1, Assumptions DEF NothingYet, Shared
    <3>2. \A f \in Shared : ribsent'[f] = Stamped(adjrib[f] \ lost[f])'
      BY <3>1 DEF Stamped
    <3> QED
      BY <3>2 DEF Settled
  <2>2. CASE remote_rid # None
    <3>1. remote_rid' = remote_rid
      BY <1>1, <2>2 DEF NothingYet, SamePeer
    <3> QED
      BY <1>1, <3>1 DEF Settled, Stamped
  <2> QED
    BY <2>1, <2>2
<1> QED
  BY <1>2, <1>3 DEF Agreeing, HasRid

\* The steps of the task that touch no table.
LEMMA OtherMirror ==
    ASSUME Inv, Stages, Settled, NEW c \in Conns, Untouched,
           \/ FsmStart(c) \/ FirstEvent(c) \/ SendOpen(c) \/ HandleEvent(c)
           \/ ReadMessage(c) \/ ReadError(c) \/ Push(c) \/ TakeTx(c)
           \/ collision_detection(c) \/ SpawnKeepalive(c) \/ Establish(c) \/ ReadPeer(c)
           \/ RequestClose(c) \/ StampUpdate(c) \/ Finish(c)
    PROVE  Agreeing(c)' /\ Settled'
<1>1. UNCHANGED Tables
  BY DEF Untouched
<1>2. CASE ReadMessage(c)
  <2> DEFINE m == Head(inbox[c])
             next == Dispatch(state, m.type)
             l == [NoLocals EXCEPT !.msg = m, !.seen = state]
  <2>1. next \in {"loop", "open", "notify", "establish", "withdraw", "update"}
    BY DEF Dispatch
  <2>2. pc[c] = "loop" /\ (pc' = pc \/ GotoWith(c, next, l))
    BY <1>2 DEF ReadMessage
  <2> HIDE DEF next, l
  <2>3. pc'[c] \in {"loop", "open", "notify", "establish", "withdraw", "update"}
    BY <2>1, <2>2, Moves
  <2> QED
    BY <1>1, <2>3, MirrorKept DEF Handling, HasRid
<1>3. CASE ReadPeer(c) \/ StampUpdate(c)
  <2>1. remote_rid # None
    BY <1>3, AtWork DEF ReadPeer, StampUpdate, InSession
  <2> DEFINE k == [loc[c] EXCEPT !.rid = remote_rid]
  <2>2. \E p \in {"purge", "adjwd"} : GotoWith(c, p, k)
    BY <1>3, <2>1 DEF ReadPeer, StampUpdate
  <2>3. k.rid = remote_rid
    BY DEF Inv, TypeOK, Locals
  <2> HIDE DEF k
  <2>4. pc'[c] \in {"purge", "adjwd"} /\ loc'[c].rid = remote_rid
    BY <2>2, <2>3, Moves
  <2> QED
    BY <1>1, <2>4, MirrorKept DEF Handling
<1>4. CASE TakeTx(c) \/ collision_detection(c) \/ SpawnKeepalive(c)
  <2>1. pc'[c] \in {"join", "push", "collide", "validate", "loop"}
    BY <1>4, Moves, MovesOnly DEF TakeTx, collision_detection, SpawnKeepalive, BackToLoop
  <2> QED
    BY <1>1, <2>1, MirrorKept DEF Handling, HasRid
<1>5. CASE \/ FsmStart(c) \/ FirstEvent(c) \/ SendOpen(c) \/ HandleEvent(c)
           \/ ReadError(c) \/ Push(c) \/ Establish(c) \/ RequestClose(c) \/ Finish(c)
  <2>1. \/ pc[c] = "loop" /\ pc' = pc
        \/ \E p \in {"first", "sendopen", "loop", "join", "dead"} :
             Goto(c, p) \/ \E l : GotoWith(c, p, l)
    BY <1>5 DEF FsmStart, FirstEvent, SendOpen, HandleEvent, ReadError, Push, Establish,
       RequestClose, Finish, EnterLoop, BackToLoop, Panic
  <2>2. pc'[c] \in {"first", "sendopen", "loop", "join", "dead"}
    BY <2>1, Moves, MovesOnly
  <2> QED
    BY <1>1, <2>2, MirrorKept DEF Handling, HasRid
<1> QED
  BY <1>2, <1>3, <1>4, <1>5

\* withdraw_neighbor_routes leaves nothing of the peer: all that was there was its.
LEMMA WithdrawAllMirror ==
    ASSUME Inv, Settled, NEW c \in Conns, Agreeing(c), WithdrawAll(c)
    PROVE  pc'[c] = "idle" /\ Agreeing(c)'
<1>1. /\ pc[c] = "purge" /\ Goto(c, "idle") /\ remote_rid' = remote_rid
  BY DEF WithdrawAll, nbvars
<1>2. pc'[c] = "idle" /\ loc'[c] = loc[c]
  BY <1>1, MovesOnly
<1>3. loc[c].rid = remote_rid
  BY <1>1 DEF Agreeing, HasRid
<1>4. \A f \in Shared : ribsent'[f] = {r \in ribsent[f] : r[1] # remote_rid}
  BY <1>3 DEF WithdrawAll, Shared
<1>5. \A f \in Shared : ribsent'[f] = {}
  BY <1>4 DEF Settled, Stamped
<1> QED
  BY <1>1, <1>2, <1>3, <1>5 DEF Agreeing

\* Then the Adj-RIB-In is emptied too.
LEMMA GoIdleMirror ==
    ASSUME Inv, NEW c \in Conns, Agreeing(c), GoIdle(c)
    PROVE  Agreeing(c)' /\ Settled'
<1>1. pc[c] = "idle" /\ Goto(c, "fails") /\ ribsent' = ribsent
      /\ adjrib' = [f \in AllFamilies |-> {}]
  BY DEF GoIdle
<1>2. pc'[c] = "fails"
  BY <1>1, MovesOnly
<1>3. \A f \in Shared : adjrib'[f] = {} /\ ribsent'[f] = {}
  BY <1>1, Assumptions DEF Agreeing, Shared
<1>4. \A f \in Shared : ribsent'[f] = Stamped(adjrib[f] \ lost[f])'
  BY <1>3 DEF Stamped
<1> QED
  BY <1>2, <1>4 DEF Agreeing, Settled, HasRid

\* The withdrawn prefixes leave the Adj-RIB-In first.
LEMMA adjrib_withdrawMirror ==
    ASSUME Inv, Settled, NEW c \in Conns, Agreeing(c), adjrib_withdraw(c)
    PROVE  pc'[c] = "adjadd" /\ Agreeing(c)'
<1>0. PICK u \in Updates : u = loc[c].msg.body
  BY AtWork DEF adjrib_withdraw, InSession
<1>1. /\ pc[c] = "adjwd" /\ Goto(c, "adjadd") /\ UNCHANGED <<remote_rid, ribsent, lost>>
      /\ adjrib' = [adjrib EXCEPT ![UpdateAf(u)] = @ \ UpdateWithdrawn(u)]
  BY <1>0 DEF adjrib_withdraw, logvars
<1>2. pc'[c] = "adjadd" /\ loc'[c] = loc[c]
  BY <1>1, MovesOnly
<1>3. loc[c].rid = remote_rid
  BY <1>1 DEF Agreeing, HasRid
<1>4. UpdateAf(u) \in AllFamilies /\ Shared \subseteq AllFamilies
  BY UpdateType, Assumptions DEF Shared
<1>5. adjrib \in [AllFamilies -> SUBSET Nlris]
  BY DEF Inv, TypeOK
<1>6. ASSUME NEW f \in Shared, f # UpdateAf(u)
      PROVE  (ribsent[f] = Stamped(adjrib[f] \ lost[f]))'
  <2>1. adjrib'[f] = adjrib[f]
    BY <1>1, <1>4, <1>5, <1>6
  <2> QED
    BY <1>1, <2>1 DEF Settled, Stamped
<1>7. ASSUME NEW f \in Shared, f = UpdateAf(u) PROVE Pending("adjadd", u, f)'
  <2>1. adjrib'[f] = adjrib[f] \ UpdateWithdrawn(u) /\ adjrib[f] \subseteq Nlris
    BY <1>1, <1>4, <1>5, <1>7
  <2>2. ribsent'[f] = Stamped(adjrib[f] \ lost[f])
    BY <1>1 DEF Settled
  <2>3. ribsent'[f] \subseteq Stamped(Nlris)'
    BY <1>1, <2>1, <2>2 DEF Stamped
  <2>4. \A n \in Nlris : <<remote_rid, n>> \in ribsent'[f] <=> n \in adjrib[f] \ lost[f]
    BY <2>2 DEF Stamped
  <2>5. adjrib'[f] \cap (UpdateWithdrawn(u) \ UpdateAdded(u)) = {}
    BY <2>1
  <2> QED
    BY <1>1, <2>1, <2>3, <2>4, <2>5 DEF Pending
<1> QED
  BY <1>0, <1>1, <1>2, <1>3, <1>6, <1>7 DEF Agreeing

\* Then the announced ones enter it.
LEMMA adjrib_addMirror ==
    ASSUME Inv, NEW c \in Conns, Agreeing(c), adjrib_add(c)
    PROVE  pc'[c] = "ribsend" /\ Agreeing(c)'
<1>0. PICK u \in Updates : u = loc[c].msg.body
  BY AtWork DEF adjrib_add, InSession
<1>1. /\ pc[c] = "adjadd" /\ Goto(c, "ribsend") /\ UNCHANGED <<remote_rid, ribsent, lost>>
      /\ adjrib' = [adjrib EXCEPT ![UpdateAf(u)] = @ \cup UpdateAdded(u)]
  BY <1>0 DEF adjrib_add, logvars
<1>2. pc'[c] = "ribsend" /\ loc'[c] = loc[c]
  BY <1>1, MovesOnly
<1>3. loc[c].rid = remote_rid
  BY <1>1 DEF Agreeing, HasRid
<1>4. \A f \in Shared : IF f = UpdateAf(u) THEN Pending("adjadd", u, f)
                        ELSE ribsent[f] = Stamped(adjrib[f] \ lost[f])
  BY <1>0, <1>1 DEF Agreeing
<1>5. UpdateAf(u) \in AllFamilies /\ Shared \subseteq AllFamilies
  BY UpdateType, Assumptions DEF Shared
<1>6. adjrib \in [AllFamilies -> SUBSET Nlris]
  BY DEF Inv, TypeOK
<1>7. ASSUME NEW f \in Shared, f # UpdateAf(u)
      PROVE  (ribsent[f] = Stamped(adjrib[f] \ lost[f]))'
  <2>1. adjrib'[f] = adjrib[f]
    BY <1>1, <1>5, <1>6, <1>7
  <2> QED
    BY <1>1, <1>4, <1>7, <2>1 DEF Stamped
<1>8. ASSUME NEW f \in Shared, f = UpdateAf(u) PROVE Pending("ribsend", u, f)'
  <2>1. adjrib'[f] = adjrib[f] \cup UpdateAdded(u)
    BY <1>1, <1>5, <1>6, <1>8
  <2>2. Pending("adjadd", u, f)
    BY <1>4, <1>8
  <2> QED
    BY <1>1, <2>1, <2>2 DEF Pending, Stamped
<1> QED
  BY <1>0, <1>1, <1>2, <1>3, <1>7, <1>8 DEF Agreeing

\* Then the RIB manager is told, if there is one and its channel: what it does not hold
\* after that is lost.
LEMMA SendToRibMirror ==
    ASSUME Inv, NothingYet, NEW c \in Conns, Agreeing(c), SendToRib(c)
    PROVE  Agreeing(c)' /\ Settled'
<1> DEFINE u == loc[c].msg.body
           A == UpdateAdded(u)
           W == UpdateWithdrawn(u)
           g == UpdateAf(u)
           loses(S) == [lost EXCEPT ![g] = (@ \ (A \cup W)) \cup S]
           told == ribtx /\ g \in SpeakerFamilies
<1>1. pc[c] = "ribsend" /\ remote_rid # None /\ u \in Updates /\ loc[c].rid = remote_rid
  BY AtWork DEF SendToRib, InSession, Agreeing, HasRid
<1>2. /\ GotoWith(c, "loop", NoLocals) /\ UNCHANGED <<remote_rid, adjrib>>
      /\ told => /\ ribsent' = [ribsent EXCEPT ![g] = (@ \cup Stamped(A)) \ Stamped(W)]
                 /\ lost' = loses(A \cap W)
      /\ ~told => ribsent' = ribsent /\ lost' = loses(A)
  BY <1>1 DEF SendToRib, BackToLoop, nbvars, Stamped
<1>3. pc'[c] = "loop"
  BY <1>2, Moves
<1>4. \A f \in Shared : IF f = g THEN Pending("ribsend", u, f)
                        ELSE ribsent[f] = Stamped(adjrib[f] \ lost[f])
  BY <1>1 DEF Agreeing
<1>5. g \in AllFamilies /\ Shared \subseteq AllFamilies /\ Shared \subseteq SpeakerFamilies
      /\ A \subseteq Nlris /\ W \subseteq Nlris
  BY <1>1, UpdateType, Assumptions DEF Shared
<1>6. /\ adjrib \in [AllFamilies -> SUBSET Nlris] /\ lost \in [AllFamilies -> SUBSET Nlris]
      /\ ribsent \in [SpeakerFamilies -> SUBSET (Rids \X Nlris)]
  BY DEF Inv, TypeOK
<1>7. ASSUME NEW f \in Shared, f # g PROVE ribsent'[f] = Stamped(adjrib[f] \ lost'[f])
  <2>1. ribsent'[f] = ribsent[f] /\ lost'[f] = lost[f]
    BY <1>2, <1>5, <1>6, <1>7
  <2> QED
    BY <1>4, <1>7, <2>1
<1>8. ASSUME NEW f \in Shared, f = g PROVE ribsent'[f] = Stamped(adjrib[f] \ lost'[f])
  <2>1. /\ ribsent[f] \subseteq Stamped(Nlris)
        /\ \A n \in Nlris \ (A \cup W) :
             <<remote_rid, n>> \in ribsent[f] <=> n \in adjrib[f] \ lost[f]
        /\ adjrib[f] \cap (W \ A) = {} /\ A \subseteq adjrib[f] /\ adjrib[f] \subseteq Nlris
    BY <1>4, <1>5, <1>6, <1>8 DEF Pending
  <2>2. CASE told
    <3>1. ribsent'[f] = (ribsent[f] \cup Stamped(A)) \ Stamped(W)
      BY <1>2, <1>5, <1>6, <1>8, <2>2
    <3>2. lost'[f] = (lost[f] \ (A \cup W)) \cup (A \cap W)
      BY <1>2, <1>5, <1>6, <1>8, <2>2
    <3>3. ribsent'[f] \subseteq Stamped(Nlris)
      BY <1>5, <2>1, <3>1 DEF Stamped
    <3>4. ASSUME NEW n \in Nlris
          PROVE  <<remote_rid, n>> \in ribsent'[f] <=> n \in adjrib[f] \ lost'[f]
      <4>1. <<remote_rid, n>> \in ribsent'[f] <=>
              (<<remote_rid, n>> \in ribsent[f] \/ n \in A) /\ n \notin W
        BY <3>1 DEF Stamped
      <4> QED
        BY <2>1, <3>2, <4>1
    <3> QED
      BY <2>1, <3>3, <3>4 DEF Stamped
  <2>3. CASE ~told
    <3>1. ~ribtx
      BY <1>5, <1>8, <2>3
    <3>2. ribsent[f] = {} /\ ribsent'[f] = {}
      BY <1>2, <1>5, <2>3, <3>1 DEF NothingYet
    <3>3. lost'[f] = (lost[f] \ (A \cup W)) \cup A
      BY <1>2, <1>5, <1>6, <1>8, <2>3
    <3>4. adjrib[f] \ lost'[f] = {}
      BY <2>1, <3>2, <3>3
    <3> QED
      BY <3>2, <3>4 DEF Stamped
  <2> QED
    BY <2>2, <2>3
<1>9. Settled'
  BY <1>2, <1>7, <1>8 DEF Settled, Stamped
<1> QED
  BY <1>3, <1>9 DEF Agreeing, HasRid

\* Whatever the one task does, the tables differ at most by the message at hand.
LEMMA TaskMirror ==
    ASSUME Inv, Stages, NothingYet, met = {}, NEW c \in Conns, Agreeing(c),
           Resting => Settled, FsmTask(c), [Next]_vars, names \subseteq names', SamePeer'
    PROVE  Agreeing(c)' /\ (pc'[c] \notin Handling => Settled')
<1>1. Alive(c)
  BY FsmTaskStage DEF Frame
<1>2. CASE pc[c] \in Handling
  <2>1. GoIdle(c) \/ adjrib_add(c) \/ SendToRib(c)
    BY <1>2 DEF Handling, FsmTask, FsmStart, FirstEvent, SendOpen, HandleEvent, ReadMessage,
       ReadError, Push, TakeTx, collision_detection, ValidateOpen, SpawnKeepalive,
       Establish, ReadPeer, WithdrawAll, RequestClose, StampUpdate, adjrib_withdraw, Finish
  <2> QED
    BY <2>1, GoIdleMirror, adjrib_addMirror, SendToRibMirror DEF Handling
<1>3. CASE pc[c] \notin Handling
  <2>1. Settled
    BY <1>1, <1>3, AtRest
  <2>2. ~GoIdle(c) /\ ~adjrib_add(c) /\ ~SendToRib(c)
    BY <1>3 DEF Handling, GoIdle, adjrib_add, SendToRib
  <2>3. CASE ValidateOpen(c)
    BY <2>1, <2>3, ValidateOpenMirror
  <2>4. CASE WithdrawAll(c) \/ adjrib_withdraw(c)
    BY <2>1, <2>4, WithdrawAllMirror, adjrib_withdrawMirror DEF Handling
  <2>5. CASE ~ValidateOpen(c) /\ ~WithdrawAll(c) /\ ~adjrib_withdraw(c)
    <3>1. \/ FsmStart(c) \/ FirstEvent(c) \/ SendOpen(c) \/ HandleEvent(c)
          \/ ReadMessage(c) \/ ReadError(c) \/ Push(c) \/ TakeTx(c)
          \/ collision_detection(c) \/ SpawnKeepalive(c) \/ Establish(c) \/ ReadPeer(c)
          \/ RequestClose(c) \/ StampUpdate(c) \/ Finish(c)
      BY <2>2, <2>5 DEF FsmTask
    <3>2. Untouched
      BY <3>1 DEF FsmStart, FirstEvent, SendOpen, HandleEvent, ReadMessage, ReadError,
         Push, TakeTx, collision_detection, SpawnKeepalive, Establish, ReadPeer,
         RequestClose, StampUpdate, Finish, nbvars, logvars, Untouched, Tables
    <3> QED
      BY <2>1, <3>1, <3>2, OtherMirror
  <2> QED
    BY <2>3, <2>4, <2>5
<1> QED
  BY <1>2, <1>3

\* A connection that comes or is refused, a timer, the peer: no handler goes on.
LEMMA StillMirror ==
    ASSUME Inv, Untouched, loc' = loc, \A d \in Conns : Agreeing(d), Resting => Settled,
           \A d \in Conns : \/ pc'[d] = pc[d]
                            \/ pc[d] = "none" /\ pc'[d] \in {"spawned", "dead"}
    PROVE  (\A d \in Conns : Agreeing(d)') /\ (Resting' => Settled')
<1>1. Resting' => Resting
  BY DEF Resting, Handling
<1>2. Settled => Settled'
  BY DEF Untouched, Tables, Settled, Stamped
<1>3. ASSUME NEW d \in Conns PROVE Agreeing(d)'
  <2>1. CASE pc'[d] = pc[d]
    BY <2>1 DEF Agreeing, Pending, Stamped, Untouched, Tables
  <2>2. CASE pc'[d] \in {"spawned", "dead"}
    BY <2>2 DEF Agreeing, HasRid
  <2> QED
    BY <2>1, <2>2
<1> QED
  BY <1>1, <1>2, <1>3

\* Every step keeps the tables in step.
LEMMA NextMirror == ASSUME Inv, Stages, Mirrored, [Next]_vars PROVE Mirrored'
<1>1. NothingYet /\ NothingYet'
  BY NextNothing DEF Mirrored
<1> SUFFICES ASSUME OneAtATime', SamePeer'
             PROVE  (\A d \in Conns : Agreeing(d)') /\ (Resting' => Settled')
  BY <1>1 DEF Mirrored
<1>2. met \subseteq met' /\ names \subseteq names' /\ met' = {}
  BY HistoryGrows DEF OneAtATime
<1>3. met = {} /\ SamePeer
  BY <1>2 DEF SamePeer
<1>4. (\A d \in Conns : Agreeing(d)) /\ (Resting => Settled)
  BY <1>3 DEF Mirrored, OneAtATime
<1>5. ASSUME NEW c \in Conns, FsmTask(c)
      PROVE  (\A d \in Conns : Agreeing(d)') /\ (Resting' => Settled')
  <2>1. Frame(c) /\ Agreeing(c)
    BY <1>4, <1>5, FsmTaskStage
  <2>2. Agreeing(c)' /\ (pc'[c] \notin Handling => Settled')
    BY <1>1, <1>2, <1>3, <1>4, <1>5, <2>1, TaskMirror
  <2> QED
    BY <1>3, <2>1, <2>2, MirrorTask
<1>6. CASE ~\E c \in Conns : FsmTask(c)
  <2>1. Untouched
    BY <1>6, UntouchedBy DEF FsmTask
  <2>2. loc' = loc /\ \A d \in Conns : \/ pc'[d] = pc[d]
                                       \/ pc[d] = "none" /\ pc'[d] \in {"spawned", "dead"}
    <3>1. CASE UNCHANGED vars \/ ConnectStart \/ ConnectFails
      BY <3>1 DEF vars, fsmvars, ConnectStart, ConnectFails
    <3>2. CASE ConnectSucceeds
      <4>1. pc[Out] = "none" /\ Out \in Conns /\ Goto(Out, "spawned")
        BY <3>2, Blank DEF ConnectSucceeds, Stages, Alone
      <4> QED
        BY <4>1, MovesOnly DEF Goto
    <3>3. CASE Listener \/ \E c \in Inbound : AcceptMatched(c) \/ AcceptContended(c)
      <4>1. \/ pc' = pc /\ loc' = loc
            \/ \E c \in Conns : /\ pc[c] = "none"
                                /\ Goto(c, "spawned") \/ Goto(c, "dead")
        BY <3>3 DEF Listener, AcceptMatched, AcceptContended, AcceptCheck, AcceptAdopt,
           Goto, fsmvars, Inv, Wired, Inbound, Stages, Alone
      <4> QED
        BY <4>1, MovesOnly DEF Goto
    <3>4. ASSUME NEW c \in Conns, HoldTimer(c) \/ KeepaliveTick(c) \/ RibMgrNotify \/ Peer(c)
          PROVE  pc' = pc /\ loc' = loc
      BY <3>4, BesideStage DEF Aside
    <3> QED
      BY <1>6, <3>1, <3>2, <3>3, <3>4, Blank DEF Next, ConnectTask
  <2> QED
    BY <1>4, <2>1, <2>2, StillMirror
<1> QED
  BY <1>5, <1>6

\* A neighbour without routes.
LEMMA InitMirror == ASSUME Init PROVE Mirrored
<1>1. \A f \in Shared : adjrib[f] = {} /\ ribsent[f] = {}
  BY Assumptions DEF Init, Shared
<1>2. Settled
  BY <1>1 DEF Settled, Stamped
<1>3. \A c \in Conns : Agreeing(c)
  BY DEF Init, Agreeing, HasRid
<1> QED
  BY <1>2, <1>3 DEF Mirrored, NothingYet, Init

\* The two tables agree, or differ by the message at hand, as long as the peer keeps its
\* router id and its connections come one at a time.
THEOREM MirroredAlways == Spec => []Mirrored
<1>1. Init => Mirrored
  BY InitMirror
<1>2. Inv /\ Stages /\ Mirrored /\ [Next]_vars => Mirrored'
  BY NextMirror
<1> QED
  BY <1>1, <1>2, Invariant, StagesAlways, PTL DEF Spec

\* Between two messages the Adj-RIB-In of the neighbour is what the RIB managers hold
\* of it but for the prefixes in lost, after any UPDATEs, a NOTIFICATION, the loss of the
\* connection and the sessions that follow.
THEOREM TablesAgree == Spec => []AdjRibMirror
<1>1. Mirrored => AdjRibMirror
  BY DEF Mirrored, AdjRibMirror, Resting, Settled, Shared, Stamped
<1> QED
  BY <1>1, MirroredAlways, PTL
=============================================================================
