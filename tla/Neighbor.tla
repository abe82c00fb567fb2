------------------------------ MODULE Neighbor ------------------------------
(***************************************************************************)
(* One configured BGP neighbour of ubgpd: the shared BGPNeighbor record    *)
(* (neighbor/session.rs) and every task that touches it.                   *)
(*                                                                         *)
(*   - the connect task       (neighbor/fsm.rs, connect)                   *)
(*   - the listener           (speaker/connection.rs, add_incoming)        *)
(*   - one fsm_tcp task per TCP connection, with its event channel         *)
(*   - the two timer tasks    (neighbor/timers.rs)                         *)
(*   - the RIB manager as the sender of RibUpdate events                   *)
(*                                                                         *)
(* The record is behind a tokio Mutex, so one step of a task is one        *)
(* critical section; what a task read in an earlier section and uses later *)
(* is kept in its locals (loc).  Path attributes are abstracted away: a    *)
(* route is a prefix.  The peer and TCP are external.                      *)
(***************************************************************************)
EXTENDS Naturals, Sequences, FiniteSets

CONSTANTS
    Conns,            \* TCP connections with this peer
    Out,              \* the one made by connect(); the listener accepts the others
    None,             \* Rust's None, and "no value" in a task's locals
    Rids, LocalRid,   \* router ids a peer may present, and our own
    RemoteAsn,        \* the AS number configured for the neighbour
    AllFamilies, Ipv4Unicast,
    Families,         \* the families configured for (advertised to) the neighbour
    SpeakerFamilies,  \* the families the speaker runs a RIB manager for
    Nlris,
    Opens,            \* bodies of the OPENs the peer sends: [rid, asn, mp]
    Updates,          \* bodies of its UPDATEs: [mp, withdrawn, nlri]
    QueueCap,         \* capacity of an event channel (100 in fsm_tcp)
    MaxMoves,         \* bound: what the peer does in all: messages, closes, resets
    InboxCap,         \* bound: messages in flight on one connection
    MaxFaults,        \* bound: connections the peer closes or the network resets
    MaxTicks          \* bound: timer expiries and RIB notifications; None: as many
                      \* as wanted, each finding its channel drained, which a
                      \* sleep of a second or more between two of them gives it

Inbound == Conns \ {Out}

States == {"Idle", "Connect", "Active", "OpenSent", "OpenConfirm", "Established"}

Events == {"KeepaliveTimerExpires", "TcpConnectionFails", "BGPOpen",
           "BGPOpenMsgErr", "OpenCollisionDump", "NotifMsg", "RibUpdate"}

Msgs == [type : {"Open"}, body : Opens]
          \cup [type : {"Update"}, body : Updates]
          \cup [type : {"Keepalive", "Notification"}, body : {None}]

PCs == {"none", "spawned", "first", "sendopen", "loop", "open", "collide",
        "validate", "spawnka", "push", "notify", "establish", "withdraw",
        "purge", "idle", "fails", "update", "adjwd", "adjadd", "ribsend", "join",
        "dead"}

Locals == [msg  : Msgs \cup {None},     \* the message being processed
           seen : States \cup {None},   \* the state read when it was dispatched
           chan : Conns \cup {None},    \* a sender cloned from n.tx
           ev   : Events \cup {None},   \* the event about to be sent on chan
           rid  : Rids \cup {None}]     \* peer_rid stamped on the routes

NoLocals == [msg |-> None, seen |-> None, chan |-> None, ev |-> None, rid |-> None]

ASSUME NeighborAssumption ==
    /\ Out \in Conns
    /\ None \notin Conns /\ None \notin Rids /\ None \notin Msgs
    /\ None \notin States /\ None \notin Events
    /\ Rids \subseteq Nat /\ LocalRid \in Nat
    /\ IsFiniteSet(AllFamilies) /\ Ipv4Unicast \in AllFamilies
    /\ Families \subseteq AllFamilies /\ SpeakerFamilies \subseteq AllFamilies
    /\ \A o \in Opens : o.rid \in Rids /\ o.mp \subseteq AllFamilies
    /\ \A u \in Updates :
         /\ u.withdrawn \subseteq Nlris /\ u.nlri \subseteq Nlris
         /\ u.mp \in Seq([kind : {"reach", "unreach"}, af : AllFamilies,
                          nlris : SUBSET Nlris])
    /\ QueueCap \in Nat /\ MaxMoves \in Nat /\ InboxCap \in Nat /\ MaxFaults \in Nat
    /\ MaxTicks \in Nat \cup {None}

VARIABLES
    state, tx, remote_rid, mp_received, ribtx, adjrib,     \* BGPNeighbor
    connecting, connect_retry_counter,                     \* the connect task
    listening, accepted,                                   \* the listener
    pc, loc, queue,                                        \* fsm_tcp tasks
    hold, holdtx, katimers, ticks,                         \* timer tasks
    link, inbox, sent, faults,                             \* TCP and the peer
    ribsent,      \* routes of this peer the RIB managers hold once they drained
    opens_sent,   \* OPEN messages written on each connection
    bug,          \* the expect("BUG: ...") that failed, if any
    met, names, lost        \* history, read by properties only: the connections that
                            \* had the record together with another (Out also if another
                            \* one had it when connect() failed), the router ids it held,
                            \* and the prefixes of the Adj-RIB-In that the RIB managers
                            \* were not told of, or told to withdraw

nbvars   == <<state, tx, remote_rid, mp_received, ribtx, adjrib>>
envvars  == <<link, inbox, sent, faults>>
spawners == <<connecting, connect_retry_counter, listening, accepted>>
timers   == <<hold, holdtx, katimers, ticks>>
fsmvars  == <<pc, loc, queue>>
history  == <<met, names, lost>>
logvars  == <<ribsent, opens_sent, bug, history>>
vars == <<nbvars, envvars, spawners, timers, fsmvars, logvars>>

Init ==
    /\ state = "Idle" /\ tx = None /\ remote_rid = None
    /\ mp_received = {} /\ ribtx = FALSE
    /\ adjrib = [f \in AllFamilies |-> {}]
    /\ connecting = "start" /\ connect_retry_counter = 0
    /\ listening = "accept" /\ accepted = None
    /\ pc = [c \in Conns |-> "none"]
    /\ loc = [c \in Conns |-> NoLocals]
    /\ queue = [c \in Conns |-> <<>>]
    /\ hold = [c \in Conns |-> "off"]
    /\ holdtx = [c \in Conns |-> None]
    /\ katimers = {} /\ ticks = 0
    /\ link = [c \in Conns |-> "down"]
    /\ inbox = [c \in Conns |-> <<>>]
    /\ sent = 0 /\ faults = 0
    /\ ribsent = [f \in SpeakerFamilies |-> {}]
    /\ opens_sent = [c \in Conns |-> 0]
    /\ bug = "none"
    /\ met = {} /\ names = {} /\ lost = [f \in AllFamilies |-> {}]

-----------------------------------------------------------------------------
(* Helpers                                                                 *)

Goto(c, label) == pc' = [pc EXCEPT ![c] = label] /\ UNCHANGED loc

GotoWith(c, label, locals) ==
    /\ pc' = [pc EXCEPT ![c] = label]
    /\ loc' = [loc EXCEPT ![c] = locals]

BackToLoop(c) == GotoWith(c, "loop", NoLocals)

Alive(c) == pc[c] \notin {"none", "dead"}

\* The connections that have the record, or that the listener has let in.
Others(c) == {d \in Conns \ {c} : Alive(d) \/ (listening = "adopt" /\ accepted = d)}

\* A connection comes to the record, where others may be.
Arrives(c) == met' = IF Others(c) = {} THEN met ELSE met \cup Others(c) \cup {c}

\* The receiver of a channel is dropped when its fsm_tcp task ends.
Closed(t) == pc[t] = "dead"
Room(t, n) == ~Closed(t) /\ Len(queue[t]) + n <= QueueCap
Enqueue(t, e) == queue' = [queue EXCEPT ![t] = Append(@, e)]
Tick(t) ==
    \/ MaxTicks = None /\ queue[t] = <<>> /\ UNCHANGED ticks
    \/ MaxTicks # None /\ ticks < MaxTicks /\ ticks' = ticks + 1

\* A write on a socket the peer closed still succeeds and provokes a reset.
CanWrite(c) == link[c] \in {"up", "eof"}
Written(c) == link' = [link EXCEPT ![c] = IF @ = "eof" THEN "reset" ELSE @]

\* What the end of a task drops: the socket and the receiver of its channel.
HangUp(c) ==
    /\ link' = [link EXCEPT ![c] = "down"]
    /\ inbox' = [inbox EXCEPT ![c] = <<>>]
    /\ queue' = [queue EXCEPT ![c] = <<>>]

-----------------------------------------------------------------------------
(* The connect task: run once per neighbour by connect_mgr.                *)

ConnectStart ==
    /\ connecting = "start"
    /\ connecting' = "tcp"
    /\ ribtx' = TRUE
    /\ UNCHANGED <<state, tx, remote_rid, mp_received, adjrib, envvars, timers,
                   connect_retry_counter, listening, accepted, fsmvars, logvars>>

\* Mutant: the retry counter runs backwards.
ConnectFailsCountingDown ==
    /\ connecting = "tcp"
    /\ connecting' = "done"
    /\ state' = "Idle"
    /\ connect_retry_counter' = connect_retry_counter - 1
    /\ met' = IF Others(Out) = {} THEN met ELSE met \cup {Out}
    /\ UNCHANGED <<tx, remote_rid, mp_received, ribtx, adjrib, envvars, timers,
                   listening, accepted, fsmvars, ribsent, opens_sent, bug, names, lost>>

\* The error path sleeps and returns: nothing calls connect() a second time.
ConnectFails ==
    /\ connecting = "tcp"
    /\ connecting' = "done"
    /\ state' = "Idle"
    /\ connect_retry_counter' = connect_retry_counter + 1
    /\ met' = IF Others(Out) = {} THEN met ELSE met \cup {Out}
    /\ UNCHANGED <<tx, remote_rid, mp_received, ribtx, adjrib, envvars, timers,
                   listening, accepted, fsmvars, ribsent, opens_sent, bug, names, lost>>

ConnectSucceeds ==
    /\ connecting = "tcp"
    /\ connecting' = "done"
    /\ state' = "Connect"
    /\ link' = [link EXCEPT ![Out] = "up"]
    /\ Goto(Out, "spawned") /\ Arrives(Out)
    /\ UNCHANGED <<tx, remote_rid, mp_received, ribtx, adjrib, inbox, sent, faults, timers,
                   connect_retry_counter, listening, accepted, queue, ribsent, opens_sent,
                   bug, names, lost>>

-----------------------------------------------------------------------------
(* The listener: add_incoming handles one accepted socket at a time.       *)

\* Three outcomes of the lookup are two here: try_lock fails when any task
\* holds the record, and the configured neighbour then looks unconfigured.
AcceptMatched(c) ==
    /\ listening = "accept" /\ pc[c] = "none"
    /\ listening' = "check" /\ accepted' = c
    /\ link' = [link EXCEPT ![c] = "up"]
    /\ UNCHANGED <<nbvars, inbox, sent, faults, connecting, connect_retry_counter, timers,
                   fsmvars, logvars>>

AcceptContended(c) ==
    /\ listening = "accept" /\ pc[c] = "none"
    /\ Goto(c, "dead")
    /\ UNCHANGED <<nbvars, envvars, spawners, timers, queue, logvars>>

Acceptable == {"Idle", "Active", "Connect"}

AcceptCheck ==
    /\ listening = "check"
    /\ \/ /\ state \in Acceptable
          /\ listening' = "adopt" /\ Arrives(accepted)
          /\ UNCHANGED <<accepted, link, inbox, queue, pc>>
       \/ /\ state \notin Acceptable
          /\ listening' = "accept" /\ accepted' = None
          /\ HangUp(accepted)
          /\ pc' = [pc EXCEPT ![accepted] = "dead"]
          /\ UNCHANGED met
    /\ UNCHANGED <<nbvars, sent, faults, connecting, connect_retry_counter, timers,
                   loc, ribsent, opens_sent, bug, names, lost>>

\* The state is written under a second lock, whatever it is by then.
AcceptAdopt ==
    /\ listening = "adopt"
    /\ listening' = "accept" /\ accepted' = None
    /\ state' = "Active"
    /\ Goto(accepted, "spawned")
    /\ UNCHANGED <<tx, remote_rid, mp_received, ribtx, adjrib, envvars, connecting,
                   connect_retry_counter, timers, queue, logvars>>

-----------------------------------------------------------------------------
(* fsm_tcp up to its loop.                                                 *)

EnterLoop(c) == BackToLoop(c) /\ hold' = [hold EXCEPT ![c] = "start"]

\* The new channel replaces n.tx even when another connection owns it.
FsmStart(c) ==
    /\ pc[c] = "spawned"
    /\ tx' = c
    /\ \/ /\ state \in {"Active", "Connect"}
          /\ GotoWith(c, "first", [NoLocals EXCEPT !.seen = state])
          /\ UNCHANGED hold
       \/ /\ state \notin {"Active", "Connect"}
          /\ EnterLoop(c)
    /\ UNCHANGED <<state, remote_rid, mp_received, ribtx, adjrib, envvars, spawners,
                   holdtx, katimers, ticks, queue, logvars>>

\* TcpConnectionConfirmed is for Active, TcpConnectionValid for Connect: the
\* event chosen from the first read is ignored if the second read differs.
FirstEvent(c) ==
    /\ pc[c] = "first"
    /\ \/ state = loc[c].seen /\ Goto(c, "sendopen") /\ UNCHANGED hold
       \/ state # loc[c].seen /\ EnterLoop(c)
    /\ UNCHANGED <<nbvars, envvars, spawners, holdtx, katimers, ticks, queue, logvars>>

\* A failed write leaves fsm_tcp before its cleanup: n.tx and the state stay.
SendOpen(c) ==
    /\ pc[c] = "sendopen"
    /\ \/ /\ CanWrite(c) /\ Written(c)
          /\ opens_sent' = [opens_sent EXCEPT ![c] = @ + 1]
          /\ state' = "OpenSent"
          /\ EnterLoop(c)
          /\ UNCHANGED <<inbox, queue>>
       \/ /\ ~CanWrite(c)
          /\ HangUp(c)
          /\ GotoWith(c, "dead", NoLocals)
          /\ UNCHANGED <<state, hold, opens_sent>>
    /\ UNCHANGED <<tx, remote_rid, mp_received, ribtx, adjrib, sent, faults, spawners,
                   holdtx, katimers, ticks, ribsent, bug, history>>

-----------------------------------------------------------------------------
(* fsm_loop, the event branch: process_event and its handlers.             *)

\* Mutant: no KEEPALIVE once the session is up.
ReplySilent(s, e) ==
    CASE e = "KeepaliveTimerExpires" /\ s \in {"Connect", "OpenConfirm"} -> "keepalive"
      [] e = "BGPOpen" /\ s = "OpenConfirm" -> "open"
      [] e = "RibUpdate" /\ s = "Established" -> "update"
      [] OTHER -> "nothing"

\* What the handler of event e in state s writes on the socket.
Reply(s, e) ==
    CASE e = "KeepaliveTimerExpires" /\ s \in {"Connect", "OpenConfirm", "Established"}
           -> "keepalive"
      [] e = "BGPOpen" /\ s = "OpenConfirm" -> "open"
      [] e = "RibUpdate" /\ s = "Established" -> "update"
      [] OTHER -> "nothing"

HandleEvent(c) ==
    /\ pc[c] = "loop" /\ queue[c] # <<>>
    /\ queue' = [queue EXCEPT ![c] = Tail(@)]
    /\ LET e == Head(queue[c])
           r == Reply(state, e)
       IN \/ /\ e = "TcpConnectionFails"
             /\ Goto(c, "join")
             /\ UNCHANGED <<link, opens_sent>>
          \/ /\ e # "TcpConnectionFails" /\ r = "nothing"
             /\ UNCHANGED <<pc, loc, link, opens_sent>>
          \/ /\ r \in {"open", "keepalive"} /\ CanWrite(c) /\ Written(c)
             /\ opens_sent' = [opens_sent EXCEPT ![c] = IF r = "open" THEN @ + 1 ELSE @]
             /\ UNCHANGED <<pc, loc>>
          \/ /\ r \in {"open", "keepalive"} /\ ~CanWrite(c)
             /\ Goto(c, "join")
             /\ UNCHANGED <<link, opens_sent>>
          \/ /\ r = "update"     \* nothing to send, or an error that is dropped
             /\ (CanWrite(c) /\ Written(c)) \/ UNCHANGED link
             /\ UNCHANGED <<pc, loc, opens_sent>>
    /\ UNCHANGED <<nbvars, inbox, sent, faults, spawners, timers, ribsent, bug, history>>

-----------------------------------------------------------------------------
(* fsm_loop, the message branch: process_message and its handlers.         *)

\* Mutant: a KEEPALIVE is taken for the end of the handshake in OpenSent too.
DispatchEager(s, t) ==
    CASE t = "Open" /\ s \in {"Active", "OpenSent"} -> "open"
      [] t = "Notification" /\ s \in {"Active", "OpenConfirm"} -> "notify"
      [] t = "Update" /\ s = "OpenSent" -> "notify"
      [] t = "Keepalive" /\ s \in {"OpenSent", "OpenConfirm"} -> "establish"
      [] t = "Notification" /\ s = "Established" -> "withdraw"
      [] t = "Update" /\ s = "Established" -> "update"
      [] OTHER -> "loop"

\* Where a message of type t leads a task that read state s.
\* A KEEPALIVE also resets keepalive_timer, which is not represented.
Dispatch(s, t) ==
    CASE t = "Open" /\ s \in {"Active", "OpenSent"} -> "open"
      [] t = "Notification" /\ s \in {"Active", "OpenConfirm"} -> "notify"
      [] t = "Update" /\ s = "OpenSent" -> "notify"
      [] t = "Keepalive" /\ s = "OpenConfirm" -> "establish"
      [] t = "Notification" /\ s = "Established" -> "withdraw"
      [] t = "Update" /\ s = "Established" -> "update"
      [] OTHER -> "loop"

ReadMessage(c) ==
    /\ pc[c] = "loop" /\ inbox[c] # <<>>
    /\ inbox' = [inbox EXCEPT ![c] = Tail(@)]
    /\ LET m == Head(inbox[c])
           next == Dispatch(state, m.type)
       IN \/ next = "loop" /\ UNCHANGED <<pc, loc>>
          \/ /\ next # "loop"
             /\ GotoWith(c, next, [NoLocals EXCEPT !.msg = m, !.seen = state])
    /\ UNCHANGED <<nbvars, link, sent, faults, spawners, timers, queue, logvars>>

\* TcpConnectionFails has no handler that acts; end of stream is not an error.
ReadError(c) ==
    /\ pc[c] = "loop" /\ link[c] = "reset"
    /\ Goto(c, "join")
    /\ UNCHANGED <<nbvars, envvars, spawners, timers, queue, logvars>>

Push(c) ==
    /\ pc[c] = "push"
    /\ \/ Room(loc[c].chan, 1) /\ Enqueue(loc[c].chan, loc[c].ev) /\ BackToLoop(c)
       \/ Closed(loc[c].chan) /\ GotoWith(c, "join", NoLocals) /\ UNCHANGED queue
    /\ UNCHANGED <<nbvars, envvars, spawners, timers, logvars>>

\* n.tx is cloned for a later send; without it the handler fails.
TakeTx(c) ==
    /\ pc[c] \in {"notify", "open"}
    /\ \/ tx = None /\ GotoWith(c, "join", NoLocals)
       \/ /\ tx # None /\ pc[c] = "notify"
          /\ GotoWith(c, "push", [loc[c] EXCEPT !.chan = tx, !.ev = "NotifMsg"])
       \/ /\ tx # None /\ pc[c] = "open"
          /\ GotoWith(c, "collide", [loc[c] EXCEPT !.chan = tx])
    /\ UNCHANGED <<nbvars, envvars, spawners, timers, queue, logvars>>

\* Mutant: any opening session counts, whatever its router id.
CollisionAny(rid) == tx # None /\ state \in {"OpenSent", "OpenConfirm"}

\* A session of the speaker that is opening with the same router id.  The only
\* neighbour here is this one, so it is compared with itself.
Collision(rid) ==
    tx # None /\ state \in {"OpenSent", "OpenConfirm"} /\ remote_rid = rid

collision_detection(c) ==
    /\ pc[c] = "collide"
    /\ LET rid == loc[c].msg.body.rid
           dump == GotoWith(c, "push", [loc[c] EXCEPT !.ev = "OpenCollisionDump"])
       IN \/ ~Collision(rid) /\ Goto(c, "validate") /\ UNCHANGED queue
          \/ /\ Collision(rid) /\ rid < LocalRid /\ Room(tx, 1)
             /\ Enqueue(tx, "OpenCollisionDump") /\ dump
          \/ /\ Collision(rid) /\ (rid >= LocalRid \/ Closed(tx))
             /\ dump /\ UNCHANGED queue
    /\ UNCHANGED <<nbvars, envvars, spawners, timers, logvars>>

\* Mutant: the AS number is not compared.
validate_open_any(o) == o.asn # 0

validate_open(o) == o.asn = RemoteAsn

ValidateOpen(c) ==
    /\ pc[c] = "validate"
    /\ LET o == loc[c].msg.body
       IN \/ /\ validate_open(o)            \* update_from_open
             /\ remote_rid' = o.rid /\ names' = names \cup {o.rid}
             /\ mp_received' = o.mp
             /\ state' = "OpenConfirm"
             /\ Goto(c, "spawnka")
          \/ /\ ~validate_open(o)
             /\ GotoWith(c, "push", [loc[c] EXCEPT !.ev = "BGPOpenMsgErr"])
             /\ UNCHANGED <<remote_rid, mp_received, state, names>>
    /\ UNCHANGED <<tx, ribtx, adjrib, envvars, spawners, timers, queue, ribsent, opens_sent,
                   bug, met, lost>>

\* Mutant: the OPEN of the passive side is sent by the active one too.
SpawnKeepaliveAndOpen(c) ==
    /\ pc[c] = "spawnka"
    /\ \/ tx = None /\ GotoWith(c, "join", NoLocals) /\ UNCHANGED katimers
       \/ /\ tx # None
          /\ katimers' = katimers \cup {tx}
          /\ GotoWith(c, "push", [loc[c] EXCEPT !.ev = "BGPOpen"])
    /\ UNCHANGED <<nbvars, envvars, spawners, hold, holdtx, ticks, queue, logvars>>

SpawnKeepalive(c) ==
    /\ pc[c] = "spawnka"
    /\ \/ tx = None /\ GotoWith(c, "join", NoLocals) /\ UNCHANGED katimers
       \/ /\ tx # None
          /\ katimers' = katimers \cup {tx}
          /\ IF loc[c].seen = "Active"
             THEN GotoWith(c, "push", [loc[c] EXCEPT !.ev = "BGPOpen"])
             ELSE BackToLoop(c)
    /\ UNCHANGED <<nbvars, envvars, spawners, hold, holdtx, ticks, queue, logvars>>

\* An expect() that fails ends the task without fsm_tcp's cleanup.
Panic(c, why) ==
    /\ bug' = why
    /\ HangUp(c)
    /\ GotoWith(c, "dead", NoLocals)

\* The families send_locrib walks.
Negotiated == Families \cap mp_received

\* One RibUpdate for every family of S, on the channel n.tx names.
Announce(S) ==
    \/ S = {} /\ UNCHANGED queue
    \/ /\ S # {} /\ tx # None /\ Room(tx, Cardinality(S))
       /\ queue' = [queue EXCEPT ![tx] = @ \o [i \in 1..Cardinality(S) |-> "RibUpdate"]]

\* KEEPALIVE in OpenConfirm: Established, then send_locrib under the same lock.
\* What send_locrib queued before it fails for a family without a RIB is not
\* represented.
Establish(c) ==
    /\ pc[c] = "establish"
    /\ state' = "Established"
    /\ \/ mp_received = {} /\ Panic(c, "caps")
       \/ /\ mp_received # {} /\ Announce(Negotiated)
          /\ Negotiated \subseteq SpeakerFamilies
          /\ BackToLoop(c) /\ UNCHANGED <<link, inbox, bug>>
       \/ ~(Negotiated \subseteq SpeakerFamilies) /\ Panic(c, "rib")
       \/ Negotiated \cap SpeakerFamilies # {} /\ tx = None /\ Panic(c, "tx")
       \/ /\ Negotiated \cap SpeakerFamilies # {} /\ tx # None /\ Closed(tx)
          /\ Panic(c, "send")
    /\ UNCHANGED <<tx, remote_rid, mp_received, ribtx, adjrib, sent, faults, spawners,
                   timers, ribsent, opens_sent, history>>

\* handle_notification, first section: the router id whose routes must go.
ReadPeer(c) ==
    /\ pc[c] = "withdraw"
    /\ GotoWith(c, "purge", [loc[c] EXCEPT !.rid = remote_rid])
    /\ UNCHANGED <<nbvars, envvars, spawners, timers, queue, logvars>>

\* withdraw_neighbor_routes: one message to the RIB manager of each family.
WithdrawAll(c) ==
    /\ pc[c] = "purge"
    /\ ribsent' = [f \in SpeakerFamilies |->
                     IF f \in Families
                     THEN {r \in ribsent[f] : r[1] # loc[c].rid}
                     ELSE ribsent[f]]
    /\ Goto(c, "idle")
    /\ UNCHANGED <<nbvars, envvars, spawners, timers, queue, opens_sent, bug, history>>

\* Mutant: the Adj-RIB-In survives the session.
GoIdleKeeping(c) ==
    /\ pc[c] = "idle"
    /\ state' = "Idle"
    /\ lost' = [f \in AllFamilies |-> {}]
    /\ Goto(c, "fails")
    /\ UNCHANGED <<tx, remote_rid, mp_received, ribtx, adjrib, envvars, spawners, timers,
                   queue, ribsent, opens_sent, bug, met, names>>

GoIdle(c) ==
    /\ pc[c] = "idle"
    /\ state' = "Idle"
    /\ adjrib' = [f \in AllFamilies |-> {}]
    /\ lost' = [f \in AllFamilies |-> {}]
    /\ Goto(c, "fails")
    /\ UNCHANGED <<tx, remote_rid, mp_received, ribtx, envvars, spawners, timers, queue,
                   ribsent, opens_sent, bug, met, names>>

\* Mutant: nobody is told to close the connection.
RequestNothing(c) ==
    /\ pc[c] = "fails"
    /\ BackToLoop(c)
    /\ UNCHANGED <<nbvars, envvars, spawners, timers, queue, logvars>>

RequestClose(c) ==
    /\ pc[c] = "fails"
    /\ BackToLoop(c)
    /\ \/ tx # None /\ Room(tx, 1) /\ Enqueue(tx, "TcpConnectionFails")
       \/ tx # None /\ Closed(tx) /\ UNCHANGED queue
       \/ tx = None /\ UNCHANGED queue
    /\ UNCHANGED <<nbvars, envvars, spawners, timers, logvars>>

\* handle_update looks at the first multiprotocol attribute only, and at the
\* IPv4 fields of the message only when there is none.
UpdateAf(u) == IF u.mp = <<>> THEN Ipv4Unicast ELSE Head(u.mp).af
UpdateAdded(u) ==
    IF u.mp = <<>> THEN u.nlri
    ELSE IF Head(u.mp).kind = "reach" THEN Head(u.mp).nlris ELSE {}
UpdateWithdrawn(u) ==
    IF u.mp = <<>> THEN u.withdrawn
    ELSE IF Head(u.mp).kind = "unreach" THEN Head(u.mp).nlris ELSE {}

\* RouteAttributes::new stamps the peer's router id on the routes.
StampUpdate(c) ==
    /\ pc[c] = "update"
    /\ \/ remote_rid = None /\ Panic(c, "rid")
       \/ /\ remote_rid # None
          /\ GotoWith(c, "adjwd", [loc[c] EXCEPT !.rid = remote_rid])
          /\ UNCHANGED <<link, inbox, queue, bug>>
    /\ UNCHANGED <<nbvars, sent, faults, spawners, timers, ribsent, opens_sent, history>>

adjrib_withdraw(c) ==
    /\ pc[c] = "adjwd"
    /\ LET u == loc[c].msg.body
       IN adjrib' = [adjrib EXCEPT ![UpdateAf(u)] = @ \ UpdateWithdrawn(u)]
    /\ Goto(c, "adjadd")
    /\ UNCHANGED <<state, tx, remote_rid, mp_received, ribtx, envvars, spawners, timers,
                   queue, logvars>>

adjrib_add(c) ==
    /\ pc[c] = "adjadd"
    /\ LET u == loc[c].msg.body
       IN adjrib' = [adjrib EXCEPT ![UpdateAf(u)] = @ \cup UpdateAdded(u)]
    /\ Goto(c, "ribsend")
    /\ UNCHANGED <<state, tx, remote_rid, mp_received, ribtx, envvars, spawners, timers,
                   queue, logvars>>

\* The RIB manager of the family adds first and withdraws afterwards.
SendToRib(c) ==
    /\ pc[c] = "ribsend"
    /\ LET u == loc[c].msg.body
           f == UpdateAf(u)
           routes(S) == {loc[c].rid} \X S
           loses(S) == lost' = [lost EXCEPT ![f] =
                         (@ \ (UpdateAdded(u) \cup UpdateWithdrawn(u))) \cup S]
       IN \/ remote_rid = None /\ Panic(c, "rid") /\ UNCHANGED <<ribsent, lost>>
          \/ /\ remote_rid # None /\ ribtx /\ f \in SpeakerFamilies
             /\ ribsent' = [ribsent EXCEPT ![f] =
                  (@ \cup routes(UpdateAdded(u))) \ routes(UpdateWithdrawn(u))]
             /\ loses(UpdateAdded(u) \cap UpdateWithdrawn(u))
             /\ BackToLoop(c) /\ UNCHANGED <<link, inbox, queue, bug>>
          \/ /\ remote_rid # None /\ ~(ribtx /\ f \in SpeakerFamilies)
             /\ loses(UpdateAdded(u))
             /\ BackToLoop(c) /\ UNCHANGED <<link, inbox, queue, bug, ribsent>>
    /\ UNCHANGED <<nbvars, sent, faults, spawners, timers, opens_sent, met, names>>

\* Mutant: the cleanup also forgets who the peer is.
FinishForgetful(c) ==
    /\ pc[c] = "join" /\ hold[c] = "done"
    /\ state' = "Idle" /\ tx' = None /\ remote_rid' = None
    /\ HangUp(c)
    /\ GotoWith(c, "dead", NoLocals)
    /\ UNCHANGED <<mp_received, ribtx, adjrib, sent, faults, spawners, timers, logvars>>

\* After fsm_loop: the hold timer is joined, then the record is reset whether
\* or not n.tx is still this connection's.
Finish(c) ==
    /\ pc[c] = "join" /\ hold[c] = "done"
    /\ state' = "Idle" /\ tx' = None
    /\ HangUp(c)
    /\ GotoWith(c, "dead", NoLocals)
    /\ UNCHANGED <<remote_rid, mp_received, ribtx, adjrib, sent, faults, spawners, timers,
                   logvars>>

-----------------------------------------------------------------------------
(* timer_hold (one per fsm_tcp) and timer_keepalive (one per accepted OPEN)*)

HoldRead(c) ==
    /\ hold[c] = "start"
    /\ \/ tx = None /\ hold' = [hold EXCEPT ![c] = "done"] /\ UNCHANGED holdtx
       \/ /\ tx # None
          /\ hold' = [hold EXCEPT ![c] = "sleep"]
          /\ holdtx' = [holdtx EXCEPT ![c] = tx]
    /\ UNCHANGED <<nbvars, envvars, spawners, katimers, ticks, fsmvars, logvars>>

HoldExpires(c) ==
    /\ hold[c] = "sleep" /\ Tick(holdtx[c])
    /\ hold' = [hold EXCEPT ![c] = "send"]
    /\ UNCHANGED <<nbvars, envvars, spawners, holdtx, katimers, fsmvars, logvars>>

\* Once it sleeps no more, the timer looks at the stop signal only after its send.
HoldSend(c) ==
    /\ hold[c] = "send"
    /\ \/ /\ Room(holdtx[c], 1)
          /\ Enqueue(holdtx[c], "KeepaliveTimerExpires")
          /\ hold' = [hold EXCEPT ![c] = "start"]
       \/ /\ Closed(holdtx[c])
          /\ hold' = [hold EXCEPT ![c] = "done"]
          /\ UNCHANGED queue
    /\ UNCHANGED <<nbvars, envvars, spawners, holdtx, katimers, ticks, pc, loc, logvars>>

\* fsm_tcp signals, or drops, the oneshot sender.
HoldStop(c) ==
    /\ hold[c] = "sleep" /\ pc[c] \in {"join", "dead"}
    /\ hold' = [hold EXCEPT ![c] = "done"]
    /\ UNCHANGED <<nbvars, envvars, spawners, holdtx, katimers, ticks, fsmvars, logvars>>

\* A tick of the timer that owns a sender of channel k: it ends in Idle, and
\* may find keepalive_timer beyond hold_time (the counter is not represented).
KeepaliveTick(k) ==
    /\ k \in katimers
    /\ \/ /\ state = "Idle" \/ Closed(k)
          /\ katimers' = katimers \ {k}
          /\ UNCHANGED <<queue, ticks>>
       \/ /\ state # "Idle" /\ Room(k, 1) /\ Tick(k)
          /\ Enqueue(k, "KeepaliveTimerExpires")
          /\ UNCHANGED katimers
    /\ UNCHANGED <<nbvars, envvars, spawners, hold, holdtx, pc, loc, logvars>>

\* process_rib_event tells the neighbour about a change of best routes.
RibMgrNotify ==
    /\ state = "Established" /\ tx # None
    /\ Room(tx, 1) /\ Tick(tx)
    /\ Enqueue(tx, "RibUpdate")
    /\ UNCHANGED <<nbvars, envvars, spawners, hold, holdtx, katimers, pc, loc, logvars>>

-----------------------------------------------------------------------------
(* The peer and the network                                                *)

PeerSend(c) ==
    /\ link[c] = "up" /\ sent + faults < MaxMoves /\ Len(inbox[c]) < InboxCap
    /\ \E m \in Msgs : inbox' = [inbox EXCEPT ![c] = Append(@, m)]
    /\ sent' = sent + 1
    /\ UNCHANGED <<nbvars, link, faults, spawners, timers, fsmvars, logvars>>

PeerClose(c) ==
    /\ link[c] = "up" /\ faults < MaxFaults /\ sent + faults < MaxMoves
    /\ link' = [link EXCEPT ![c] = "eof"]
    /\ faults' = faults + 1
    /\ UNCHANGED <<nbvars, inbox, sent, spawners, timers, fsmvars, logvars>>

\* A reset, or bytes that are no BGP message: read_message fails either way.
PeerReset(c) ==
    /\ link[c] = "up" /\ faults < MaxFaults /\ sent + faults < MaxMoves
    /\ link' = [link EXCEPT ![c] = "reset"]
    /\ faults' = faults + 1
    /\ UNCHANGED <<nbvars, inbox, sent, spawners, timers, fsmvars, logvars>>

-----------------------------------------------------------------------------
ConnectTask == ConnectStart \/ ConnectFails \/ ConnectSucceeds
Listener == AcceptCheck \/ AcceptAdopt
FsmTask(c) ==
    \/ FsmStart(c) \/ FirstEvent(c) \/ SendOpen(c) \/ HandleEvent(c)
    \/ ReadMessage(c) \/ ReadError(c) \/ Push(c) \/ TakeTx(c)
    \/ collision_detection(c) \/ ValidateOpen(c) \/ SpawnKeepalive(c)
    \/ Establish(c) \/ ReadPeer(c) \/ WithdrawAll(c) \/ GoIdle(c) \/ RequestClose(c)
    \/ StampUpdate(c) \/ adjrib_withdraw(c) \/ adjrib_add(c) \/ SendToRib(c)
    \/ Finish(c)
HoldTimer(c) == HoldRead(c) \/ HoldExpires(c) \/ HoldSend(c) \/ HoldStop(c)
Peer(c) == PeerSend(c) \/ PeerClose(c) \/ PeerReset(c)

Next ==
    \/ ConnectTask \/ Listener \/ RibMgrNotify
    \/ \E c \in Inbound : AcceptMatched(c) \/ AcceptContended(c)
    \/ \E c \in Conns : FsmTask(c) \/ HoldTimer(c) \/ KeepaliveTick(c) \/ Peer(c)

Spec == Init /\ [][Next]_vars

\* The runtime polls every ready task; select! picks among ready branches at
\* random, so neither the messages nor the events of a connection starve.
FairSpec ==
    /\ Spec
    /\ WF_vars(ConnectTask) /\ WF_vars(Listener)
    /\ \A c \in Conns :
         /\ WF_vars(FsmTask(c)) /\ SF_vars(HoldTimer(c))
         /\ SF_vars(HandleEvent(c)) /\ SF_vars(ReadMessage(c))

-----------------------------------------------------------------------------
(* Properties                                                              *)

\* Every field, task-local and channel has its type.
TypeOK ==
    /\ state \in States
    /\ tx \in Conns \cup {None}
    /\ remote_rid \in Rids \cup {None}
    /\ mp_received \subseteq AllFamilies
    /\ ribtx \in BOOLEAN
    /\ adjrib \in [AllFamilies -> SUBSET Nlris]
    /\ connecting \in {"start", "tcp", "done"} /\ connect_retry_counter \in Nat
    /\ listening \in {"accept", "check", "adopt"}
    /\ accepted \in Inbound \cup {None}
    /\ pc \in [Conns -> PCs] /\ loc \in [Conns -> Locals]
    /\ queue \in [Conns -> Seq(Events)]
    /\ hold \in [Conns -> {"off", "start", "sleep", "send", "done"}]
    /\ holdtx \in [Conns -> Conns \cup {None}]
    /\ katimers \subseteq Conns /\ ticks \in Nat
    /\ link \in [Conns -> {"down", "up", "eof", "reset"}]
    /\ inbox \in [Conns -> Seq(Msgs)] /\ sent \in Nat /\ faults \in Nat
    /\ ribsent \in [SpeakerFamilies -> SUBSET (Rids \X Nlris)]
    /\ opens_sent \in [Conns -> Nat]
    /\ bug \in {"none", "caps", "rib", "tx", "send", "rid"}
    /\ met \subseteq Conns /\ names \subseteq Rids
    /\ lost \in [AllFamilies -> SUBSET Nlris]

\* The tasks that assume a peer has introduced itself.
NeedsRid == {"spawnka", "establish", "withdraw", "purge", "idle", "update", "adjwd",
             "adjadd", "ribsend"}

\* Of those, the ones that already took the router id.
HasRid == {"purge", "idle", "adjwd", "adjadd", "ribsend"}

\* The expect("BUG: Remote RID should be set ...") of RouteAttributes::new and
\* of handle_update never fails: whatever connection made the record leave
\* OpenSent, a router id is stored before any task can act on an UPDATE, and it
\* stays there while a task that decided to act has not finished.
RidKnown ==
    /\ state \in {"OpenConfirm", "Established"} => remote_rid # None
    /\ \A c \in Conns : pc[c] \in NeedsRid => remote_rid # None
    /\ \A c \in Conns : pc[c] \in HasRid => loc[c].rid # None

ValidRids == {o.rid : o \in {p \in Opens : p.asn = RemoteAsn}}

\* No route reaches a RIB manager, and no router id the record, unless an OPEN
\* with the configured AS number carried that id: a second connection that
\* fails validate_open cannot lend its identity to the first one's routes.
OnlyValidatedPeer ==
    /\ remote_rid \in ValidRids \cup {None}
    /\ \A c \in Conns : loc[c].rid \in ValidRids \cup {None}
    /\ \A f \in SpeakerFamilies : \A r \in ribsent[f] : r[1] \in ValidRids

\* So far no connection had the record together with another one, nor while connect()
\* wrote its failure there.
OneAtATime == met = {}

\* The peer never changed its router id.
SamePeer == \A a, b \in names : a = b

\* In the middle of a message that changes the tables.
Handling == {"adjadd", "ribsend", "idle"}

\* Between two messages the RIB managers hold of this peer what its Adj-RIB-In holds,
\* under its router id, after UPDATEs, after a NOTIFICATION and through the loss of a
\* connection and the sessions that follow it (handle_update, withdraw_neighbor_routes),
\* but for the prefixes that were announced before the channels were there or in an
\* UPDATE that also withdrew them: the Adj-RIB-In withdraws first, the RIB manager last.
\* The peer keeps its router id and has one connection at a time.
AdjRibMirror ==
    OneAtATime /\ SamePeer /\ (\A c \in Conns : pc[c] \notin Handling) =>
        \A f \in Families \cap SpeakerFamilies :
            ribsent[f] = {remote_rid} \X (adjrib[f] \ lost[f])

\* A connection carries one OPEN of ours, whoever made it, whatever other connections
\* there were before and whatever the connect task does meanwhile: both handlers that
\* send one (TcpConnectionConfirmed and, in OpenConfirm, BGPOpen) do so on one connection
\* only if another one came while it had the record.
OneOpenPerConnection == \A c \in Conns : opens_sent[c] > 1 => c \in met

Fsm == INSTANCE BGPFsm WITH owned <- \E c \in Conns : Alive(c)

\* The neighbour only makes the transitions its handlers log, with the listener, the
\* connect task and one session after the other at work on its record.
FsmTransitions == Fsm!Spec

\* A session whose peer is gone does not stay Established: the next KEEPALIVE
\* the hold timer asks for meets a dead socket.
DeadPeerDetected ==
    (state = "Established" /\ \E c \in Conns : Alive(c) /\ link[c] \in {"eof", "reset"})
    ~> state = "Idle"

\* A NOTIFICATION on an established session ends the connection.
NotificationCloses ==
    \A c \in Conns : pc[c] = "withdraw" ~> pc[c] = "dead" /\ state = "Idle" /\ tx = None

\* An acceptable OPEN that answers ours is acted upon, in the first session of the record
\* and in later ones: it is mistaken for a collision at most when it has the router id
\* that an earlier session left in the record.
HandshakeProgress ==
    \A c \in Conns :
        ( /\ state = "OpenSent" /\ pc[c] = "loop" /\ inbox[c] # <<>>
          /\ Head(inbox[c]).type = "Open" /\ validate_open(Head(inbox[c]).body)
          /\ Head(inbox[c]).body.rid # remote_rid )
        ~> state = "OpenConfirm" \/ link[c] # "up"

\* No connection carries two OPENs of ours, with two connections on one record either.
OneOpen == \A c \in Conns : opens_sent[c] <= 1

\* The expect() of send_locrib on the capabilities an OPEN carried
\* (neighbor/message_handler.rs:443): never None once OPEN was processed.
CapabilitiesExpect == bug # "caps"

\* The expect() of send_locrib on n.tx (neighbor/message_handler.rs:470): the
\* channel is there when a session is established.
TxExpect == bug # "tx"

\* A collision (neighbor/message_handler.rs:374) is with another connection.
CollisionIsWithAnother ==
    [][\A c \in Conns :
         pc[c] = "collide" /\ pc'[c] = "push" /\ loc'[c].ev = "OpenCollisionDump" =>
             \E d \in Conns \ {c} : Alive(d)]_<<pc, loc>>

\* A session that is already opening or open turns an incoming connection away
\* (speaker/connection.rs:49).
RejectsWhenOpen == [][state' = "Active" => state \in Acceptable]_state

\* With no more messages to come the loop ends (neighbor/fsm.rs:212).
EndOfStreamEndsLoop ==
    \A c \in Conns :
        (pc[c] = "loop" /\ link[c] = "eof" /\ inbox[c] = <<>>) ~> pc[c] \in {"join", "dead"}
=============================================================================
