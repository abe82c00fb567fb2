------------------------------- MODULE Daemon -------------------------------
(***************************************************************************)
(* The whole daemon as tasks that wait for each other: who locks what in   *)
(* which order, and who sends on which bounded channel while it does.      *)
(*                                                                         *)
(* What a task does with one input is a script: the locks it takes and     *)
(* gives back and the events it sends, in the order of the code.  A        *)
(* critical section in which nothing is awaited is one instruction, a      *)
(* visit; two visits of one lock in a row are written once.  The data the  *)
(* tasks exchange are the subject of Neighbor and LocRib.                  *)
(***************************************************************************)
EXTENDS Naturals, Sequences, FiniteSets, SequencesExt

CONSTANTS
    Neighbors,             \* the configured neighbours
    EvCap, RibCap, FibCap, \* capacities of the channels (100 each)
    MaxInputs              \* bound: messages, connections, ticks and queries

ASSUME DaemonAssumption ==
    /\ EvCap \in Nat \ {0} /\ RibCap \in Nat \ {0} /\ FibCap \in Nat \ {0}
    /\ MaxInputs \in Nat
    /\ IsFiniteSet(Neighbors)

fsm(n) == <<"fsm", n>>
connect(n) == <<"connect", n>>
timer_hold(n) == <<"timer_hold", n>>
timer_keepalive(n) == <<"timer_keepalive", n>>
rib_mgr == <<"rib_mgr", "">>
fib_mgr == <<"fib_mgr", "">>
listen == <<"listen", "">>
grpc == <<"grpc", "">>

Nobody == <<"", "">>

Tasks == {<<k, n>> : k \in {"fsm", "connect", "timer_hold", "timer_keepalive"}, n \in Neighbors}
         \cup {rib_mgr, fib_mgr, listen, grpc}

\* Arc<Mutex<_>> of a neighbour, the speaker, the rib and the fib.
N(n) == <<"neighbor", n>>
S == <<"speaker", "">>
R == <<"rib", "">>
F == <<"fib", "">>
Locks == {N(n) : n \in Neighbors} \cup {S, R, F}

\* The channels, each with its only reader.
Ev(n) == <<"ev", n>>
RibQ == <<"ribq", "">>
FibQ == <<"fibq", "">>
Channels == {Ev(n) : n \in Neighbors} \cup {RibQ, FibQ}
Reader(c) == CASE c = RibQ -> rib_mgr [] c = FibQ -> fib_mgr [] OTHER -> fsm(c[2])
Cap(c) == CASE c = RibQ -> RibCap [] c = FibQ -> FibCap [] OTHER -> EvCap

States == {"Idle", "OpenSent", "OpenConfirm", "Established"}
Events == {"RibUpdate", "TcpConnectionFails", "other"}

-----------------------------------------------------------------------------
(* Instructions                                                            *)

I(op, on, arg) == [op |-> op, on |-> on, arg |-> arg]
Lock(l) == I("lock", l, "")
Unlock(l) == I("unlock", l, "")
Visit(l) == I("visit", l, "")
Become(n, s) == I("visit", N(n), s)          \* a visit that assigns attributes.state
TryLock(n) == I("try", N(n), "")             \* fails: only the speaker is given back
Send(c, e) == I("send", c, e)
Tell(n) == I("tell", Ev(n), "RibUpdate")     \* a send to an established neighbour
Join(n) == I("join", timer_hold(n), "")
Spawn(n) == I("spawn", fsm(n), "")

\* The loops over all neighbours, one instruction or three of each in turn.
AllNeighbors == SetToSeq(Neighbors)
VisitAll == [i \in DOMAIN AllNeighbors |-> Visit(N(AllNeighbors[i]))]
TellAll ==
    [i \in 1..(3 * Len(AllNeighbors)) |->
       LET n == AllNeighbors[1 + ((i - 1) \div 3)]
       IN <<Lock(N(n)), Tell(n), Unlock(N(n))>>[1 + ((i - 1) % 3)]]

-----------------------------------------------------------------------------
(* Scripts                                                                 *)

Connect(n) == <<Lock(N(n)), Lock(S), Unlock(S), Unlock(N(n)), Visit(N(n)), Spawn(n)>>
ConnectFails(n) == <<Lock(N(n)), Lock(S), Unlock(S), Unlock(N(n)), Visit(N(n))>>

\* Mutant: the lookup waits for the neighbour instead of skipping it.
AddIncomingLocks(n) ==
    <<Lock(S), Lock(N(n)), Unlock(N(n)), Unlock(S), Visit(N(n)), Spawn(n)>>

AddIncoming(n) == <<Lock(S), TryLock(n), Unlock(S), Visit(N(n)), Spawn(n)>>

\* fsm_tcp up to its loop: its channel, then TcpConnectionConfirmed or -Valid.
FirstEvent(n) == <<Visit(N(n)), Visit(S), Become(n, "OpenSent")>>

\* Mutant: the timer is joined in the critical section.
EndsHolding(n) == <<Lock(N(n)), Join(n), Unlock(N(n)), I("end", N(n), "")>>

\* fsm_tcp behind its loop: the hold timer is told to stop and joined.
Ends(n) == <<Join(n), I("end", N(n), "")>>

\* In OpenSent: process_message_active needs a second connection of the neighbour.
HandleOpen(n) ==
    <<Visit(N(n)), Visit(S)>> \o VisitAll \o <<Become(n, "OpenConfirm")>>

\* collision_detection sends while it holds the neighbour it found.
HandleOpenCollides(n, m) ==
    <<Visit(N(n)), Visit(S), Lock(N(m)), Send(Ev(m), "other"), Unlock(N(m)),
      Send(Ev(n), "other")>>

\* send_locrib runs in the critical section that sets Established.
Establish(n) ==
    <<Visit(N(n)), Lock(N(n)), Lock(S), Lock(R), Send(Ev(n), "RibUpdate"), Unlock(R), Unlock(S),
      I("unlock", N(n), "Established")>>

\* Mutant: the guard is never dropped.
HandleUpdateKeeps(n) == <<Visit(N(n)), Visit(S), Visit(N(n)), Lock(N(n)), Send(RibQ, "e")>>

HandleUpdate(n) ==
    <<Visit(N(n)), Visit(S), Visit(N(n)), Lock(N(n)), Send(RibQ, "e"), Unlock(N(n))>>

\* withdraw_neighbor_routes sends while it holds the speaker, the if let that
\* sends the event while it holds the neighbour.
HandleNotification(n) ==
    <<Visit(N(n)), Lock(S), Send(RibQ, "e"), Unlock(S), Become(n, "Idle"),
      Lock(N(n)), Send(Ev(n), "TcpConnectionFails"), Unlock(N(n))>>

\* process_event, and process_message for what only looks at the neighbour;
\* send_update takes nothing else either.
HandleEvent(n, e) == IF e = "TcpConnectionFails" THEN Ends(n) ELSE <<Visit(N(n))>>

HoldExpires(n) == <<Send(Ev(n), "other"), Visit(N(n))>>
KeepaliveTick(n) == <<Visit(N(n)), Send(Ev(n), "other")>>

\* process_rib_event, without and with a best path that changed.
RibQuiet == <<Lock(R), Visit(F), Unlock(R)>>
RibReports == RibQuiet \o <<Send(FibQ, "e")>> \o TellAll

FibSyncs == <<Lock(F), Lock(R), Unlock(R), Unlock(F)>>
FibRefreshes == <<Visit(F)>>

get_neighbor_config == <<Visit(S)>> \o VisitAll
get_rib == <<Lock(S), Visit(R), Unlock(S)>>

-----------------------------------------------------------------------------
VARIABLES
    script,     \* the instructions a task has left
    holder,     \* of each lock: a task, or Nobody
    chan,       \* what is in each channel
    state,      \* attributes.state
    open,       \* the neighbours with a running fsm_tcp, and so with a channel
    connected,  \* the neighbours whose one connect() has run
    inputs      \* how many inputs there were

vars == <<script, holder, chan, state, open, connected, inputs>>

\* Between two inputs: any sessions, nothing locked and nothing on its way.
Init ==
    /\ script = [t \in Tasks |-> <<>>]
    /\ holder = [l \in Locks |-> Nobody]
    /\ chan = [c \in Channels |-> <<>>]
    /\ state \in [Neighbors -> States]
    /\ open = {n \in Neighbors : state[n] # "Idle"}
    /\ connected \in {C \in SUBSET Neighbors :
                        \A n \in Neighbors : n \notin C => state[n] = "Idle"}
    /\ inputs = 0

Idle(t) == script[t] = <<>>
Begin(t, s) == Idle(t) /\ script' = [script EXCEPT ![t] = s]

Input == inputs < MaxInputs /\ inputs' = inputs + 1

Message(n) ==
    /\ Input
    /\ \/ /\ state[n] = "OpenSent"
          /\ \/ Begin(fsm(n), HandleOpen(n))
             \/ \E m \in Neighbors : /\ state[m] \in {"OpenSent", "OpenConfirm"}
                                     /\ Begin(fsm(n), HandleOpenCollides(n, m))
       \/ state[n] = "OpenConfirm" /\ Begin(fsm(n), Establish(n))
       \/ /\ state[n] = "Established"
          /\ Begin(fsm(n), HandleUpdate(n)) \/ Begin(fsm(n), HandleNotification(n))
       \/ n \in open /\ Begin(fsm(n), HandleEvent(n, "other"))
    /\ UNCHANGED <<holder, chan, state, open, connected>>

\* The socket fails or an error of process_message ends the loop.
ReadFails(n) ==
    /\ Input
    /\ n \in open /\ Begin(fsm(n), <<Visit(N(n))>> \o Ends(n))
    /\ UNCHANGED <<holder, chan, state, open, connected>>

\* connect_mgr starts one connect() for each neighbour.
Connects(n) ==
    /\ Input
    /\ n \notin connected /\ connected' = connected \cup {n}
    /\ Begin(connect(n), Connect(n)) \/ Begin(connect(n), ConnectFails(n))
    /\ UNCHANGED <<holder, chan, state, open>>

Accept(n) ==
    /\ Input
    /\ Begin(listen, AddIncoming(n))
    /\ UNCHANGED <<holder, chan, state, open, connected>>

TimerExpires(n) ==
    /\ Input
    /\ \/ n \in open /\ Begin(timer_hold(n), HoldExpires(n))
       \/ /\ state[n] \in {"OpenConfirm", "Established"}
          /\ Begin(timer_keepalive(n), KeepaliveTick(n))
    /\ UNCHANGED <<holder, chan, state, open, connected>>

Query ==
    /\ Input
    /\ Begin(grpc, get_neighbor_config) \/ Begin(grpc, get_rib)
    /\ UNCHANGED <<holder, chan, state, open, connected>>

FibTimeout ==
    /\ Input
    /\ chan[FibQ] = <<>> /\ Begin(fib_mgr, FibRefreshes)
    /\ UNCHANGED <<holder, chan, state, open, connected>>

\* A reader takes the next event of its channel.
Receive(c) ==
    /\ chan[c] # <<>>
    /\ \/ c = RibQ /\ (Begin(rib_mgr, RibQuiet) \/ Begin(rib_mgr, RibReports))
       \/ c = FibQ /\ Begin(fib_mgr, FibSyncs)
       \/ \E n \in Neighbors : c = Ev(n) /\ Begin(fsm(n), HandleEvent(n, Head(chan[c])))
    /\ chan' = [chan EXCEPT ![c] = Tail(@)]
    /\ UNCHANGED <<holder, state, open, connected, inputs>>

-----------------------------------------------------------------------------
(* One instruction of a task                                               *)

Op(t) == Head(script[t])
At(t, op) == script[t] # <<>> /\ Op(t).op = op
Go(t) == script' = [script EXCEPT ![t] = Tail(@)]

Assigned(n, s) == IF s = "" THEN state ELSE [state EXCEPT ![n] = s]

Acquire(t) ==
    /\ At(t, "lock") /\ holder[Op(t).on] = Nobody
    /\ holder' = [holder EXCEPT ![Op(t).on] = t]
    /\ Go(t) /\ UNCHANGED <<chan, state, open, connected, inputs>>

Release(t) ==
    /\ At(t, "unlock")
    /\ holder' = [holder EXCEPT ![Op(t).on] = Nobody]
    /\ state' = Assigned(Op(t).on[2], Op(t).arg)
    /\ Go(t) /\ UNCHANGED <<chan, open, connected, inputs>>

Visits(t) ==
    /\ At(t, "visit") /\ holder[Op(t).on] = Nobody
    /\ state' = Assigned(Op(t).on[2], Op(t).arg)
    /\ Go(t) /\ UNCHANGED <<holder, chan, open, connected, inputs>>

\* The state is Idle and n.tx is None; the receiver goes with what is in it.
FsmEnds(t) ==
    /\ At(t, "end") /\ holder[Op(t).on] = Nobody
    /\ LET n == Op(t).on[2]
       IN /\ state' = Assigned(n, "Idle") /\ open' = open \ {n}
          /\ chan' = [chan EXCEPT ![Ev(n)] = <<>>]
    /\ Go(t) /\ UNCHANGED <<holder, connected, inputs>>

\* add_incoming: a neighbour that is locked, or in a session, is not accepted.
Tries(t) ==
    /\ At(t, "try")
    /\ \/ holder[Op(t).on] = Nobody /\ Go(t)
       \/ holder[Op(t).on] # Nobody /\ script' = [script EXCEPT ![t] = <<Unlock(S)>>]
    /\ UNCHANGED <<holder, chan, state, open, connected, inputs>>

Closed(c) == c \in {Ev(n) : n \in Neighbors \ open}
Room(c) == Len(chan[c]) < Cap(c)

\* rib_mgr looks at the neighbour first; the error of a send to a closed channel
\* is logged or ends the task.
Skips(t) ==
    Closed(Op(t).on) \/ (Op(t).op = "tell" /\ state[Op(t).on[2]] # "Established")

Sends(t) ==
    /\ At(t, "send") \/ At(t, "tell")
    /\ \/ Skips(t) /\ UNCHANGED chan
       \/ /\ ~Skips(t) /\ Room(Op(t).on)
          /\ chan' = [chan EXCEPT ![Op(t).on] = Append(@, Op(t).arg)]
    /\ Go(t) /\ UNCHANGED <<holder, state, open, connected, inputs>>

Joins(t) ==
    /\ At(t, "join") /\ Idle(Op(t).on)
    /\ Go(t) /\ UNCHANGED <<holder, chan, state, open, connected, inputs>>

\* The connection becomes the neighbour's session, unless it has one.
Spawns(t) ==
    /\ At(t, "spawn")
    /\ LET n == Op(t).on[2]
       IN \/ n \in open /\ Go(t) /\ UNCHANGED open
          \/ /\ n \notin open /\ open' = open \cup {n}
             /\ script' = [script EXCEPT ![t] = Tail(@), ![fsm(n)] = FirstEvent(n)]
    /\ UNCHANGED <<holder, chan, state, connected, inputs>>

Step(t) ==
    \/ Acquire(t) \/ Release(t) \/ Visits(t) \/ Tries(t) \/ Sends(t) \/ Joins(t) \/ Spawns(t)
    \/ FsmEnds(t)

Inputs ==
    \/ \E n \in Neighbors :
         Message(n) \/ ReadFails(n) \/ Connects(n) \/ Accept(n) \/ TimerExpires(n)
    \/ Query \/ FibTimeout

Next ==
    \/ Inputs
    \/ \E c \in Channels : Receive(c)
    \/ \E t \in Tasks : Step(t)

Spec == Init /\ [][Next]_vars

-----------------------------------------------------------------------------
(* Properties                                                              *)

Ops == {"lock", "unlock", "visit", "try", "send", "tell", "join", "spawn", "end"}

\* Every guard is dropped: a lock belongs to a task that still has to give it
\* back, and no channel exceeds its capacity.
TypeOK ==
    /\ \A t \in Tasks : \A i \in DOMAIN script[t] : script[t][i].op \in Ops
    /\ \A l \in Locks : holder[l] # Nobody =>
          \E i \in DOMAIN script[holder[l]] :
             script[holder[l]][i].op = "unlock" /\ script[holder[l]][i].on = l
    /\ \A c \in Channels : chan[c] \in Seq(Events \cup {"e"}) /\ Len(chan[c]) <= Cap(c)
    /\ state \in [Neighbors -> States]

Held(t) == {l \in Locks : holder[l] = t}
Rank(l) == CASE l = S -> 2 [] l = R -> 3 [] l = F -> 4 [] OTHER -> 1

\* Every task but the FIB manager takes locks in the order neighbour, speaker,
\* rib, fib, and never two neighbours at once.
LockOrder ==
    \A t \in Tasks \ {fib_mgr} :
        At(t, "lock") \/ At(t, "visit") \/ At(t, "end") =>
            \A l \in Held(t) : Rank(l) < Rank(Op(t).on)

\* The task whose next step a task waits for, if any.
WaitsFor(t) ==
    IF Idle(t) THEN Nobody
    ELSE LET on == Op(t).on
         IN CASE Op(t).op \in {"lock", "visit", "end"} -> holder[on]
              [] Op(t).op = "join" -> IF Idle(on) THEN Nobody ELSE on
              [] Op(t).op \in {"send", "tell"} ->
                   IF Skips(t) \/ Room(on) THEN Nobody ELSE Reader(on)
              [] OTHER -> Nobody

\* The tasks that wait for each other, or for one that does, and never go on.
Stuck ==
    UNION {W \in SUBSET {t \in Tasks : WaitsFor(t) # Nobody} : \A t \in W : WaitsFor(t) \in W}

\* The two managers, which take rib and fib in opposite orders, are the only
\* tasks that ever wait for each other; others may wait for them then.
OnlyManagersDeadlock == Stuck # {} => {rib_mgr, fib_mgr} \subseteq Stuck
=============================================================================
