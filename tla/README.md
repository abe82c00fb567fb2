# TLA+ models of ubgpd

ubgpd is a small BGP daemon in Rust (`src/`): it opens BGP sessions with
configured neighbours, keeps what they announce in per-family tables, picks the
best path of every prefix, installs it in the Linux kernel and tells its other
neighbours. This directory models it from the bytes of a connection to a network of
speakers. TLC checks small instances, TLAPS proves the theorems of the
`...Proofs` modules for every value of the constants.

`PROJECT.json` lists the components, the runs, the mutants, the source lines
behind every definition, the hazards and the theorems. Paths below are relative
to `src/src/`.

## 1. Inventory

| component | state | operations | talks to |
|---|---|---|---|
| neighbour session: `neighbor/session.rs`, `fsm.rs`, `message_handler.rs`, `events.rs`, `types.rs` | one `BGPNeighbor` behind a tokio `Mutex`: state, `tx`, `remote_rid`, capabilities received, `ribtx`, Adj-RIB-In, counters | `connect`, `fsm_tcp`, `fsm_loop`, `process_event*`, `process_message*`, `handle_update`, `handle_notification`, `collision_detection`, `validate_open`, `update_from_open`, `send_locrib` | event channel (100) from timers, itself and the RIB managers; a channel to each RIB manager; the socket |
| timers: `neighbor/timers.rs` | a cloned sender, a stop signal | `timer_hold`, `timer_keepalive` | the event channel |
| listener, connection manager: `speaker/connection.rs` | one accepted socket | `listen`, `add_incoming`, `connect_mgr` | the neighbour record, with `try_lock` and two later locks |
| RIB manager: `speaker/manager.rs` | `Rib` behind a `Mutex`, one per family | `rib_mgr`, `process_rib_event`, `loc_rib_added`, `loc_rib_withdraw` | channel from every session; channel to the FIB manager; event channels of the neighbours |
| FIB manager, kernel FIB: `speaker/manager.rs`, `fib.rs` | `Fib` behind a `Mutex`: a snapshot of the kernel's table | `fib_mgr`, `refresh`, `sync`, `has_route`, `find_route`, `add_route` | netlink; locks the rib in `sync` |
| path preference: `rib.rs` | none | `Ord`, `PartialEq`, `is_valid`, `is_from_neighbor`, `prepend` | used by the RIB manager |
| speaker: `speaker/types.rs`, `ubgpd.rs` | neighbours, ribs, fibs behind a `Mutex` | `main`, `new`, `add_neighbor`, `start` | spawns everything above |
| UPDATE sending: `neighbor/connection.rs`, `rib.rs` | none | `send_update`, next-hop-self, `prepend`, grouping by attributes | the socket |
| framing: `bgp/codec.rs` | the buffer of `Framed` | `decode`, `encode`, `read_message` | the socket; `select!` in `fsm_loop` drops a pending read |
| wire formats, capabilities: `bgp/`, `neighbor/capabilities.rs` | none | encode and decode of messages, attributes, NLRI and capabilities | the codec |
| retry delay: `neighbor/fsm.rs` | none | `calculate_retry_delay` | `connect` |
| gRPC server and CLI: `grpc.rs`, `ubgpc.rs` | none | `get_neighbor_config`, `get_rib` | locks the speaker, then neighbours or a rib |
| configuration: `config.rs` | none | `read_config` | `main` |

What is hard about it:

- **One record, many tasks.** Every task of a neighbour locks `BGPNeighbor` for a
  few lines, unlocks, awaits and acts on what it read. A second connection of the
  same peer brings a second `fsm_tcp` task with its own channel but the same
  record.
- **Ends of a task.** `fsm_tcp` may end through its cleanup, through an early `?`
  or through a panic; only the first resets the record, and it resets it also
  when another connection owns it.
- **Two tables that must agree.** `handle_update` changes the Adj-RIB-In under the
  lock and sends the change to a RIB manager that applies it later in another order.
- **Two locks, two orders.** The RIB manager takes rib, then fib; the FIB manager
  takes fib, then rib.
- **A snapshot.** Reachability of a next hop is looked up in a copy of the kernel's
  table that is refreshed by somebody else between two looks.
- **Locks kept across a send** on a bounded channel whose reader needs the lock.
- **A stream without boundaries**, read by a future that may be dropped at any time.
- **Several speakers**: withdrawals and announcements overtake each other, and a
  speaker that comes up late must learn what the others already know.
- **Comparison by nine clauses**, one of them reversed and one conditional, on
  which a sorted list depends.

What makes each part correct:

- session: `expect("BUG: ...")` calls never fail; only logged transitions; one
  OPEN per connection that meets no other; only validated identities on routes; the Adj-RIB-In and
  the RIB managers agree; a dead peer, a NOTIFICATION and a good OPEN are acted upon;
- tables: lists sorted, no empty entry, no looping path, the Loc-RIB follows each
  Adj-RIB-In, what neighbours were told is the best usable path, and a usable
  prefix gets a kernel route;
- order: a strict weak order that agrees with equality, as `sort()` asks;
- connection: the messages of the peer in order, whatever way the stream is cut, and
  with the meaning they were sent with;
- daemon: no task waits for ever, every configured neighbour is connected to, no
  session is in a family without a table;
- network: routes reach every speaker and are taken back from every one; packets do
  not circle.

## 2. Modules

| module | models |
|---|---|
| `BGPFsm` | the abstract state machine: the transitions the handlers log, which connection may make them, and the return to Idle |
| `Neighbor` | one neighbour's record and all tasks that touch it |
| `MCNeighbor` | OPENs and UPDATEs for the runs of `Neighbor` |
| `NeighborProofs` | what holds of `Neighbor` with any number of connections, and as long as they come one at a time: its refinement of `BGPFsm` among it |
| `RouteOrder` | the preference order, the sort of a list, validity of a path |
| `PathList` | what the RIB manager does with the list of one prefix; shared by `LocRib` and `Network` |
| `PathListProofs` | the order is a strict weak order, and what the operations on a list do |
| `LocRib` | RIB manager, FIB manager, both locks, both channels, the kernel's table |
| `MCLocRib` | paths, next hops and kernel tables for the runs of `LocRib` |
| `LocRibProofs` | the tables of `LocRib`, for any peers, prefixes and paths |
| `MessageStream` | what framing promises: messages in order, an error only for a reason |
| `Framing` | the codec under tokio's `Framed`, `read_message`, and the `select!` that drops it |
| `MCFraming` | messages for the run of `Framing` |
| `FramingProofs` | `Framing` implements `MessageStream` |
| `Wire`, `MCWire` | the bytes of OPEN and UPDATE, encoded and decoded; the messages tried |
| `Daemon`, `MCDaemon` | every task of the daemon as the locks it takes and the channels it sends on |
| `DaemonProofs` | who holds a lock, in which order locks are taken, and who waits for whom |
| `Network`, `MCNetwork` | several speakers that tell each other their best paths; topologies |
| `NetworkProofs` | what holds of a network of any topology |
| `DeliveryProofs` | what a peer will hold once it has read what is on its way: best paths arrive, packets do not circle, and a quiet network has what is announced |
| `Startup`, `RetryDelay`, `MCStartup` | from the configuration file to the first sessions; the delay after a failed connection; files and values |
| `StartupProofs` | what holds for any file and any delay |

How they fit together: bytes become messages in `Framing` and `Wire`; a message is
handled by one task of `Neighbor`, which hands UPDATEs to the managers of `LocRib`;
`Network` composes the managers of several speakers with the sessions between them,
each reduced to its last two states; `Daemon` has all tasks and locks of one daemon
and none of the data; `Startup` is how the tasks come to be.

`Neighbor` and `LocRib` meet at the RIB manager's channel: `ribsent` in `Neighbor`
is what a manager holds of this peer once it has drained its channel, and
`adjrib`/`Learn` in `LocRib` stand for the sessions.

### Neighbor

One step of a task is one critical section of the record's mutex. What a task
read earlier and still uses is in its locals `loc[c]` (message, state seen,
cloned sender, event, router id), and `pc[c]` names the section that comes next:

| `pc` | action | code |
|---|---|---|
| `spawned`, `first`, `sendopen` | `FsmStart`, `FirstEvent`, `SendOpen` | `fsm_tcp` to its loop, the first event and its handler |
| `loop` | `HandleEvent`, `ReadMessage`, `ReadError` | the branches of `fsm_loop`'s `select!` |
| `open`, `notify` | `TakeTx` | clone of `n.tx` in the OPEN handlers and in the handlers that queue `NotifMsg` |
| `collide`, `validate`, `spawnka` | `collision_detection`, `ValidateOpen`, `SpawnKeepalive` | the rest of the OPEN handlers |
| `push` | `Push` | a send on the cloned channel |
| `establish` | `Establish` | KEEPALIVE in OpenConfirm with `send_locrib` |
| `withdraw`, `purge`, `idle`, `fails` | `ReadPeer`, `WithdrawAll`, `GoIdle`, `RequestClose` | `handle_notification` |
| `update`, `adjwd`, `adjadd`, `ribsend` | `StampUpdate`, `adjrib_withdraw`, `adjrib_add`, `SendToRib` | `handle_update` |
| `join` | `Finish` | the join of the hold timer and the cleanup |

Around it: `ConnectStart/Fails/Succeeds` (`connect`), `AcceptMatched`,
`AcceptContended`, `AcceptCheck`, `AcceptAdopt` (`add_incoming`, with the
`try_lock` that makes a configured peer look unconfigured), `HoldRead`,
`HoldExpires`, `HoldSend`, `HoldStop` and `KeepaliveTick` (timers), and
`RibMgrNotify` (`process_rib_event`). `PeerSend`, `PeerClose` and `PeerReset` are the
external peer and network. A panic is the action `Panic`: the task ends without its
cleanup, and `bug` remembers which `expect` it was.

Three variables are history, which no guard reads. `met` has the connections that had the
record together with another one, from the moment the listener let the second in, and the
dialled one if another had the record when `connect` wrote its failure there; `names`
the router ids the record had; `lost` the prefixes of the Adj-RIB-In that the RIB
managers were not told of (the session had no channel yet), or were told to withdraw after
they were announced in the same UPDATE. `OneAtATime` says that `met` is empty: the listener
and the connect task work, sessions come and go, and no two have the record at once.

Abstractions, and what they leave out:

- A route is a prefix; path attributes are `LocRib`'s subject.
- Durations are absent: a timer may expire whenever its channel has been drained
  (or a bounded number of times). `hold_time` and the counter `keepalive_timer`
  are not represented.
- A lock kept across a blocking send (`send_locrib`, `handle_notification`,
  `handle_update`, `process_rib_event`) is not represented, so neither are the
  waits of others for it; they are `Daemon`'s subject.
- `send_locrib` sends one `RibUpdate` per negotiated family in one step; what it
  queued before panicking on a family without a RIB is dropped.
- `validate_open` and `update_from_open` are one step (the first reads nothing
  another task changes), as are the write of the OPEN and the state that follows it.
- Bytes that do not decode are a read error (`PeerReset`); which do is `Framing`'s and
  `Wire`'s subject.
- Of a message the peer may send any number; `MaxMoves` bounds, in the runs, what it does in
  all: messages, closes and resets.

### RouteOrder and LocRib

A path is a record of naturals that grow as the Rust values do, so `Less` can say
"the first part that differs decides" in one line; `Part` lists the parts in
`cmp`'s order. `SortReverse` is defined by where a stable sort and a reversal put
each element; `Ordered` checks it in every reachable table.

`LocRib` has one manager of each kind for one address family. `rib_lock` and
`fib_lock` are the guards the code keeps across awaits; a lock taken and released
without an await in between is the guard `fib_lock = "free"` of a step. `AddOne` and
`AddReach` are one iteration of `loc_rib_added` around its second look at the fib,
`WithdrawOne` one of `loc_rib_withdraw`. `told` is what an already established
neighbour knows after the `RibUpdate` events. `Refresh`, `SyncLock`, `Install` are
`fib_mgr`; a dump cut short, a netlink connection that fails in `refresh` (the
manager dies) or in `sync` (which returns), and a request of `add_route` that netlink
refuses each spend one unit of `MaxChanges`.
`Covers` is longest-prefix containment reduced to a table; the next hop is of the
prefix's family. The kernel is external: an add with `CREATE|EXCL` fails for a
destination that has a route, and the code ignores that error as it does all others.

An UPDATE may withdraw prefixes that it announces. `handle_update` withdraws them from the
Adj-RIB-In and adds them then, the RIB manager adds them and withdraws them then, so the
Adj-RIB-In has a path that the Loc-RIB has not. The history variable `crossed` has those
prefixes of each peer, as long as no later UPDATE names them, and `LocRibFollowsAdjRib`
says that they are all the difference there is.

### Framing and Wire

`Framing` counts bytes: the stream is a sequence of messages with an offset each,
`arrived`, `filled` and `consumed` are how far TCP, `Framed`'s buffer and the decoder
are. `decode` is one call of the codec, `BeginRead`, `Fill`, `Decode` the poll loop of
`Framed`, `Cancel` a `select!` that takes the other branch. The refinement mapping to
`MessageStream` forgets the offsets. `Framed` and TCP are external.

`Wire` spells the bytes out. A message of ours goes through the encoder and then the
decoder of a peer that runs ubgpd; a message of another implementation is encoded the
way the RFCs say and decoded by ubgpd; its MP attributes may be MP_REACH or MP_UNREACH and
have a length of one byte or of two. Every decoder returns what it read, where it
stopped, and `ok`, `err` or `panic`. The loops are recursive, so `Wire` has no proofs.

### Daemon

A task is the script of what it still does with its input: `lock`, `unlock`, `visit`
(a lock taken and released with no await in between), `try`, `send`, `tell` (a send
whose failure is ignored), `join`, `spawn`, `end`. One definition per handler gives
the script, in the order of the code; the session states decide which script a message
starts. Inputs (a message, a connection, a timer, a gRPC query) come in any order.

### Network

`rib` holds the Loc-RIB of every speaker, `wire` all that is on its way between two of
them, in the order of one TCP connection. `Process` is one event of a RIB manager,
`Report` its walk over the neighbours, `Messages` what `send_update` may make of a
`RibUpdate`: it groups by the coarse `PartialEq`, so the attributes of several paths
may end up in one UPDATE in the order of a `HashMap`. Sessions come up through
`KeepaliveTimerExpires` and `HandleKeepalive`, and break in `Break`, after which both
ends are Idle, what was learnt stays, and nothing reconnects. Every next hop is
reachable. The topology is chosen in the initial state.

Two fields of a path and two variables are ghosts, which no guard reads: `via`, the way
a path came; `own`, the AS path its sender had; `missed`, the ends that dropped an UPDATE
in OpenConfirm; and `untold`, the prefixes whose best path a router has not reported.
A best path goes unreported in two ways. `loc_rib_withdraw` reports the loss of the best path as a
withdrawal even if another path takes over (`BestIsPropagated`). And `loc_rib_added`
reports a path only if it is greater than the best one, while sorting and reversing the
list puts a path that ties with the best one, a newer one of the same internal peer,
before it. `PeersHaveBest`, `QuietIsExact` and `Converges` are stated for the others.

### Startup and RetryDelay

A configuration is a record with `None` for what the file leaves out. `read_config`
fills defaults, `Inherit` is what `main` gives a neighbour, `Start` creates the tables,
`Connect`, `ConnectFails`, `Wake` and `ConnectSucceeds` are the one attempt of
`connect`, `add_incoming` runs beside it. A session is reduced to the families it
negotiates. `calculate_retry_delay` returns the set of the delays its jitter allows, and
`ConnectFails` sleeps for one of them. Since there is one attempt only, the counter is
never above 1 here; `DelayInRange` and `BacksOff` also ask what the delay would be after
up to 13 failures.

Nothing compares the families of a neighbour with those of the speaker. `Wider(h)` says that
the file gives the neighbour at `h` one that the speaker lacks; `RibExists` says that only
sessions of such a neighbour meet a family without a table.

## 3. Runs

| run | instance | shows |
|---|---|---|
| `session` | two connections, one dialled and one accepted, one at a time, fair; three kinds of OPEN with two router ids, three UPDATEs, 3 moves of the peer, 1 fault (121,511 states) | `TypeOK`; `Neighbor` implements `BGPFsm` (`FsmTransitions`); `DeadPeerDetected`, `NotificationCloses`, `HandshakeProgress` |
| `race` | a dialled and an accepted connection, together or in turn, an UPDATE that withdraws what it announces, 4 moves of the peer, 3 where the two meet, 1 fault (3.2 million states) | `RidKnown`, `OnlyValidatedPeer`, `OneOpenPerConnection`, `AdjRibMirror` |
| `tables` | 1 prefix, an eBGP and an iBGP peer, 4 paths, 3 messages that may withdraw what they announce, or 2 and one change or error of the kernel (1.7 million states) | `TypeOK`, `Ordered`, `NoEmptyEntry`, `NoLoopedPath`, `AdvertisedIsBest`, `QuiescentInstalled`, `LocRibFollowsAdjRib` |
| `stream` | two messages of 3 good lengths and 5 malformed kinds, cut at any byte that matters, fair | `TypeOK`, `AtBoundary`; `Framing` implements `MessageStream` (`IsMessageStream`); `CompleteIsDelivered` |
| `wire` | every IPv4 prefix length, AS paths up to 510 hops, all families; capabilities of others in up to 3 per parameter and filled to 255 bytes; MP_UNREACH and MP_REACH of others with prefixes of every length of both families, one or two next hops, and lengths of one byte and of two | `TypeOK`, `FamiliesFound`, `OurUpdatesArrive`, `PeerMpArrives` |
| `tasks` | two neighbours in any session states, any two inputs | `TypeOK`, `LockOrder`, `OnlyManagersDeadlock` |
| `routes` | six networks: a ring of ASes (3 messages of an origin), one with a break, a mesh in one AS, a pair with two origins, a line with paths that tie, a line whose sessions come up | `TypeOK`, `NoPathRevisits`, `NoGhostRoutes`, `NoForwardingLoop`, `QuietIsExact`, `PeersHaveBest` |
| `converge` | the line whose sessions come up, fair | `Converges` |
| `start` | 29 files, two of them with neighbours wider than the speaker, 11 base delays with backoff and 4 without, 14 counters, two incoming connections, fair | `TypeOK`, `RibExists`, `AllTried`, `RibtxFollows`; `DelayInRange`, `BacksOff` |

Three runs end in a counterexample, each against a line of the repository (quoted
under `findings`):

| run | property | what happens |
|---|---|---|
| `two_sockets` | `TxExpect` | the cleanup of one connection clears the other's `n.tx`, which then panics when it establishes |
| `locks` | `UpdateProcessing` | rib-then-fib against fib-then-rib: both managers wait for good |
| `table` | `OwnAttributes` | the table sent to a new session is one UPDATE with the attributes of several paths, and every prefix gets the last ones |

### Further counterexamples

These configurations are kept beside the runs. Each names a property that states what a
line of the repository says, and TLC violates it:

| configuration | property | what the code does | what the repository says |
|---|---|---|---|
| `MCNeighbor_no_mp` | `CapabilitiesExpect` | an OPEN without multiprotocol capability, then a KEEPALIVE: `send_locrib` panics | `neighbor/message_handler.rs:443` "BUG: Received capabilities should be set" |
| `MCNeighbor_second_session` | `CollisionIsWithAnother` | `remote_rid` survives the session, and the next OPEN collides with its own record | `neighbor/message_handler.rs:383` "Collision detected!" |
| `MCNeighbor_two_opens` | `OneOpen` | of two connections on one record the dialled one finds the state Active that the accepted one wrote, answers the peer's OPEN with `BGPOpen`, and so carries a second OPEN | `README.md:3` "Handles basic peering" |
| `MCNeighbor_busy` | `RejectsWhenOpen` | the state passes OpenSent between `add_incoming`'s two locks and is set to Active | `speaker/connection.rs:49` "Rejecting connection" |
| `MCNeighbor_eof` | `EndOfStreamEndsLoop` | end of stream only disables a `select!` branch | `neighbor/fsm.rs:212` "FSM loop ended" |
| `MCLocRib_alternative` | `BestIsPropagated` | losing the best path is reported as a withdrawal although another path takes over | `speaker/manager.rs:182` "need to be propagated" |
| `MCLocRib_crossed` | `TablesEqual` | a prefix that an UPDATE both withdraws and announces is in the Adj-RIB-In and not in the Loc-RIB | `README.md:3` "UPDATE processing" |
| `MCDaemon_full_ribq` | `OnlyManagersDeadlock` | `handle_update` waits for room with the neighbour locked, the RIB manager for that neighbour | `README.md:3` "UPDATE processing" |
| `MCWire_v6_update` | `OurUpdatesArrive` | IPv6 routes are sent in fields that are IPv4 on the wire | `README.md:3` "IPv4/IPv6 unicast" |
| `MCWire_peer_mp` | `PeerPrefixesKept` | the reserved byte of MP_REACH_NLRI becomes the prefix `::/0`; an MP attribute with a length of two bytes is read as if it had one, fails to decode and becomes an empty one, so its prefixes are lost without a word (with `-continue` TLC shows both) | `README.md:3` "IPv4/IPv6 unicast" |
| `MCNetwork_early_update` | `NoUpdateMissed` | an UPDATE that arrives in OpenConfirm is dropped and never sent again | `README.md:3` "UPDATE processing" |
| `MCNetwork_ibgp_loop` | `NoForwardingLoop` | two speakers of one AS prefer each other's external path | `rib.rs:149` "not the right way to determine path_type" |
| `MCStartup_wide` | `RibAlwaysExists` | a neighbour with a family the speaker lacks panics when it establishes | `neighbor/message_handler.rs:451` "RIB should exist" |
| `MCStartup_sample` | `Starts` | the default `[::]:0` is no `IpAddr`, so the README's example stops at "Local IPs not configured" | `README.md:18` "Config" |
| `MCStartup_passive` | `AcceptsIncoming` | without neighbours every connection is rejected | `ubgpd.rs:65` "will accept incoming connections only" |
| `MCStartup_retry` | `Retries` | `connect` sleeps and returns; nothing calls it again | `ubgpd.conf:17` `connect_retry = 5` |

`README.md` and `ubgpd.conf` are those of the repository's root.

### Bounds

- *Session.* Three moves of the peer are an OPEN, a KEEPALIVE and one more (a NOTIFICATION, an
  UPDATE, a close or a reset), or an OPEN, the end of the connection and the OPEN of the
  next one, with the router id of the first or with another. `QueueCap` 7 lets every sender
  of one connection have its event queued; capacity 1 in `race` makes every send block
  at some point. One message in flight per connection is enough: the task takes
  them one by one, and messages of one TCP connection are not reordered.
- *Race.* Two connections are the interesting case because the record has one
  `tx`; a third adds another task of the same kind. Where they meet, three moves are an OPEN
  for each of them and a KEEPALIVE, or an OPEN, a KEEPALIVE and one more. Where they come in
  turn, four (`MCNeighbor!Race`) are an OPEN, a KEEPALIVE, an UPDATE and one more, which may be
  a second UPDATE, a NOTIFICATION or the loss of the connection, before or after the other.
  What a later session makes of the tables that an earlier one left needs more moves, and is
  the theorem's. Timers do not tick here
  (`MaxTicks = 0`), since none of the four invariants reads what a tick changes; the
  theorems cover the case with ticks.
- *Tables.* Prefixes of one family do not interact except through the order in which
  a message's prefixes are walked, so one is used. Three messages are what it takes
  to announce twice and withdraw once, or to withdraw and announce in one, name the prefix
  again and have the other peer's path beside it; the four paths include a better one, a loop
  and another next hop (ties are the subject of the theorems on the order). With a
  change or an error of the kernel there are two messages (`MCLocRib!Tables`), which is what it
  takes to have one between an announcement and its loss. Channels hold 2 and 1, so both fill.
- *Stream.* Two messages have one boundary between them, and the decoder never looks
  beyond the first; the theorems cover any number.
- *Wire.* 28 IPv6 prefixes fill the one-byte length of an MP attribute to 255, 29 need the
  other form. `PeerMpArrives` says of every MP attribute what the decoder makes of it, which
  for MP_REACH and for the extended length is not what was sent; what was sent is
  `PeerPrefixesKept`, in the counterexamples above.
- *Tasks.* Two inputs are what a pair of tasks needs to meet; capacities 8, 4 and 4
  exceed what two inputs can send, which is the case `OnlyManagersDeadlock` is about.
- *Routes.* Three speakers make the smallest ring. One prefix is used where paths
  matter, two in `table`. Three messages of an origin announce, withdraw and announce
  again; one loss breaks the ring into a line. `NoForwardingLoop` is stated for networks
  that lost no connection: what a lost peer had told stays, and nothing corrects it.
  `PeersHaveBest` leaves out the best paths in `untold` and the ends in `missed`,
  `QuietIsExact` also networks with a session down; nothing is said of these because the
  code lets them differ, as the counterexamples above show. Both are asked of every
  network of the run, so with one and with two origins, and paths do become `untold`.
- *Start.* Two hosts are one that is configured and one that is not, or two that are;
  two incoming connections may come before, while and after a neighbour is connected
  to. Delays: zero, the values of the tests, the default and both sides of the cap.
- `FsmTransitions` is checked for behaviours with `OneAtATime`, to which `OneByOne` of
  `MCNeighbor` restricts `Spec`, and `AdjRibMirror` says nothing of states without it: with two
  connections at once the record makes other transitions, and the Adj-RIB-In of one session
  is emptied by the other. `AdjRibMirror` also asks that the peer keeps its router id: the RIB
  managers keep what it announced under the old one.
- `AdvertisedIsBest` and `QuiescentInstalled` speak of `changes = 0`: nothing in the
  code re-evaluates the tables when reachability changes.
- `AdjRibMirror` is about families that are both configured and run by the speaker:
  a peer may announce others, which a NOTIFICATION does not withdraw.

`CHECK_DEADLOCK FALSE`: a neighbour really may stop (`connect` runs once, nothing
reconnects), and so may the managers (run `locks`) and everything else once the bounded
inputs are used.

### Fairness

`Neighbor!FairSpec` has weak fairness of the connect task, the listener and each
`fsm_tcp` task, which the tokio runtime gives every ready task; strong fairness of
`HandleEvent` and `ReadMessage` because `select!` picks among ready branches at
random, and of the hold timer, whose expiry is disabled whenever its channel holds
an event. No fairness of the peer, the network or the keepalive timer.
`MCNeighbor!OneByOne`, which `session` uses, is weaker: with one connection at a time it asks
the same of the task and the timer of whichever connection there is, and nothing of the
listener and the connect task, which may be as late as they like.
`LocRib!FairSpec` has strong fairness of both managers: a tokio mutex serves its
waiters in order. `Framing!FairSpec` has weak fairness of the reading task and, again for
`select!`, strong fairness of `Fill` and `Decode`. `Network!FairSpec` has weak fairness of
everything the speakers do, taken together; origins and breaks are free.
`Startup!FairSpec` has weak fairness of `main` and of each connecting task: a TCP
connection attempt and a sleep end. Nobody has to come in.

## 4. Proofs

Every theorem is of the form `Spec => []P` (or a refinement) for all values of the
constants that satisfy the module's assumption; the bounds of the runs play no part.
Each proof module has one inductive invariant, one lemma per action, and its theorems
at the end. Where a theorem has a hypothesis, an instance or a behaviour outside it
violates the property, so the hypothesis is what the code needs and not what the proof
needs.

| theorem | property | hypothesis | without it |
|---|---|---|---|
| `NeighborProofs!TypeCorrect`, `RidAlwaysKnown`, `NoRidPanic`, `PeerIsValidated` | `TypeOK`, `RidKnown`, `bug # "rid"`, `OnlyValidatedPeer` | | |
| `NeighborProofs!OneOpenIsSent`, `TablesAgree` | `OneOpenPerConnection`, `AdjRibMirror` | | |
| `NeighborProofs!Refines` | `FsmTransitions` | `[]OneAtATime`, in the statement and about the behaviour | the listener writes Active over a session (`MCNeighbor_busy`) |
| `PathListProofs` | the order and the lists, below | | |
| `LocRibProofs!TypesHold`, `ListsStayOrdered`, `EntriesHavePaths`, `LoopsAreRejected`, `LocRibAgrees` | `TypeOK`, `Ordered`, `NoEmptyEntry`, `NoLoopedPath`, `LocRibFollowsAdjRib` | | |
| `LocRibProofs!BestIsAdvertised`, `UsableIsInstalled` | `AdvertisedIsBest`, `QuiescentInstalled` | `NextHopsOutside` | a route the FIB manager installs makes a next hop reachable, and nothing looks at the paths through it again |
| `NetworkProofs!TypesHoldInNetworks`, `GhostsVanish` | `TypeOK`, `NoGhostRoutes` | | |
| `NetworkProofs!PathsDoNotRevisit` | `NoPathRevisits` | `Unmixed` | two prefixes and a session that comes up late: an UPDATE with the wrong attributes passes the check for loops (finding `OwnAttributes`) |
| `DeliveryProofs!BestPathsArrive` | `PeersHaveBest` | `Unmixed` | the networks of run `table`: a prefix arrives with the attributes of another |
| `DeliveryProofs!PacketsDoNotCircle` | `NoForwardingLoop` | `Unmixed`, `External` | two speakers of one AS prefer each other's path (`MCNetwork_ibgp_loop`); two speakers that each announce a prefix with the shorter AS path of another one do |
| `DeliveryProofs!QuietNetworksAreExact` | `QuietIsExact` | `Unmixed`, `OneSpeakerPerAs`, `ForeignTails`, `Connected` | below, one counterexample for each |
| `StartupProofs!TypeCorrect`, `DelaysAreInRange`, `BackoffGrows`, `RibsExist` | `TypeOK`, `DelayInRange`, `BacksOff`, `RibExists` | | |
| `DaemonProofs!LocksAreGivenBack`, `LocksAreOrdered` | `TypeOK`, `LockOrder` | | |
| `DaemonProofs!DeadlocksAreKnown`, `OnlyManagersWait` | none; `OnlyManagersDeadlock` | none; `NobodyWaitsForRoom`, in the statement and about the state | `MCDaemon_full_ribq` |
| `FramingProofs!TypeCorrect`, `AlwaysAtBoundary`, `FramingImplementsStream` | `TypeOK`, `AtBoundary`, `IsMessageStream` | | |

### A neighbour with any number of connections (`NeighborProofs`)

`Inv` is the conjunction of

- `TypeOK`;
- `TasksOK`: what the place of each task says about its locals: a message of the
  right type where a handler reads it, a channel where one is sent on, a validated
  router id where one is stamped or purged;
- `Wired`: a timer that will send has a sender, and the listener in the middle of
  `add_incoming` has a socket;
- `PeerKnown`: the parts of `RidKnown` and `OnlyValidatedPeer` about the record, and
  that `bug` is not `"rid"`.

The parts need each other. A handler is entered on the state one step reads and acts on
the record some steps later, when another connection may have changed the state:
`PeerKnown` therefore speaks of every task that is past the decision (`NeedsRid`), not of
the state alone, and it survives because no action clears `remote_rid` (the mutant that
does breaks it in run `race`). `OnlyValidatedPeer` needs `TasksOK` for the OPEN that
`ValidateOpen` takes the id from and for the id a task stamps on routes after the record
may have moved on to another; `TasksOK` needs `TypeOK` and `PeerKnown` for the id it copies.
`NoRidPanic` says that the `expect` calls on `remote_rid` never fail, whatever other
connections of the peer do.

### Connections one at a time (`NeighborProofs`, second half)

None of this restricts the constants: the peer dials as it likes, the listener accepts, and
connections follow each other. `Alone` says that two connections at work have both met, that
a connection that did not begin is in nobody's hands, and that only the one the listener or
the connect task is about to bring can begin.

`Stage` has a part for each connection that met no other, whatever the rest do
(`NoSecondOpen`): it has written no OPEN before it gets to that place and at most one after, no
`BGPOpen` is in its queue or about to be sent, and the state is not Active again once it is in
its loop, since only the arrival of another connection writes that. `OneOpenIsSent`
follows for every connection and every behaviour. Its other part, `StateKept`, needs that
nobody met: the state that a message was dispatched on is still the state when its handler
gets there, although the listener may hold a socket and the connect task may fail meanwhile
(a failure with a connection at work puts `Out` in `met`, for it writes Idle over it). The refinement
`Refines` follows step by step: a step of `Neighbor` is one of the transitions of `BGPFsm`,
with the connection that has the record as `owned`, or leaves both alone. `BGPFsm!Begin` starts
from any state, since a task that fails to write its OPEN leaves its state behind.

`Mirrored` adds the two tables, through any number of sessions. Before a peer introduced
itself, or while there is no channel, nothing is in the tables of the managers (`NothingYet`,
which holds whatever the connections do). From then on, as long as connections come one at a
time and the peer keeps its router id, the tables agree between messages up to `lost`
(`Settled`), and while a task is inside `handle_update` they differ by exactly what is left of
the message at hand (`Agreeing`, `Pending`). `lost` grows by what is announced without a
channel or together with its withdrawal, and shrinks when a prefix is withdrawn, or announced
and sent.

### The order and the lists (`PathListProofs`)

`Less` is asymmetric and transitive, ties are transitive (tied paths agree in all nine
parts), and tied paths are equal for `PartialEq`: `cmp` is a strict weak order, as
`sort()` requires (`LessAsymmetric`, `LessTransitive`, `TiedTransitive`,
`OrdAgreesWithEq`). For every list `SortReverse` returns the same paths in as many places
(`SortRearranges`, which is that `Place` is a bijection) in order of preference
(`SortSorts`), and `retain` drops the paths of one peer, keeps the others and their order
(`RetainDrops`). `LocRib` and `Network` use these.

### The tables (`LocRibProofs`)

`Safe` is `TypeOK`, the messages in the channel being those of peers, what the place of
each manager says about its locals and locks (`Places`), and a table with ordered,
nonempty lists of valid paths. `Follows` is about the distance between an Adj-RIB-In
and the Loc-RIB: for each peer and prefix, the last message about it that is still on
its way decides what the Adj-RIB-In says, and if there is none, the table with what is
left of the event at hand does. It needs the whole of the queue, since an announcement and
a withdrawal may both be in it. `Steady`, as long as reachability did not change, says what
the walk of each manager has yet to do: every usable prefix without a kernel route has an
event on its way to the FIB manager or is in the rest of its walk, and what neighbours were
told, corrected by the entries still to be reported, is a best path.

A message may withdraw what it announces. `Decided` therefore says of the last message
about a prefix both what the Adj-RIB-In has after it and whether it is in `crossed`, and
`Places` that the walk over the withdrawn prefixes has left of the announced ones only those
that are both: what is announced alone is never taken out by the second half of its own event.

### A network (`NetworkProofs`)

`GhostsVanish` holds in every topology, with any losses. `Answering` says why: what `s` holds
of `r`, or will hold when it has read the messages on their way, is backed by `r`'s table, or
a withdrawal with no announcement after it is on its way, or the manager of `r` still has the
loss to report to `s`. The three cases turn into each other: processing makes the third,
reporting the second, reading removes what was held. A session that is not yet established
needs a case of its own (`Silent`), and the origins the same with `announced` in place of the
table.

`PathsDoNotRevisit` needs what AS paths say about the way of a route. `WaysOK`: every speaker
a route on its way from `s` to `r` came through has its AS in the path, but `s` itself when it
is of `r`'s AS; within an AS only routes learnt outside are sent on; so a receiver that finds
no AS of its own in the path is not on its way. It needs that one report of the manager has
paths of one message, which is why UPDATEs with several attributes are excluded by `Unmixed`.

### What arrives in a network (`DeliveryProofs`)

The theorems speak of what `s` holds of `r` or will hold when it has read the messages on
their way: an AS path for a prefix *lasts* (`Lasts`) if it is in `s`'s table and no withdrawal is
in the queue, or in an announcement with no withdrawal after it. The lemmas `Lasts...` say what
each step does to it; a message is `Clean` when it does not announce what it withdraws, so an
announcement that is read is also held (or rejected for the loop in its path).

A peer may hold several paths of one speaker for one prefix: an announcement does not replace the
earlier one. `Latest` says more than `Lasts`: of all that `s` holds or will read of `r` on the
prefix, this AS path comes last.

`BestPathsArrive` holds with any losses. `Owed` says of an established end: the best path that goes
to `s` (`Goes`: not learnt from `s`, fit for it, free of its AS) is the latest there, or it is among
what the manager of `r` has yet to report to `s`, or it is `untold`. The delicate step is `Process`:
the loss of the best path is reported as a withdrawal of the prefix after its announcement, so
whatever takes over must be marked `untold` in the same step, and it may not be in the report
already (`LossesUntold`); and what is reported as announced must be the best path at that time
(`ReportsBest`), or an older announcement could come after a newer one.

`PacketsDoNotCircle` follows from an order. `Downhill`: as long as no connection broke, an AS path
that lasts at `s` from `r` is longer than that of `r`'s first path, unless `r` still has the loss
of the prefix to report to `s`. Between ASes it is one longer when `send_update` writes it, and `r`
may replace its first path only by a shorter one, since a longer one takes over only when the
first is lost, and that is reported. In a quiet network the path of the next router is
therefore shorter, and in any set of routers with a route one has a shortest path. Within an AS
`prepend` adds nothing, and `MCNetwork_ibgp_loop` is the loop.

`QuietNetworksAreExact` says that every speaker ends up with a route to exactly what some origin
announces. Two more invariants go into it: a connection that broke leaves an Idle end
(`BreaksShow`), so a network whose sessions are all up lost none; and the router of an origin hears
only paths without the AS of a speaker, and hears one for all that the origin announces
(`OriginsHeard`). The rest is about a quiet state (`Settled`). *Nothing is left over*: of the
speakers that have a prefix, `PacketsDoNotCircle` gives one that sends its packets out of their
set; a speaker outside has nothing (`GhostsVanish`), so they go to an origin, and it announces the
prefix. *Nothing is missing*: otherwise a session leads from a speaker `r` that has it to one, `s`,
that does not (`Connected`); the best path of `r` would be there unless the AS of `s` is in it. That
it is not is `SettledNearer`: every speaker whose AS is in the best path of `r` has the prefix too,
with a shorter path. This would be an induction along the path; it is proved for a shortest
counterexample instead. Such an `r` has its best path from a speaker `p` with a shorter one, of
which the claim holds; what `r` holds first is what `p` has now with the AS of `p` before it
(`SettledFollows`), and not something older of `p`: the older one is no shorter, the newer one
came later, and between external paths of one length the later one is the greater (`recv_time`).

Each hypothesis is needed; TLC violates `QuietIsExact` without it:

- `OneSpeakerPerAs` (`MCNetwork_repeated_as`): in a line of speakers in the ASes 1, 2 and 1 the third one rejects every
  path of the first as a loop.
- `ForeignTails` (`MCNetwork_named_as`): the second speaker of a line rejects a path of an origin that names its AS.
- `Connected` (`MCNetwork_unlinked`): of two pairs of speakers one never hears of what the other does.
- `Unmixed`: two speakers whose session comes up late each announce a prefix with the shorter AS
  path of another one, and prefer each other's; when both origins withdraw it, the two go on
  holding what each told the other, for as long as nothing else happens.

The networks of `routes` that are inside an AS (the mesh, the line with paths that tie) are
outside these hypotheses and stay with TLC.

### Start (`StartupProofs`)

`Inv` says which Options are filled at which point of `main`, that the neighbours are records
made from the file, and in which range their delays lie. `DelaysAreInRange` and `BackoffGrows`
rest on arithmetic over `u16` values: the doubling of the multiplier, the cap and the jitter of a
tenth. `RibsExist` adds `Covered`: the families of every record are within the speaker's, or its
file made it wider, and nobody panicked who is not such a neighbour. The choice of defaults in
`Inherit` is what it rests on: a neighbour without families of its own takes the speaker's
and nothing else (the mutant that takes all families breaks it).

### Locks (`DaemonProofs`)

A task is the rest of a script, so the invariant is one about scripts: every lock the rest of a
script gives back without taking it (`HeldAt`) is the task's, and no other (`Holders`), and every
script is `Good`: it takes only locks it does not hold, gives back only what it holds, ends with
nothing held and, but for the FIB manager's, takes locks in rising rank and those of one
neighbour only. There is a lemma that the script of each handler is good, and one that a step
of a good script leaves a good one. `LocksAreGivenBack` and `LocksAreOrdered` follow for any
number of neighbours and inputs and all capacities.

`Shapes` adds what deadlocks depend on: only the managers lock the fib, the FIB manager locks
the rib and the fib only, a session joins no timer but its own, and who joins, or refreshes the
fib, has no lock to give back. In a set of tasks that wait for each other, none of them for
room in a channel, each waits for the holder of a lock, or for a timer that does. Without the
FIB manager the ranks would rise from each task to the one it waits for, and there are four.
With it, the task it waits for holds the rib or the fib and can then only wait for the fib,
which makes it the RIB manager (`DeadlockHasManagers`). So every deadlock has both managers in
it or a task that waits for room (`DeadlocksAreKnown`). `OnlyManagersWait` is the same about
`Stuck`, the union of all such sets and of the tasks that wait for them.

### Framing (`FramingProofs`)

The inductive invariant adds to `TypeOK` and `AtBoundary` that the messages lie on the stream
one after the other (`Layout`), without which the decoder's advance by one message could not be
the start of the next, and that an end of stream is the peer's (`EofIsFin`), without which a
decoder that is called at the end could fail for no reason. Every step is then a step of
`MessageStream` or a stutter: `Decode` is its `Deliver` or `Fail`, everything else that moves
bytes stutters.

### Model-checked only

- The liveness properties `DeadPeerDetected`, `NotificationCloses`, `HandshakeProgress`,
  `CompleteIsDelivered`, `Converges`, `AllTried` and `RibtxFollows`: fairness and `ENABLED` are out of
  the prover's reach.
- `Wire`: its decoders are recursive.
- `OnlyManagersDeadlock` of the tasks that do wait for room: it depends on the number of
  inputs and the capacities (`MCDaemon_full_ribq` violates it).
- `QuietIsExact` of networks with several speakers in one AS: within an AS `prepend` adds nothing
  and the argument by length has nothing to go on.

## 5. Not modelled

- NOTIFICATION and KEEPALIVE bytes (two bytes and none), the encoders of MP attributes
  and the mapping of validation errors to NOTIFICATION codes, which have no caller.
- Durations: timers tick at any time. A hold time below 3, which makes the hold timer a
  loop without a pause, is therefore not visible.
- Bits of a prefix beyond its length: `Wire` has them, the keys of `LocRib` and `Network`
  are model values.
- The replies of the gRPC server and the CLI: copies of what is read under locks that
  `Daemon` has. TOML and netlink decoding, error types.
- Code without a caller: `init_peer`, `process_event_idle`, the start and stop
  events, `HoldTimerExpires` (never sent), `_del_route`.

## 6. Plan

1. `Network`: `NoForwardingLoop` and `QuietIsExact` within an AS whose speakers are fully meshed,
   where the order of the ways a path came (`via`) would have to take the place of its length.
2. `Wire`: decoders as recursive functions, for theorems about what they accept.

What stays with TLC is liveness and what recursive decoders compute.
