# Verification of the Keeper PAM connection stack

TLA+ models of the concurrent core of this repository, the TLC configurations
that check them on small instances, and theorems that TLAPS proves for every
value of the constants. `PROJECT.json` lists the components, the runs, the
mutants that show each property can fail, the source lines each definition
stands for, the findings, the hazards and the theorems.

    tlc -config TubeRegistry.cfg MCTubeRegistry     # model-check one run
    tlapm TubeRegistryProofs.tla                    # check one module's proofs

Paths below are relative to `src/crates/`.

## 1. The system

The repository is a set of Rust crates that carry privileged sessions (terminals,
desktops, databases) from a client to a target.

- **keeper-pam-webrtc-rs** tunnels byte streams over WebRTC. A *tube* is a peer
  connection; a tube has *channels* (one data channel each); a channel multiplexes
  *connections* to TCP or to a protocol handler. Python code drives it through the
  *tube registry*.
- **keeperdb-proxy** is a database proxy: it accepts a client, obtains credentials
  from the Gateway, logs in to the database itself and relays. The *connection
  tracker* decides which connections may exist side by side.
- The **guacr** crates are protocol clients (SSH, RDP, VNC, 3270, ...), a terminal
  emulator, recording and threat detection. They are mostly sequential and around
  external libraries.

### Inventory

| Part | State it keeps | Operations | What is hard | What makes it correct |
|---|---|---|---|---|
| circuit breaker (`webrtc_circuit_breaker.rs`) | closed / open / half-open with counters, under a mutex | `execute`, `record_success`, `record_failure_with_type`, `force_reset`, time | a request is admitted in one state and reports in another | never closed above a threshold; half-open never refuses for ever; recovers |
| event-driven sender (`webrtc_data_channel.rs`) | lock-free queue, atomic counter, `can_send` flag; one callback slot per data channel | `new`, `send_with_natural_backpressure`, drain callback, batch task | all shared without a lock; limit at 10000; wrap of the counter | nothing duplicated, vanished or reordered; limit held; queued frames leave |
| early messages (`webrtc_data_channel.rs`, `tube_and_channel_helpers.rs`) | flag, buffer, current `on_message` handler | buffer, `take_early_messages`, forward | handler swap while a message is being handled | all messages, once, in order |
| tube registry (`tube_registry.rs`) | two concurrent maps, actor queue | create, associate, close, shutdown, sweep | actor, spawned close tasks, timeouts, re-used ids | closed once; removed only by its closer; nothing leaks |
| tube (`tube.rs`) | status, closing flag, peer connection, channels | create, close, callbacks | close racing create | closed before dropped |
| connection tracker (`keeperdb-proxy/src/server/connection_tracker.rs`) | claims per target, counts per tunnel, two `RwLock`s | claim, register, release, forced release, clean-up | check and act under different locks; lock order; early returns | limit; one session per target; no orphaned claim; no deadlock |
| peer connection (`webrtc_core.rs`, `webrtc_network_monitor.rs`) | signalling state, candidate buffer, restart flag, closing flag, permits | offer, answer, candidates, state handler, ICE restart, close | callbacks of the library beside calls; a timer of one restart meets the flag of the next | candidates reach the agent; a lost or silent peer ends in a closed tube |
| channel core and connections (`channel/core.rs`, `connections.rs`, `server.rs`, `protocol.rs`) | connection table, server sockets, close reason, primary guacd connection | open, data, EOF, close, delayed clean-up, end of the channel | control messages racing read and write tasks of each connection, on two machines | bytes intact and in order; end of stream last; everything released; both ends follow |
| fragments (`channel/assembler.rs`, `core.rs`) | buffers per sequence id, shared id | fragment, process | overtaking and lost pieces of several frames in one map | frames whole, once, and one loss costs one frame |
| resource manager (`resource_manager.rs`) | semaphores, limits | acquire, drop | - | no more permits than the limit |
| database login (`keeperdb-proxy/src/server/handlers`, `handshake`, `auth`) | credential store, login step, tracker guard | handshake, get_session_config, get_auth, register, admit | every protocol has its own order and early returns | registered before admitted; credentials used once; limits in force; released at the end |
| database relay and query log (`relay`, `session`, `query_logging`) | two sockets, counters, timers, pending queries, log channel, logging thread | select loop, two copiers, log, shut-down | queries and answers in pieces; blocked writes; full log | limit on queries; log true and complete; the timer ends the session |

Interactions: Python calls the registry; the registry creates and closes tubes; a
tube's callbacks create channels and close the tube through the registry; ICE
restart runs its attempts through the circuit breaker and closes the tube through
the registry when no answer comes; the read loop of each connection owns an
event-driven sender on the data channel of its channel, and the messages arrive at
the peer's run loop through the early-message hand-over and the fragment buffers.
The two channels of a tunnel talk by control messages on the same data channel as
the data. The database handlers take credentials from the Gateway's handshake, call
the connection tracker, and relay with the query log beside them; the Gateway's
Python calls the tracker's forced release when a tube dies.

## 2. Modules

Each module is one component; the actions are the code's handlers, cut where the
code lets another task in: at an `await` while nothing protects the state, between
two atomic accesses, between two locks. Data is model values.

| Module | Models | Proofs |
|---|---|---|
| `CircuitBreaker` | `TubeCircuitBreaker` | `CircuitBreakerProofs` |
| `FrameDelivery` | what the senders of a channel promise (abstract) | implemented: `EventDrivenSenderProofs` |
| `EventDrivenSender` | `EventDrivenSender`, its callers and its data channel; implements `FrameDelivery` | `EventDrivenSenderProofs` |
| `EarlyMessages` | the hand-over of early messages | `FramePathProofs` |
| `FramePath` | fragmentation and reassembly, composed with `FrameDelivery` and `EarlyMessages` | `FramePathProofs` |
| `TubeRegistry` | registry actor, close tasks, sweeper, the closing side of `Tube` | `TubeRegistryProofs` |
| `PeerConnection` | negotiation, candidates, state handlers, ICE restart, keepalive, closing | - |
| `Tunnel` | both channels of a port-forwarding or SOCKS5 tunnel | `TunnelProofs` |
| `GuacdChannel` | the gateway's channel to guacd | `GuacdChannelProofs` |
| `ConnectionTracker` | the tracker, the handlers' calls, its two locks | `ConnectionTrackerProofs` |
| `DatabaseSession` | one connection of the database proxy from detection to release | `DatabaseSessionProofs` |

The `MC*` modules add only symmetry sets and the values of function and set constants
(how many frames each connection sends, what guacd may send in one read, which
configurations a database connection has). Operators named after another with a suffix
(`QueueHasRoom_off_by_one`) are the mutants of `PROJECT.json`; no specification uses them.

**CircuitBreaker.** `state` and its counters are the variants of `CircuitState`.
`execute` takes the mutex twice: `Execute*` is the admission, `Succeed`/`Fail` the
report, and any number of callers lie between the two. `tests` records the callers
admitted as probes of the current half-open period. `Tick` ages the open state up to
the timeout.

**EventDrivenSender.** One sender per connection, on one data channel. Each atomic
access or queue operation is a step: `Call` (reads `can_send`), `SendNow` or
`SendFailsTemporarily`, `StopSending`, `QueueHasRoom`/`QueueFull` (reads the counter),
`Push`, `Count`. The callback is `AllowSending`, `Pop`, `Subtract`, `Reset` and spawns
a batch task. The callback runs under the mutex of the callback slot, so callbacks do
not overlap each other or a registration. The counter wraps at `Word`. The transport
is external: a send fails while its buffer is full, an acknowledgement that crosses
the threshold raises one event. This is the release build: the debug assertion on the
counter is not compiled in. The caller is the read loop of `channel/server.rs`; the one
of `channel/connections.rs` also pauses above 5000 queued frames, which is not
modelled. A drain of the queue is one step, because a read loop that pushes meanwhile
only makes the batch look like that of a later drain.

`FrameDelivery` states the promise in three variables: each frame is held until it is
sent, refused to the caller's face, or dropped with others of a failed batch. The
refinement mapping of `EventDrivenSender` (`Fate`) computes a frame's fate from where it
is, and `SendersDeliver` says that the senders implement that specification; no frame is
sent twice because `FrameDelivery` sends only what is held. The order on the wire is left
open there, because the code leaves it open.

**EarlyMessages.** The data channel's read loop (external) picks the handler that is
registered and awaits it, so messages are handled one at a time; the set-up of the
channel runs beside it in five steps.

**FramePath.** Outbound tasks cut frames into pieces with an id from the process-wide
counter (`Produce`), anything that keeps the promise of `FrameDelivery` carries them
(`Transport`), the hand-over of `EarlyMessages` passes them on, and the run loop, spawned
once the set-up is over, puts them together (`Consume`, `ProcessFragment`). Connections
share the id space and the map of buffers. The properties are stated up to the wrap of
the ids: 2^32 fragmented frames of one process are needed to pass it. Buffers whose frame
lost a piece are never removed, as in the code.

**TubeRegistry.** A tube id is a slot, a tube an incarnation with a number. The actor
executes one command at a time and awaits a creation, whose phases are separate steps
because close tasks run meanwhile. `closer[k]` is one running `close_tube_async`.
`peer_connection` is `dead` when it is failed and idle for five minutes, the condition
of the sweeper and of the forced removal. `failed`, `unclosed` and `closes` are
history; `unclosed` holds the tubes whose close was cut off by its timeout or ran before
the create had stored the peer connection.

**PeerConnection.** One tube. The webrtc library is external: it applies an offer only
when stable and an answer only to an outstanding offer, runs the state handler for one
change at a time and refuses everything once closed. A call that applies a description
(`call`), the signalling callback that flushes the buffered candidates (`notified`), the
tasks of `add_ice_candidate` (`adding`), the state handler (`handling`), up to
`MaxRestarts` restart tasks each with its answer timer, the keepalive task and the
registry's close run beside one another. Whether the breaker lets a restart through is a
choice. Taking the buffer and giving it to the agent is one step; several due signalling
callbacks count as one; a restart task begins with its trigger; close reasons and the
intermediate `Ready` status are left out.

**Tunnel.** Two channels, `srv` that accepts TCP clients and `gw` that connects to the
target, joined by an ordered data channel (the senders below their high-water mark: the
overtaking of `EventDrivenSender` is not repeated here). Per side: the run loop, which
handles one message at a time and is cut where it awaits; per connection a table entry, a
reader task, a backend task and the delayed clean-ups. `Socks5` adds the handshake, the
deferred reply and the destination check. Left out: the failure of the data channel,
failing `try_lock`s, events that nobody can notice; socket writes are one step; a message
for a side whose loop has ended is dropped.

**GuacdChannel.** The gateway's side with guacd as its environment. `ReadData`,
`ReadClose`, `ReadGarbage`, `ReadLost` and the steps after them are the outbound task with its batching; `run` is
the run task, `hung` when it waits for itself. A number is opened again only after its old
outbound task has ended; `SendEOF` from the peer is covered by `Tunnel`. In the passing
run the peer closes only what is open (`StrayCloses = FALSE`): a close of an absent
connection schedules a clean-up that would remove a later one with that number, because
the generation that `models.rs` keeps is not compared.

**ConnectionTracker.** `tunnels` and `active_sessions` are the two maps. A section that
awaits nothing under its lock is one step; `ClaimContested`/`TakeOver` and
`Undo`/`Withdraw`, which take the second lock inside the first, are two, and hold the
first in between (`holder`, `readers`). `waiting` is the queue of the fair `tunnels`
lock. Elapsed time is `last_disconnect` going from `recent` over `expired` (the
application lock has run out) to `stale` (the clean-up may take the claim). A
connection without a session is counted by its address (or record uid) and claims
nothing. Connections that need no tracking at all are not in the model. `forced` is the
session that `force_release_tunnel` works on; the Gateway calls it one at a time.

**DatabaseSession.** One connection and its peers. `Detect`, `StoreCredentials`,
`SendReady`, `HandshakeFails` are the way in; the login is a sequence of steps per
protocol (`MySQLSteps`, `PostgresSteps`, `SQLServerSteps`, `OracleSteps`) walked by
`Exchange`, `GetSessionConfig`, `GetAuth`, `Register`, `Admit`, and left by `LoginFails`,
which also stands for a refusal by the tracker (its decision is `ConnectionTracker`'s).
`StartRelay` chooses the managed relay iff there is a limit, a timer, an idle timeout or a
log, otherwise two copiers. The managed loop is `SelectSignal`/`Idle`/`Eof`/`Client`/
`Server`, `WriteServer`/`WriteClient`, `SendErr`, `Close`; the copiers are `CopyToServer`,
`CopyToClient`, `BasicEnds`; the logging thread `LogWrite` and `LogEnd`; `Release` ends
the connection. A query fits in one read unless the client pipelines, a database answers
in one or two messages, a write completes when the peer has read what came before, a
copier reads and writes in one step. The error packet at the end of a limited session is
not among the answers counted.

## 3. Runs

Passing runs, with what the bounds are for:

| Run | Bounds | Shows |
|---|---|---|
| `circuit_breaker` | 4 callers, thresholds 3/3, 2 probes | as many callers as probes plus late reporters: the counters never leave the breaker closed above a threshold, a circuit that refuses has a probe in flight, at most one probe more than configured runs, and if failures stop the breaker closes for good |
| `sender` | 2 senders, one with 4 frames and one with 1, queue of 3, batches of 2, transport of 1 | two senders compete for the callback slot, the queue gets full, a batch is cut at its limit and by a failed send: counter, limit, nothing vanishes, and the senders implement `FrameDelivery` |
| `frame_path` | connections of 3 and 2 pieces, frames of 2 and 3 chunks, 4 messages, one loss, ids modulo 2 | two frames in pieces in one map, with a piece overtaken or lost and the hand-over in between: at most one message is lost there, both its streams stay in order, frames are whole and appended once, and a frame all of whose pieces arrive is appended and leaves no buffer |
| `registry` | 1 id, 1 conversation, 2 close tasks, 2 tubes | two closes race each other, a create and a re-creation under the same id: each tube is closed once and before it is dropped (but for the `unclosed` ones), no entry is replaced, closing and dead tubes leave the registry |
| `tracker` | 3 connections, 2 sessions, limit 2, 1 target, 1 address, one application name and none | a session at its limit, a third connection and a contested claim at once; several tools are left to the theorem `OneTool` |
| `tunnel` | SOCKS5, 1 connection, 1 chunk each way, 1 reset, 1 close of a channel | open, data, half-close, reset and close from either side with the messages of both directions between: streams intact to their end, sockets shut and nothing left when a channel has ended, the other end follows, closed connections leave the table |
| `guacd_channel` | 2 connections, 2 opens, 1 death, and 1 read with 1 close or 2 closes | primary and second connection, each way for guacd and for the peer to end: drawing in order and nothing after the end, disconnect before the TCP shutdown, an error is the channel's result, the end of the primary ends the run loop or hangs it |
| `peer_connection` | 1 candidate, 1 offer, 2 remote descriptions, 2 state changes, 2 restarts | two restarts whose timers share a flag, beside an offer, early candidates and a close: buffered candidates reach the agent, a silent or lost peer closes the tube, the keepalive ends |
| `database_session` | 3 queries, limit of 2, log channel of 2; MySQL with combinations of limit, timer, idle timeout, log and pipelining, the other protocols with all or none; origin of the credentials varied separately | the limit is reached with a query to spare and the log gets full: counted before admitted, own limits, query limit, log faithful and complete, the timer ends the session unless the relay is blocked, and the end releases the connection (but for a failed SQL Server login) |

One id is enough for the registry: the entries of different ids meet only in the actor's
queue, which orders commands whatever their ids, and the hard case, an id used again, needs
one id and two tubes. One connection is enough for the tunnel: connections meet only in
the run loop, which handles their messages one at a time. The larger runs, `frame_path`
and `tracker`, have about 2.7 million states and take two to three minutes.

Deadlock is checked for the circuit breaker. The other systems may stop: channels close,
the actor shuts down, messages end, dropped connections stay.

Every property of a passing run has a mutant in `PROJECT.json`: a plausible slip in one
definition under which TLC finds the property violated. The runs check what the code could
get wrong; `TypeOK` is a theorem (`TypeCorrect`) in the eight modules with proofs, and in
`PeerConnection` says what the variables range over (it holds in the same instance when it
is added to the configuration). `ErrorReported` speaks of the step in which the run loop
ends, because the fields it compares may be used again afterwards.

### Findings

Each run below checks one sentence of the repository's own documentation or comments,
and TLC shows a behaviour of the code that contradicts it.

| Run | What happens |
|---|---|
| `tracker_deadlock` | failed registration, forced release and contested claim wait for one another |
| `guacd_close_hangs` | a close of the primary guacd connection makes the run task wait for a lock it holds (`channel/core.rs:1750-1753`); the connection is never removed |
| `peer_not_closed` | a lost connection without trickle ICE sets `is_closing` first; `close()` then returns at once, and the peer connection and its permit are kept after the tube is closed |

Further differences between code and comments, or oddities, that the models reproduce or
that were met on the way, and that no run is spent on:

- circuit breaker: the request that turns the circuit half-open is not counted, so one
  probe more than `max_half_open_requests` runs (`ProbeLimit` states the limit the code
  keeps); the timeout adjusted to the error type is only logged.
- sender: the rest of a batch whose send fails is dropped (`webrtc_data_channel.rs:612`);
  the fast path overtakes a batch being sent (568); a drain between a push and its count
  makes the counter wrap, which the drain repairs to 0, and the late count leaves it one
  too high (`underflowed`); a full queue is returned as an error, which ends the read loop
  although the channel is open; of two senders on one channel only the last registered is
  drained; a frame queued after the last drain waits until another send causes an event.
- early messages: a message between the flag test and the push misses the drain (130); a
  message that reaches the new handler overtakes the early messages that are still being
  forwarded (`StreamsInOrder` is about each of the two streams).
- registry: a slow close removes the tube that re-used its id (`tube_registry.rs:328`); a
  close during a create finds no peer connection, and the one stored afterwards is not
  closed (`unclosed`); a create that fails after the insertion leaves its tube, which has
  no connection state for the sweeper to go by; a close between the two insertions of a
  create leaves a conversation that names no tube.
- tracker: a session is taken for gone between its claim and its registration, so that two
  sessions share a target (`connection_tracker.rs:632`); the end of the grace period is
  only logged, although the documentation (291) says no new connections after it; a SQL
  Server connection whose login fails after its registration keeps its place; a comment
  says the application name is not validated at tunnel level, where the code validates it.
- peer connection: the answer to another offer clears `ice_restart_in_progress`; the timer
  of an earlier restart may close the tube of a later one (`webrtc_core.rs:1171`); a
  candidate whose task saw no description and pushes after the last flush stays in the
  buffer (1556); every error of a restart is reported as an open breaker (2779); Python's
  `restart_ice` does not set the flag; monitoring that starts after a close registers its
  callback again.
- channels: `shutdown_notify` wakes one waiter, which may be a delayed clean-up
  (`core.rs:1396`, against `tube.rs:1476` "Instant wakeup"); the caller's close reason is
  overwritten by `GuacdError`; a clean disconnect of guacd is stored as an error
  (`connections.rs:997`); instructions batched before a disconnect or error of the same
  read are dropped; a failed first open leaves the primary set; the Gateway keeps the
  entry of a target that closed first; data before the registration is lost; the reader of
  a connection that is never registered runs on; a SOCKS5 request for a refused port gets
  no answer.
- database: the basic relay leaves the other copier running after the connection was
  released (`relay.rs:183-194`, "until either side closes"); a relay blocked in a write, or
  in the shut-down of a full log, sees neither `max_duration` nor the idle timeout; opening
  the FIFO blocks the handler; an idle timeout of 0 means none in one place and at once in
  another; pipelined queries are paired with the wrong outcomes; SQL Server answers that
  begin with rows leave their query pending; a MySQL result set is logged as a success at
  its first packet; the query that reaches the limit is forwarded but not answered or
  logged, and the limit counts reads, not pipelined queries; abandoned credentials stay in
  the store; Oracle never registers and goes on with defaults; byte 4 of every read is
  taken for a MySQL command, whatever the protocol; handlers ignore the shutdown signal.

### Fairness

`circuit_breaker`: every operation ends (`max_request_timeout`), time passes, callers keep
calling; nothing obliges an operation to fail or to succeed. `registry`: a creation and
every await of a close are bounded by time-outs; the sweeper is periodic and its commands
are served in order, hence strong fairness of a sweep of each id. `tunnel`,
`guacd_channel`, `peer_connection`: weak fairness of each task of the process and of its
timers, and of the delivery of the data channel; TCP peers, guacd, Python, the network and
the callers of `close_channel` may stop at any time. `database_session`: weak fairness of
the managed loop (but not of its idle timeout), of the end of the basic relay once a
copier has ended, and of the release; nothing is assumed of the client, the database, the
reader of the pipe or the login. `sender`, `frame_path` and `tracker` check safety
properties and assume none.

## 4. Proofs

All theorems hold for every value of the constants, under the named assumptions of the
modules (`ConfigAssumption`, `EnoughProbes`, `SenderAssumption`, `MessagesAssumption`,
`PathAssumption`, `RegistryAssumption`, `TrackerAssumption`, `TunnelAssumption`,
`GuacdChannelAssumption`, `SessionAssumption`): sets are finite, limits natural, and the
marker values distinct from the elements. `EnoughProbes` says that the success threshold
can be reached with the probes one half-open period admits; the default configuration, the
one the crate uses, satisfies it, and with any other the breaker would refuse everyone once
the probes are used up. Two theorems of `GuacdChannelProofs` assume `~StrayCloses` besides,
see below. Each inductive invariant was checked by TLC on small instances before it was
proved; they are in the proof modules, not in the runs.

- **CircuitBreakerProofs**: `TypeCorrect`, `ClosedBelow`, `ProbeAccounting`,
  `HalfOpenProgress`, `ProbesLimited`. The accounting is inductive together with types: a
  probe that ends is counted or ends the period; progress follows by counting, because a
  full period with no probe running would have reached the success threshold. The limit
  needs `ProbesCounted`: outside a half-open period nobody is a probe, and inside it all
  but the one that starts it are counted.
- **EventDrivenSenderProofs**: `TypeCorrect`, `CounterAgrees`, `QueueLimit`, `FramesHeld`,
  `SendersRefine`. The counter equals the queue up to one push not yet counted and one
  batch not yet subtracted, while the sender's counter has not underflowed; the limit needs
  in addition that a sender between check and push has room, which the callback can only
  enlarge. The account of the frames (`PlacesInv`) says that each place holds frames of one
  connection and none twice (`Sorted`), that no frame is in two places (`Apart`), and that
  the frames that wait or are settled are exactly those handed over (`Accounted`). From it
  the refinement follows step by step: reading a frame is an `Accept` of `FrameDelivery`, the
  fast path and the first frame of a batch a `Send`, a full queue a `Refuse`, a batch whose
  send fails a `Drop` of the frames left in it, and every other step leaves the promise alone.
- **FramePathProofs**: `TypeCorrect`, `PathRunsHandover`, `CapturedInOrder`, `LossBounded`,
  `FramesWhole`, `CompleteArrives`. The first four are about `EarlyMessages` driven by
  anything; `PathRunsHandover` shows that each step of the composed path is one of its steps
  or leaves it alone, so they hold on the path too. `HandoverInv` relates the stage of the set-up to the flag, the handler and the
  message in it (`Stages`), says which containers a message can be in (`Places`), and orders
  the containers by arrival (`Ordered`). The bound on the loss needs `OneToLose`: while the
  flag is set, or the early handler still holds its message, nothing is missing.
  The last two are about the frames, whatever the transport does to their pieces, and need
  an invariant of the whole path (`PathInv`). A frame occupies consecutive places of its
  connection's plan, as a whole or in pieces that share an id (`Cut`); only planned pieces
  are sent, each once (`Carried`); until the counter passes `Word` every frame in pieces has
  an id of its own (`OwnIds`). With that each buffer belongs to one frame and holds exactly
  the pieces of it that have been processed, and a frame is appended exactly when the last
  of them has (`Assembly`).
- **TubeRegistryProofs**: `TypeCorrect`, `CloseHappensOnce`, `NoReplacement`, `EntryIsOpen`,
  `CloseBeforeDrop`. The inductive invariant says that a command or a close task under way
  names an id and a tube (`InProgress`), that numbers in use are at most the newest
  (`Known`), that a tube in preparation is known to nobody but the actor and its slot is
  empty until it is inserted (`Private`), and that the flag is set exactly when a close was
  begun (`FlagCounts`). A step of a close task that leaves the flags alone is handled once
  (`CloserMoves`). The drop rule adds that a tube is not connected before the actor has
  connected it (`NotYetConnected`), and that one whose close began has closed its peer
  connection, has a task that is about to, or is `unclosed` (`CloseSettled`).
- **ConnectionTrackerProofs**: `TypeCorrect`, `CountsOnlyItsOwn`, `OneTool`,
  `ConnectionLimit`, `RegistrationSurvives`, `ClaimsCovered`, `OneTargetClaimsCovered`,
  `NoOtherDeadlock`. The strengthening (`Assigned`) says which
  connections have a tunnel and a target at each step; counts are then preserved because
  a connection that is not counted may move freely, and one that is counted keeps its
  data. The limit is the cardinality of a set that grows by one element only under the
  check.
  Claims are followed by `ClaimsHeld`: a claim is for the one target its session connects
  to, and while it is not marked it is covered (`Covered`) by a tunnel with connections, by
  a connection heading for its registration or for the end of the claim, or by
  `force_release_tunnel` on its way to mark it. A connection about to release is no cover,
  because the one that empties the tunnel is the one that must mark the claim.
  `ClaimsCovered` takes `[]OneTargetEach(Home)` as its hypothesis, since the property is
  false of a session with two targets (section 5); a single target satisfies it, which is
  `OneTargetClaimsCovered`.
  For the locks, `LocksMatch` says that the queue of the `tunnels` lock holds exactly the
  tasks that wait for it, each once, and that the holders of the `active_sessions` lock and
  the readers of `tunnels` are the tasks at those steps. From it `NoOtherDeadlock`: unless
  the cycle of the finding `NoLockCycle` is closed, the first in the queue can be granted or
  a reader can go on.
- **TunnelProofs**: `TypeCorrect`, `EndedClean`, `StreamsWhole`, for any number of
  connections, of which the run has one. `TableInv` follows a connection through its two
  tables: how far its acceptance is, who waits to be registered, that an entry has a backend
  task and an opened socket is in the table or shut, and what the steps of the end of a run
  loop leave behind; `EndedReleases` is its last stage. `StreamInv` describes each direction
  as one sequence, what is written followed by what is on its way (`InOrder`): the request
  to open comes before all data (`ToGateway`) and the end of the stream after all of it
  (`EndSeen`), and the client's side may skip a beginning but nothing in between
  (`ToServer`). Lemmas say what appending to, taking from and clearing a queue of messages
  does to the chunks of one connection.
- **GuacdChannelProofs**: `TypeCorrect`, `DrawnInOrder`, `DisconnectPrecedes`,
  `ErrorIsResult`. `SessionInv` relates the outbound task, its cause and its connection
  (`TaskOrder`) and says what the peer has got so far (`Stream`); a lemma by induction on
  the length of a read shows that the instructions and syncs a read is cut into are numbered
  on. `PrimaryInv` says that the primary stays registered while the run loop runs, that its
  signal means its task has ended, that the clean-up knows every connection left, and that
  the error of a primary whose task has looked at the reason is stored. It is inductive only
  under `~StrayCloses`: a close of an absent connection schedules a clean-up that removes a
  later connection of that number, also the primary one, without telling guacd. As a
  property of states, rather than of the step that ends the loop, `ErrorReported` would be
  false from three opens on, because a number that is opened again loses the cause of the
  connection before.
- **DatabaseSessionProofs**: `TypeCorrect`, `CountedFirst`, `LimitsAreOwn`, `QueryLimit`,
  `LogIsFaithful`, `LogIsComplete`, for any set of configurations, number of queries and
  capacity of the log. `LoginInv` places the registration, the limits and the credentials in
  the order of the login steps of the four handlers. `RelayInv` describes the requests and
  the answers as two streams with four positions (`Flow`: read and written by the proxy, in
  both directions), and ties the counter, the pending queries and the log to those
  positions; `Channel` says that the log channel holds the entries not yet written and, last
  of all, the shutdown message.

`ProbeAccounting`, `CountsOnlyItsOwn`, `EntryIsOpen`, `PathRunsHandover`, `NoOtherDeadlock`
and the types are only proved: the first two are the accounts from which the checked
properties follow, the third says that a close that overtakes the creation of its tube is
never undone by the rest of that creation, and the last that the cycle of the finding is
the only way in which the two locks of the tracker block each other.

Only model-checked is all liveness: fairness is out of the prover's reach. With it goes
everything about `PeerConnection`, whose checked properties are all of that kind.

The findings are counterexamples and need no proof.

## 5. Not modelled

The components with status `not_modelled` in `PROJECT.json`. By size most of the repository
is of a kind that a state machine says nothing about: byte formats and parsers (Guacamole
instructions, TNS, TDS, 3270 and 5250 data streams, frame encoding), password algorithms,
terminal emulation and rendering, protocol clients that are one loop around an external
library (SSH, RDP, VNC, browsers, database drivers), configuration, logging and metrics,
tests and bindings. A faithful model of a parser is its transliteration, and no property
of interleaving, failure or order is about it. The concurrent protocols of the two crates
that own them, `keeper-pam-webrtc-rs` and `keeperdb-proxy`, are where the modules are.

Of the parts that are modelled: metrics that are only written; pings and their statistics;
handler-based connections, UDP association and the adaptive pool of the channel; the
registration of the low threshold; the channels a tube holds; the status of a tube, which
a late `Connected` event can set to active after a close; outgoing candidates and TURN
credentials; the `Assembler` with its priorities, which is never created; the resource
manager, whose `update_limits` nothing calls; the accept loop of the database proxy with
its semaphore; `release` and `try_register` of the tracker and `cleanup_expired` of the
credential store, which nothing calls. `ClaimsNotOrphaned` is checked for sessions of one
target: with two targets the tunnel is shared and the target left first is never marked as
disconnected.

## 6. Plan

1. The safety part of `PeerConnection`: types, and what its liveness rests on (a restart
   that waits for its answer has a timer).
2. Models, if they are extended: the pings of a channel and their timeout, handler-based
   connections, the accept loop of the database proxy with its shutdown.
