# Formal models of sp-rtk-base-relay

TLA+ modules that model the relay in `src/src/sp_rtk_base_relay/`, TLC
configurations that check them on small instances, and TLAPS proofs of the
results that matter most for every instance. Paths below are relative to
`src/src/sp_rtk_base_relay/`; `PROJECT.json` maps every definition of a module to
the lines it models.

## The system

The relay reads RTCM correction bytes from one GPS base station (TCP, serial,
Bluetooth or an NTRIP caster) and forwards them to any number of destinations.

```
 API threads ── RelayEngine ── start/stop, hot add/remove/start/stop, subscribe
                    │
 input source → input thread → input queue(10) → broadcast thread ─┬→ queue(100) → run loop → peer
                └── BroadcastHub (core/broadcast_hub.py) ──────────┼→ queue(100) → run loop → peer
                                                                   └→ Frame subscription queue → reader
```

### Components

| Component | State | Operations | Correct when |
|---|---|---|---|
| `BaseDestination` (core/destinations/base_destination.py) | bounded queue, `_running`, thread, connection | enqueue, start, stop, run loop, connect and clear | the queue is bounded; no chunk is sent twice, out of order, or lost without being counted where it should; stop ends the thread and the connection; restart works; a backlog is not sent after a reconnect |
| `BroadcastHub` (core/broadcast_hub.py) | `_running`, `_stop_event`, input queue, two threads, destination list, subscriber list, cached `_any_needs_parsing`, frame buffer | start, stop, add/remove/start/stop destination, add/remove subscriber, the two loops, reconnect | what `Destination` promises, one level up; lists and cached flag agree; a stopped hub leaves nothing running or open |
| `RelayEngine` (engine.py) | `_running`, the hub and input of this run | start, stop, pass-through of the hub's calls | every start makes a fresh hub; stop takes it down, also when it failed before |
| `FrameSubscription` (core/frame_subscription.py) | bounded queue, closed event, drop counter | offer, get_frame, iterate, drain, close | offering never blocks; every Frame is read, queued or refused for a reason; after close, queued Frames are read before the end is reported; no reader stays blocked |
| `EventBus` (core/events.py) | subscriber list, ring buffer, counters | emit, subscribe, unsubscribe, clear, get/iterate/drain | emitting never blocks or raises; a subscriber sees the events of a thread in order, and subscribing before asking for recent events misses none; who is taken off the list is told |
| `RTCMClient` (core/rtcm_client.py) | state enum, socket, heartbeat thread, retry delay | connect, disconnect, send, heartbeat loop | one heartbeat monitor per connection; the thread of an old connection never touches a new one; backoff grows while the server is down |
| TCP server destination (core/destinations/tcp_server_destination.py) | asyncio loop in the destination's thread, client set, server | start, stop, broadcast, client handler | never more than `max_clients`; every client gets each chunk once, in order; no slot is lost; stop frees the port |
| NTRIP and Sure-Path destinations | socket or client, next attempt time | connect, send, disconnect, attempt | attempts keep the backoff |
| Inputs (core/input_sources/, core/rfcomm_link.py) and the hub's reconnect loop | socket/port/link, generation, error, delay | connect, read, disconnect from any thread, wait | disconnect releases; an interrupted connect installs nothing; an input that failed connects again; the waits follow the policy |
| NTRIP protocol, chunked decoder, framing, filter (core/ntrip/, core/message_filter.py, rtcm_decoder.py) | decoder buffer | feed, parse, filter | what reaches a destination does not depend on how the stream is cut |
| Bluetooth manager (core/bluetooth_manager.py) | D-Bus loop thread, pairing agent, introspection cache; bonds in BlueZ | find, pair, trust, connect, force_repair, close | a failure names the stage it left the device in; a PIN answers only the call it belongs to; discovery does not stay on |
| Service (main.py), configuration (config.py, factories) | `_running`, shutdown flag, the parts; the file and the environment | load, start, run, stop, signal handler | one orderly stop, whoever asks for it; what is accepted can be built; an override does not spoil a good file |
| v1 pipeline, metrics, status, logging | threads and a queue nobody creates; last seen totals | | |

### How they interact, and what is hard

* Calls from any API thread reach lists that the broadcast thread reads;
  `_destinations_lock` covers the lists but not what is done with an element
  after it was looked up.
* Each stage hands bytes to the next through a bounded `queue.Queue`, and stops
  it with a `None` in the same queue (a poison pill), a flag, and a join with a
  timeout of 5 s.  Connects and sends can last longer than that.
* Flags (`_running`, `enabled`, `_any_needs_parsing`) are read without the lock
  and used later.
* Connections end at any time: the peer, a heartbeat thread, a read error.
* Coroutines take turns at every `await` (TCP server, Bluetooth manager), and
  what they tested before it may no longer hold.
* The signal handler runs `stop()` on top of whatever the main thread is doing.

`PROJECT.json` lists these hazards at the lines where they bite, each with the
properties that would catch it.

## Modules

| Module | Models | State and actions |
|---|---|---|
| `LossyRelay` | what every stage promises the next one | chunks are numbered; each is refused or pending, and a pending one is lost or delivered once |
| `Destination` | `BaseDestination`, the broadcast thread that enqueues, one caller of `start_destination`/`stop_destination` | `wpc[w]` is where run-loop thread `w` is in `_run_loop`, `cpc` where the caller is in `stop()` or `start()`; one action per queue call, flag access, `_connect`, `_send_data`, `_disconnect` |
| `BroadcastHub` | `RelayEngine.start/stop` and the hub each start creates: input thread, input queue, broadcast thread | the state of a hub is a function of the run that made it, since its threads can outlive `stop()` |
| `HubRegistry` | destination list, Frame subscribers, cached parsing flag, frame buffer, under API threads, distribution and `stop()` | a block under `_destinations_lock` is one action; `stop()` holds it while `mpc = "stopDests"`, and `mpc = "failed"` when `queue.Full` has left it half way |
| `RtcmClient` | `RTCMClient` and `HeartbeatMonitor` behind a Sure-Path destination: run loop, monitors of this and an earlier connection, one caller of start and stop | sockets are numbered by attempt; what several threads run (`HeartbeatMonitor.stop`, `_cleanup_connection`, `_on_connection_lost`, `disconnect`) is written once for a thread `t`, and `goal[t]` is the call that `_cleanup_connection` returns to |
| `FrameSubscription` | one subscription: the broadcast thread offers, a reader reads in three ways, several threads close | one action per queue call and per access to the closed event |
| `InputSources` | the hub's input thread with its reconnect policy, driving a TCP, serial, Bluetooth or NTRIP input, beside the `disconnect()` of `BroadcastHub.stop` | `held` is what the connection object is worth, `fresh` a connection not yet installed, `overtaken` that `_generation` has moved on; one action per blocking call and per locked block |
| `InputStream` | the caster's reply, the chunked body, Frame extraction with the real CRC-24Q, the filter | `ReadReply` and `ReadData` take the next bytes of a stream, any number from `ReadSizes`; the rest are operators on byte sequences |
| `BluetoothManager` | the calls of the manager as coroutines on one loop, the agent, the timeouts, BlueZ and the devices | `call[d]` is the call in flight for a device, `dev[d]` the device in BlueZ; one action per answer awaited |
| `EventBus` | any number of emitters, one reader per subscription, closers, one `clear()` | one action per queue call, per access to `_closed` and per block under the lock |
| `TcpServer` | the destination's thread, the broadcast task, a handler per client, other threads' `start`/`stop`/`enqueue`, the clients | one action is what a task does between two awaits; `loop` is where `_run_loop` is |
| `Configuration` | what `config.py` accepts, what the environment overrides, what the factories build | operators on records; a value is one of seven kinds, three of them numbers in range that differ as delays |
| `Service` | `main()`, `SPBaseRelayService` and its signal handler | the main thread is a stack of frames: `main()` at the bottom, one per signal above it, and only the top one moves; each names the lock it holds |
| `MC*` | instances for TLC | |
| `DestinationProofs`, `BroadcastHubProofs`, `HubRegistryProofs`, `RtcmClientProofs`, `FrameSubscriptionProofs`, `EventBusProofs`, `TcpServerProofs` | theorems about the module each is named after | the inductive invariants are at the top of each module, or before the section that uses them |
| `EdgeProofs` | theorems about `InputSources`, `Service` and `BluetoothManager`, in three sections | the three are independent; it extends all of them, so what the first two share with another (`Init`, `Next`, `Spec`, `vars`, `Stop`) bears the module's name there |

`Destination` instantiates `LossyRelay` with a refinement mapping (`accepted` =
items seen, `pending` = items in the queue or in a thread's hand, `delivered` = the
history of what was sent), and `ImplementsRelay` is that instance's specification.
Two proof modules instantiate it for their component: in `BroadcastHubProofs` a chunk
is accepted when it is read, pending while a thread or a queue of any hub has it, and
delivered when it is distributed; in `FrameSubscriptionProofs` a Frame is accepted
when it is offered, pending in the hand of the broadcast thread or in the queue, and
delivered when the reader has it.
`Service` extends `Configuration`.

### Abstractions

* Chunks and Frames are numbers in the order they were read. The pill is 0.
* `+=` on a statistics counter, an attribute assignment, and one call of
  `queue.Queue` are atomic, as under the GIL. The two flags of the hub,
  `_running` and `_stop_event`, change a statement apart and every loop tests
  both; `BroadcastHub` has one flag `active` for them.
* The connect, send and disconnect of a destination type, and the backoff that
  keeps one from connecting, are the nondeterministic outcomes of `ConnectOk`,
  `ConnectFail`, `SendOk`, `SendFail` and `PeerDisconnect`. The run loop of
  the TCP server is `TcpServer`.
* In `RtcmClient` a heartbeat alarm may come at any time, and must come on a
  connection that is closed or whose server is gone. A connection attempt may
  begin at any time the client is not connected: the clock of
  `SurePathDestination._attempt_connect` is left out. A second run loop beside one
  whose join gave up is left to `Destination`. The join of a monitor gives up only
  on one that was told to go on; a monitor that was told to stop wakes within a
  second.
* A stage is a flag in the module of the other stages: the destinations of a hub
  are `serving` in `BroadcastHub` and `started` in `HubRegistry`; the input is
  `connected`.
* `InputStream` labels each byte with its place in the body, which the code never
  looks at; the text of a status or header line is one byte that no cut divides.
* In `BluetoothManager` one call at a time runs for a device, and BlueZ answers as
  the code expects, in any order, or never.
* `EventBus` has no Prometheus hook; a `get()` that ends with empty hands changes
  nothing and is not an action. `Take` may find the subscription closed, since
  `drain()` does not look.
* In `TcpServer` a client that stalls takes no data and keeps its connection open;
  `wait_closed()` of the server may take any time and returns, although Python
  3.12 waits there for the connections that are left.
* Time passes as nondeterminism: a wait can end empty only when its queue is
  empty, a join can give up only on a thread that can be in a long call
  (`JoinMayTimeOut`, `ConnectMayOutlast`).
* An error raised inside a logging call, which `logging` catches by itself, is left out.
* The model of the Bluetooth manager is that of Python 3.11 or later. Before,
  `concurrent.futures.TimeoutError` is not the built-in `TimeoutError` that
  bluetooth_manager.py:281 catches, so a call that is given up is not cancelled.
* In `Configuration` a number in range is `"low"`, `"num"` or `"high"`: below both
  defaults of the retry delays, between them, or above. Two delays of the same kind
  are taken to be in order.
* History variables (`sent`, `lost`, `epoch`, `raised`, `gaveUp`, `early`, ...) are
  marked in each module and guard no action that the code does not guard.

## Runs

| Run | Question | Instance |
|---|---|---|
| `Destination` | Is a chunk ever sent twice, out of order, lost in no known way? Does a stop leave a thread or a connection? Does every stop return, every run loop end, every queue drain? | queue 1, 2 chunks, 2 run loops, 2 starts, joins may give up |
| `DestinationRestart` | (violation) Can a stopped destination always be restarted? | queue 2, 3 chunks, joins wait |
| `Hub` | The same questions for the hub over two engine runs, and do chunks flow while the input is down? | queue 2, 3 chunks, 2 runs |
| `Registry` | Do two API threads, `stop()` and distribution keep names unique, the flag current, subscribers without gaps and never forgotten, and ended by a `stop()` that did not raise? As long as calls do not overlap, is a removed destination stopped and an enabled one running? | 2 destinations with the same name, one filtered; 1 subscription, 3 chunks |
| `RtcmClient` | Do heartbeat threads, run loop and caller agree on the connection? Is a loss noticed, does stop return? | 2 attempts, 2 monitors, joins may give up |
| `FrameSubscription` | Is every Frame accounted for, and does every reader return? | queue 2, 4 Frames, 2 closers |
| `EventBus` | Does a consumer that subscribes first miss an event? Do events keep their order, and is everyone told of the end? | 2 emitters, 2 subscriptions, queue and ring of 1, 2 events |
| `Inputs` | Do flag and connection agree, is everything released, do the waits follow the policy, does the input come back? | each kind of input; delays 1, 2, 4, 5; 5 failures |
| `Bluetooth` | Do PINs go only to the call in flight, do outcomes tell what became of the bond, does discovery stop? | every call for one device, a search for another; 2 PINs; 2 retries |
| `Stream` | Does a Frame reach the destination wherever the reads cut the stream, and nothing that is no Frame? | 354 replies of up to three parts, reads of 1 to 40 bytes in any order, 2 filters |
| `TcpServer` | Do limit and client set hold, does every client get each chunk, does the thread end? | 2 clients, limits 1 and 2, queue 1, 2 chunks, one start |
| `Service` | Can what is accepted be built? Do overrides and signals do what they should? | 193 files, 13 environments, 3 signals |

**Bounds.** A queue of 1 is empty or full, and holds a pill or a chunk; between the
two calls of an eviction it can be emptied or filled again; where the property is
about what waits behind what, it is 2. Two chunks leave one in the queue and one in
a thread's hand, and four Frames overrun a queue of two. Two run loops and two
starts are enough for one stop with a restart beside a thread that did not end; two
engine runs for a hub that outlives its stop. Two attempts and two monitor threads
give `RtcmClient` an old connection whose threads meet a new one; more attempts
repeat that. Two API threads, emitters or clients give every pairwise race. A
delay reaches its maximum in four failures. Reads of one byte cut a stream
everywhere, and the larger ones let a read end in the next chunk, Frame or line.
A third signal meets the second one's frame. Chunks after the bound are not read:
the input falls silent, which it may. `CHECK_DEADLOCK FALSE` stands where the
program may stop for good and no step is left: the process has ended, the bus is
cleared, the stream is over, the last `stop()` of the bound has returned.

**Guards of properties.** `SingleWorker`, `CleanStop`, `BacklogDiscarded`,
`StopReleases` and the order in `ChunkAccounted` are stated for as long as no
`stop()` raised `queue.Full` (`raised`) or gave up a join (`gaveUp`): the code does
not keep them afterwards. The second part of `SubscriptionsEnd`, that `stop()` leaves
no subscription open, needs that `queue.Full` did not leave `stop()` (`raised`); the
first, that an open one is still listed, holds always. The last two parts of `ThreadsFollowList` need API calls
that did not overlap (`overlapped`). `StateTellsSocket` and `Watched` need that no
`_on_connection_lost` wrote its `DISCONNECTED` over a newer attempt (`trampled`):
between the ERROR that `_cleanup_connection` leaves and that last assignment
(rtcm_client.py:528) the run loop can have connected again; `disconnect()` then
returns early, with the socket open and its monitor reading. `QueueDrains` is stated
until the first restart, since a restarted thread may die of an old pill (see
`DestinationRestart`). `ConnectedIsOpen` promises a release after a join that gave up
for TCP and NTRIP inputs only. In `TcpServer`, `ClientsHandled` promises a free port
when `stop()` waited for its thread (`early`), and `BroadcastFair` compares counts
when no client came or went during the broadcast (`churn`). `ScanStops` excepts calls
that `_run_async` gave up (`neglected`). In `Service`, `TidyExit` is about signals that
found `main()` in its run loop (`orderly`), and promises stopped destinations only
unless `_update_metrics` caught the error of a handler's `stop()` (`swallowed`).
`OverridesHarmless` is about overrides that `Sensible` describes. `BodyExact` and the first part of
`FramesComplete` except a reply whose headers timed out (`early`).

**Fairness.** Weak fairness of each thread's next step once it is inside a loop
or call: `queue.get`, `put` and `join` in the code have timeouts, and sockets have
theirs. `Join` is fair although it waits for a thread: it is enabled when the
thread has ended. Nobody is obliged to call the API, to read a subscription, to
deliver input or to keep a connection up, so those actions have no fairness.
`Rest` is a stuttering step in states where the program may stop for good.
In `InputSources` a read error is noticed by a thread that reads again and again, so
`NoteError` and `LoseConnection` are strongly fair. In `TcpServer` a client does not
stall for ever (`StallEnds`): it is an assumption about the network, and `Progress`
needs it, since `wait_closed()` has no time limit. In `Service` the main thread runs;
nobody has to send a signal. `EventBus`, `BluetoothManager` and `InputStream` have no
liveness property and no fairness: their waits end by timeouts of the caller.

## What the code does not keep

`DestinationRestart` is a violation run: a `stop()` while the run loop is in a send
leaves its pill in the queue; the thread of the next `start()` reads it first and
ends, while `_running` stays true (broadcast_hub.py:247 says it can be restarted).

The other cases were met while modelling. The models have them, and the
properties are guarded against them as said above.

Hub and registry
* `stop()` gives up its join while `_reconnect_input` is inside `connect()`; the
  connect succeeds after `disconnect()`, and nothing closes it
  (broadcast_hub.py:453; docs/relay-engine-api-spec.md:762 says "the port is
  released").
* The input thread refills the slot that `stop()` evicted, `queue.Full` leaves
  `stop()` before the destinations are stopped and the Frame subscriptions closed, and
  the next `stop()` returns at once (broadcast_hub.py:447, 434). A destination's
  `stop()` that races a `stop_destination()` or `remove_destination()` of the same one
  can raise it as well (base_destination.py:209-211), with the same effect. A
  subscription is then left open, although broadcast_hub.py:326 says never.
* A destination that was found before another thread removed it is started after
  it, and runs in no list (broadcast_hub.py:279); likewise one whose
  `start_destination()` comes through after `stop()`.
* `_any_needs_parsing` is read without the lock and acted on after the buffer was
  cleared: the next subscriber starts behind a stale tail (broadcast_hub.py:710).

Connections
* Only the loss of an established RTCM connection lengthens the retry delay, and a
  success resets it: a server that is down is tried at the initial delay for ever
  (rtcm_client.py:523; surepath_destination.py:51 promises exponential back-off).
* A read error of a serial input leaves the port object, which was opened with
  `exclusive=True`; each reconnect is refused by it (serial_input.py:94, 187).
* A Bluetooth call given up by `_run_async` leaves discovery on, and
  `connect_device` may fail on an introspection cached while the interface was
  stripped (bluetooth_manager.py:847).
* When the headers of a reply do not arrive in time, a chunked body is taken for
  plain data (protocol.py:149). A stray 0xD3 holds back later Frames until as many
  bytes have come as it seems to announce (broadcast_hub.py:744).

TCP server
* A client that stalls keeps `wait_closed()` and with it the broadcast to all others
  (tcp_server_destination.py:333). If it does so in a stop, the join gives up,
  `loop.stop` ends the thread inside its `finally`, and the server goes on listening
  (line 94).
* A port that is taken ends the thread and leaves `_running` true (line 162).
* The statistics of a broadcast count the clients present after the writes
  (line 338).

Event bus
* A reader that empties a full queue between the two calls of `send_poison_pill()`
  leaves the subscription untold; an emitter that fills it there makes `close()` or
  `clear()` raise, and the rest of the subscribers untold (events.py:189-194).
* Asking `get_recent()` before subscribing can miss an event, as the example at
  docs/ublox_gps_webui_planning.md:354 does. An iteration ends at the first quiet
  second, although the comment at events.py:261 says it keeps waiting.

Service and configuration
* A signal during `start()` leaves without `_cleanup()`, since `_running` is still
  false. A second signal during `stop()` finds the hub not running, and the process
  exits with 0 and destinations unstopped. A signal that meets the main thread with
  a statistics lock, or a second one under an NTRIP input's lock, waits for itself
  (main.py:396). `queue.Full` from `hub.stop()` ends the process with destinations
  running, and so does a destination that could not start. If the handler's `stop()`
  raises while the main thread is inside `_update_metrics`, the `except Exception` there
  (main.py:303) takes the error for its own, the loop sees the shutdown flag, and the
  process ends with code 0 and destinations running.
* The range of message numbers and the settings of a Bluetooth input are not looked
  at by `--validate` (config.py:547). Retry delays are judged together (config.py:180,
  639, 724): a `RETRY_INITIAL_DELAY` of 100 is refused where the file leaves the longest
  delay at its default of 60, and so is a version 2.0 where it has no user name. Variables of a destination also reach one whose
  name begins its name, and `INPUT_SERIAL_*` variables overwrite the input whatever
  its source is (config.py:1211, 1237): the file is then refused.

## Proofs

The theorems hold for every value of the constants that the modules' `ASSUME`s admit:
queues with room for at least one item, natural bounds on chunks and starts,
placeholders (`NoWorker`, `None`, `Nobody`, `NoPin`) that are not members of the sets they
stand beside, and, in `HubRegistry`, initial destinations with different names. Two
assumptions need a word. `PowerAssumption` of `InputSources` gives the two laws that
define `^`, of which the provers know none. `FilesAssumption` of
`Service` says that a file is a record with the keys that `from_dict` looks for, each of
them present or missing, and that the ids of a filter are numbers in or out of the
range; it leaves open which files and environments there are, good and bad. TLC evaluates all of them on every run.
So where TLC has two clients, emitters or closers, one or two starts, three signals or 193
files, a theorem has any number of them. In each module the invariant that is proved
inductive says why the properties hold; they are not inductive by themselves. `TypeInv`
or `TypeOK` is the type, with the facts about which thread has something in hand where.

Nearly all proofs rest on one of four arguments.

* **Each item is in one place.** A table of the places an item can be (queue, hand,
  delivered, one per way to lose it), with `Placed`: nowhere before it is read, in one
  place afterwards; `Covered`: somewhere; `QueuedOnce`: at one position of a queue. Every
  action moves one item from one place to another, or none. Counting follows.
* **The refinement.** By the same invariant an item is pending just when it is not
  settled, so a step that reads one is `Accept`, a step that settles one takes it out of
  `pending`, and all other steps stutter, whatever the threads do.
* **Older before newer.** What was delivered is older than what a thread holds, and
  that older than what is queued, which is in order.
* **What a stop waited for stays so.** The caller's place in `stop()` or `start()` tells which
  threads have ended and what has been closed, as long as no join gave up.

`DestinationProofs`:

* `TypeCorrect` — `Spec => []TypeOK`, from `TypeInv`.
* `DeliveredOnce` — `[]SentOnce`. `SentOnce` alone is not inductive: a chunk in a queue
  might have been sent before. `Distinct`: each chunk is in at most one place and none
  beyond `offered` anywhere.
* `DestinationImplementsRelay` — under `TypeInv /\ Distinct` each action maps to `Accept`,
  `Lose`, `Deliver` or a stutter of `LossyRelay`.
* `NothingLostSilently` — `[]NoSilentLoss`, from `Placed`, `Later` and `Counted`:
  `dropped` is the cardinality of two of the places.
* `OneWorker`, `StopIsClean` — `[]SingleWorker` and `[]CleanStop`, from `Lifecycle`, which
  ties the caller's position, `running`, `thread` and the live run loops together.
* `OnlyFreshIsSent` — `BacklogDiscarded`, an action property. `Ordered` is the third argument;
  `Fresh`: once the queue was emptied after a connect, what is queued or held was
  enqueued after it, up to the chunk that made the run loop connect.

`BroadcastHubProofs`:

* `StoppedHoldsNothing` — `[]StopReleases`, from `Released`: the hubs of earlier runs have
  ended, and each step of `stop()` leaves true what it waited for.
* `EveryChunkAccounted` — `[]ChunkAccounted`, from `Placed`, `Covered`, `QueuedOnce`, and
  `Ordered`, whose order across engine runs needs `Released`.
* `HubImplementsRelay` — `Spec => Relay!Spec`, the second argument.

`HubRegistryProofs`:

* `NoSubscriptionLeftOpen` — `[]SubscriptionsEnd`, from `SubsTracked`: a subscription that
  is open is listed or in the hand of the call that will close it, `stop()` clears
  `_running` before it copies the list, only closed ones leave the list, and who reached
  the end of `stop()` without an error has closed what it copied.
* `NoFrameMissed` — `[]SubscriberSeesAll`, from `NoFrameSkipped`: the cached flag agrees with
  the lists at every step, and an open subscription that has seen one chunk has seen all
  that were distributed since.
* `ThreadsFollow` — `[]ThreadsFollowList`, from `UniqueNames` and `ThreadsOwned`: a call
  in flight accounts for each destination whose thread and list entry disagree.

`FrameSubscriptionProofs`:

* `EveryFrameAccounted` — `[]FrameAccounted`, the first argument, for any number of
  threads that close.
* `EndAfterEarlyFrames` — `ClosedMeansEmpty`, an action property, from `EarlyFirst`: before
  the close there is no wake-up in the queue, and no Frame from before it is behind one.
* `SubscriptionImplementsRelay` — `Spec => Relay!Spec`, the second argument.

`EventBusProofs`:

* `WhoeverLeavesIsTold` — `[]EndIsTold`. `Listed` and `TellOnce`: a subscription is listed
  once, so one thread takes it off and has to tell it, and nobody has yet; `PillLast`:
  nobody makes room in a queue that holds a `None`.
* `EventsKeepTheirOrder` — `[]InOrder`. `InTurn`: what a subscription has of a thread's events is
  not newer than the one in hand, and older while that is still to be delivered to it;
  then `Ordered` in the queue and in what was read.
* `NothingMissed` — `[]NoGap`. `Recorded`: what was emitted is in the ring or pushed out of
  it; `ListedServed`: a listed subscription that asked for recent events has each event
  in one of four ways, or its emitter still has it in hand; `RefusedOnce` and `Counted`
  for the counter.

`TcpServerProofs`:

* `EveryClientHandled` — `[]ClientsHandled`, from `Known`, `Handled` (which task can be where in
  which phase of the loop, and that a live server's client has a handler that reads) and
  `Waited`. Any number of starts, where TLC has one. The finally of `_run_loop` cancels the
  remaining handlers with the other tasks (`TasksGone`), and with a restart this is what
  keeps a handler of one run from outliving it.
* `EveryBroadcastFair` — `BroadcastFair`, an action property, from `Newer`, the third argument for
  a queue read by one task and written to many clients, and `Counted`: who was served
  so far, while the set is left alone.

`RtcmClientProofs`:

* `AttemptsEnd` — `[]NeverStuck`, from `Attempting`: an attempt in progress is in the
  hands of the run loop, in `connect()` or in the `_cleanup_connection` that will mark the
  error. A clean-up by another thread, or for a loss or a disconnect, either ends the
  attempt's state itself or leaves it to the run loop.
* `StateIsTrue`, `OneMonitorReads` — `[]StateTellsSocket` and `[]Watched`. `Turns`: the caller
  waits for the run loop; `OneAtATime`: a thread that watches is the latest, and once told
  to end it is waited for; and while no loss was written over a newer attempt,
  `Standing`: a monitor thread that is busy has the present connection, a running
  monitor watches an open one, somebody answers for a connection that `state` claims, and
  there is no socket between attempts.

`EdgeProofs`, section 1, for every kind of input, policy and number of failures:

* `ConnectionsAreKnown` — `[]ConnectedIsOpen`. `Places`: which step of a connect belongs
  to which kind, and that a connect still under way after the join is the one it gave up
  on. `Agrees`: until `stop()` disconnects, flag and connection agree between connects and
  there is neither during one, but for the port under test. `Released`: afterwards nothing
  is held, and a connect that outlived the join finds itself overtaken (`_generation`), or
  its socket gone. Of Bluetooth and serial inputs it says this only for a join that did
  not give up, as the property does.
* `WaitsFollowPolicy` — `[]Backoff`. `Waiting` ties the delay to the count of failures,
  one apart before and after the failure is counted; the step from one power to the next
  is the lemma `Capped`, the minimum of a product whose first factor was cut already.

`EdgeProofs`, section 2, for every set of files and environments and any number of signals:

* `ServiceEndsTidily` — `[]TidyExit`. While every signal found `main()` in its run loop
  there are at most two frames (`Tidy`), the upper one is the only `stop()`, and `Stage`
  says what each of its places has released. `Raised`: who is past the first test of
  `stop()` has set `_shutdown_requested`; `Emptied`: once a stop has got past the
  destinations, none runs. An error that leaves the handler is split by where it
  meets `main()` (`UnwindCases`): back into the loop out of `_update_metrics`, to the
  `finally` of `run()`, to the `except` of `start()`, or out of the process.
* `AcceptedIsBuilt` — `[]AcceptedBuilds`. `Loading` carries from `load_config` to each
  place of `start()` that the file was accepted, and the section's lemmas say that the
  factories accept what validation accepted.
* `OverridesKeepFilesGood` — `[]OverridesHarmless`: an override of a good file by a
  fitting value keeps each test of validation true, of the input (`InputKept`), of the
  types of a destination's fields and of what its class looks at together
  (`TypedStill`, `DestinationStill`). The latter are the retry delays, and the version of a
  caster and its user name: a value that fits its field may not suit what the file
  says of the other, so `Sensible` asks that what is meant goes together
  (`GoTogether`). `MeantGot`: what a field has after the overrides is one of the
  values that are meant for it. The instance has files and environments that violate
  the property without `GoTogether`, for each of the two pairs.

`EdgeProofs`, section 3, for any number of Bluetooth devices with a call in flight for each:

* `OutcomesTell` — `[]OutcomeTells`. `Ops`, `Pairings` and `Told` say, for one device, which call
  can be where, that BlueZ pairs only what has no bond, and what a call has brought about so
  far. A step concerns one device and leaves the others' conjuncts alone.
* `DiscoveryEnds` — `[]ScanStops`, from `ScanOwned`: whoever turned discovery on is there to
  turn it off.
* `PinsStayWithCalls` — `AnswersInFlight`, an action property, from `AgentServed`: while there is an
  agent, the PINs it can find are those of calls in flight.

Only model-checked:

* Liveness (`StopEnds`, `QueueDrains`, `ChunksDistributed`, `LossNoticed`, `StopReturns`,
  `ReaderReturns`, `Reconnects`, `Progress`, `SignalEnds`): fairness and ENABLED are beyond the
  prover.
* `BodyExact` and `FramesComplete`: `InputStream` has `RECURSIVE` operators, and what a
  recursive definition computes for every input needs induction theorems that take an
  operator, which no prover here can instantiate.

Every other invariant and action property of the passing runs is a theorem.

## Not modelled, and the plan

* The reconnect delay of the NTRIP destination, and its reset in `start()` beside a
  run loop that outlived `stop()`: `Destination` has any delay, and `Backoff` of
  `InputSources` checks the hub's policy.
* The v1 pipeline (core/data_pipeline.py): nothing in the v2 service creates one.
* Metrics and status: they read the other parts' statistics, which the models leave
  out, and steer nothing. The no-data watchdog counts and logs.
* Logging, exception classes, the HCI request for a link strength, the registration
  tables and schemas of the factories, the generated example configuration: no state
  that several steps relate.
* Within the modelled components: byte and timestamp statistics; a second API caller
  for one destination (`Destination` has one, in `HubRegistry` a thread is one flag);
  several readers of one subscription; a restart of the TCP server beside an old
  thread; two Bluetooth calls for one device at once.

What would come next is `RelayChain`: the hub's `LossyRelay` composed with a destination's,
shown to implement one `LossyRelay` from input to peer. It needs a model in which the
destinations of a hub are `Destination` and not a flag.
