# cadeloop: a verification development

TLA+ models of **cadeloop**, an asyncio-compatible event loop with a Rust core
(`crates/core`), a PyO3 binding (`crates/pyshim`) and a Python layer
(`python/cadeloop`).  Each module is a translation of the source it names in
`PROJECT.json` ("map"); TLC checks small instances (the `MC*` modules and
`.cfg` files) and TLAPS proves theorems for every value of the constants (the
`*_proofs` modules).

## 1. Inventory

### The parts, their state, and how they interact

| part | source | state | operations |
|---|---|---|---|
| Cross-thread hand-off | `core/src/ready.rs`, `epoll.rs` (wakeup) | two lock-free queues, `wake_pending`, the backend's `armed` flag and eventfd | `push`, `push_timer` (any thread), `drain_into` (loop thread), `wake` |
| Reactor | `core/src/reactor.rs` | ready queue, expired timers, timer heap, batch snapshot, poll-skip clock | `prepare_tick`, `poll_timeout`, `poll`, `finish_poll_after`, `take_batch`, `take_expired`, `unpop_*`, `clear_pending` |
| Timer heap | `core/src/timer.rs`, `time.rs` | 4-ary heap, tombstone count, graveyard | `schedule`, `note_cancelled`, `next_deadline`, `pop_expired`, `compact`, `drain_all` |
| Spin gate | `core/src/spin_gate.rs` | credit, probe counter | `should_spin`, `record` |
| Operation slab | `core/src/opslab.rs` | pinned slots with state and generation, freelist, in-flight count | `post`, `mark_cancelled`, `complete`, `release` |
| Buffer slab | `core/src/buffers.rs` | registered buffers, freelist, size classes | `acquire`, `release`, growth |
| Backends | `core/src/backend/{epoll,iocp,rio,portable}.rs` | per-descriptor interest and parked operations, staged completions, watches | `post_*`, `cancel`, `set_watch`, `detach_socket`, `poll` |
| CoreLoop | `pyshim/src/coreloop.rs`, `gil_boundary.rs`, `handles.rs` | stopping/closed flags, the owned state cell, handles | `run_forever`, `tick`, `call_*`, `stop`, `close`, `add_reader` ... |
| Transports, listeners, datagrams | `pyshim/src/net.rs` | write buffer, in-flight send/recv, pause and close flags, accept pool, event queue | `write`, `flush_pending`, `close`, `abort`, `translate`, `dispatch_events`, `retry_starved_listeners` ... |
| HTTP engine | `pyshim/src/http.rs`, `core/src/http.rs`, `net.rs` (HTTP entries) | per connection: parser, pending requests, the running request's epoch, body and response state, parked driver, waiters; detached requests | parse, pump, ASGI `receive`/`send`, release and detach, TLS ingest and flush, timeout sweep, graceful shutdown |
| WebSocket engine | `pyshim/src/http.rs`, `core/src/ws.rs` | frame parser, inbox and its byte count, accept and close flags, waiters | `receive`, `send`, `close`, put-back, read pause, end of session |
| Context snapshots, fast tasks | `pyshim/src/{ctxsnap,taskfast}.rs` | cached context, task free list | `snap`, `trim` |
| Queues | `pyshim/src/fastqueue.rs`, `python/cadeloop/queues.py` | items, waiters, unfinished count | `put`, `get`, `task_done`, `join` |
| Python loop | `python/cadeloop/loop.py`, `tcp.py` | executors, signal handlers, servers, socket helpers | `create_server`, `create_connection`, `sock_*`, `shutdown_*` |
| Server supervisor | `python/cadeloop/server.py`, `_winworker.py`, `__main__.py` | worker processes, restart budget, drain state | spawn, reap, restart, reload, graceful shutdown |

The loop thread owns the state cell (`gil_boundary.rs`): under the GIL every
call into the core is one step, except that a parking poll releases the GIL
with the cell still borrowed.  Other threads then reach the loop only through
the cross-thread queue, the wakeup, the stopping flag and the handle objects.
Backends report completions; `net::translate` turns them into transport events
and readiness callbacks; the tick dispatches the ready batch, the transport
events and the due timers, in that order.

### What is hard, and what correct means

* **Threads against the loop.** Producers push without a lock while the loop
  drains; `stop()` and cross-thread timers race the park; timers are cancelled
  from other threads. Correct: no wakeup is lost, every drain ends, a parked
  loop over work has been woken, what was scheduled runs.
* **Two phases in one tick.** Completions are translated inside the state cell
  and their events run later, with arbitrary Python in between. Correct: bytes
  arrive and leave in order and once, `connection_lost` comes once and last, no
  socket or buffer is leaked or used after it was given back.
* **Unwinding.** A `KeyboardInterrupt`, a signal or a failed poll leaves a tick
  half done. Correct: the next run continues with asyncio's order, nothing lost
  and nothing twice.
* **The kernel owns memory.** Overlapped operations write into slots and read
  from buffers until their completion is dequeued. Correct: a packet meets only
  its own operation, memory goes back only when the kernel is done with it.
* **Coroutines beside their connection.** An application awaits `receive` or
  the drain of `send` while its connection is parsed into, torn down, swept,
  shut down or already serving another request; it is cancelled with a message
  in its hands. Correct: exchanges never mix, nobody waits for what cannot
  come, no cancellation and no message is lost, this end's closes truncate
  nothing.
* **Exhaustion.** Descriptors or watches run out and come back. Correct: a
  listener is never deaf for good, and does not flood the log either.

`PROJECT.json` lists every hazard at its line with the properties that cover it.

## 2. Plan

Order of work, most important behaviour first. Done:

1. `CrossThreadQueue`, with proofs: the hand-off everything else relies on.
2. `EventLoop`, `AsyncioContract`, `ObservedLoop`: the tick, and that it
   implements what asyncio promises of scheduling.
3. `TimerHeap`: the array heap behind `EventLoop`'s sorted sequence of timers.
4. `CompletionPort`: operation slab, completion port and quarantine.
5. `StreamTransport`: one transport through translate, dispatch and calls.
6. `Listener`, with `Datagram`: accept pools, starvation and re-arming, over
   epoll's accepts, beside a datagram endpoint.

7. `HttpConnection`: pipelining, the request cycle, detached requests, the
   sweep and the shutdown.
8. `AppTask`, `FastQueue`, `WebSocket`: a WebSocket session composed with the
   tasks of its handler and the queue between them.

To come:

9. `Supervisor` (`server.py`): readiness, crash streaks, the connection hand-off
   to spawned workers, stop and drain; an abstract supervisor it implements.
10. `EpollBackend`: one descriptor with operations, watches and lazy interest,
    reuse of descriptor numbers.
11. The AFD watches of `iocp.rs` (poll submission, re-arming, cancellation).
12. `spin_gate.rs`, `buffers.rs`: small, sequential.

Proved so far: section 5. Worth proving next: `NeverDeaf`, `NoErrorStorm` and
`TrafficAccounted` of `Listener` (the accounts of an accept pool, with
`retry_at` and the report's back-off kept in step); `ExchangesKeptApart` of
`HttpConnection`; the reference counts in `EntrySound` of `StreamTransport`.

## 3. Modules

**`CrossThreadQueue`** (`ready.rs`, `epoll.rs`, `reactor.rs`). State: the two
queues, `wake_pending`, the backend's `armed` flag, the eventfd and where each
producer and the loop stand. A push is enqueue, raise, `armed` swap and eventfd
write as four steps (`Push`/`PushTimer`, `Raise`, `Wake`, `Post`); `drain_into`
is test, clear, bound, pops, for callbacks and then for timers. The loop drains
before a poll and behind it, and polls without parking, spins, or parks.
Atomics are sequentially consistent: the two swaps that synchronise are `AcqRel`
read-modify-writes, and relaxed effects beyond them are not modelled.

**`EventLoop`** (`coreloop.rs`, `reactor.rs`, `handles.rs`, `gil_boundary.rs`).
Calls (`CallSoon`, `CallAt`, `Cancel`, `Stop`, `AddReader`, `RemoveReader`,
`TransportEvent`) are one step each, under the GIL; whether they touch the
reactor or go through the cross-thread queue depends on `Reachable`, the state
cell. The tick is `TickImmediate`, or `TickParks`, `ParkEnds` and `Resume`; then one
step per handle, event and timer that runs, `FlushCorked` and `TickEnds`; and
the unwinding ones (`Unwind`, `HandBack`, `TakeAndHandBack`), which put the batch, the events
and the timers back.
The heap is a sorted sequence and the hand-off one step: `TimerHeap` and
`CrossThreadQueue` justify both.

**`Filtering`** has the one operator that the queues of the loop and of the
contract, the futures, the waiters of a WebSocket and the events of a transport
share: the elements of a sequence that lie in a set (`Only`), written so that it
can be proved about.

**`AsyncioContract`** is the abstract specification: pending callbacks in call
order, timers with deadlines, events, and what the application saw last.
**`ObservedLoop`** adds that last item to `EventLoop` as a history variable and
gives the refinement mapping (`Contract == INSTANCE AsyncioContract WITH ...`).

**`TimerHeap`** (`timer.rs`, `reactor.rs`, `handles.rs`). The d-ary array with
`SiftUp`, `SiftDown`, tombstones, the counter of cancellations the heap has not
heard of yet, the compaction, and the two moments at which timers are fired
around a poll. It uses `RECURSIVE` operators and is for TLC only.

**`CompletionPort`** (`opslab.rs`, `iocp_util.rs`, `iocp.rs`). Slots with state
and (wrapping) generation, the freelist, the quarantine with its sentinel, the
kernel's pending operations and the port as a FIFO; posts that pend or end at
once, with or without a stray packet; `Dequeue`, `Translate*`, `EndPoll`, and
the teardown. The generation carried by packets is a ghost.

**`StreamTransport`** (`net.rs`). `net` is the transport's share of `NetState`,
of the buffer slab, the backend and the socket; in-cell functions are operators
from one net to the set of nets they may leave, since the backend may complete
an operation inline, park it or refuse it. Bytes are numbered, the peer's
chunk k is one receive's worth. Actions are the transport's methods, the poll
(flush of corked writes, completions, `translate`), one step per dispatched
event, `LostCall` and `Interrupt`.

**`Listener`** (`net.rs`, `epoll.rs`, `coreloop.rs`). `net` as above for
listeners: accept counts, starvation and back-off, events, the descriptor's one
parked accept and its kernel mask, staged completions, and the kernel's backlog.
Actions: `Create`, `Start`, `CreateStarted`, `ListenerClose`, `Poll` (drive,
translate, `retry_starved_listeners`), the dispatch of accepted sockets and
errors, `Close`; the environment connects, aborts an accept, exhausts and
recovers. **`Datagram`** (`net.rs`) is the endpoint of the same `net`: its one
receive, the send in flight and the bounded queue behind it, the slot that a
reap guard keeps while the backend holds it. `Listener` composes its operators
into the same poll, translate, retry, dispatch and close, and adds its calls
(`OpenEndpoint`, `Sendto`, `CloseEndpoint`) and `LostCall`. The backend may
refuse a datagram's post while something is exhausted, as WSARecvFrom may.

**`HttpConnection`** (`http.rs` of both crates, the HTTP parts of `net.rs`). `s`
is one connection: transport flags, parser, `HttpConn`, the events queued for
dispatch, the coroutine of each request (its state, what it awaits, what it
holds) and the wire as a sequence of items, one per buffer. Functions of the
code are operators from one `s` to the next: `Feed` and `Parse` (what a read
completes), `Pump` (dispatch within the quantum), `Receive`, `Send`,
`AfterSend`, `FinishRequest`, `ReleaseRequest`, `Detach`, `Teardown`,
`TlsIngest`, `TlsFlush`. Actions are the events of the loop (`Read`, `Eof`,
`Sent`, `Dispatch`, `Wake`, `Sweep`, `BeginShutdown`, `CancelAll`) and the
calls of the application, which may come in any order the ASGI interface
allows. `Busy` and `Phase` are the sweep's view of a connection. A coroutine is
driven by the engine itself (eager) or by an asyncio Task.

**`AppTask`** (`http.rs`, the stand-in for `asyncio.Task`): futures, awaiting,
waking and cancelling. **`FastQueue`** (`fastqueue.rs`, `queues.py`): `put`,
`get`, `task_done`, `join` and what a cancelled waiter passes on. Both are
libraries of operators on a record; **`WebSocket`** (`http.rs`, `ws.rs`,
`net.rs`) composes them: `s` is the connection of an upgraded request, the
handler's task with two more that read, write or join, and the queue between
them. `HandlerCode` is what a task does between two awaits, `RunReady` resumes
the next task, `Dispatch` runs an event, and the peer, kernel, sweep, shutdown
and cancellations are actions of their own.

`MC*` modules only give constants their values; for the two engines that is a
set of scenarios, each the peer's input, a configuration and the calls that may
be made.

## 4. Runs

| run | instance | shows |
|---|---|---|
| `handoff` | `CrossThreadQueue`, 2 producers, 2 callbacks, 1 timer | `NoLostWakeup`, `RaisedFlagIsBacked`; every item is drained, every drain ends |
| `contract` | `ObservedLoop`, 3 callbacks (symmetric), 1 timer, 1 transport | `KeepsContract`: implements `AsyncioContract` |
| `tick` | `EventLoop`, 1 callback, 1 timer, 1 descriptor with 2 watches, 1 transport, 1 unwind, failing polls | `ParkedIsWoken`; `WatchesSound` (removed watches are cancelled, none is queued twice); stop returns; callbacks, timers and readiness are served |
| `completion_port` | 2 slots, generations mod 2, batches of 2 | `SlabSound` (packets keep their slot, slots accounted, freed memory quiet), `InFlightIsOwedOnePacket`, quarantine ends |
| `timers` | binary heap, 4 timers, clock to 2, failing polls | `TicksOnTime` (fires and parks as a sorted queue would), `BookkeepingExact` (scheduled flags and tombstone counts) |
| `stream` | four scenarios: receiving, pausing, sending, both | `EntrySound` (lost once, references exact), `InboundSound`, `OutboundSound`, silent after lost, paused is resumed, keeps reading, close completes |
| `stream_reorder` | 2 chunks, pause and resume | `ReceivedInOrder` **violated**: see findings |
| `listener` | 2 listeners, pool of 2, 2 connections; or 1 and an endpoint; or an endpoint with 3 datagrams; 1 exhaustion, 1 unwind | `NeverDeaf`, `TrafficAccounted` (every connection once, no socket leaked; datagrams in order, none lost or stranded, buffers held while in use), `NoErrorStorm`, `ServesAgain` (accepts and receives again, a closed endpoint is lost in the end) |
| `deaf_listener` | 1 listener, exhaustion of epoll watches too | `AcceptsAgain` **violated**: see findings |
| `http` | 27 scenarios of up to 3 requests, eager and as Tasks, plain and TLS | `ExchangesKeptApart`, `NobodyForgotten`, `NotCutShort`; every request served, connections close in the end |
| `half_close` | 1 request and a FIN | `HalfCloseKeepsResponse` **violated**: see findings |
| `websocket` | 11 scenarios of up to 5 frames, 3 tasks, 2 cancellations | `MessagesSound`, `NoStrandedWaiter`, `CancelNotLost`, `WireSound`, `ReadsUnlessPressed`; everyone told, sessions end |

**Bounds.** *Hand-off*: two producers suffice for one to push behind the bound
another's push set; two callbacks for a drain that stops short; the timer for
the second half of the drain. Items are pushed again once drained, so behaviours
are unbounded. *Tick*: tokens are reused as well; one clock step separates due
from not due; the poll-skip window is one unit, so a skipped and an honoured
poll both happen; two watch handles let one displace the other. *Contract*:
with three callbacks, one runs while two wait, which is what a wrong hand-back
reorders. *Port*: one slot recycled under another's stray packet needs two
slots; generations wrap after two. *Timers*: four entries of a binary heap have
three levels, so that compaction can leave a child above its parent. *Stream*:
scenarios bound the chunks in each direction and the calls that may happen, so
that their state spaces add up; the high mark (1) is crossed by a second byte
and a send carries two. *Listener*: Interval < Backoff tells the two delays
apart; with a pool of two the epoll backend's answer "full" is met at each
refill; a queue of one datagram behind one in flight overflows with the third. *HTTP*: a pipeline depth of 2 and a quantum of 2 are both exceeded by
three requests; a response is a head and at most one more part, a high mark of
one item makes the second wait; a coroutine suspends twice, so that it can be
detached and then wait again. *WebSocket*: two messages fill the inbox and one
the queue, so readers and writers both park; two cancellations hit a waiter
that was woken and the one its wake-up was passed to; a read carries two frames,
so that input arrives behind a close or an error in one buffer; a future nobody
holds is reused, and there are more than tasks and events ever hold at once
(`FutureLeft`). Behaviours of
both are finite, because the scenarios are.

**Deadlock** checking is off where the system may come to rest (a closed loop, a
lost transport, spent bounds); in `handoff` it is on.

**Fairness.** The loop thread keeps running whenever it has something to do
(weak fairness on its steps): nothing in the code lets it wait while a step is
possible, and the operating system schedules it. The 100 ms clamp of a park is
never assumed to end it, so what is delivered is delivered because of the
wakeup. A producer inside `push` finishes it. Time passes. In `stream` the peer
reads and the kernel completes what it can; in `completion_port` a sentinel's
post, retried at every full batch, is not refused for ever (strong fairness). In
`listener` the poll is fair only when something ends its park, and a full send
buffer empties in the end. No fairness is
assumed of callers, of recovery or of interrupts. In `http` the loop dispatches
and resumes, the kernel reports, the peer reads and the sweep's timer fires
(weak fairness), and an application that is resumed again and again returns in
the end (strong fairness of `AppReturn`: an assumption about the application,
without which no engine could finish a request). In `websocket` the same is
one weak fairness condition on `Progress`, enough because every behaviour is
finite: the handler runs on, and ends when it is told the session is over.
`AcceptsAgain` and `KeepsReading` state the stability they need as a premise.

### Findings

* `stream_reorder`: `settle_inline` in the middle of a dispatch, with reading
  paused and resumed around it, delivers chunks out of order (`net.rs:4573`).
* `deaf_listener`: `park` leaves the operation in the descriptor's slot when
  `epoll_ctl` fails; every retry is then refused (`epoll.rs:391`). It can also
  be reached with descriptors exhausted first, whose unanswered readiness makes
  the poll disarm the mask.
* `half_close`: a FIN read once the application has produced its last message
  closes the connection with the rest of the response still queued
  (`net.rs:2731`); read one event earlier, it lets the response out.

Observed while modelling, without a run of their own:

* Loop: a batch handed back by a signal leaves a watch queued and the next poll
  queues it again (`reactor.rs:284`; `WatchesSound` excepts exactly that). A
  cancellation absorbed before `drain_xthread` leaves its tombstone uncounted
  (`reactor.rs:297`; it costs memory until it surfaces, hence
  `BookkeepingExact` has an inequality there). A failed poll leaves the
  cross-thread queue undrained, so timers with equal deadlines may change places
  (`TicksOnTime` allows for exactly that), and a `call_soon` made before the next
  run overtakes a `call_soon_threadsafe` the failed poll left there, where the
  comment at `coreloop.rs:2184` says "FIFO order holds too". `contract` and
  `LoopKeepsContract` are therefore about polls that do not fail
  (`PollMayFail = FALSE`).
* Streams: `proto_paused` is cleared when `resume_writing` is queued, not when
  it runs; a write in between calls `pause_writing` on a paused protocol
  (`net.rs:3036`).
* Listeners: `Server.start_serving` marks itself serving before it starts its
  listeners, so one that fails leaves the later ones unstarted (`tcp.py:194`).
* Datagrams: an error of the last send a closing endpoint drains is queued and
  the endpoint removed in the same step, so the dispatch finds nobody to tell
  (`net.rs:1679`; `net.rs:3327` says it still reports them). A receive whose
  `epoll_ctl` fails leaves its operation on the descriptor, as with listeners,
  while its slot goes back to the pool (`net.rs:1615`).
* HTTP under TLS: `http_conn_busy` does not count plaintext that is staged and
  not yet encrypted, so a shutdown between the response and the flush takes the
  connection for idle and drops it, although the comment above it
  (`net.rs:1875-1880`) says that "truncating exactly the responses it exists to
  protect" ended when shutdown and sweep came to share this function; records
  read behind a response that closes are still fed to the parser, against
  `http.rs:3522`. Scenarios with TLS do both, so `NotCutShort` speaks of staged
  plaintext behind orderly closes only, and `NothingAfterClose` of plain
  connections only. Three more cases stay outside the scenarios: records read
  behind a 408, the 408 staged again at each pass of the sweep until the flush,
  and a peer's close_notify, which closes while a suspended application still
  owes its response.
* WebSocket: messages still in the inbox are dropped when the connection is
  torn down behind the peer's close; a lingering close with the inbox paused
  does not read until the sweep ends it; a shutdown that finds only a cancelled
  waiter parked wakes nobody and leaves the close to the handler's return;
  frames that arrive behind the shutdown's 1012 queue behind the disconnect;
  a disconnect pushed for the peer's close is not charged to `inbox_bytes`
  (`http.rs:290`).

## 5. Proofs

`CrossThreadQueue_proofs`, for any sets of producers and items:

* `TypeCorrect`, `FlagAlwaysBacked`, `ArmedAlwaysBacked`, `NeverLosesAWakeup`.
* The inductive invariant `IInv` adds to the types that an idle drain is at its
  first step (`DrainAtRest`), that `wake_pending` and `armed` each have something
  behind them (`RaisedFlagIsBacked`, `ArmedIsBacked`), and that an item the
  drain under way will not pop has the flag up or its producer about to raise it
  (`LeftoverIsFlagged`). `NoLostWakeup` alone is not inductive: it does not say
  why a producer that finds the flag up may leave without a post, nor why
  `drain_into` may return early. One lemma per conjunct, one step per action.
* Assumption: callbacks and timers are disjoint (`CrossThreadAssumption`).

`EventLoop_proofs`, for any handles, descriptors, transports and bounds, failing
polls included:

* `NeverSleepsOverWork`: `ParkedIsWoken`, from `WakeInv`: items in flight imply
  the flag, and a parked loop that was stopped or has the flag up has its wakeup
  posted. Steps that leave the four variables alone are one lemma
  (`QuietStep`).
* `LoopIsSound`: `LoopInv` is an invariant. It has four parts, each with its
  lemma (`StepTimers`, `StepEvents`, `StepFlags`, `StepHandles`):
  - `TimersGood`: an entry is in one of the four timer queues, once
    (`TimersApart`); the heap is sorted and what fired is due (`TimersOnTime`);
  - `EventsGood`: the same of transport events (`EventsApart`);
  - `FlagsGood`: outside a dispatch the tick's own queues are empty (`Rested`),
    without which a tick would overwrite a batch;
  - `HandlesGood`: what is cancelled is held (`CancelledIsHeld`, so a handle that
    is scheduled anew is not born cancelled), an unregistered watch that is still
    queued is cancelled, and until an error unwinds a tick no watch is queued
    twice, `ready` holding none at all (`WatchesApart`).
* `WatchesAreSound`: `WatchesSound`, from `LoopInv`. `WatchesSound` alone is not
  inductive: a watch is queued once because the ready queue a tick takes holds
  none, and that is not in the property.
* Assumptions (`LoopAssumption`): the kinds of handles are disjoint, `None` is no
  handle, and there are finitely many descriptors.

`ObservedLoop_proofs`, the refinement:

* `LoopKeepsContract`: `~PollMayFail` implies that `ObservedSpec` implements
  `AsyncioContract` (`KeepsContract`), whatever the number of callbacks, timers,
  watches and transports. The mapping's pending callbacks are the live handles
  of `batch \o ready \o xqueue`, in that order; its timers the live entries of
  the four timer queues.
* The invariant `RefInv` is `LoopInv`, `WakeInv` and `Handed`: outside a park the
  cross-thread queue is empty, so that a direct `call_soon` ends the line. This
  is what a failed poll breaks, hence the hypothesis.
* `InitMaps`, and one lemma per action: draining, taking and handing back a batch
  stutter (`TickImmediateMaps`, `ResumeMaps`, `TickParksMaps`, `QuietMaps`);
  `RunHandleMaps`, `RunTimerMaps` and `DispatchEventMaps` are the contract's runs
  or, for cancelled handles and watches, stutters; `CancelMaps`, `CallSoonMaps`,
  `CallAtMaps`, `EventArrivesMaps`, `TimePassesMaps`, `CloseMaps`. `PendingNext`
  and `WaitingNext` say what the contract sees after a step that cancels,
  although `SetCancelled` forgets handles the loop let go of.

`CompletionPort_proofs`, for any growth, batch size and (wrapping) generations:

* `SlabIsSound` and `OwedExactlyOne`: `SlabSound` and `InFlightIsOwedOnePacket`.
* The inductive invariant `IInv` adds to the types where each slot is (`Placed`),
  that a packet's slot is not free and has the packet's generation (`Matched`),
  that an operation in flight is owed one packet (`Owed`), that no packet of a slot the sentinel covers is behind the sentinel
  (`Covering`), what a poll that dequeued a short batch has proved of the port
  (`Polled`), and the counter (`Counted`). Without `Covering` and `Polled`
  nothing says why a slot may leave the quarantine; a generation alone cannot,
  as it wraps.

`StreamTransport_proofs`, for any scenarios, water marks, cork and gather sizes,
bound on inline rounds and number of receive slots:

* `OutboundIsSound`: `OutboundSound`. `LostExactlyOnce`: `LostOnce`, the part of
  `EntrySound` about the end of a connection. `StaysSilent`: the action property
  `SilentAfterLost`.
* The inductive invariant `TransportInv` (`TransportIsSound`) has two halves.
  - `Outbound` says where a send stands. With an open transport there is none
    (`SendIdle`), the kernel has one (`SendParked`), or one completion reports
    it (`SendReported`), and in each case the bytes on the socket, those taken
    and those still queued add up to those written, numbered in order
    (`OpenSound`). When a transport was torn down a send the kernel still has
    reads bytes that the reap guard holds, and a transport that closed in order
    has no send left (`GoneSound`). `SentInOrder` alone is not inductive: it does
    not say that a completion will retire exactly what was sent, that there is
    never a second send, nor that the guard holds what the kernel reads.
  - The end that is owed is conserved: calls of `connection_lost`, the ends among
    the events being dispatched and those queued, the ones scheduled and in the
    batch, and one for a transport that is still open, add up to one; outside
    the batch's own pass the batch is empty.
  `LostOnce` is that sum, and `SilentAfterLost` follows from it: once the call
  was made the transport is closed and no other end waits.
* The operators from a net to a set of nets are reasoned about by what a step
  keeps: `Aside` (nothing to do with sending: everything about receives),
  `Keeps` (the invariant, with completions still to be translated as a
  parameter, and the end that is owed), `Called` (the same, but deferred ends may
  move to the schedule and an open transport may be paused). Each relation
  composes, each operator of the model has one lemma, each action then one line
  in `NextSound`. The loops of `translate` and `settle_inline` are recursive
  functions over indices, and their lemmas (`TranslateKeeps`, `SettleKeeps`)
  inductions over them.
* Assumption: `TransportAssumption` (sizes are positive, marks are numbers).

`WebSocket_proofs`, for any scenarios, any finite set of tasks and any futures,
the handler's tasks and the queue between them included:

* `WireIsSound`: `WireSound`. `ReadsOrIsPressed`: `ReadsUnlessPressed`.
  `NobodyWaitsBesideMail`: a `receive()` parked on an open connection has an
  empty inbox beside it.
* The inductive invariant `SessionInv` (`SessionIsSound`): the frames are in
  order (`InOrder`); the flags of a session that may still send agree with what
  it sent (`Told`), and `websocket.connect` is with one task at most, given out
  or taken, and with none once the session is accepted (`ConnectOnce`,
  `Accounted`) -- without which nothing keeps a second `accept` off the wire when
  a `receive()` is cancelled and its message put back; a session that does not
  read is paused, a paused one is pressed (`ReadSound`, `PauseSound`); a waiter
  stands beside an empty inbox (`MailSound`); and only a session that closes
  lingers (`Shape`), so that the end of a lingering one finds it closing.
* Steps of futures, tasks and the queue are `Quiet` for all that is watched; a
  connection on its way down is `Down`. One lemma per operator, as above.
* Assumptions: `SocketAssumption`, and `TaskAssumption` with finitely many tasks.

`WebSocketWaits_proofs`, as general, for the same sessions: `CancelsAreNotLost`
(`CancelNotLost`) and `NobodyIsStranded` (`NoStrandedWaiter`, for any size of the
queue).

* The inductive invariant `WaitInv` (`WaitsAreSound`) has four parts. `TaskInv`:
  a task is in one place (running, ready, or asleep on a pending future that is
  its own), and a cancellation it is owed is latched or on its future. `Backed`:
  a parked future of a getter or putter is awaited by a task in `get()` or
  `put()`; without it a wake-up could go to a future nobody awaits.
  `GettersServed`, `PuttersServed`: every item (slot) has a woken task on its
  way while somebody is parked. `Counted`: `unfinished` covers the items in the
  queue and those with a writer, so that `task_done` cannot release a `join()`
  early or find the count at zero.
* The served parts take a slack: when a woken task runs it no longer counts as
  on its way, and its item or slot is unclaimed until it takes it, parks again
  or `getter_recovery` / `putter_recovery` wakes the next one. `Step` costs one;
  `GetNow`, `PutNow` and the recoveries pay it back, each in a lemma of its own
  (`GetNowServes`, `GetterRecoveryServes` ...), before the step ends.
* What does not touch tasks, futures or the queue is `Beside`, what passes a
  message on is `Handed`; both keep the invariant.
* That the inbox is empty beside a waiter comes from `SessionInv`; that nobody
  waits on a closed connection from `ClosedSound`.
* Assumptions: those above and `QueueAssumption` (`MaxSize` is a number). The
  model's futures are finitely many, and a task runs only while one is left for
  it to park on (`FutureLeft`): this keeps the theorems free of a hypothesis.
  In the `websocket` run the bound never holds a step back: it has the same
  states without it.

`Filtering_proofs` holds what these share: the elements of appended, joined, cut
and filtered sequences, also of sequences of unknown type (`Listed`), and that
filtering keeps type, order and injectivity and
commutes with joining. The library's induction theorems take an operator, which
the installed provers cannot instantiate; `UpTo` and `OverSequences` state
induction for sets of numbers and of sequences instead, and `Recursion` that a
function defined by recursion on `0..n` has its defining equations, from which
`Only`, `ScheduleAll`, `ResolveAll`, `ParseAll`, `Translate` and `SettleInline`
are reasoned about.

Model-checked only: every liveness property (fairness is out of the prover's
reach); everything about `TimerHeap` (recursive operators);
of `StreamTransport`, `RefsExact` and the types of slots (they hold for as many
slots as the scenario needs: `CHOOSE` of a free slot has to find one, a bound
the proof would have to derive from the lengths of all queues) and
`InboundSound` (a count over flattened sequences of events);
of `WebSocket`, `MessagesSound`, which counts over sequences likewise;
`Listener` with `Datagram`, and `HttpConnection` (section 2).

## 6. Not modelled

The supervisor (its crash streaks, the hand-off of connections to workers whose
channel may break, and its STOP behind a full queue), the AFD watches,
registered I/O and the descriptor table of epoll are planned (section 2). Of the
engines: header validation, scope building, dates and the access log are data; a response
shorter than its Content-Length, WebSocket sessions under TLS, and awaitables of
`receive()` that are kept unawaited across other calls (one is awaited at once,
or dropped) are left out. The body of a request is one message, timeouts are
choices of the sweep, and the loop interleaves events and ready tasks in any
order, which is more than a tick allows. A task a handler starts is an
`asyncio.Task`, modelled by `AppTask`.

Left out for good: llhttp (vendored, generated), `netsys.rs` (system call
wrappers), `ctxsnap.rs` and `taskfast.rs` (the memory layout of CPython),
`_winpipes.py` (Windows pipe transports after the proactor's), the argument
handling of `loop.py` and `tcp.py`, benchmarks and tools. Weak memory effects
beyond the atomics named above, and the size of buffers in bytes, are abstracted
from.
