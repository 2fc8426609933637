----------------------------- MODULE EventLoop -----------------------------
(***************************************************************************)
(* The event loop of cadeloop: Reactor (crates/core/src/reactor.rs) driven *)
(* by CoreLoop's tick, run_forever, stop and close                         *)
(* (crates/pyshim/src/coreloop.rs), with the state cell that decides which *)
(* thread may touch the reactor (gil_boundary.rs).                         *)
(*                                                                         *)
(* The GIL makes every call into the core one step.  It is released in one *)
(* place, the poll of a tick that parks, and there the state cell stays    *)
(* borrowed: until the loop thread has the GIL back, other threads reach   *)
(* the loop only through the cross-thread queue, the wakeup, the stopping  *)
(* flag and the handles.  While the loop dispatches, whoever holds the GIL *)
(* -- the running callback or another thread -- calls the core directly.   *)
(*                                                                         *)
(* A token stands for a Handle object; it is used again once the loop let  *)
(* go of it.  The timer heap is its live entries in (deadline, insertion)  *)
(* order: a cancelled timer leaves it at once, where the code leaves a     *)
(* tombstone behind.                                                       *)
(***************************************************************************)
EXTENDS Naturals, Sequences, FiniteSets, SequencesExt, Filtering

CONSTANTS
  Soon,        \* call_soon / call_soon_threadsafe handles
  Timers,      \* call_later / call_at handles
  Fds,         \* descriptors add_reader may watch
  Watches,     \* add_reader handles
  Conns,       \* transports: each has at most one event in the system
  None,        \* no watch on the descriptor
  MaxTime,     \* bound on the clock
  SkipWindow,  \* POLL_SKIP_NS, in clock units
  MaxUnwinds,  \* bound on KeyboardInterrupt / SystemExit / failed polls
  PollMayFail  \* whether the backend's poll can return an error

ASSUME LoopAssumption ==
  /\ MaxTime \in Nat /\ SkipWindow \in Nat /\ MaxUnwinds \in Nat
  /\ PollMayFail \in BOOLEAN
  /\ None \notin Soon \cup Timers \cup Watches /\ IsFiniteSet(Fds)
  /\ Soon \cap Watches = {} /\ Soon \cap Timers = {} /\ Timers \cap Watches = {}

Handles == Soon \cup Timers \cup Watches

VARIABLES
  mode,         \* where the loop thread is
  stopping,     \* CoreLoop.stopping
  ready,        \* Reactor.ready
  expired,      \* Reactor.expired
  heap,         \* Reactor.timers: live entries, next deadline first
  xqueue,       \* CrossThreadQueue.queue
  xtimers,      \* CrossThreadQueue.timers
  wakePending,  \* CrossThreadQueue.wake_pending
  wake,         \* a wakeup the backend's poll has not consumed
  batch,        \* the tick's ready batch, not dispatched yet
  dueTimers,    \* the expired timers at the tail of the batch
  tickEvents,   \* the transport events this tick took
  hadEvents,    \* the tick took some
  netEvents,    \* NetState.events
  readers,      \* NetState.readers: Fds -> Watches or None
  cancelled,    \* handles whose cancelled flag is set
  ioReady,      \* kernel: descriptors that are readable
  kernelDone,   \* kernel: completed transport operations, not reaped
  reapedFds,    \* Reactor.completions: readiness the poll returned
  reapedOps,    \* Reactor.completions: operations the poll returned
  now,          \* the clock
  pollAge,      \* clock units since last_poll_ns, up to SkipWindow
  unwinds       \* fatal errors so far

queues == <<ready, expired, heap>>
xthread == <<xqueue, xtimers, wakePending, wake>>
tickVars == <<batch, dueTimers, tickEvents, hadEvents>>
kernel == <<ioReady, kernelDone>>
reaped == <<reapedFds, reapedOps>>
clock == <<now, pollAge>>
vars == <<mode, stopping, queues, xthread, tickVars, netEvents, readers, cancelled, kernel, reaped,
          clock, unwinds>>

\* "idle": run_forever is not on the stack.  "tick": at the top of tick().
\* "parked": in the poll, GIL released.  "woken": the poll returned, the GIL
\* is not back yet.  "dispatch": phases 3 and 4.  "teardown": behind the
\* flush of the writes the tick corked.
Modes == {"idle", "tick", "parked", "woken", "dispatch", "teardown", "closed"}

TimerEntry == [when : 0..MaxTime, timer : Timers]

TypeOK ==
  /\ mode \in Modes
  /\ stopping \in BOOLEAN
  /\ ready \in Seq(Soon \cup Watches) /\ expired \in Seq(TimerEntry) /\ heap \in Seq(TimerEntry)
  /\ xqueue \in Seq(Soon) /\ xtimers \in Seq(TimerEntry)
  /\ wakePending \in BOOLEAN /\ wake \in BOOLEAN
  /\ batch \in Seq(Soon \cup Watches) /\ dueTimers \in Seq(TimerEntry)
  /\ tickEvents \in Seq(Conns) /\ hadEvents \in BOOLEAN
  /\ netEvents \in Seq(Conns)
  /\ readers \in [Fds -> Watches \cup {None}]
  /\ cancelled \in SUBSET Handles
  /\ ioReady \in SUBSET Fds /\ kernelDone \in Seq(Conns)
  /\ reapedFds \in SUBSET Fds /\ reapedOps \in Seq(Conns)
  /\ now \in 0..MaxTime /\ pollAge \in 0..SkipWindow
  /\ unwinds \in 0..MaxUnwinds

Init ==
  /\ mode = "idle"
  /\ stopping = FALSE
  /\ ready = <<>> /\ expired = <<>> /\ heap = <<>>
  /\ xqueue = <<>> /\ xtimers = <<>> /\ wakePending = FALSE /\ wake = FALSE
  /\ batch = <<>> /\ dueTimers = <<>> /\ tickEvents = <<>> /\ hadEvents = FALSE
  /\ netEvents = <<>>
  /\ readers = [fd \in Fds |-> None]
  /\ cancelled = {}
  /\ ioReady = {} /\ kernelDone = <<>>
  /\ reapedFds = {} /\ reapedOps = <<>>
  /\ now = 0 /\ pollAge = SkipWindow
  /\ unwinds = 0

-----------------------------------------------------------------------------
(* Who may call, and what is pending.                                      *)

\* try_with succeeds: the cell is not borrowed by a parked loop.
Reachable == mode \in {"idle", "dispatch", "teardown"}

\* try_with fails: only another thread can be calling.
Borrowed == mode \in {"parked", "woken"}

InSeq(x, s) == \E i \in 1..Len(s) : s[i] = x

TimersOf(s) == {s[i].timer : i \in 1..Len(s)}

Registered == {readers[fd] : fd \in Fds} \ {None}

\* Tokens some part of the loop holds.
Held == ToSet(ready) \cup TimersOf(expired) \cup TimersOf(heap) \cup ToSet(xqueue)
          \cup TimersOf(xtimers) \cup ToSet(batch) \cup TimersOf(dueTimers)
          \cup Registered

EventsHeld == ToSet(netEvents) \cup ToSet(tickEvents) \cup ToSet(kernelDone) \cup ToSet(reapedOps)

\* A token nobody holds any more is as good as a new Handle.
SetCancelled(c) == cancelled' = c \cap Held'

-----------------------------------------------------------------------------
(* Calls: the loop's API, from the running callback or another thread.     *)

\* Mutant: no producer posts the wakeup.
Mut_PushNeverWakes == wakePending' = TRUE /\ wake' = wake

\* push / push_timer returned true for the first item since the last drain:
\* the producer posts the wakeup.
PushWakes == wakePending' = TRUE /\ wake' = (wake \/ ~wakePending)

\* call_soon, call_soon_threadsafe: enqueue_soon.
CallSoon(h) ==
  /\ h \notin Held
  /\ \/ Reachable /\ ready' = Append(ready, h) /\ UNCHANGED xthread
     \/ Borrowed /\ xqueue' = Append(xqueue, h) /\ PushWakes /\ UNCHANGED <<ready, xtimers>>
  /\ UNCHANGED <<mode, stopping, expired, heap, tickVars, netEvents, readers, cancelled, kernel,
                 reaped, clock, unwinds>>

\* TimerHeap::schedule: behind the entries due no later.
Schedule(hp, entry) ==
  LET i == Cardinality({k \in 1..Len(hp) : hp[k].when <= entry.when})
  IN  SubSeq(hp, 1, i) \o <<entry>> \o SubSeq(hp, i + 1, Len(hp))

\* One after the other, as drain_into hands them over.
ScheduleAll(hp, entries) ==
  LET filled[i \in 0..Len(entries)] ==
        IF i = 0 THEN hp ELSE Schedule(filled[i - 1], entries[i])
  IN filled[Len(entries)]

\* call_at, call_later: schedule_timer.
CallAt(t, deadline) ==
  LET entry == [when |-> deadline, timer |-> t] IN
  /\ t \notin Held
  /\ \/ Reachable /\ heap' = Schedule(heap, entry) /\ UNCHANGED xthread
     \/ Borrowed /\ xtimers' = Append(xtimers, entry) /\ PushWakes /\ UNCHANGED <<heap, xqueue>>
  /\ UNCHANGED <<mode, stopping, ready, expired, tickVars, netEvents, readers, cancelled, kernel,
                 reaped, clock, unwinds>>

\* Handle.cancel, TimerHandle.cancel: only the handle is touched, so any
\* thread may call it even while the loop is parked.
Cancel(h) ==
  /\ Reachable \/ Borrowed
  /\ h \in Held \ cancelled
  /\ heap' = Only(heap, {e \in TimerEntry : e.timer # h})
  /\ UNCHANGED <<mode, stopping, ready, expired, xthread, tickVars, netEvents, readers, kernel,
                 reaped, clock, unwinds>>
  /\ SetCancelled(cancelled \cup {h})

\* Mutant: stop() only sets the flag.
Mut_StopWithoutWake ==
  /\ Reachable \/ Borrowed
  /\ ~stopping
  /\ stopping' = TRUE
  /\ UNCHANGED <<mode, queues, xthread, tickVars, netEvents, readers, cancelled, kernel, reaped,
                 clock, unwinds>>

\* stop: the flag, then the wakeup.
Stop ==
  /\ Reachable \/ Borrowed
  /\ ~stopping
  /\ stopping' = TRUE
  /\ wake' = TRUE
  /\ UNCHANGED <<mode, queues, xqueue, xtimers, wakePending, tickVars, netEvents, readers,
                 cancelled, kernel, reaped, clock, unwinds>>

\* Mutant: the displaced watch is only forgotten.
Mut_AddReaderForgets(fd, w, refused) ==
  /\ Reachable
  /\ w \notin Held
  /\ readers' = IF refused THEN readers ELSE [readers EXCEPT ![fd] = w]
  /\ UNCHANGED <<mode, stopping, queues, xthread, tickVars, netEvents, cancelled, kernel, reaped,
                 clock, unwinds>>

\* add_reader: the displaced watch is cancelled (drain_graveyards); when the
\* backend refuses the watch the map is rolled back.
AddReader(fd, w, refused) ==
  /\ Reachable
  /\ w \notin Held
  /\ readers' = IF refused THEN readers ELSE [readers EXCEPT ![fd] = w]
  /\ UNCHANGED <<mode, stopping, queues, xthread, tickVars, netEvents, kernel, reaped, clock,
                 unwinds>>
  /\ SetCancelled(cancelled \cup {IF refused THEN w ELSE readers[fd]})

\* remove_reader: the removed watch is cancelled; a copy of it may still sit
\* in this tick's batch.
RemoveReader(fd, refused) ==
  /\ Reachable
  /\ readers[fd] # None
  /\ readers' = IF refused THEN readers ELSE [readers EXCEPT ![fd] = None]
  /\ UNCHANGED <<mode, stopping, queues, xthread, tickVars, netEvents, kernel, reaped, clock,
                 unwinds>>
  /\ SetCancelled(IF refused THEN cancelled ELSE cancelled \cup {readers[fd]})

\* A transport call (abort, close) queues an event of its own.
TransportEvent(c) ==
  /\ Reachable
  /\ c \notin EventsHeld
  /\ netEvents' = Append(netEvents, c)
  /\ UNCHANGED <<mode, stopping, queues, xthread, tickVars, readers, cancelled, kernel, reaped,
                 clock, unwinds>>

-----------------------------------------------------------------------------
(* The kernel and the clock.                                               *)

BecomesReadable(fd) ==
  /\ mode # "closed"
  /\ fd \notin ioReady
  /\ ioReady' = ioReady \cup {fd}
  /\ UNCHANGED <<mode, stopping, queues, xthread, tickVars, netEvents, readers, cancelled,
                 kernelDone, reaped, clock, unwinds>>

OperationCompletes(c) ==
  /\ mode # "closed"
  /\ c \notin EventsHeld
  /\ kernelDone' = Append(kernelDone, c)
  /\ UNCHANGED <<mode, stopping, queues, xthread, tickVars, netEvents, readers, cancelled, ioReady,
                 reaped, clock, unwinds>>

TimePasses ==
  /\ mode # "closed"
  /\ now < MaxTime \/ pollAge < SkipWindow
  /\ now' = IF now < MaxTime THEN now + 1 ELSE now
  /\ pollAge' = IF pollAge < SkipWindow THEN pollAge + 1 ELSE pollAge
  /\ UNCHANGED <<mode, stopping, queues, xthread, tickVars, netEvents, readers, cancelled, kernel,
                 reaped, unwinds>>

-----------------------------------------------------------------------------
(* One tick.                                                               *)

\* drain_xthread and fire_expired_timers: what prepare_tick, and
\* finish_poll_after behind a park, make of the queues.
Drained == IF wakePending THEN ready \o xqueue ELSE ready
HeapDrained ==
  IF wakePending
  THEN ScheduleAll(heap, Only(xtimers, {e \in TimerEntry : e.timer \notin cancelled}))
  ELSE heap

DueCount == Cardinality({k \in 1..Len(HeapDrained) : HeapDrained[k].when <= now})
Fired == expired \o SubSeq(HeapDrained, 1, DueCount)
HeapLeft == SubSeq(HeapDrained, DueCount + 1, Len(HeapDrained))
XThreadDrained ==
  /\ xqueue' = IF wakePending THEN <<>> ELSE xqueue
  /\ xtimers' = IF wakePending THEN <<>> ELSE xtimers
  /\ wakePending' = FALSE

\* poll_timeout is zero, or tick() makes it zero.
Immediate == stopping \/ netEvents # <<>> \/ Drained # <<>> \/ Fired # <<>>

Watched == {fd \in Fds : readers[fd] # None}

\* translate: a watch that was cancelled is dropped the first time its
\* descriptor fires (unless the backend refuses), the others are queued.
CancelledAmong(fds) == {fd \in fds \cap Watched : readers[fd] \in cancelled}
WatchesOf(fds) == {readers[fd] : fd \in (fds \cap Watched) \ CancelledAmong(fds)}
Unwatch(fds) ==
  \E dropped \in SUBSET CancelledAmong(fds) :
    readers' = [fd \in Fds |-> IF fd \in dropped THEN None ELSE readers[fd]]

\* ready_scratch joins the batch (absorb_into_batch), then take_batch and
\* take_expired, and the events trade places with the tick's.
TakeBatch(rdy, exp, fds, ops) ==
  /\ mode' = "dispatch"
  /\ batch' = rdy \o SetToSeq(WatchesOf(fds))
  /\ dueTimers' = exp
  /\ tickEvents' = netEvents \o ops
  /\ hadEvents' = (netEvents \o ops # <<>>)
  /\ ready' = <<>> /\ expired' = <<>> /\ netEvents' = <<>>
  /\ UNCHANGED <<stopping, unwinds>>

\* An error leaves run_forever: the stopping flag is cleared on the way out.
Unwind ==
  /\ unwinds < MaxUnwinds
  /\ unwinds' = unwinds + 1
  /\ mode' = "idle"
  /\ stopping' = FALSE
  /\ hadEvents' = FALSE

\* Mutant: undispatched callbacks go behind what was scheduled since.
Mut_HandBackToTheBack(rdy, exp, evs) ==
  /\ ready' = ready \o rdy
  /\ expired' = exp \o expired
  /\ netEvents' = evs \o netEvents
  /\ batch' = <<>> /\ dueTimers' = <<>> /\ tickEvents' = <<>>

\* hand_back and requeue_events: what the tick took goes back to the front.
HandBack(rdy, exp, evs) ==
  /\ ready' = rdy \o ready
  /\ expired' = exp \o expired
  /\ netEvents' = evs \o netEvents
  /\ batch' = <<>> /\ dueTimers' = <<>> /\ tickEvents' = <<>>

\* PyErr_CheckSignals found one once the batch was taken: all of it is
\* handed back (into queues the tick had emptied).
TakeAndHandBack(rdy, exp, fds, ops) ==
  /\ Unwind
  /\ ready' = rdy \o SetToSeq(WatchesOf(fds))
  /\ expired' = exp
  /\ netEvents' = netEvents \o ops
  /\ UNCHANGED <<batch, dueTimers, tickEvents>>

\* run_forever: check_closed and claim.
RunForever ==
  /\ mode = "idle"
  /\ mode' = "tick"
  /\ UNCHANGED <<stopping, queues, xthread, tickVars, netEvents, readers, cancelled, kernel, reaped,
                 clock, unwinds>>

\* Mutant: the poll is skipped whenever there is other work.
Mut_TickNeverPolls ==
  /\ mode = "tick"
  /\ Immediate
  /\ Unwatch({})
  /\ TakeBatch(Drained, Fired, {}, <<>>) \/ TakeAndHandBack(Drained, Fired, {}, <<>>)
  /\ XThreadDrained
  /\ heap' = HeapLeft
  /\ UNCHANGED <<wake, kernel, reaped, clock>>
  /\ SetCancelled(cancelled)

\* A tick whose poll does not block keeps the GIL.  The kernel is asked only
\* when there is something it could report and the skip window is over;
\* completions the backend staged in user space are taken in any case.
TickImmediate ==
  /\ mode = "tick"
  /\ Immediate
  /\ \E interest \in BOOLEAN, staged \in SUBSET ToSet(kernelDone) :
       LET polls == interest /\ pollAge = SkipWindow
           fds == IF polls THEN ioReady \cap Watched ELSE {}
           taken == IF polls THEN Conns ELSE staged
       IN  /\ Watched # {} \/ kernelDone # <<>> => interest
           /\ pollAge' = IF polls THEN 0 ELSE pollAge
           /\ wake' = (wake /\ ~polls)
           /\ kernelDone' = Only(kernelDone, Conns \ taken)
           /\ Unwatch(fds)
           /\ \/ TakeBatch(Drained, Fired, fds, Only(kernelDone, taken))
              \/ TakeAndHandBack(Drained, Fired, fds, Only(kernelDone, taken))
  /\ XThreadDrained
  /\ heap' = HeapLeft
  /\ UNCHANGED <<ioReady, reaped, now>>
  /\ SetCancelled(cancelled)

\* A tick with nothing to do releases the GIL and parks.
TickParks ==
  /\ mode = "tick"
  /\ ~Immediate
  /\ mode' = "parked"
  /\ XThreadDrained
  /\ heap' = HeapLeft
  /\ UNCHANGED <<stopping, ready, expired, wake, tickVars, netEvents, readers, kernel, reaped, clock,
                 unwinds>>
  /\ SetCancelled(cancelled)

\* Mutant: the park does not end at the next deadline.
Mut_WokenUpNotByTimer == wake \/ kernelDone # <<>> \/ ioReady \cap Watched # {}

\* What ends a poll before the 100 ms clamp.
WokenUp == \/ wake
           \/ kernelDone # <<>>
           \/ ioReady \cap Watched # {}
           \/ heap # <<>> /\ heap[1].when <= now

\* The backend's poll returns with all there is to report; one of the spin's
\* polls leaves last_poll_ns alone.
PollReturns ==
  /\ mode' = "woken"
  /\ reapedFds' = ioReady \cap Watched
  /\ reapedOps' = kernelDone
  /\ kernelDone' = <<>>
  /\ wake' = FALSE
  /\ pollAge' \in {0, pollAge}
  /\ UNCHANGED <<stopping, queues, xqueue, xtimers, wakePending, tickVars, netEvents, readers,
                 cancelled, ioReady, now, unwinds>>

ParkEnds == mode = "parked" /\ WokenUp /\ PollReturns

\* The spin ahead of the park ends: its poll found nothing, but the
\* cross-thread queue is not empty any more.
SpinEnds ==
  /\ mode = "parked"
  /\ kernelDone = <<>> /\ ioReady \cap Watched = {}
  /\ xqueue # <<>> \/ xtimers # <<>>
  /\ mode' = "woken"
  /\ UNCHANGED <<stopping, queues, xthread, tickVars, netEvents, readers, cancelled, kernel, reaped,
                 clock, unwinds>>

\* The clamp, a signal, or a tombstone's deadline: nothing to report.
ParkTimesOut == mode = "parked" /\ ~WokenUp /\ PollReturns

\* The loop thread has the GIL back: finish_poll_after(true), translate, and
\* the batch -- or a pending signal.
Resume ==
  /\ mode = "woken"
  /\ Unwatch(reapedFds)
  /\ \/ TakeBatch(Drained, Fired, reapedFds, reapedOps)
     \/ TakeAndHandBack(Drained, Fired, reapedFds, reapedOps)
  /\ reapedFds' = {} /\ reapedOps' = <<>>
  /\ XThreadDrained
  /\ heap' = HeapLeft
  /\ UNCHANGED <<wake, kernel, clock>>
  /\ SetCancelled(cancelled)

\* The poll failed: tick() returns before finish_poll_after, and what
\* prepare_tick drained stays in the reactor's queues.
PollFailed ==
  /\ PollMayFail
  /\ Unwind
  /\ UNCHANGED <<wake, batch, dueTimers, tickEvents, netEvents, readers, kernel, reaped, clock>>
  /\ \/ mode = "parked" /\ UNCHANGED <<queues, xqueue, xtimers, wakePending, cancelled>>
     \/ /\ mode = "tick" /\ Immediate
        /\ ready' = Drained /\ expired' = Fired /\ heap' = HeapLeft
        /\ XThreadDrained
        /\ SetCancelled(cancelled)

-----------------------------------------------------------------------------
(* Dispatch: the batch, then the transport events, then the timers.        *)

\* run_handle: a cancelled handle is skipped; a watch's callback reads its
\* descriptor dry.
RunHandle ==
  LET h == Head(batch) IN
  /\ mode = "dispatch"
  /\ batch # <<>>
  /\ ioReady' = IF h \in cancelled THEN ioReady ELSE ioReady \ {fd \in Fds : readers[fd] = h}
  /\ \/ /\ batch' = Tail(batch)
        /\ UNCHANGED <<mode, stopping, ready, expired, dueTimers, tickEvents, hadEvents, netEvents,
                       unwinds>>
     \/ /\ h \notin cancelled
        /\ Unwind
        /\ HandBack(Tail(batch), dueTimers, tickEvents)
  /\ UNCHANGED <<heap, xthread, readers, kernelDone, reaped, clock>>
  /\ SetCancelled(cancelled)

\* dispatch_events: a fatal error leaves the rest at the front of the queue
\* and hands the timers back.
DispatchEvent ==
  /\ mode \in {"dispatch", "teardown"}
  /\ batch = <<>>
  /\ tickEvents # <<>>
  /\ \/ /\ tickEvents' = Tail(tickEvents)
        /\ UNCHANGED <<mode, stopping, ready, expired, batch, dueTimers, hadEvents, netEvents,
                       unwinds>>
     \/ /\ Unwind
        /\ HandBack(<<>>, dueTimers, Tail(tickEvents))
  /\ UNCHANGED <<heap, xthread, readers, cancelled, kernel, reaped, clock>>

\* run_timers
RunTimer ==
  LET t == Head(dueTimers).timer IN
  /\ mode = "dispatch"
  /\ batch = <<>> /\ tickEvents = <<>>
  /\ dueTimers # <<>>
  /\ \/ /\ dueTimers' = Tail(dueTimers)
        /\ UNCHANGED <<mode, stopping, ready, expired, batch, tickEvents, hadEvents, netEvents,
                       unwinds>>
     \/ /\ t \notin cancelled
        /\ Unwind
        /\ HandBack(<<>>, Tail(dueTimers), <<>>)
  /\ UNCHANGED <<heap, xthread, readers, kernel, reaped, clock>>
  /\ SetCancelled(cancelled)

TickDispatched == batch = <<>> /\ tickEvents = <<>> /\ dueTimers = <<>>

\* flush_corked: a tick that had events also dispatches those its own
\* callbacks produced.
FlushCorked ==
  /\ mode = "dispatch"
  /\ TickDispatched
  /\ hadEvents
  /\ mode' = "teardown"
  /\ tickEvents' = netEvents
  /\ netEvents' = <<>>
  /\ hadEvents' = FALSE
  /\ UNCHANGED <<stopping, queues, xthread, batch, dueTimers, readers, cancelled, kernel, reaped,
                 clock, unwinds>>

\* The tick is over; run_forever looks at the flag.
TickEnds ==
  /\ mode \in {"dispatch", "teardown"}
  /\ TickDispatched
  /\ ~hadEvents
  /\ mode' = IF stopping THEN "idle" ELSE "tick"
  /\ stopping' = FALSE
  /\ UNCHANGED <<queues, xthread, tickVars, netEvents, readers, cancelled, kernel, reaped, clock,
                 unwinds>>

\* close: refused while running; drops all pending work.
Close ==
  /\ mode = "idle"
  /\ mode' = "closed"
  /\ ready' = <<>> /\ expired' = <<>> /\ heap' = <<>>
  /\ xqueue' = <<>> /\ xtimers' = <<>> /\ wakePending' = FALSE
  /\ netEvents' = <<>>
  /\ readers' = [fd \in Fds |-> None]
  /\ cancelled' = {}
  /\ ioReady' = {} /\ kernelDone' = <<>>
  /\ UNCHANGED <<stopping, wake, tickVars, reaped, clock, unwinds>>

-----------------------------------------------------------------------------
LoopThread ==
  \/ TickImmediate \/ TickParks \/ ParkEnds \/ Resume
  \/ RunHandle \/ DispatchEvent \/ RunTimer \/ FlushCorked \/ TickEnds

Calls ==
  \/ \E h \in Soon : CallSoon(h)
  \/ \E t \in Timers, d \in 0..MaxTime : CallAt(t, d)
  \/ \E h \in Handles : Cancel(h)
  \/ Stop
  \/ \E fd \in Fds, w \in Watches, refused \in BOOLEAN : AddReader(fd, w, refused)
  \/ \E fd \in Fds, refused \in BOOLEAN : RemoveReader(fd, refused)
  \/ \E c \in Conns : TransportEvent(c)

Environment ==
  \/ \E fd \in Fds : BecomesReadable(fd)
  \/ \E c \in Conns : OperationCompletes(c)
  \/ TimePasses
  \/ ParkTimesOut
  \/ SpinEnds
  \/ PollFailed

Next == LoopThread \/ Calls \/ Environment \/ RunForever \/ Close

Spec == Init /\ [][Next]_vars

\* The loop thread keeps going whenever it can, and time passes.  Neither the
\* 100 ms clamp nor a later call is counted on: a park ends because of what
\* woke it up.
Fairness == WF_vars(LoopThread) /\ WF_vars(TimePasses)

FairSpec == Spec /\ Fairness

-----------------------------------------------------------------------------
(* Properties.                                                             *)

Running == mode \notin {"idle", "closed"}

\* A parked loop that someone stopped or handed work to has its wakeup
\* posted: enqueue_soon, schedule_timer and stop all race the park.
ParkedIsWoken ==
  mode = "parked" /\ (stopping \/ xqueue # <<>> \/ xtimers # <<>>) => wake

\* A watch that is still queued but no longer registered -- removed,
\* displaced, refused or dropped -- is cancelled, so its callback can never
\* run again (drain_graveyards).
UnregisteredIsCancelled ==
  \A w \in Watches : w \in Held \ Registered => w \in cancelled

QueuedTimes(w) == Cardinality({i \in 1..Len(batch \o ready) : (batch \o ready)[i] = w})

\* One readiness event queues a watch once, as long as no error unwound the
\* tick that took it: the poll finds a descriptor nobody has read yet still
\* readable (absorb_into_batch).
WatchQueuedOnce == unwinds = 0 => \A w \in Watches : QueuedTimes(w) <= 1

\* A watch's callback runs only for a registration that stands, and once for
\* one readiness event (add_reader, remove_reader, absorb_into_batch).
WatchesSound == TypeOK /\ UnregisteredIsCancelled /\ WatchQueuedOnce

\* stop() from any thread at any moment makes a running loop return.
StopReturns == stopping /\ Running ~> ~Running

\* A scheduled callback runs, or is cancelled, unless the loop is left first.
SoonRuns == \A h \in Soon : h \in Held ~> h \notin Held \/ ~Running

\* A timer runs, or is cancelled, unless the loop is left first: also one
\* handed over while the loop was parked for longer than its deadline.
TimerRuns == \A t \in Timers : t \in Held ~> t \notin Held \/ ~Running

\* A watch whose descriptor is readable gets to read it, as long as it is
\* neither replaced, removed nor cancelled, even if callbacks keep the loop
\* busy for ever: the poll-skip window ends.
ReadinessServed ==
  \A fd \in Fds, w \in Watches :
    LET waiting == fd \in ioReady /\ readers[fd] = w /\ w \notin cancelled
    IN waiting ~> ~waiting \/ ~Running

=============================================================================
