-------------------------- MODULE AsyncioContract --------------------------
(***************************************************************************)
(* What asyncio promises of an event loop's scheduling, whatever the loop  *)
(* does with batches, threads, unwinding errors and polls in between:      *)
(* call_soon and call_soon_threadsafe callbacks run in the order of the    *)
(* calls, a timer runs no earlier than its deadline, nothing runs twice,   *)
(* and nothing is dropped unless it is cancelled or the loop is closed.    *)
(***************************************************************************)
EXTENDS Naturals, Sequences, Filtering

CONSTANTS Soon, Timers, Conns, MaxTime

VARIABLES
  pending,  \* call_soon callbacks not run yet, oldest call first
  timers,   \* timers not run yet, with their deadlines
  events,   \* transport events not delivered yet
  seen,     \* what the application saw last: a call, a cancel or a schedule
  now,      \* the clock
  closed    \* close() was called

vars == <<pending, timers, events, seen, now, closed>>

Ran(x) == [did |-> "ran", what |-> x]
Cancelled(x) == [did |-> "cancelled", what |-> x]
Scheduled == [did |-> "scheduled"]

Init == /\ pending = <<>> /\ timers = {} /\ events = {} /\ seen = Scheduled
        /\ now = 0 /\ closed = FALSE

CallSoon(h) ==
  /\ ~closed /\ \A i \in 1..Len(pending) : pending[i] # h
  /\ pending' = Append(pending, h)
  /\ seen' = Scheduled
  /\ UNCHANGED <<timers, events, now, closed>>

CallAt(t, d) ==
  /\ ~closed /\ \A e \in timers : e.timer # t
  /\ timers' = timers \cup {[when |-> d, timer |-> t]}
  /\ seen' = Scheduled
  /\ UNCHANGED <<pending, events, now, closed>>

Cancel(h) ==
  /\ pending' = Only(pending, Soon \ {h})
  /\ timers' = {e \in timers : e.timer # h}
  /\ seen' = Cancelled(h)
  /\ UNCHANGED <<events, now, closed>>

RunNext ==
  /\ pending # <<>>
  /\ pending' = Tail(pending)
  /\ seen' = Ran(Head(pending))
  /\ UNCHANGED <<timers, events, now, closed>>

RunTimer(e) ==
  /\ e.when <= now
  /\ timers' = timers \ {e}
  /\ seen' = Ran(e.timer)
  /\ UNCHANGED <<pending, events, now, closed>>

EventArrives(c) ==
  /\ ~closed /\ c \notin events
  /\ events' = events \cup {c}
  /\ seen' = Scheduled
  /\ UNCHANGED <<pending, timers, now, closed>>

DeliverEvent(c) ==
  /\ c \in events
  /\ events' = events \ {c}
  /\ seen' = Ran(c)
  /\ UNCHANGED <<pending, timers, now, closed>>

TimePasses ==
  /\ now < MaxTime
  /\ now' = now + 1
  /\ UNCHANGED <<pending, timers, events, seen, closed>>

Close ==
  /\ closed' = TRUE
  /\ pending' = <<>> /\ timers' = {} /\ events' = {}
  /\ UNCHANGED <<seen, now>>

Next ==
  \/ \E h \in Soon : CallSoon(h)
  \/ \E t \in Timers, d \in 0..MaxTime : CallAt(t, d)
  \/ \E h \in Soon \cup Timers : Cancel(h)
  \/ RunNext
  \/ \E e \in timers : RunTimer(e)
  \/ \E c \in Conns : EventArrives(c) \/ DeliverEvent(c)
  \/ TimePasses
  \/ Close

Spec == Init /\ [][Next]_vars

=============================================================================
