------------------------------ MODULE TimerHeap ------------------------------
(***************************************************************************)
(* The timer heap (crates/core/src/timer.rs): a d-ary min-heap whose       *)
(* cancelled entries stay behind as tombstones, counted lazily; with the   *)
(* reactor that drives it (reactor.rs: absorb_cancellations,               *)
(* drain_xthread, fire_expired_timers, poll_timeout) and the handles that  *)
(* report cancellations to it (pyshim/src/handles.rs, coreloop.rs).        *)
(*                                                                         *)
(* EventLoop models the heap as a sorted sequence; this module shows that  *)
(* the array with its sifts behaves as one.  Timers are numbered in the    *)
(* order they are scheduled in.  A payload's is_cancelled and is_scheduled *)
(* flags are membership in `cancelled' and `scheduled'.  The state is only *)
(* touched under the interpreter lock, so each operation is one step;      *)
(* other threads run between a park and its end.                           *)
(***************************************************************************)
EXTENDS Integers, Sequences, FiniteSets, FiniteSetsExt, SequencesExt

CONSTANTS
  Arity,        \* ARITY (4 in the code)
  MaxTimers,    \* bound on the timers ever scheduled
  Times,        \* the clock's last reading; deadlines are in 1..Times
  PollMayFail   \* a poll may raise an error, which skips finish_poll

ASSUME HeapAssumption ==
  /\ Arity \in Nat \ {0, 1} /\ MaxTimers \in Nat /\ Times \in Nat \ {0}
  /\ PollMayFail \in BOOLEAN

VARIABLES
  heap,       \* TimerHeap: entries, seq, tombstones, graveyard; and Reactor.expired
  counter,    \* cancelled_timers: cancellations not yet reported to the heap
  xtimers,    \* timers in the cross-thread queue
  cancelled,  \* timers whose handle is cancelled
  scheduled,  \* timers whose handle is marked scheduled
  made,       \* how many timers there are
  deadline,   \* each timer's deadline
  now,        \* the tick's clock reading
  parkedTo,   \* the deadline the park was computed from (0: not parked)
  phase,      \* "run", "prepared", "parked", "polled" or "closed"
  stranded    \* history: a failed poll left timers in the cross-thread queue

vars == <<heap, counter, xtimers, cancelled, scheduled, made, deadline, now, parkedTo, phase,
          stranded>>

Timers == 1..MaxTimers
Never == Times + 1

Init ==
  /\ heap = [entries |-> <<>>, seq |-> 0, tombstones |-> 0, graveyard |-> {}, expired |-> <<>>]
  /\ counter = 0 /\ xtimers = <<>> /\ cancelled = {} /\ scheduled = {}
  /\ made = 0 /\ deadline = [t \in Timers |-> 0]
  /\ now = 0 /\ parkedTo = 0 /\ phase = "run" /\ stranded = FALSE

-----------------------------------------------------------------------------
(* The array.  Index i of the code is i + 1 here.                          *)

Less(a, b) == a.deadline < b.deadline \/ (a.deadline = b.deadline /\ a.seq < b.seq)
Swap(e, i, j) == [e EXCEPT ![i] = e[j], ![j] = e[i]]
Parent(i) == (i - 2) \div Arity + 1
Children(e, i) == {c \in ((i - 1) * Arity + 2)..(i * Arity + 1) : c <= Len(e)}

RECURSIVE SiftUp(_, _)
SiftUp(e, i) ==
  IF i > 1 /\ Less(e[i], e[Parent(i)])
  THEN SiftUp(Swap(e, i, Parent(i)), Parent(i))
  ELSE e

RECURSIVE SiftDown(_, _)
SiftDown(e, i) ==
  LET least == CHOOSE c \in Children(e, i) \cup {i} :
                 \A d \in Children(e, i) \cup {i} : d = c \/ Less(e[c], e[d])
  IN IF least = i THEN e ELSE SiftDown(Swap(e, i, least), least)

\* pop_top: swap_remove(0), then sift_down.
PopTop(e) ==
  IF Len(e) = 1 THEN <<>>
  ELSE SiftDown([i \in 1..(Len(e) - 1) |-> IF i = 1 THEN e[Len(e)] ELSE e[i]], 1)

\* compact's Floyd construction, from index i up to the root.
RECURSIVE Heapify(_, _)
Heapify(e, i) == IF i = 0 THEN e ELSE Heapify(SiftDown(e, i), i - 1)

-----------------------------------------------------------------------------
(* The heap's operations, on the heap record h.                            *)

Schedule(h, t) ==
  [h EXCEPT !.seq = @ + 1,
            !.entries = SiftUp(Append(@, [deadline |-> deadline'[t], seq |-> h.seq, timer |-> t]),
                               Len(@) + 1)]

Dead(e) == e.timer \in cancelled
TimersOf(entries) == {e.timer : e \in ToSet(entries)}

\* Mutant: compaction keeps the array as the partition left it.
Mut_CompactInPlace(h) ==
  [h EXCEPT !.entries = SelectSeq(@, LAMBDA e : ~Dead(e)), !.tombstones = 0,
            !.graveyard = @ \cup (TimersOf(h.entries) \cap cancelled)]

\* compact: the tombstones move to the graveyard, the rest is rebuilt.
Compact(h) ==
  LET live == SelectSeq(h.entries, LAMBDA e : ~Dead(e))
  IN [h EXCEPT !.entries = Heapify(live, IF Len(live) > 1 THEN Parent(Len(live)) ELSE 0),
               !.tombstones = 0,
               !.graveyard = @ \cup (TimersOf(h.entries) \cap cancelled)]

\* note_cancelled: compact when tombstones exceed half of the heap.
NoteCancelled(h, n) ==
  LET noted == [h EXCEPT !.tombstones = @ + n]
  IN IF noted.tombstones * 2 > Len(h.entries) THEN Compact(noted) ELSE noted

\* The top is a tombstone: it leaves, counted out.
BuryTop(h) ==
  [h EXCEPT !.entries = PopTop(@), !.graveyard = @ \cup {h.entries[1].timer},
            !.tombstones = IF @ = 0 THEN 0 ELSE @ - 1]

\* fire_expired_timers: pop_expired until nothing more is due at time n.
RECURSIVE FireExpired(_, _)
FireExpired(h, n) ==
  IF h.entries = <<>> \/ h.entries[1].deadline > n THEN h
  ELSE IF Dead(h.entries[1]) THEN FireExpired(BuryTop(h), n)
  ELSE FireExpired([h EXCEPT !.entries = PopTop(@),
                             !.expired = Append(@, h.entries[1].timer)], n)

\* drop_cancelled_top.
RECURSIVE DropCancelledTop(_)
DropCancelledTop(h) ==
  IF h.entries # <<>> /\ Dead(h.entries[1]) THEN DropCancelledTop(BuryTop(h)) ELSE h

\* next_deadline, of a heap whose top is live.
NextDeadline(h) ==
  IF DropCancelledTop(h).entries = <<>> THEN Never ELSE DropCancelledTop(h).entries[1].deadline

-----------------------------------------------------------------------------
(* Handles.                                                                *)

\* call_later, call_at: mark_scheduled, then into the heap -- or, while the
\* loop is parked, into the cross-thread queue.
CallAt(d) ==
  /\ phase \in {"run", "parked"} /\ made < MaxTimers
  /\ made' = made + 1
  /\ deadline' = [deadline EXCEPT ![made'] = d]
  /\ scheduled' = scheduled \cup {made'}
  /\ \/ phase = "run" /\ heap' = Schedule(heap, made') /\ UNCHANGED xtimers
     \/ phase = "parked" /\ xtimers' = Append(xtimers, made') /\ UNCHANGED heap
  /\ UNCHANGED <<counter, cancelled, now, parkedTo, phase, stranded>>

\* Mutant: cancelling a timer that already left the heap is reported too.
Mut_CancelAlwaysCounts(t) ==
  /\ phase \in {"run", "parked"} /\ t <= made /\ t \notin cancelled
  /\ cancelled' = cancelled \cup {t}
  /\ counter' = counter + 1
  /\ UNCHANGED <<heap, xtimers, scheduled, made, deadline, now, parkedTo, phase, stranded>>

\* TimerHandle.cancel: reported only for a handle still scheduled.
Cancel(t) ==
  /\ phase \in {"run", "parked"} /\ t <= made /\ t \notin cancelled
  /\ cancelled' = cancelled \cup {t}
  /\ counter' = IF t \in scheduled THEN counter + 1 ELSE counter
  /\ UNCHANGED <<heap, xtimers, scheduled, made, deadline, now, parkedTo, phase, stranded>>

-----------------------------------------------------------------------------
(* The tick.                                                               *)

\* mark_unscheduled, for all the payloads that left the heap.
Unschedule(h) == scheduled' = scheduled \ (h.graveyard \cup ToSet(h.expired))

\* absorb_cancellations, drain_xthread and fire_expired_timers, in that
\* order, at a new clock reading.
AbsorbDrainFire ==
  \E n \in now..Times :
    LET absorbed == IF counter = 0 THEN heap ELSE NoteCancelled(heap, counter)
        drained == FoldLeft(Schedule, absorbed, xtimers)
        fired == FireExpired(drained, n)
    IN /\ now' = n /\ UNCHANGED deadline
       /\ counter' = 0 /\ xtimers' = <<>>
       /\ heap' = fired
       /\ Unschedule(fired)

PrepareTick ==
  /\ phase = "run"
  /\ phase' = "prepared"
  /\ AbsorbDrainFire
  /\ UNCHANGED <<cancelled, made, parkedTo, stranded>>

\* Dispatch: take_expired, and the graveyard is dropped (drain_graveyards);
\* at once if ready callbacks or expired timers keep the poll from parking.
Dispatch ==
  /\ phase \in {"prepared", "polled"}
  /\ phase' = "run"
  /\ heap' = [heap EXCEPT !.expired = <<>>, !.graveyard = {}]
  /\ UNCHANGED <<counter, xtimers, cancelled, scheduled, made, deadline, now, parkedTo, stranded>>

\* poll_timeout with nothing ready: park until the next deadline.
Park ==
  /\ phase = "prepared" /\ heap.expired = <<>>
  /\ phase' = "parked"
  /\ parkedTo' = NextDeadline(heap)
  /\ heap' = DropCancelledTop(heap)
  /\ Unschedule(DropCancelledTop(heap))
  /\ UNCHANGED <<counter, xtimers, cancelled, made, deadline, now, stranded>>

\* The park ends: finish_poll_after.
FinishPoll ==
  /\ phase = "parked"
  /\ phase' = "polled"
  /\ parkedTo' = 0
  /\ AbsorbDrainFire
  /\ UNCHANGED <<cancelled, made, stranded>>

\* The poll raises: tick returns before finish_poll_after.
PollFails ==
  /\ PollMayFail /\ phase = "parked"
  /\ phase' = "run"
  /\ parkedTo' = 0
  /\ stranded' = (stranded \/ xtimers # <<>>)
  /\ UNCHANGED <<heap, counter, xtimers, cancelled, scheduled, made, deadline, now>>

\* clear_pending: drain_into, then drain_all.
Close ==
  /\ phase = "run"
  /\ phase' = "closed"
  /\ heap' = [heap EXCEPT !.entries = <<>>, !.seq = @ + Len(xtimers), !.tombstones = 0,
                            !.graveyard = {}]
  /\ xtimers' = <<>> /\ scheduled' = {}
  /\ UNCHANGED <<counter, cancelled, made, deadline, now, parkedTo, stranded>>

Next ==
  \/ \E d \in 1..Times : CallAt(d)
  \/ \E t \in Timers : Cancel(t)
  \/ PrepareTick \/ Dispatch \/ Park \/ FinishPoll \/ PollFails \/ Close

Spec == Init /\ [][Next]_vars

-----------------------------------------------------------------------------
(* Properties.                                                             *)

Waiting == TimersOf(heap.entries) \cup ToSet(xtimers)

\* Exactly the handles in the heap or on their way to it are marked
\* scheduled: cancel() may follow its pointer to the loop's counter, no
\* timer is lost by a sift, a compaction or the hand-off, and close leaves
\* no handle pointing at a loop that is gone (handles.rs, cancel_counter).
ScheduledExact == scheduled = Waiting

\* The timers a tick moves out of the heap are the live ones that are due,
\* by deadline and then in the order of the calls that scheduled them,
\* whatever the array looked like (reactor.rs, fire_expired_timers).  Only
\* a failed poll, which leaves timers behind in the cross-thread queue, may
\* change the order among equal deadlines.
DueLive(n) == {t \in Waiting \ cancelled : deadline[t] <= n}
Sooner(t, u) == deadline[t] < deadline[u] \/ (deadline[t] = deadline[u] /\ t < u)
Fires == phase' # phase /\ phase' \in {"prepared", "polled"}
FiresDueInOrder ==
  Fires => LET due == SetToSortSeq(DueLive(now'), Sooner)
               fired == heap'.expired
           IN /\ fired = due \/ stranded
              /\ ToSet(fired) = ToSet(due)
              /\ [i \in DOMAIN fired |-> deadline[fired[i]]] = [i \in DOMAIN due |-> deadline[due[i]]]

\* The loop parks until the earliest timer that is still to run; a
\* tombstone's deadline would wake it for nothing (timer.rs, next_deadline).
LiveDeadlines == {deadline[t] : t \in TimersOf(heap.entries) \ cancelled}
ParksUntilEarliest ==
  phase = "prepared" /\ phase' = "parked" =>
    parkedTo' = IF LiveDeadlines = {} THEN Never ELSE Min(LiveDeadlines)

\* A tick fires exactly the live timers that are due, in order, and a park
\* ends when the next one is: neither early for a tombstone nor late.
TicksOnTime == [][FiresDueInOrder /\ ParksUntilEarliest]_vars

\* No more cancellations are counted than there are tombstones, in the heap
\* or on their way to it: compaction never runs for entries that have left
\* (handles.rs, TimerHandle.cancel).
NeverOvercounts ==
  phase # "closed" => heap.tombstones + counter <= Cardinality(Waiting \cap cancelled)

\* The bookkeeping that cancel() relies on from outside the heap: which
\* handles are scheduled and how many of them are tombstones.
BookkeepingExact == ScheduledExact /\ NeverOvercounts

=============================================================================
