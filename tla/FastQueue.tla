------------------------------ MODULE FastQueue ------------------------------
(***************************************************************************)
(* cadeloop.Queue (pyshim/src/fastqueue.rs and python/cadeloop/queues.py): *)
(* a FIFO queue whose getters, putters and joiners park futures.  A woken  *)
(* waiter is handed nothing: it looks again when its task runs, so a waiter *)
(* cancelled after it was woken must pass its wake-up on.                   *)
(*                                                                         *)
(* c.q is the queue: items, getters, putters, unfinished, joiners.         *)
(***************************************************************************)
EXTENDS AppTask

CONSTANT MaxSize   \* maxsize of the queue; 0 is no bound

ASSUME QueueAssumption == MaxSize \in Nat

EmptyQueue == [items |-> <<>>, getters |-> <<>>, putters |-> <<>>, unfinished |-> 0, joiners |-> <<>>]

IsFull(c) == MaxSize > 0 /\ Len(c.q.items) >= MaxSize

\* wake_next: the first waiter still pending, and what is left behind it.
Behind(c, waiters) ==
  LET live == {k \in 1..Len(waiters) : Pending(c, waiters[k])}
  IN IF live = {} THEN <<>>
     ELSE SubSeq(waiters, CHOOSE k \in live : (\A j \in live : k <= j), Len(waiters))

WakeGetter(c) ==
  LET w == Behind(c, c.q.getters)
  IN IF w = <<>> THEN [c EXCEPT !.q.getters = <<>>]
     ELSE Resolve([c EXCEPT !.q.getters = Tail(w)], Head(w), "none")

WakePutter(c) ==
  LET w == Behind(c, c.q.putters)
  IN IF w = <<>> THEN [c EXCEPT !.q.putters = <<>>]
     ELSE Resolve([c EXCEPT !.q.putters = Tail(w)], Head(w), "none")

\* put_now and get_now
PutNow(c, item) ==
  Then([c EXCEPT !.q.items = Append(@, item), !.q.unfinished = @ + 1], WakeGetter)
GetNow(c) == Then([c EXCEPT !.q.items = Tail(@)], WakePutter)

-----------------------------------------------------------------------------
(* The wrapper's loops: f is the future it makes when it has to park.      *)

\* Mutant: a getter that was woken and is cancelled keeps the wake-up.
Mut_GetterRecoverySilent(c, f) ==
  [c EXCEPT !.q.getters = Only(@, Futures \ {f})]

\* getter_recovery and putter_recovery, with the future's state as it was
\* when the exception came in.
GetterRecovery(c, f) ==
  Then([c EXCEPT !.q.getters = Only(@, Futures \ {f})], LAMBDA d :
    IF d.q.items # <<>> /\ d.fut[f] # "cancelled" THEN WakeGetter(d) ELSE d)

PutterRecovery(c, f) ==
  Then([c EXCEPT !.q.putters = Only(@, Futures \ {f})], LAMBDA d :
    IF ~IsFull(d) /\ d.fut[f] # "cancelled" THEN WakePutter(d) ELSE d)

ParkGetter(c, t, f) ==
  Await([c EXCEPT !.fut[f] = "pending", !.q.getters = Append(@, f)], t, "get", f)
ParkPutter(c, t, f) ==
  Await([c EXCEPT !.fut[f] = "pending", !.q.putters = Append(@, f)], t, "put", f)
ParkJoiner(c, t, f) ==
  Await([c EXCEPT !.fut[f] = "pending", !.q.joiners = Append(@, f)], t, "join", f)

Unjoin(c, f) == [c EXCEPT !.q.joiners = Only(@, Futures \ {f})]

\* task_done: at zero every joiner is told, in the order they joined.
TaskDone(c) ==
  IF c.q.unfinished # 1 THEN [c EXCEPT !.q.unfinished = @ - 1]
  ELSE ResolveAll([c EXCEPT !.q.unfinished = 0, !.q.joiners = <<>>], c.q.joiners, "none")

\* The futures the queue holds.
QueueHolds(c) == Range(c.q.getters) \cup Range(c.q.putters) \cup Range(c.q.joiners)

-----------------------------------------------------------------------------
(* Woken waiters are those whose future is resolved and whose task has not *)
(* run yet.                                                                *)

WokenIn(c, at) ==
  {t \in Tasks : c.tasks[t].at = at /\ c.tasks[t].wait # NoFuture /\ c.fut[c.tasks[t].wait] = "none"}
ParkedIn(c, futs) == {f \in Range(futs) : Pending(c, f)}

\* A parked getter does not wait beside an item nobody is on its way for,
\* nor a parked putter beside a slot nobody is on its way for.
QueueServed(c) ==
  /\ ParkedIn(c, c.q.getters) # {} => Len(c.q.items) <= Cardinality(WokenIn(c, "get"))
  /\ ParkedIn(c, c.q.putters) # {} => MaxSize - Len(c.q.items) <= Cardinality(WokenIn(c, "put"))
  /\ ParkedIn(c, c.q.joiners) # {} => c.q.unfinished > 0
=============================================================================
