------------------------------- MODULE AppTask -------------------------------
(***************************************************************************)
(* Futures, and the tasks that await them (AppTask, pyshim/src/http.rs, a  *)
(* stand-in for asyncio.Task that the application's own tasks behave like).*)
(*                                                                         *)
(* The operators act on a record c with the fields                         *)
(*   fut     the state of each future                                      *)
(*   ready   the tasks whose wake-up is queued, in order                   *)
(*   running the task whose step is being run, or Nobody                   *)
(*   tasks   for each task: at, the await it is suspended in; wait, the    *)
(*           future it is suspended on (waiting_on); must_cancel; done;    *)
(*           owed, a cancellation that it asked for and was not delivered  *)
(*           yet (history)                                                 *)
(* A task awaits each future it makes at once, and nobody else does.       *)
(***************************************************************************)
EXTENDS Integers, FiniteSets, SequencesExt, Filtering

CONSTANTS
  Tasks,    \* the tasks
  Futures,  \* as many futures as are ever held at once, as an interval from 1
  Nobody    \* no task

ASSUME TaskAssumption ==
  /\ IsFiniteSet(Tasks) /\ Nobody \notin Tasks
  /\ IsFiniteSet(Futures) /\ Futures = 1..Cardinality(Futures)

NoFuture == 0

\* A future is "pending"; resolved with None ("none") or with the last message
\* of a session ("gone"); or "cancelled".

\* Evaluated once, then used: the operators are applied in a row.
Then(c, Op(_)) == CHOOSE d \in {Op(e) : e \in {c}} : TRUE

-----------------------------------------------------------------------------
(* Futures.                                                                *)

Pending(c, f) == c.fut[f] = "pending"
PendingOnes(c) == {f \in Futures : Pending(c, f)}

\* Whoever awaits future f has its wake-up scheduled (call_soon of _wake).
Scheduled(c, f) ==
  [c EXCEPT !.ready = @ \o SetToSeq({t \in Tasks : c.tasks[t].wait = f})]

\* set_result, unless the future is done.
Resolve(c, f, result) ==
  IF Pending(c, f) THEN Scheduled([c EXCEPT !.fut[f] = result], f) ELSE c

ResolveAll(c, futs, result) ==
  LET after[i \in 0..Len(futs)] ==
        IF i = 0 THEN c ELSE Then(after[i - 1], LAMBDA d : Resolve(d, futs[i], result))
  IN after[Len(futs)]

\* A new future is the first that nobody holds; forgotten ones are as new.
NewFuture(held) == CHOOSE f \in Futures \ held : \A g \in Futures \ held : f <= g
Collect(c, held) == [c EXCEPT !.fut = [f \in Futures |-> IF f \in held THEN @[f] ELSE "none"]]

-----------------------------------------------------------------------------
(* Tasks.                                                                  *)

Fresh == [at |-> "start", wait |-> NoFuture, must_cancel |-> FALSE, done |-> FALSE, owed |-> FALSE]

\* Mutant: a cancel that comes after the awaited future was resolved is
\* taken for delivered.
Mut_CancelForwardsOnly(c, t) ==
  IF c.tasks[t].done THEN c
  ELSE LET asked == [c EXCEPT !.tasks[t].owed = TRUE]
           f == c.tasks[t].wait
       IN IF f # NoFuture
          THEN IF Pending(c, f) THEN Scheduled([asked EXCEPT !.fut[f] = "cancelled"], f) ELSE asked
          ELSE [asked EXCEPT !.tasks[t].must_cancel = TRUE]

\* AppTask.cancel: the awaited future is cancelled; if it is done already,
\* or nothing is awaited, the request is latched for the next step.
CancelTask(c, t) ==
  IF c.tasks[t].done THEN c
  ELSE LET asked == [c EXCEPT !.tasks[t].owed = TRUE]
           f == c.tasks[t].wait
       IN IF f # NoFuture /\ Pending(c, f)
          THEN Scheduled([asked EXCEPT !.fut[f] = "cancelled"], f)
          ELSE [asked EXCEPT !.tasks[t].must_cancel = TRUE]

\* step_body, for a yielded future: it is subscribed to, and a cancel that
\* came during the step is applied to it.
Await(c, t, at, f) ==
  LET parked == [c EXCEPT !.tasks[t].at = at, !.tasks[t].wait = f, !.running = Nobody]
      latched == c.tasks[t].must_cancel
  IN IF ~Pending(c, f) THEN Scheduled(parked, f)
     ELSE IF latched
     THEN Scheduled([parked EXCEPT !.fut[f] = "cancelled", !.tasks[t].must_cancel = FALSE], f)
     ELSE parked

\* step_body, for a bare yield: _resume_bare is queued.
Yield(c, t, at) ==
  [c EXCEPT !.tasks[t].at = at, !.tasks[t].wait = NoFuture, !.running = Nobody,
            !.ready = Append(@, t)]

\* _wake and _resume_bare, up to the coroutine: is a CancelledError thrown
\* into it?
Thrown(c, t) ==
  \/ c.tasks[t].must_cancel
  \/ c.tasks[t].wait # NoFuture /\ c.fut[c.tasks[t].wait] = "cancelled"

\* Step: the task runs; what it awaited is no longer waited on, and a
\* latched cancel is taken.
Step(c, t) ==
  [c EXCEPT !.ready = Tail(@), !.running = t,
            !.tasks[t].wait = NoFuture, !.tasks[t].must_cancel = FALSE, !.tasks[t].at = "run",
            !.tasks[t].owed = @ /\ ~Thrown(c, t)]

\* The coroutine returned or raised.
Finish(c, t) ==
  [c EXCEPT !.running = Nobody, !.tasks[t].done = TRUE, !.tasks[t].at = "end",
            !.tasks[t].must_cancel = FALSE, !.tasks[t].owed = FALSE]
=============================================================================
