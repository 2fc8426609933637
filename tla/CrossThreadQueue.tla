-------------------------- MODULE CrossThreadQueue --------------------------
(***************************************************************************)
(* The lock-free hand-off of crates/core/src/ready.rs, between any number  *)
(* of producer threads and the one loop thread that drains it, together    *)
(* with the two places of reactor.rs that drain it (prepare_tick before a  *)
(* poll, finish_poll_after behind a poll that may have parked) and the     *)
(* backend wakeup the producers post.                                      *)
(*                                                                         *)
(* A producer does not hold a lock: enqueueing, raising wake_pending and   *)
(* posting the wakeup are three steps, and every step of drain_into is one *)
(* too.  Atomics are sequentially consistent here (the code uses AcqRel    *)
(* read-modify-writes for the two swaps that must synchronise).            *)
(***************************************************************************)
EXTENDS Naturals, Sequences, FiniteSets

CONSTANTS Producers,  \* threads calling push / push_timer
          Callbacks,  \* tokens handed over with push
          Timers      \* tokens handed over with push_timer

ASSUME CrossThreadAssumption == Callbacks \cap Timers = {}

\* item is in flight in the sequence s.
InSeq(item, s) == \E i \in 1..Len(s) : s[i] = item

VARIABLES
  queue,        \* CrossThreadQueue.queue: callbacks in flight
  timers,       \* CrossThreadQueue.timers: timers in flight
  wakePending,  \* CrossThreadQueue.wake_pending
  armed,        \* WakeShared.armed: a wakeup is posted or about to be
  signal,       \* the eventfd holds a tick no poll has read yet
  producer,     \* producer[p]: where p stands in push
  loop,         \* where the loop thread stands in its tick
  parked,       \* the poll under way has a nonzero timeout
  drain,        \* where it stands in drain_into
  bound,        \* pops left of the length drain_into read at entry
  ready,        \* callbacks drained and not dispatched yet
  scheduled     \* timers drained into the heap and not fired yet

vars == <<queue, timers, wakePending, armed, signal, producer, loop, parked, drain, bound, ready, scheduled>>

\* "prepare" and "finish" run drain_into; "poll" is the backend poll between
\* them, and "consume" its end once the eventfd was read; "dispatch" runs the
\* batch.
LoopPlaces == {"prepare", "poll", "consume", "finish", "dispatch"}

DrainSteps == {"test", "clear", "bound", "pop", "tbound", "tpop"}

TypeOK ==
  /\ queue \in Seq(Callbacks)
  /\ timers \in Seq(Timers)
  /\ wakePending \in BOOLEAN
  /\ armed \in BOOLEAN
  /\ signal \in BOOLEAN
  /\ producer \in [Producers -> {"idle", "raise", "wake", "post"}]
  /\ loop \in LoopPlaces
  /\ parked \in BOOLEAN
  /\ drain \in DrainSteps
  /\ bound \in Nat
  /\ ready \in SUBSET Callbacks
  /\ scheduled \in SUBSET Timers

Init ==
  /\ queue = <<>>
  /\ timers = <<>>
  /\ wakePending = FALSE
  /\ armed = FALSE
  /\ signal = FALSE
  /\ producer = [p \in Producers |-> "idle"]
  /\ loop = "prepare"
  /\ parked = FALSE
  /\ drain = "test"
  /\ bound = 0
  /\ ready = {}
  /\ scheduled = {}

(***************************************************************************)
(* Producers.                                                              *)
(***************************************************************************)

\* queue.push(item): the first half of push.
Push(p) ==
  /\ producer[p] = "idle"
  /\ \E item \in Callbacks :
       /\ ~InSeq(item, queue)
       /\ queue' = Append(queue, item)
  /\ producer' = [producer EXCEPT ![p] = "raise"]
  /\ UNCHANGED <<timers, wakePending, armed, signal, loop, parked, drain, bound, ready,
                 scheduled>>

\* Mutant: a timer goes onto the callback queue.
Mut_PushTimerOnQueue(p) ==
  /\ producer[p] = "idle"
  /\ \E item \in Timers :
       /\ ~InSeq(item, queue)
       /\ queue' = Append(queue, item)
  /\ producer' = [producer EXCEPT ![p] = "raise"]
  /\ UNCHANGED <<timers, wakePending, armed, signal, loop, parked, drain, bound, ready,
                 scheduled>>

\* timers.push((deadline, item)): the first half of push_timer.
PushTimer(p) ==
  /\ producer[p] = "idle"
  /\ \E item \in Timers :
       /\ ~InSeq(item, timers)
       /\ timers' = Append(timers, item)
  /\ producer' = [producer EXCEPT ![p] = "raise"]
  /\ UNCHANGED <<queue, wakePending, armed, signal, loop, parked, drain, bound, ready,
                 scheduled>>

\* !wake_pending.swap(true): only the producer that raised the flag owes
\* the backend a wakeup.
Raise(p) ==
  /\ producer[p] = "raise"
  /\ wakePending' = TRUE
  /\ producer' = [producer EXCEPT ![p] = IF wakePending THEN "idle" ELSE "wake"]
  /\ UNCHANGED <<queue, timers, armed, signal, loop, parked, drain, bound, ready,
                 scheduled>>

\* EpollWakeup::wake: armed.swap(true); a wakeup already armed is not posted
\* again.
Wake(p) ==
  /\ producer[p] = "wake"
  /\ armed' = TRUE
  /\ producer' = [producer EXCEPT ![p] = IF armed THEN "idle" ELSE "post"]
  /\ UNCHANGED <<queue, timers, wakePending, signal, loop, parked, drain, bound, ready,
                 scheduled>>

\* The write to the eventfd.
Post(p) ==
  /\ producer[p] = "post"
  /\ signal' = TRUE
  /\ producer' = [producer EXCEPT ![p] = "idle"]
  /\ UNCHANGED <<queue, timers, wakePending, armed, loop, parked, drain, bound, ready, scheduled>>

(***************************************************************************)
(* drain_into, run by prepare_tick and by finish_poll_after(true).         *)
(***************************************************************************)

Draining == loop \in {"prepare", "finish"}

\* The drain returns: prepare_tick goes on to the poll, finish_poll_after to
\* the dispatch of the batch.
DrainReturns ==
  /\ loop' = IF loop = "prepare" THEN "poll" ELSE "dispatch"
  /\ drain' = "test"

\* Mutant: the drain leaves the flag up.
Mut_DrainTestKeepsFlag ==
  /\ Draining
  /\ drain = "test"
  /\ IF wakePending THEN drain' = "bound" /\ UNCHANGED loop ELSE DrainReturns
  /\ UNCHANGED <<queue, timers, wakePending, armed, signal, producer, parked, bound, ready, scheduled>>

\* The early return: nothing was pushed since the last drain.
DrainTest ==
  /\ Draining
  /\ drain = "test"
  /\ IF wakePending THEN drain' = "clear" /\ UNCHANGED loop ELSE DrainReturns
  /\ UNCHANGED <<queue, timers, wakePending, armed, signal, producer, parked, bound, ready, scheduled>>

\* wake_pending.swap(false), before the queues are looked at.
DrainClear ==
  /\ Draining
  /\ drain = "clear"
  /\ wakePending' = FALSE
  /\ drain' = "bound"
  /\ UNCHANGED <<queue, timers, armed, signal, producer, loop, parked, bound, ready, scheduled>>

\* let bound = queue.len()
DrainBound ==
  /\ Draining
  /\ drain = "bound"
  /\ bound' = Len(queue)
  /\ drain' = "pop"
  /\ UNCHANGED <<queue, timers, wakePending, armed, signal, producer, loop, parked, ready, scheduled>>

\* Mutant: the pop loop runs until the queue is empty.
Mut_DrainPopUnbounded ==
  /\ Draining
  /\ drain = "pop"
  /\ IF queue # <<>>
     THEN /\ ready' = ready \cup {Head(queue)}
          /\ queue' = Tail(queue)
          /\ UNCHANGED drain
     ELSE /\ drain' = "tbound"
          /\ UNCHANGED <<queue, ready>>
  /\ UNCHANGED <<timers, wakePending, armed, signal, producer, loop, parked, bound, scheduled>>

\* One turn of the pop loop, or its end.
DrainPop ==
  /\ Draining
  /\ drain = "pop"
  /\ IF bound > 0 /\ queue # <<>>
     THEN /\ ready' = ready \cup {Head(queue)}
          /\ queue' = Tail(queue)
          /\ bound' = bound - 1
          /\ UNCHANGED drain
     ELSE /\ drain' = "tbound"
          /\ UNCHANGED <<queue, bound, ready>>
  /\ UNCHANGED <<timers, wakePending, armed, signal, producer, loop, parked, scheduled>>

\* if !timers.is_empty() { for _ in 0..timers.len() ... }
DrainTimersBound ==
  /\ Draining
  /\ drain = "tbound"
  /\ bound' = Len(timers)
  /\ drain' = "tpop"
  /\ UNCHANGED <<queue, timers, wakePending, armed, signal, producer, loop, parked, ready, scheduled>>

\* Mutant: the flag is cleared once more behind the drain.
Mut_DrainClearsLast ==
  /\ Draining
  /\ drain = "tpop"
  /\ IF bound > 0 /\ timers # <<>>
     THEN /\ scheduled' = scheduled \cup {Head(timers)}
          /\ timers' = Tail(timers)
          /\ bound' = bound - 1
          /\ UNCHANGED <<loop, drain, wakePending>>
     ELSE /\ DrainReturns
          /\ wakePending' = FALSE
          /\ UNCHANGED <<timers, bound, scheduled>>
  /\ UNCHANGED <<queue, armed, signal, producer, parked, ready>>

\* One turn of the timers loop, or the end of the drain.
DrainTimersPop ==
  /\ Draining
  /\ drain = "tpop"
  /\ IF bound > 0 /\ timers # <<>>
     THEN /\ scheduled' = scheduled \cup {Head(timers)}
          /\ timers' = Tail(timers)
          /\ bound' = bound - 1
          /\ UNCHANGED <<loop, drain>>
     ELSE /\ DrainReturns
          /\ UNCHANGED <<timers, bound, scheduled>>
  /\ UNCHANGED <<queue, wakePending, armed, signal, producer, parked, ready>>

(***************************************************************************)
(* The poll and the dispatch, as far as the hand-off is concerned.         *)
(***************************************************************************)

\* poll_timeout: zero with ready callbacks or due timers (any scheduled
\* timer may be due), else the loop parks.
Immediate == ready # {} \/ scheduled # {}

\* A zero-timeout poll that is elided, or that finds no wakeup:
\* finish_poll_after(false) drains nothing.
PollWithoutParking ==
  /\ loop = "poll"
  /\ Immediate
  /\ loop' = "dispatch"
  /\ UNCHANGED <<queue, timers, wakePending, armed, signal, producer,
                 parked, drain, bound, ready, scheduled>>

\* The poll -- zero-timeout, spinning or parked -- returns the wakeup: it
\* reads the eventfd.
PollReadsWakeup ==
  /\ loop = "poll"
  /\ signal
  /\ \/ parked' = TRUE /\ ready = {}
     \/ parked' = FALSE /\ Immediate
  /\ signal' = FALSE
  /\ loop' = "consume"
  /\ UNCHANGED <<queue, timers, wakePending, armed, producer, drain, bound, ready, scheduled>>

\* Mutant: the wakeup stays armed once it was consumed.
Mut_ConsumeKeepsArmed ==
  /\ loop = "consume"
  /\ loop' = IF parked THEN "finish" ELSE "dispatch"
  /\ UNCHANGED <<queue, timers, wakePending, armed, signal, producer,
                 parked, drain, bound, ready, scheduled>>

\* armed.store(false), behind the read: a producer that armed nothing in
\* between is served by the drain that follows.
Consume ==
  /\ loop = "consume"
  /\ armed' = FALSE
  /\ loop' = IF parked THEN "finish" ELSE "dispatch"
  /\ UNCHANGED <<queue, timers, wakePending, signal, producer, parked, drain, bound, ready, scheduled>>

\* The spin before a park ends because xthread.is_empty() turned false --
\* maybe ahead of the flag.
SpinEnds ==
  /\ loop = "poll"
  /\ ready = {}
  /\ queue # <<>> \/ timers # <<>>
  /\ loop' = "finish"
  /\ UNCHANGED <<queue, timers, wakePending, armed, signal, producer,
                 parked, drain, bound, ready, scheduled>>

\* The park is ended by a timer, by I/O or by the 100 ms clamp.
ParkTimesOut ==
  /\ loop = "poll"
  /\ ready = {}
  /\ loop' = "finish"
  /\ UNCHANGED <<queue, timers, wakePending, armed, signal, producer,
                 parked, drain, bound, ready, scheduled>>

\* The batch is run, and whatever timers are due by now.
Dispatch ==
  /\ loop = "dispatch"
  /\ ready' = {}
  /\ \E due \in SUBSET scheduled : scheduled' = scheduled \ due
  /\ loop' = "prepare"
  /\ UNCHANGED <<queue, timers, wakePending, armed, signal, producer, parked, drain, bound>>

Drain == \/ DrainTest \/ DrainClear \/ DrainBound \/ DrainPop
         \/ DrainTimersBound \/ DrainTimersPop

LoopNext == Drain \/ PollWithoutParking \/ PollReadsWakeup \/ Consume \/ SpinEnds \/ Dispatch

ProducerNext(p) == Push(p) \/ PushTimer(p) \/ Raise(p) \/ Wake(p) \/ Post(p)

Next == LoopNext \/ ParkTimesOut \/ \E p \in Producers : ProducerNext(p)

Spec == Init /\ [][Next]_vars

\* The loop thread and a producer inside push keep going.  A park is not
\* assumed to time out and a spin is not assumed to look at the queue: what
\* is delivered is delivered because of the wakeup.
Fairness ==
  /\ WF_vars(Drain \/ (ready # {} /\ PollWithoutParking) \/ PollReadsWakeup \/ Consume \/ Dispatch)
  /\ \A p \in Producers : WF_vars(Raise(p) \/ Wake(p) \/ Post(p))

FairSpec == Spec /\ Fairness

(***************************************************************************)
(* Properties.                                                             *)
(***************************************************************************)

Owing(p) == producer[p] # "idle"

\* While the loop waits in its poll, work in flight always has a wakeup on
\* its way: one is posted, or a producer has not finished push yet.  This is
\* what lets N producers share one kernel post (ready.rs, push).
NoLostWakeup ==
  loop = "poll" /\ (queue # <<>> \/ timers # <<>>) =>
    signal \/ \E p \in Producers : Owing(p)

\* A raised flag that no wakeup stands behind is a flag the loop is about to
\* look at: otherwise later producers would rely on a drain that never comes.
RaisedFlagIsBacked ==
  wakePending => \/ signal
                 \/ \E p \in Producers : producer[p] \in {"wake", "post"}
                 \/ loop \in {"consume", "dispatch"}
                 \/ Draining /\ drain \in {"test", "clear"}

\* The same for the backend's own flag: a producer that finds the wakeup
\* armed posts none, so one must be posted, about to be, or just consumed by
\* a poll whose drain is still to come (epoll.rs, wake and poll).
ArmedIsBacked ==
  armed => \/ signal
           \/ \E p \in Producers : producer[p] = "post"
           \/ loop = "consume"

\* Items that are in flight and that the drain under way is not certain to
\* pop: all of them when no drain is past its swap.
QueueLeft == CASE drain = "bound" -> FALSE
               [] drain = "pop" -> Len(queue) > bound
               [] OTHER -> queue # <<>>
TimersLeft == CASE drain \in {"bound", "pop", "tbound"} -> FALSE
                [] drain = "tpop" -> Len(timers) > bound
                [] OTHER -> timers # <<>>

\* drain_into's early return is exact: an item it will not pop has the flag
\* up, or its producer is about to raise it.
LeftoverIsFlagged ==
  QueueLeft \/ TimersLeft => wakePending \/ \E p \in Producers : producer[p] = "raise"

\* Every item pushed is drained, without help from the park's 100 ms clamp:
\* no interleaving of push with drain_into strands one in flight.  (An item
\* can be pushed again only once it has left the queue.)
PushedIsDrained ==
  /\ \A c \in Callbacks : InSeq(c, queue) ~> ~InSeq(c, queue)
  /\ \A t \in Timers : InSeq(t, timers) ~> ~InSeq(t, timers)

\* A drain ends however fast producers keep pushing: it is bounded by the
\* lengths it read at entry.
DrainTerminates == Draining ~> ~Draining

=============================================================================
