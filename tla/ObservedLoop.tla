---------------------------- MODULE ObservedLoop ----------------------------
(***************************************************************************)
(* The event loop with what the application observes of it: a history      *)
(* variable that records the last callback run, handle cancelled or work   *)
(* scheduled.  It changes nothing of the loop and lets the loop be compared *)
(* with what asyncio promises (AsyncioContract): without it, a callback    *)
(* run out of turn could pass for one that was cancelled.                  *)
(***************************************************************************)
EXTENDS EventLoop

VARIABLE seen

Live(s) == Only(s, Soon \ cancelled)
LiveEntries(s) == {s[i] : i \in {k \in 1..Len(s) : s[k].timer \notin cancelled}}

Contract == INSTANCE AsyncioContract WITH
  pending <- Live(batch \o ready \o xqueue),
  timers <- LiveEntries(dueTimers) \cup LiveEntries(expired) \cup LiveEntries(heap)
              \cup LiveEntries(xtimers),
  events <- EventsHeld,
  seen <- seen,
  now <- now,
  closed <- mode = "closed"

ObservedInit == Init /\ seen = Contract!Scheduled

\* The running of a handle is seen unless it was cancelled; watches are not
\* part of the contract.
SeenRun(h) == seen' = IF h \in cancelled \cup Watches THEN seen ELSE Contract!Ran(h)

Observed ==
  \/ RunHandle /\ SeenRun(Head(batch))
  \/ RunTimer /\ SeenRun(Head(dueTimers).timer)
  \/ DispatchEvent /\ seen' = Contract!Ran(Head(tickEvents))
  \/ \E h \in Handles : Cancel(h) /\ seen' = IF h \in Watches THEN seen ELSE Contract!Cancelled(h)
  \/ /\ \/ \E h \in Soon : CallSoon(h)
        \/ \E t \in Timers, d \in 0..MaxTime : CallAt(t, d)
        \/ \E c \in Conns : TransportEvent(c) \/ OperationCompletes(c)
     /\ seen' = Contract!Scheduled

Unobserved ==
  /\ \/ TickImmediate \/ TickParks \/ ParkEnds \/ SpinEnds \/ ParkTimesOut \/ Resume \/ PollFailed
     \/ FlushCorked \/ TickEnds \/ RunForever \/ Close
     \/ Stop
     \/ \E fd \in Fds, w \in Watches, refused \in BOOLEAN : AddReader(fd, w, refused)
     \/ \E fd \in Fds, refused \in BOOLEAN : RemoveReader(fd, refused)
     \/ \E fd \in Fds : BecomesReadable(fd)
     \/ TimePasses
  /\ UNCHANGED seen

ObservedSpec == ObservedInit /\ [][Observed \/ Unobserved]_<<vars, seen>>

\* Through batches, the cross-thread queue, parks, interrupts and fatal
\* errors the loop keeps asyncio's promises (enqueue_soon's one FIFO,
\* tick, hand_back): callbacks in call order, no timer early, nothing lost
\* and nothing run twice.
KeepsContract == Contract!Spec

=============================================================================
