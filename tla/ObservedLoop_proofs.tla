------------------------ MODULE ObservedLoop_proofs ------------------------
(***************************************************************************)
(* The loop implements AsyncioContract, for any number of handles, timers, *)
(* descriptors and transports.                                             *)
(***************************************************************************)
EXTENDS ObservedLoop, EventLoop_proofs

\* The contract filters like the loop.
LEMMA SameFilter ==
  ASSUME NEW s, NEW kept
  PROVE  Contract!Only(s, kept) = Only(s, kept)
BY DEF Contract!Only, Only

\* The contract's pending callbacks and timers, by name.
Line == batch \o ready \o xqueue
Entries == ToSet(dueTimers) \cup ToSet(expired) \cup ToSet(heap) \cup ToSet(xtimers)
Pending == Live(batch \o ready \o xqueue)
Waiting == LiveEntries(dueTimers) \cup LiveEntries(expired) \cup LiveEntries(heap)
             \cup LiveEntries(xtimers)

\* Work handed over by other threads waits in the cross-thread queue only
\* while the loop is parked: what is called afterwards cannot overtake it.
Handed == mode \notin {"parked", "woken"} => xqueue = <<>>

RefInv == LoopInv /\ WakeInv /\ Handed

-----------------------------------------------------------------------------
(* Sequences.                                                              *)

\* Nothing of the sequence is kept.
LEMMA OnlyNone ==
  ASSUME NEW S, NEW s \in Seq(S), NEW kept, ToSet(s) \cap kept = {}
  PROVE  Only(s, kept) = <<>>
<1>1. PICK q : q = Only(s, kept)
  OBVIOUS
<1>2. q \in Seq(S) /\ ToSet(q) = {}
  BY <1>1, OnlyType, OnlyElements
<1>3. QED
  BY <1>1, <1>2, NoElements

\* The first of two sequences is shortened.
LEMMA TailConcat ==
  ASSUME NEW S, NEW s \in Seq(S), NEW t \in Seq(S), s # <<>>
  PROVE  s \o t # <<>> /\ Head(s \o t) = Head(s) /\ Tail(s \o t) = Tail(s) \o t
<1>1. PICK q : q = s \o t
  OBVIOUS
<1>2. /\ q \in Seq(S) /\ Len(q) = Len(s) + Len(t) /\ Len(s) \in Nat \ {0} /\ Len(t) \in Nat
      /\ \A i \in 1..(Len(s) + Len(t)) : q[i] = IF i <= Len(s) THEN s[i] ELSE t[i - Len(s)]
  BY <1>1, ConcatProperties
<1>3. q # <<>> /\ Head(q) = Head(s)
  BY <1>2
<1>4. PICK a, b : a = Tail(q) /\ b = Tail(s)
  OBVIOUS
<1>5. /\ a \in Seq(S) /\ Len(a) = Len(q) - 1 /\ \A i \in 1..Len(a) : a[i] = q[i + 1]
      /\ b \in Seq(S) /\ Len(b) = Len(s) - 1 /\ \A i \in 1..Len(b) : b[i] = s[i + 1]
  BY <1>2, <1>3, <1>4, HeadTailProperties
<1>6. PICK c : c = b \o t
  OBVIOUS
<1>7. /\ c \in Seq(S) /\ Len(c) = Len(b) + Len(t)
      /\ \A i \in 1..(Len(b) + Len(t)) : c[i] = IF i <= Len(b) THEN b[i] ELSE t[i - Len(b)]
  BY <1>5, <1>6, ConcatProperties
<1>8. Len(a) = Len(c)
  BY <1>2, <1>5, <1>7
<1>9. ASSUME NEW i \in 1..Len(a) PROVE a[i] = c[i]
  <2>1. i + 1 \in 1..(Len(s) + Len(t)) /\ i \in 1..(Len(b) + Len(t)) /\ a[i] = q[i + 1]
    BY <1>2, <1>5, <1>8
  <2>2. CASE i <= Len(b)
    <3>1. i \in 1..Len(b) /\ i + 1 <= Len(s)
      BY <1>2, <1>5, <2>1, <2>2
    <3>2. q[i + 1] = s[i + 1]
      BY <1>2, <2>1, <3>1
    <3>3. c[i] = b[i] /\ b[i] = s[i + 1]
      BY <1>5, <1>7, <2>1, <2>2, <3>1
    <3>4. QED
      BY <2>1, <3>2, <3>3
  <2>3. CASE ~(i <= Len(b))
    <3>1. ~(i + 1 <= Len(s)) /\ i + 1 - Len(s) = i - Len(b)
      BY <1>2, <1>5, <2>1, <2>3
    <3>2. q[i + 1] = t[i + 1 - Len(s)]
      BY <1>2, <2>1, <3>1
    <3>3. c[i] = t[i - Len(b)]
      BY <1>7, <2>1, <2>3
    <3>4. QED
      BY <2>1, <3>1, <3>2, <3>3
  <2>4. QED
    BY <2>2, <2>3
<1>10. a = c
  <2>1. a \in Seq(S) /\ c \in Seq(S) /\ Len(a) = Len(c) /\ \A i \in 1..Len(a) : a[i] = c[i]
    BY <1>5, <1>7, <1>8, <1>9
  <2>2. QED
    BY <2>1, SeqEqual
<1>11. QED
  BY <1>1, <1>3, <1>4, <1>6, <1>10

\* What is kept of a line once its first element ran.
FirstLeaves(b, r, x, kept) ==
  /\ Head(b) \in kept => Only(b \o r \o x, kept) = <<Head(b)>> \o Only(Tail(b) \o r \o x, kept)
  /\ Head(b) \notin kept => Only(b \o r \o x, kept) = Only(Tail(b) \o r \o x, kept)

\* The first element leaves the rest as it was.
LEMMA FirstRuns ==
  ASSUME NEW S, NEW b \in Seq(S), NEW r \in Seq(S), NEW x \in Seq(S), b # <<>>, NEW kept
  PROVE  FirstLeaves(b, r, x, kept)
<1>1. PICK q : q = b \o r
  OBVIOUS
<1>2. q \in Seq(S) /\ q # <<>> /\ Head(q) = Head(b) /\ Tail(q) = Tail(b) \o r
  BY <1>1, TailConcat, ConcatProperties
<1>3. PICK l : l = q \o x
  OBVIOUS
<1>4. l \in Seq(S) /\ l # <<>> /\ Head(l) = Head(q) /\ Tail(l) = Tail(q) \o x
  BY <1>2, <1>3, TailConcat, ConcatProperties
<1>5. /\ Head(l) \in kept => Only(l, kept) = <<Head(l)>> \o Only(Tail(l), kept)
      /\ Head(l) \notin kept => Only(l, kept) = Only(Tail(l), kept)
  BY <1>4, OnlyHead
<1>6. QED
  BY <1>1, <1>2, <1>3, <1>4, <1>5 DEF FirstLeaves

\* A line that got one element longer at the end of the queue behind which
\* nothing waits.
LongerBy(b, r, x, e, kept) ==
  /\ b \o r \o Append(x, e) = Append(b \o r \o x, e)
  /\ b \o Append(r, e) \o <<>> = Append(b \o r \o <<>>, e)
  /\ Only(Append(b \o r \o x, e), kept) = Append(Only(b \o r \o x, kept), e)

\* What is appended to the last queue that is not empty ends the line.
LEMMA LineGrows ==
  ASSUME NEW S, NEW b \in Seq(S), NEW r \in Seq(S), NEW x \in Seq(S), NEW e \in S, NEW kept, e \in kept
  PROVE  LongerBy(b, r, x, e, kept)
<1>0. \A s \in Seq(S), t \in Seq(S) : s \o Append(t, e) = Append(s \o t, e)
  <2> SUFFICES ASSUME NEW s \in Seq(S), NEW t \in Seq(S) PROVE s \o Append(t, e) = Append(s \o t, e)
    OBVIOUS
  <2>1. PICK o : o = <<e>>
    OBVIOUS
  <2>2. o \in Seq(S)
    BY <2>1
  <2>3. Append(t, e) = t \o o /\ s \o t \in Seq(S)
    BY <2>1, AppendIsConcat, ConcatProperties
  <2>4. Append(s \o t, e) = (s \o t) \o o
    BY <2>1, <2>3, AppendIsConcat
  <2>5. (s \o t) \o o = s \o (t \o o)
    BY <2>2, ConcatAssociative
  <2>6. QED
    BY <2>3, <2>4, <2>5
<1>1. PICK q : q = b \o r
  OBVIOUS
<1>2. q \in Seq(S)
  BY <1>1, ConcatProperties
<1>3. q \o x \in Seq(S)
  BY <1>2, ConcatProperties
<1>4. q \o Append(x, e) = Append(q \o x, e) /\ b \o Append(r, e) = Append(q, e)
  BY <1>0, <1>1, <1>2
<1>5. Append(q, e) \in Seq(S)
  BY <1>2, AppendProperties
<1>6. q \o <<>> = q /\ Append(q, e) \o <<>> = Append(q, e)
  BY <1>2, <1>5, ConcatEmptySeq
<1>7. Only(Append(q \o x, e), kept) = Append(Only(q \o x, kept), e)
  BY <1>3, OnlyAppend
<1>8. QED
  BY <1>1, <1>4, <1>6, <1>7 DEF LongerBy

-----------------------------------------------------------------------------
(* The invariant.                                                          *)

\* Watching changes nothing of the loop.
LEMMA ObservedIsNext == [Observed \/ Unobserved]_<<vars, seen>> => [Next]_vars
<1> SUFFICES ASSUME [Observed \/ Unobserved]_<<vars, seen>> PROVE [Next]_vars
  OBVIOUS
<1>1. CASE Observed
  BY <1>1 DEF Observed, Next, LoopThread, Calls, Environment
<1>2. CASE Unobserved
  BY <1>2 DEF Unobserved, Next, LoopThread, Calls, Environment
<1>3. CASE UNCHANGED <<vars, seen>>
  BY <1>3
<1>4. QED
  BY <1>1, <1>2, <1>3

\* A poll that cannot fail leaves no work behind in the cross-thread queue.
LEMMA StepHanded ==
  ASSUME ~PollMayFail, WakeInv, Handed, [Next]_vars
  PROVE  Handed'
<1>1. ASSUME XThreadDrained PROVE Handed'
  BY <1>1 DEF XThreadDrained, WakeInv, Handed
<1>2. ASSUME xqueue' = xqueue, mode \in {"parked", "woken"} => mode' \in {"parked", "woken"} PROVE Handed'
  BY <1>2 DEF Handed
<1>3. CASE TickImmediate \/ TickParks \/ Resume
  BY <1>1, <1>3 DEF TickImmediate, TickParks, Resume
<1>4. CASE ParkEnds \/ ParkTimesOut \/ SpinEnds
  BY <1>2, <1>4 DEF ParkEnds, ParkTimesOut, SpinEnds, PollReturns, xthread
<1>5. CASE RunHandle \/ DispatchEvent \/ RunTimer
  BY <1>2, <1>5 DEF RunHandle, DispatchEvent, RunTimer, xthread
<1>6. CASE FlushCorked \/ TickEnds \/ RunForever
  BY <1>2, <1>6 DEF FlushCorked, TickEnds, RunForever, xthread
<1>7. CASE Close
  BY <1>7 DEF Close, Handed
<1>8. ASSUME NEW h \in Soon, CallSoon(h) PROVE Handed'
  BY <1>8 DEF CallSoon, Borrowed, Reachable, Handed, xthread
<1>9. ASSUME NEW t \in Timers, NEW d \in 0..MaxTime, CallAt(t, d) PROVE Handed'
  BY <1>2, <1>9 DEF CallAt, xthread
<1>10. ASSUME NEW h \in Handles, Cancel(h) PROVE Handed'
  BY <1>2, <1>10 DEF Cancel, xthread
<1>11. ASSUME NEW fd \in Fds, NEW w \in Watches, NEW refused \in BOOLEAN, AddReader(fd, w, refused)
       PROVE Handed'
  BY <1>2, <1>11 DEF AddReader, xthread
<1>12. ASSUME NEW fd \in Fds, NEW refused \in BOOLEAN, RemoveReader(fd, refused) PROVE Handed'
  BY <1>2, <1>12 DEF RemoveReader, xthread
<1>13. ASSUME NEW c \in Conns, TransportEvent(c) \/ OperationCompletes(c) PROVE Handed'
  BY <1>2, <1>13 DEF TransportEvent, OperationCompletes, xthread
<1>14. ASSUME NEW fd \in Fds, BecomesReadable(fd) PROVE Handed'
  BY <1>2, <1>14 DEF BecomesReadable, xthread
<1>15. CASE Stop \/ TimePasses \/ UNCHANGED vars
  BY <1>2, <1>15 DEF Stop, TimePasses, vars, xthread
<1>16. CASE PollFailed
  BY <1>16 DEF PollFailed
<1>17. QED
  BY <1>3, <1>4, <1>5, <1>6, <1>7, <1>8, <1>9, <1>10, <1>11, <1>12, <1>13, <1>14, <1>15, <1>16
     DEF Next, LoopThread, Environment, Calls

\* The invariant of the refinement is inductive.
LEMMA StepRef ==
  ASSUME ~PollMayFail, RefInv, [Observed \/ Unobserved]_<<vars, seen>>
  PROVE  RefInv'
<1>1. [Next]_vars /\ LoopInv /\ WakeInv /\ Handed
  BY ObservedIsNext DEF RefInv
<1>2. LoopInv' /\ WakeInv' /\ Handed'
  BY <1>1, StepLoop, StepWake, StepHanded
<1>3. QED
  BY <1>2 DEF RefInv

-----------------------------------------------------------------------------
(* What the contract sees of a state.                                      *)

\* The queues of call_soon handles are one line of handles.
LEMMA LineTyped ==
  ASSUME NEW b \in Seq(Soon \cup Watches), NEW r \in Seq(Soon \cup Watches), NEW x \in Seq(Soon)
  PROVE  /\ x \in Seq(Soon \cup Watches)
         /\ b \o r \o x \in Seq(Soon \cup Watches)
         /\ ToSet(b \o r \o x) = ToSet(b) \cup ToSet(r) \cup ToSet(x)
<1>1. x \in Seq(Soon \cup Watches)
  OBVIOUS
<1>2. PICK q : q = b \o r
  OBVIOUS
<1>3. q \in Seq(Soon \cup Watches) /\ ToSet(q) = ToSet(b) \cup ToSet(r)
  BY <1>2, ConcatElements
<1>4. q \o x \in Seq(Soon \cup Watches) /\ ToSet(q \o x) = ToSet(q) \cup ToSet(x)
  BY <1>1, <1>3, ConcatElements
<1>5. QED
  BY <1>1, <1>2, <1>3, <1>4

\* The live entries of a queue as a set.
LEMMA LiveEntriesOf ==
  ASSUME NEW s \in Seq(TimerEntry), NEW c
  PROVE  {s[i] : i \in {k \in 1..Len(s) : s[k].timer \notin c}} = {e \in ToSet(s) : e.timer \notin c}
<1>1. ASSUME NEW e \in ToSet(s), e.timer \notin c
      PROVE  e \in {s[i] : i \in {k \in 1..Len(s) : s[k].timer \notin c}}
  <2>1. PICK i \in 1..Len(s) : s[i] = e
    BY Elements
  <2>2. QED
    BY <1>1, <2>1
<1>2. ASSUME NEW e \in {s[i] : i \in {k \in 1..Len(s) : s[k].timer \notin c}}
      PROVE  e \in ToSet(s) /\ e.timer \notin c
  <2>1. PICK i \in 1..Len(s) : s[i] = e /\ s[i].timer \notin c
    OBVIOUS
  <2>2. QED
    BY <2>1, Elements
<1>3. QED
  BY <1>1, <1>2

\* A step cancels c, as far as the loop still holds it: what the contract
\* then sees pending.
LEMMA PendingNext ==
  ASSUME LoopInv', NEW c, SetCancelled(c)
  PROVE  Pending' = Only(Line', Soon \ c)
<1>1. TimersGood' /\ TypedHandles(ready', batch', xqueue', readers')
  BY DEF LoopInv, HandlesGood, TypedHandles
<1>2. PICK l, d, bat, rdy, xq : l = Line' /\ d = cancelled' /\ bat = batch' /\ rdy = ready' /\ xq = xqueue'
  OBVIOUS
<1>a. bat \in Seq(Soon \cup Watches) /\ rdy \in Seq(Soon \cup Watches) /\ xq \in Seq(Soon) /\ l = bat \o rdy \o xq
  BY <1>1, <1>2 DEF Line, TypedHandles
<1>3. l \in Seq(Soon \cup Watches) /\ ToSet(l) = ToSet(bat) \cup ToSet(rdy) \cup ToSet(xq)
  <2>1. xq \in Seq(Soon \cup Watches)
    BY <1>a
  <2>2. PICK q : q = bat \o rdy
    OBVIOUS
  <2>3. q \in Seq(Soon \cup Watches) /\ ToSet(q) = ToSet(bat) \cup ToSet(rdy)
    BY <1>a, <2>2, ConcatElements
  <2>4. q \o xq \in Seq(Soon \cup Watches) /\ ToSet(q \o xq) = ToSet(q) \cup ToSet(xq)
    BY <2>1, <2>3, ConcatElements
  <2>5. QED
    BY <1>a, <2>2, <2>3, <2>4
<1>4. \A h \in Soon : h \in ToSet(l) => h \in Held'
  BY <1>1, <1>2, <1>3, HeldNext DEF HeldKinds
<1>5. d = c \cap Held'
  BY <1>2 DEF SetCancelled
<1>6. ToSet(l) \cap (Soon \ d) = ToSet(l) \cap (Soon \ c)
  BY <1>4, <1>5
<1>7. Only(l, Soon \ d) = Only(l, Soon \ c)
  BY <1>3, <1>6, OnlySame
<1>8. QED
  BY <1>2, <1>7 DEF Pending, Line, Live

\* The same for the timers.
LEMMA WaitingNext ==
  ASSUME LoopInv', NEW c, SetCancelled(c)
  PROVE  Waiting' = {e \in Entries' : e.timer \notin c}
<1>1. TimersGood' /\ TypedHandles(ready', batch', xqueue', readers')
  BY DEF LoopInv, HandlesGood, TypedHandles
<1>2. PICK a, x, p, y, d : a = dueTimers' /\ x = expired' /\ p = heap' /\ y = xtimers' /\ d = cancelled'
  OBVIOUS
<1>3. a \in Seq(TimerEntry) /\ x \in Seq(TimerEntry) /\ p \in Seq(TimerEntry) /\ y \in Seq(TimerEntry)
  BY <1>1, <1>2 DEF TimersGood
<1>a. /\ LiveEntries(dueTimers)' = {a[i] : i \in {k \in 1..Len(a) : a[k].timer \notin d}}
      /\ LiveEntries(expired)' = {x[i] : i \in {k \in 1..Len(x) : x[k].timer \notin d}}
      /\ LiveEntries(heap)' = {p[i] : i \in {k \in 1..Len(p) : p[k].timer \notin d}}
      /\ LiveEntries(xtimers)' = {y[i] : i \in {k \in 1..Len(y) : y[k].timer \notin d}}
  BY <1>2 DEF LiveEntries
<1>4. /\ LiveEntries(dueTimers)' = {e \in ToSet(a) : e.timer \notin d}
      /\ LiveEntries(expired)' = {e \in ToSet(x) : e.timer \notin d}
      /\ LiveEntries(heap)' = {e \in ToSet(p) : e.timer \notin d}
      /\ LiveEntries(xtimers)' = {e \in ToSet(y) : e.timer \notin d}
  BY <1>3, <1>a, LiveEntriesOf
<1>5. Entries' = ToSet(a) \cup ToSet(x) \cup ToSet(p) \cup ToSet(y)
  BY <1>2 DEF Entries
<1>6. Waiting' = {e \in Entries' : e.timer \notin d}
  BY <1>4, <1>5 DEF Waiting
<1>7. \A e \in Entries' : e.timer \in Timers
  <2>1. Entries' \subseteq TimerEntry
    BY <1>3, <1>5, Elements
  <2>2. QED
    BY <2>1 DEF TimerEntry
<1>8. \A e \in Entries' : e.timer \in Held'
  <2>1. \A t \in Timers : t \in Held' <=>
          \E e \in ToSet(x) \cup ToSet(p) \cup ToSet(y) \cup ToSet(a) : e.timer = t
    BY <1>1, <1>2, HeldNext DEF HeldKinds
  <2>2. QED
    BY <1>5, <1>7, <2>1
<1>9. d = c \cap Held'
  BY <1>2 DEF SetCancelled
<1>10. QED
  BY <1>6, <1>8, <1>9

\* The same for a state as it is.
LEMMA SeenNow ==
  ASSUME LoopInv
  PROVE  /\ Pending = Only(Line, Soon \ cancelled)
         /\ Waiting = {e \in Entries : e.timer \notin cancelled}
         /\ Line \in Seq(Soon \cup Watches) /\ Entries \subseteq TimerEntry
         /\ ToSet(Line) = ToSet(batch) \cup ToSet(ready) \cup ToSet(xqueue)
<1>1. TimersGood /\ TypedHandles(ready, batch, xqueue, readers)
  BY DEF LoopInv, HandlesGood, TypedHandles
<1>2. /\ dueTimers \in Seq(TimerEntry) /\ expired \in Seq(TimerEntry)
      /\ heap \in Seq(TimerEntry) /\ xtimers \in Seq(TimerEntry)
  BY <1>1 DEF TimersGood
<1>3. /\ LiveEntries(dueTimers) = {e \in ToSet(dueTimers) : e.timer \notin cancelled}
      /\ LiveEntries(expired) = {e \in ToSet(expired) : e.timer \notin cancelled}
      /\ LiveEntries(heap) = {e \in ToSet(heap) : e.timer \notin cancelled}
      /\ LiveEntries(xtimers) = {e \in ToSet(xtimers) : e.timer \notin cancelled}
  BY <1>2, LiveEntriesOf DEF LiveEntries
<1>4. Waiting = {e \in Entries : e.timer \notin cancelled}
  BY <1>3 DEF Waiting, Entries
<1>5. Entries \subseteq TimerEntry
  BY <1>2, Elements DEF Entries
<1>6. /\ Line \in Seq(Soon \cup Watches)
      /\ ToSet(Line) = ToSet(batch) \cup ToSet(ready) \cup ToSet(xqueue)
  BY <1>1, LineTyped DEF Line, TypedHandles
<1>7. QED
  BY <1>4, <1>5, <1>6 DEF Pending, Line, Live

\* Steps that cancel nothing cancel what was cancelled.
LEMMA CancelledStays ==
  ASSUME LoopInv', cancelled' = cancelled
  PROVE  SetCancelled(cancelled)
BY DEF LoopInv, HandlesGood, CancelledIsHeld, SetCancelled

-----------------------------------------------------------------------------
(* What a step leaves as the contract sees it.                             *)

\* Nothing the contract sees changes.
LEMMA Stutters ==
  ASSUME Pending' = Pending, Waiting' = Waiting, EventsHeld' = EventsHeld, seen' = seen, now' = now,
         mode # "closed", mode' # "closed"
  PROVE  UNCHANGED Contract!vars
BY DEF Contract!vars, Pending, Waiting

\* The same line, and no further call_soon handle cancelled.
LEMMA LineSame ==
  ASSUME LoopInv, LoopInv', NEW c, SetCancelled(c), c \cap Soon = cancelled \cap Soon, Line' = Line
  PROVE  Pending' = Pending
<1>1. Soon \ c = Soon \ cancelled
  OBVIOUS
<1>2. Pending' = Only(Line', Soon \ c) /\ Pending = Only(Line, Soon \ cancelled)
  BY PendingNext, SeenNow
<1>3. QED
  BY <1>1, <1>2

\* The same entries, as far as they are live, and no further timer cancelled.
LEMMA EntriesSame ==
  ASSUME LoopInv, LoopInv', NEW c, SetCancelled(c), c \cap Timers = cancelled \cap Timers,
         \A e \in TimerEntry : e.timer \notin cancelled => (e \in Entries' <=> e \in Entries)
  PROVE  Waiting' = Waiting
<1>1. Waiting' = {e \in Entries' : e.timer \notin c} /\ Waiting = {e \in Entries : e.timer \notin cancelled}
  BY WaitingNext, SeenNow
<1>2. Entries \subseteq TimerEntry
  BY SeenNow
<1>3. Entries' \subseteq TimerEntry
  <2>1. PICK a, x, p, y : a = dueTimers' /\ x = expired' /\ p = heap' /\ y = xtimers'
    OBVIOUS
  <2>2. a \in Seq(TimerEntry) /\ x \in Seq(TimerEntry) /\ p \in Seq(TimerEntry) /\ y \in Seq(TimerEntry)
    BY <2>1 DEF LoopInv, TimersGood
  <2>3. ToSet(a) \cup ToSet(x) \cup ToSet(p) \cup ToSet(y) \subseteq TimerEntry
    BY <2>2, Elements
  <2>4. QED
    BY <2>1, <2>3 DEF Entries
<1>4. \A e \in TimerEntry : e.timer \in Timers
  BY DEF TimerEntry
<1>5. \A e \in TimerEntry : e.timer \in c <=> e.timer \in cancelled
  BY <1>4
<1>6. QED
  BY <1>1, <1>2, <1>3, <1>5

\* absorb_into_batch and take_batch: the batch is the line, then watches.
LEMMA DrainsLine ==
  ASSUME RefInv, LoopInv', batch = <<>>, SetCancelled(cancelled), XThreadDrained, NEW fds,
         \/ batch' = Drained \o SetToSeq(WatchesOf(fds)) /\ ready' = <<>>
         \/ ready' = Drained \o SetToSeq(WatchesOf(fds)) /\ batch' = <<>>
  PROVE  Pending' = Pending
<1>0. LoopInv /\ WakeInv /\ HandlesGood /\ readers \in [Fds -> Watches \cup {None}]
  BY DEF RefInv, LoopInv, HandlesGood
<1>1. ready \in Seq(Soon \cup Watches) /\ xqueue \in Seq(Soon \cup Watches)
  <2>1. ready \in Seq(Soon \cup Watches) /\ xqueue \in Seq(Soon)
    BY <1>0 DEF HandlesGood
  <2>2. QED
    BY <2>1
<1>2. PICK l : l = ready \o xqueue
  OBVIOUS
<1>3. l \in Seq(Soon \cup Watches)
  BY <1>1, <1>2, ConcatProperties
<1>4. ~wakePending => ready \o xqueue = ready
  BY <1>0, <1>1, ConcatEmptySeq DEF WakeInv
<1>5. Drained = l /\ xqueue' = <<>>
  BY <1>0, <1>2, <1>4 DEF Drained, XThreadDrained, WakeInv
<1>6. Line = l
  <2>1. <<>> \o ready = ready
    BY <1>1, ConcatEmptySeq
  <2>2. QED
    BY <1>2, <2>1 DEF Line
<1>7. PICK q, W : q = SetToSeq(WatchesOf(fds)) /\ W = WatchesOf(fds)
  OBVIOUS
<1>8. q \in Seq(Watches) /\ ToSet(q) \subseteq Watches
  BY <1>0, <1>7, WatchesQueued
<1>9. q \in Seq(Soon \cup Watches)
  BY <1>8
<1>10. PICK m : m = l \o q
  OBVIOUS
<1>11. m \in Seq(Soon \cup Watches)
  BY <1>3, <1>9, <1>10, ConcatProperties
<1>12. m \o <<>> = m /\ <<>> \o m = m
  BY <1>11, ConcatEmptySeq
<1>13. Line' = m
  <2>1. Line' = batch' \o ready' \o xqueue'
    BY DEF Line
  <2>2. CASE batch' = m /\ ready' = <<>>
    BY <1>5, <1>12, <2>1, <2>2
  <2>3. CASE ready' = m /\ batch' = <<>>
    BY <1>5, <1>12, <2>1, <2>3
  <2>4. QED
    BY <1>5, <1>7, <1>10, <2>2, <2>3
<1>14. PICK K : K = Soon \ cancelled
  OBVIOUS
<1>15. Only(q, K) = <<>>
  <2>1. ToSet(q) \cap K = {}
    BY <1>8, <1>14, LoopAssumption
  <2>2. QED
    BY <1>9, <2>1, OnlyNone
<1>16. Only(m, K) = Only(l, K) \o Only(q, K)
  BY <1>3, <1>9, <1>10, OnlyConcat
<1>17. Only(l, K) \in Seq(Soon \cup Watches)
  BY <1>3, OnlyType
<1>18. Only(m, K) = Only(l, K)
  BY <1>15, <1>16, <1>17, ConcatEmptySeq
<1>19. Pending' = Only(Line', K) /\ Pending = Only(Line, K)
  BY <1>0, <1>14, PendingNext, SeenNow
<1>20. QED
  BY <1>6, <1>13, <1>18, <1>19

\* drain_xthread and fire_expired_timers lose no live timer.
LEMMA DrainsTimers ==
  ASSUME RefInv, LoopInv', dueTimers = <<>>, SetCancelled(cancelled), XThreadDrained, heap' = HeapLeft,
         \/ dueTimers' = Fired /\ expired' = <<>>
         \/ dueTimers' = <<>> /\ expired' = Fired
  PROVE  Waiting' = Waiting
<1>0. LoopInv /\ WakeInv /\ TimersGood
  BY DEF RefInv, LoopInv
<1>1. PICK fired, left, all : fired = Fired /\ left = HeapLeft /\ all = HeapDrained
  OBVIOUS
<1>2. ToSet(fired) \cup ToSet(left) = ToSet(expired) \cup ToSet(all)
  BY <1>0, <1>1, FiredAndLeft
<1>3. ToSet(all) = ToSet(heap) \cup (IF wakePending THEN {e \in ToSet(xtimers) : e.timer \notin cancelled} ELSE {})
  BY <1>0, <1>1, DrainedHeap
<1>4. xtimers' = <<>> /\ (~wakePending => ToSet(xtimers) = {})
  BY <1>0, Nothing DEF XThreadDrained, WakeInv
<1>5. Entries' = ToSet(fired) \cup ToSet(left)
  BY <1>1, <1>4, Nothing DEF Entries
<1>6. Entries = ToSet(expired) \cup ToSet(heap) \cup ToSet(xtimers)
  BY Nothing DEF Entries
<1>7. \A e \in TimerEntry : e.timer \notin cancelled => (e \in Entries' <=> e \in Entries)
  BY <1>2, <1>3, <1>4, <1>5, <1>6
<1>8. cancelled \cap Timers = cancelled \cap Timers
  OBVIOUS
<1>9. QED
  BY <1>0, <1>7, <1>8, EntriesSame

\* Steps that move nothing the contract sees.
LEMMA QuietMaps ==
  ASSUME LoopInv, LoopInv', NEW c, SetCancelled(c),
         c \cap Soon = cancelled \cap Soon, c \cap Timers = cancelled \cap Timers,
         UNCHANGED <<batch, ready, xqueue, dueTimers, expired, heap, xtimers, now, seen>>,
         EventsHeld' = EventsHeld, mode # "closed", mode' # "closed"
  PROVE  UNCHANGED Contract!vars
<1>1. Line' = Line
  BY DEF Line
<1>2. Entries' = Entries
  BY DEF Entries
<1>3. Pending' = Pending
  BY <1>1, LineSame
<1>4. Waiting' = Waiting
  <2>1. \A e \in TimerEntry : e.timer \notin cancelled => (e \in Entries' <=> e \in Entries)
    BY <1>2
  <2>2. QED
    BY <2>1, EntriesSame
<1>5. QED
  BY <1>3, <1>4, Stutters

\* The events a tick takes are not lost.
LEMMA EventsTakenKept ==
  ASSUME EventsGood, tickEvents = <<>>,
         NEW ops \in Seq(Conns), kernelDone' \in Seq(Conns),
         ToSet(ops) \cup ToSet(kernelDone') = ToSet(kernelDone) \cup ToSet(reapedOps),
         reapedOps' = <<>>,
         \/ tickEvents' = netEvents \o ops /\ netEvents' = <<>>
         \/ netEvents' = netEvents \o ops /\ tickEvents' = <<>>
  PROVE  EventsHeld' = EventsHeld
<1>1. netEvents \in Seq(Conns)
  BY DEF EventsGood
<1>2. PICK x : x = netEvents \o ops
  OBVIOUS
<1>3. ToSet(x) = ToSet(netEvents) \cup ToSet(ops)
  BY <1>1, <1>2, ConcatElements
<1>4. ToSet(netEvents') \cup ToSet(tickEvents') = ToSet(x)
  BY <1>2, Nothing
<1>5. EventsHeld' = ToSet(x) \cup ToSet(kernelDone')
  BY <1>4, Nothing DEF EventsHeld
<1>6. QED
  BY <1>3, <1>5, Nothing DEF EventsHeld

\* A tick that does not block.
LEMMA TickImmediateMaps ==
  ASSUME RefInv, LoopInv', TickImmediate, seen' = seen
  PROVE  UNCHANGED Contract!vars
<1>0. LoopInv /\ EventsGood /\ EventsGood' /\ Rested
  BY DEF RefInv, LoopInv, FlagsGood
<1>1. batch = <<>> /\ dueTimers = <<>> /\ tickEvents = <<>> /\ reapedOps = <<>> /\ mode = "tick"
  BY <1>0 DEF TickImmediate, Rested
<1>2. /\ SetCancelled(cancelled) /\ XThreadDrained /\ heap' = HeapLeft /\ now' = now /\ reapedOps' = <<>>
  BY <1>1 DEF TickImmediate, reaped
<1>3. PICK fds, taken :
        /\ kernelDone' = Only(kernelDone, Conns \ taken)
        /\ \/ TakeBatch(Drained, Fired, fds, Only(kernelDone, taken))
           \/ TakeAndHandBack(Drained, Fired, fds, Only(kernelDone, taken))
  BY DEF TickImmediate
<1>4. PICK ops : ops = Only(kernelDone, taken)
  OBVIOUS
<1>5. /\ mode' # "closed"
      /\ \/ batch' = Drained \o SetToSeq(WatchesOf(fds)) /\ ready' = <<>>
         \/ ready' = Drained \o SetToSeq(WatchesOf(fds)) /\ batch' = <<>>
      /\ \/ dueTimers' = Fired /\ expired' = <<>>
         \/ dueTimers' = <<>> /\ expired' = Fired
      /\ \/ tickEvents' = netEvents \o ops /\ netEvents' = <<>>
         \/ netEvents' = netEvents \o ops /\ tickEvents' = <<>>
  BY <1>1, <1>3, <1>4 DEF TakeBatch, TakeAndHandBack, Unwind
<1>6. Pending' = Pending
  BY <1>1, <1>2, <1>5, DrainsLine
<1>7. Waiting' = Waiting
  BY <1>1, <1>2, <1>5, DrainsTimers
<1>8. EventsHeld' = EventsHeld
  <2>1. kernelDone \in Seq(Conns) /\ kernelDone' \in Seq(Conns)
    BY <1>0 DEF EventsGood
  <2>2. ops \in Seq(Conns) /\ ToSet(ops) = ToSet(kernelDone) \cap taken /\ ToSet(kernelDone) \subseteq Conns
    BY <1>4, <2>1, OnlyType, OnlyElements, Elements
  <2>3. ToSet(kernelDone') = ToSet(kernelDone) \cap (Conns \ taken)
    BY <1>3, <2>1, OnlyElements
  <2>4. ToSet(ops) \cup ToSet(kernelDone') = ToSet(kernelDone) \cup ToSet(reapedOps)
    BY <1>1, <2>2, <2>3, Nothing
  <2>5. QED
    BY <1>0, <1>1, <1>2, <1>5, <2>1, <2>2, <2>4, EventsTakenKept
<1>9. QED
  BY <1>1, <1>2, <1>5, <1>6, <1>7, <1>8, Stutters

\* A tick that parked.
LEMMA ResumeMaps ==
  ASSUME RefInv, LoopInv', Resume, seen' = seen
  PROVE  UNCHANGED Contract!vars
<1>0. LoopInv /\ EventsGood /\ EventsGood' /\ Rested
  BY DEF RefInv, LoopInv, FlagsGood
<1>1. batch = <<>> /\ dueTimers = <<>> /\ tickEvents = <<>> /\ mode = "woken"
  BY <1>0 DEF Resume, Rested
<1>2. /\ SetCancelled(cancelled) /\ XThreadDrained /\ heap' = HeapLeft /\ now' = now /\ reapedOps' = <<>>
      /\ kernelDone' = kernelDone
  BY DEF Resume, clock, kernel
<1>3. \/ TakeBatch(Drained, Fired, reapedFds, reapedOps)
      \/ TakeAndHandBack(Drained, Fired, reapedFds, reapedOps)
  BY DEF Resume
<1>5. /\ mode' # "closed"
      /\ \/ batch' = Drained \o SetToSeq(WatchesOf(reapedFds)) /\ ready' = <<>>
         \/ ready' = Drained \o SetToSeq(WatchesOf(reapedFds)) /\ batch' = <<>>
      /\ \/ dueTimers' = Fired /\ expired' = <<>>
         \/ dueTimers' = <<>> /\ expired' = Fired
      /\ \/ tickEvents' = netEvents \o reapedOps /\ netEvents' = <<>>
         \/ netEvents' = netEvents \o reapedOps /\ tickEvents' = <<>>
  BY <1>1, <1>3 DEF TakeBatch, TakeAndHandBack, Unwind
<1>6. Pending' = Pending
  BY <1>1, <1>2, <1>5, DrainsLine
<1>7. Waiting' = Waiting
  BY <1>1, <1>2, <1>5, DrainsTimers
<1>8. EventsHeld' = EventsHeld
  <2>1. kernelDone' \in Seq(Conns) /\ reapedOps \in Seq(Conns)
    BY <1>0 DEF EventsGood
  <2>2. ToSet(reapedOps) \cup ToSet(kernelDone') = ToSet(kernelDone) \cup ToSet(reapedOps)
    BY <1>2
  <2>3. QED
    BY <1>0, <1>1, <1>2, <1>5, <2>1, <2>2, EventsTakenKept
<1>9. QED
  BY <1>1, <1>2, <1>5, <1>6, <1>7, <1>8, Stutters

\* A tick with nothing to do.
LEMMA TickParksMaps ==
  ASSUME RefInv, LoopInv', TickParks, seen' = seen
  PROVE  UNCHANGED Contract!vars
<1>0. LoopInv /\ TimersGood /\ HandlesGood /\ Rested /\ WakeInv
  BY DEF RefInv, LoopInv, FlagsGood
<1>1. dueTimers = <<>> /\ Fired = <<>> /\ Drained = <<>> /\ mode = "tick" /\ mode' = "parked"
  BY <1>0 DEF TickParks, Rested, Immediate
<1>2. expired = <<>>
  BY <1>0, <1>1, ParksWithoutExpired
<1>3. /\ SetCancelled(cancelled) /\ XThreadDrained /\ heap' = HeapLeft /\ now' = now
      /\ dueTimers' = <<>> /\ expired' = Fired
      /\ UNCHANGED <<batch, ready, netEvents, tickEvents, kernelDone, reapedOps>>
  BY <1>1, <1>2 DEF TickParks, tickVars, clock, kernel, reaped
<1>4. Waiting' = Waiting
  BY <1>1, <1>3, DrainsTimers
<1>5. xqueue' = xqueue
  <2>1. ready \in Seq(Soon \cup Watches) /\ xqueue \in Seq(Soon)
    BY <1>0 DEF HandlesGood
  <2>2. xqueue \in Seq(Soon \cup Watches)
    BY <2>1
  <2>3. wakePending => xqueue = <<>>
    <3>1. ASSUME wakePending PROVE xqueue = <<>>
      <4>1. ready \o xqueue = <<>>
        BY <1>1, <3>1 DEF Drained
      <4>2. QED
        BY <2>1, <2>2, <4>1, ConcatEqualIffEmpty
    <3>2. QED
      BY <3>1
  <2>4. QED
    BY <1>3, <2>3 DEF XThreadDrained
<1>6. Line' = Line
  BY <1>3, <1>5 DEF Line
<1>7. Pending' = Pending
  BY <1>0, <1>3, <1>6, LineSame
<1>8. EventsHeld' = EventsHeld
  BY <1>3 DEF EventsHeld
<1>9. QED
  BY <1>1, <1>3, <1>4, <1>7, <1>8, Stutters

\* The clock.
LEMMA TimePassesMaps ==
  ASSUME RefInv, LoopInv', TimePasses, seen' = seen
  PROVE  Contract!Next \/ UNCHANGED Contract!vars
<1>0. LoopInv
  BY DEF RefInv
<1>1. /\ UNCHANGED <<batch, ready, xqueue, dueTimers, expired, heap, xtimers, mode, cancelled>>
      /\ UNCHANGED <<netEvents, tickEvents, kernelDone, reapedOps>> /\ mode # "closed"
  BY DEF TimePasses, queues, xthread, tickVars, kernel, reaped
<1>2. SetCancelled(cancelled) /\ EventsHeld' = EventsHeld
  BY <1>1, CancelledStays DEF EventsHeld
<1>3. Line' = Line /\ Entries' = Entries
  BY <1>1 DEF Line, Entries
<1>4. Pending' = Pending
  BY <1>0, <1>2, <1>3, LineSame
<1>5. Waiting' = Waiting
  <2>1. \A e \in TimerEntry : e.timer \notin cancelled => (e \in Entries' <=> e \in Entries)
    BY <1>3
  <2>2. QED
    BY <1>0, <1>2, <2>1, EntriesSame
<1>6. CASE now < MaxTime
  <2>1. now' = now + 1
    BY <1>6 DEF TimePasses
  <2>2. Contract!TimePasses
    BY <1>1, <1>2, <1>4, <1>5, <1>6, <2>1 DEF Contract!TimePasses, Pending, Waiting
  <2>3. QED
    BY <2>2 DEF Contract!Next
<1>7. CASE ~(now < MaxTime)
  <2>1. now' = now
    BY <1>7 DEF TimePasses
  <2>2. QED
    BY <1>1, <1>2, <1>4, <1>5, <2>1, Stutters
<1>8. QED
  BY <1>6, <1>7

\* close drops all there is.
LEMMA CloseMaps ==
  ASSUME RefInv, LoopInv', Close, seen' = seen
  PROVE  Contract!Next
<1>0. LoopInv /\ Rested
  BY DEF RefInv, LoopInv, FlagsGood
<1>1. /\ batch' = <<>> /\ ready' = <<>> /\ xqueue' = <<>> /\ mode' = "closed" /\ now' = now
      /\ dueTimers' = <<>> /\ expired' = <<>> /\ heap' = <<>> /\ xtimers' = <<>> /\ cancelled' = {}
      /\ netEvents' = <<>> /\ tickEvents' = <<>> /\ kernelDone' = <<>> /\ reapedOps' = <<>>
  BY <1>0 DEF Close, Rested, tickVars, clock, reaped
<1>2. SetCancelled({})
  BY <1>1 DEF SetCancelled
<1>3. Pending' = <<>>
  <2>1. PICK n : n = <<>>
    OBVIOUS
  <2>2. Line' = n
    BY <1>1, <2>1 DEF Line
  <2>3. PICK K : K = Soon \ {}
    OBVIOUS
  <2>4. Only(n, K) = n
    BY <2>1, OnlyEmpty
  <2>5. Pending' = Only(Line', K)
    BY <1>2, <2>3, PendingNext
  <2>6. QED
    BY <2>1, <2>2, <2>4, <2>5
<1>4. Waiting' = {}
  <2>1. Entries' = {}
    BY <1>1, Nothing DEF Entries
  <2>2. Waiting' = {e \in Entries' : e.timer \notin {}}
    BY <1>2, WaitingNext
  <2>3. QED
    BY <2>1, <2>2
<1>5. EventsHeld' = {}
  BY <1>1, Nothing DEF EventsHeld
<1>6. Contract!Close
  BY <1>1, <1>3, <1>4, <1>5 DEF Contract!Close, Pending, Waiting
<1>7. QED
  BY <1>6 DEF Contract!Next

\* A poll that returns moves the operations it reaped.
LEMMA PollReturnsMaps ==
  ASSUME RefInv, LoopInv', mode = "parked", PollReturns, seen' = seen
  PROVE  UNCHANGED Contract!vars
<1>0. LoopInv /\ Rested
  BY DEF RefInv, LoopInv, FlagsGood
<1>1. /\ UNCHANGED <<batch, ready, xqueue, dueTimers, expired, heap, xtimers, now, cancelled>>
      /\ UNCHANGED <<netEvents, tickEvents>> /\ mode' = "woken"
      /\ reapedOps = <<>> /\ reapedOps' = kernelDone /\ kernelDone' = <<>>
  BY <1>0 DEF PollReturns, Rested, queues, tickVars
<1>2. SetCancelled(cancelled)
  BY <1>1, CancelledStays
<1>3. EventsHeld' = EventsHeld
  BY <1>1, Nothing DEF EventsHeld
<1>4. QED
  BY <1>0, <1>1, <1>2, <1>3, QuietMaps

\* Steps the application does not see: the contract stands still, the clock
\* goes on, or the loop is closed.
LEMMA UnobservedMaps ==
  ASSUME ~PollMayFail, RefInv, LoopInv', Unobserved
  PROVE  Contract!Next \/ UNCHANGED Contract!vars
<1>0. LoopInv /\ seen' = seen /\ readers \in [Fds -> Watches \cup {None}]
  BY DEF RefInv, LoopInv, HandlesGood, Unobserved
<1>a. ASSUME cancelled' = cancelled, mode # "closed", mode' # "closed",
             UNCHANGED <<batch, ready, xqueue, dueTimers, expired, heap, xtimers, now>>,
             EventsHeld' = EventsHeld
      PROVE  UNCHANGED Contract!vars
  <2>1. SetCancelled(cancelled)
    BY <1>a, CancelledStays
  <2>2. QED
    BY <1>0, <1>a, <2>1, QuietMaps
<1>1. CASE TickImmediate \/ Resume \/ TickParks
  BY <1>0, <1>1, TickImmediateMaps, ResumeMaps, TickParksMaps
<1>2. CASE ParkEnds \/ ParkTimesOut
  BY <1>0, <1>2, PollReturnsMaps DEF ParkEnds, ParkTimesOut
<1>3. CASE SpinEnds \/ TickEnds \/ RunForever \/ Stop
  <2>1. UNCHANGED <<netEvents, tickEvents, kernelDone, reapedOps>>
    BY <1>3 DEF SpinEnds, TickEnds, RunForever, Stop, tickVars, kernel, reaped
  <2>2. EventsHeld' = EventsHeld
    BY <2>1 DEF EventsHeld
  <2>3. mode # "closed" /\ mode' # "closed"
    BY <1>3 DEF SpinEnds, TickEnds, RunForever, Stop, Reachable, Borrowed
  <2>4. UNCHANGED <<batch, ready, xqueue, dueTimers, expired, heap, xtimers, now, cancelled>>
    BY <1>3 DEF SpinEnds, TickEnds, RunForever, Stop, queues, xthread, tickVars, clock
  <2>5. QED
    BY <1>a, <2>2, <2>3, <2>4
<1>4. CASE FlushCorked
  <2>1. /\ UNCHANGED <<kernelDone, reapedOps>> /\ tickEvents = <<>> /\ tickEvents' = netEvents
        /\ netEvents' = <<>>
    BY <1>4 DEF FlushCorked, TickDispatched, kernel, reaped
  <2>2. EventsHeld' = EventsHeld
    BY <2>1, Nothing DEF EventsHeld
  <2>3. mode # "closed" /\ mode' # "closed"
    BY <1>4 DEF FlushCorked
  <2>4. UNCHANGED <<batch, ready, xqueue, dueTimers, expired, heap, xtimers, now, cancelled>>
    BY <1>4 DEF FlushCorked, queues, xthread, clock
  <2>5. QED
    BY <1>a, <2>2, <2>3, <2>4
<1>5. ASSUME NEW fd \in Fds, BecomesReadable(fd) PROVE UNCHANGED Contract!vars
  <2>1. UNCHANGED <<netEvents, tickEvents, kernelDone, reapedOps>>
    BY <1>5 DEF BecomesReadable, tickVars, reaped
  <2>2. EventsHeld' = EventsHeld
    BY <2>1 DEF EventsHeld
  <2>3. /\ UNCHANGED <<batch, ready, xqueue, dueTimers, expired, heap, xtimers, now, cancelled>>
        /\ mode # "closed" /\ mode' # "closed"
    BY <1>5 DEF BecomesReadable, queues, xthread, tickVars, clock
  <2>4. QED
    BY <1>a, <2>2, <2>3
<1>6. ASSUME NEW c, SetCancelled(cancelled \cup {c}), c \in Watches \cup {None}, Reachable, mode' = mode,
             UNCHANGED <<batch, ready, xqueue, dueTimers, expired, heap, xtimers, now>>,
             UNCHANGED <<netEvents, tickEvents, kernelDone, reapedOps>>
      PROVE  UNCHANGED Contract!vars
  <2>1. c \notin Soon /\ c \notin Timers
    BY <1>6, LoopAssumption
  <2>2. PICK d : d = cancelled \cup {c}
    OBVIOUS
  <2>3. d \cap Soon = cancelled \cap Soon /\ d \cap Timers = cancelled \cap Timers
    BY <2>1, <2>2
  <2>4. EventsHeld' = EventsHeld /\ mode # "closed" /\ mode' # "closed"
    BY <1>6 DEF EventsHeld, Reachable
  <2>5. QED
    BY <1>0, <1>6, <2>2, <2>3, <2>4, QuietMaps
<1>7. ASSUME NEW fd \in Fds, NEW w \in Watches, NEW refused \in BOOLEAN, AddReader(fd, w, refused)
      PROVE UNCHANGED Contract!vars
  <2>1. PICK c : c = IF refused THEN w ELSE readers[fd]
    OBVIOUS
  <2>2. c \in Watches \cup {None}
    BY <1>0, <2>1
  <2>3. SetCancelled(cancelled \cup {c})
    BY <1>7, <2>1 DEF AddReader
  <2>4. /\ UNCHANGED <<batch, ready, xqueue, dueTimers, expired, heap, xtimers, now>>
        /\ UNCHANGED <<netEvents, tickEvents, kernelDone, reapedOps>> /\ Reachable /\ mode' = mode
    BY <1>7 DEF AddReader, queues, xthread, tickVars, clock, kernel, reaped
  <2>5. QED
    BY <1>6, <2>2, <2>3, <2>4
<1>8. ASSUME NEW fd \in Fds, NEW refused \in BOOLEAN, RemoveReader(fd, refused)
      PROVE UNCHANGED Contract!vars
  <2>1. /\ UNCHANGED <<batch, ready, xqueue, dueTimers, expired, heap, xtimers, now>>
        /\ UNCHANGED <<netEvents, tickEvents, kernelDone, reapedOps>> /\ Reachable /\ mode' = mode
    BY <1>8 DEF RemoveReader, queues, xthread, tickVars, clock, kernel, reaped
  <2>2. CASE refused
    <3>1. SetCancelled(cancelled)
      BY <1>8, <2>2 DEF RemoveReader
    <3>2. EventsHeld' = EventsHeld /\ mode # "closed" /\ mode' # "closed"
      BY <2>1 DEF EventsHeld, Reachable
    <3>3. QED
      BY <1>0, <2>1, <3>1, <3>2, QuietMaps
  <2>3. CASE ~refused
    <3>1. PICK c : c = readers[fd]
      OBVIOUS
    <3>2. SetCancelled(cancelled \cup {c}) /\ c \in Watches \cup {None}
      BY <1>0, <1>8, <2>3, <3>1 DEF RemoveReader
    <3>3. QED
      BY <1>6, <2>1, <3>2
  <2>4. QED
    BY <2>2, <2>3
<1>9. CASE TimePasses \/ Close
  BY <1>0, <1>9, TimePassesMaps, CloseMaps
<1>10. CASE PollFailed
  BY <1>10 DEF PollFailed
<1>11. QED
  BY <1>1, <1>2, <1>3, <1>4, <1>5, <1>7, <1>8, <1>9, <1>10 DEF Unobserved

-----------------------------------------------------------------------------
(* Steps the application sees.                                             *)

\* hand_back: the due timers d that are left, here or in front of the expired
\* ones.
LEMMA EntriesLeft ==
  ASSUME TimersGood, NEW d \in Seq(TimerEntry), UNCHANGED <<heap, xtimers>>,
         \/ dueTimers' = d /\ expired' = expired
         \/ dueTimers' = <<>> /\ expired' = d \o expired
  PROVE  Entries' = ToSet(d) \cup ToSet(expired) \cup ToSet(heap) \cup ToSet(xtimers)
<1>1. PICK x : x = d \o expired
  OBVIOUS
<1>2. ToSet(x) = ToSet(d) \cup ToSet(expired)
  BY <1>1, ConcatElements DEF TimersGood
<1>3. ToSet(dueTimers') \cup ToSet(expired') = ToSet(d) \cup ToSet(expired)
  BY <1>1, <1>2, Nothing
<1>4. QED
  BY <1>3 DEF Entries

\* requeue_events: the same for the events.
LEMMA EventsLeft ==
  ASSUME EventsGood, NEW d \in Seq(Conns), UNCHANGED <<kernelDone, reapedOps>>,
         \/ tickEvents' = d /\ netEvents' = netEvents
         \/ tickEvents' = <<>> /\ netEvents' = d \o netEvents
  PROVE  EventsHeld' = ToSet(netEvents) \cup ToSet(d) \cup ToSet(kernelDone) \cup ToSet(reapedOps)
<1>1. PICK x : x = d \o netEvents
  OBVIOUS
<1>2. ToSet(x) = ToSet(d) \cup ToSet(netEvents)
  BY <1>1, ConcatElements DEF EventsGood
<1>3. ToSet(tickEvents') \cup ToSet(netEvents') = ToSet(d) \cup ToSet(netEvents)
  BY <1>1, <1>2, Nothing
<1>4. QED
  BY <1>3 DEF EventsHeld

\* hand_back: the handles b that are left of the batch.
LEMMA LineLeft ==
  ASSUME HandlesGood, NEW b \in Seq(Soon \cup Watches), xqueue' = xqueue,
         \/ batch' = b /\ ready' = ready
         \/ batch' = <<>> /\ ready' = b \o ready
  PROVE  Line' = b \o ready \o xqueue
<1>1. PICK q : q = b \o ready
  OBVIOUS
<1>2. q \in Seq(Soon \cup Watches)
  BY <1>1, ConcatProperties DEF HandlesGood
<1>3. <<>> \o q = q
  BY <1>2, ConcatEmptySeq
<1>4. batch' \o ready' = q
  BY <1>1, <1>3
<1>5. QED
  BY <1>1, <1>4 DEF Line

\* run_handle runs the oldest callback, or one that is not of the contract.
LEMMA RunHandleMaps ==
  ASSUME RefInv, LoopInv', RunHandle, SeenRun(Head(batch))
  PROVE  Contract!Next \/ UNCHANGED Contract!vars
<1>0. LoopInv /\ TimersGood /\ EventsGood /\ HandlesGood
  BY DEF RefInv, LoopInv
<1>1. PICK h, t, K : h = Head(batch) /\ t = Tail(batch) /\ K = Soon \ cancelled
  OBVIOUS
<1>2. /\ batch # <<>> /\ mode # "closed" /\ mode' # "closed" /\ SetCancelled(cancelled)
      /\ UNCHANGED <<heap, xqueue, xtimers, kernelDone, reapedOps, now>>
      /\ \/ batch' = t /\ ready' = ready
         \/ batch' = <<>> /\ ready' = t \o ready
      /\ \/ dueTimers' = dueTimers /\ expired' = expired
         \/ dueTimers' = <<>> /\ expired' = dueTimers \o expired
      /\ \/ tickEvents' = tickEvents /\ netEvents' = netEvents
         \/ tickEvents' = <<>> /\ netEvents' = tickEvents \o netEvents
  BY <1>1 DEF RunHandle, HandBack, Unwind, xthread, reaped, clock
<1>3. /\ batch \in Seq(Soon \cup Watches) /\ ready \in Seq(Soon \cup Watches) /\ xqueue \in Seq(Soon)
  BY <1>0 DEF HandlesGood
<1>4. xqueue \in Seq(Soon \cup Watches)
  BY <1>3
<1>5. h \in Soon \cup Watches /\ t \in Seq(Soon \cup Watches)
  BY <1>1, <1>2, <1>3, TailElements
<1>6. Line' = t \o ready \o xqueue
  BY <1>0, <1>2, <1>5, LineLeft
<1>7. Pending' = Only(t \o ready \o xqueue, K) /\ Pending = Only(batch \o ready \o xqueue, K)
  BY <1>0, <1>1, <1>2, <1>6, PendingNext, SeenNow DEF Line
<1>8. /\ h \in K => Only(batch \o ready \o xqueue, K) = <<h>> \o Only(t \o ready \o xqueue, K)
      /\ h \notin K => Only(batch \o ready \o xqueue, K) = Only(t \o ready \o xqueue, K)
  <2>1. PICK S, b, r, x : S = Soon \cup Watches /\ b = batch /\ r = ready /\ x = xqueue
    OBVIOUS
  <2>2. b \in Seq(S) /\ r \in Seq(S) /\ x \in Seq(S) /\ b # <<>>
    BY <1>2, <1>3, <1>4, <2>1
  <2>3. FirstLeaves(b, r, x, K)
    BY <2>2, FirstRuns, Zenon
  <2>4. QED
    BY <1>1, <2>1, <2>3 DEF FirstLeaves
<1>9. EventsHeld' = EventsHeld
  <2>1. tickEvents \in Seq(Conns)
    BY <1>0 DEF EventsGood
  <2>2. EventsHeld' = ToSet(netEvents) \cup ToSet(tickEvents) \cup ToSet(kernelDone) \cup ToSet(reapedOps)
    BY <1>0, <1>2, <2>1, EventsLeft
  <2>3. QED
    BY <2>2 DEF EventsHeld
<1>10. Waiting' = Waiting
  <2>1. dueTimers \in Seq(TimerEntry)
    BY <1>0 DEF TimersGood
  <2>2. Entries' = Entries
    BY <1>0, <1>2, <2>1, EntriesLeft DEF Entries
  <2>3. \A e \in TimerEntry : e.timer \notin cancelled => (e \in Entries' <=> e \in Entries)
    BY <2>2
  <2>4. QED
    BY <1>0, <1>2, <2>3, EntriesSame
<1>11. CASE h \in K
  <2>1. seen' = Contract!Ran(h)
    BY <1>1, <1>11, LoopAssumption DEF SeenRun
  <2>2. PICK p : p = Pending'
    OBVIOUS
  <2>3. p \in Seq(Soon \cup Watches)
    <3>1. PICK l : l = t \o ready \o xqueue
      OBVIOUS
    <3>2. l \in Seq(Soon \cup Watches)
      BY <1>3, <1>4, <1>5, <3>1, ConcatProperties
    <3>3. Only(l, K) \in Seq(Soon \cup Watches)
      BY <3>2, OnlyType
    <3>4. QED
      BY <1>7, <2>2, <3>1, <3>3
  <2>4. Pending = <<h>> \o p
    BY <1>7, <1>8, <1>11, <2>2
  <2>5. <<h>> \o p # <<>> /\ Tail(<<h>> \o p) = p /\ Head(<<h>> \o p) = h
    BY <1>5, <2>3
  <2>6. Pending # <<>> /\ Pending' = Tail(Pending) /\ Head(Pending) = h
    BY <2>2, <2>4, <2>5
  <2>7. Contract!RunNext
    BY <1>2, <1>9, <1>10, <2>1, <2>6 DEF Contract!RunNext, Pending, Waiting
  <2>8. QED
    BY <2>7 DEF Contract!Next
<1>12. CASE h \notin K
  <2>1. seen' = seen
    BY <1>1, <1>5, <1>12 DEF SeenRun
  <2>2. Pending' = Pending
    BY <1>7, <1>8, <1>12
  <2>3. QED
    BY <1>2, <1>9, <1>10, <2>1, <2>2, Stutters
<1>13. QED
  BY <1>11, <1>12

\* run_timers runs a timer that is due.
LEMMA RunTimerMaps ==
  ASSUME RefInv, LoopInv', RunTimer, SeenRun(Head(dueTimers).timer)
  PROVE  Contract!Next \/ UNCHANGED Contract!vars
<1>0. LoopInv /\ TimersGood /\ EventsGood /\ HandlesGood
  BY DEF RefInv, LoopInv
<1>1. PICK e, d : e = Head(dueTimers) /\ d = Tail(dueTimers)
  OBVIOUS
<1>2. /\ dueTimers # <<>> /\ mode # "closed" /\ mode' # "closed" /\ SetCancelled(cancelled)
      /\ UNCHANGED <<heap, xqueue, xtimers, kernelDone, reapedOps, now>>
      /\ \/ batch' = batch /\ ready' = ready
         \/ batch' = <<>> /\ ready' = batch \o ready
      /\ \/ dueTimers' = d /\ expired' = expired
         \/ dueTimers' = <<>> /\ expired' = d \o expired
      /\ \/ tickEvents' = tickEvents /\ netEvents' = netEvents
         \/ tickEvents' = <<>> /\ netEvents' = tickEvents \o netEvents
  BY <1>1 DEF RunTimer, HandBack, Unwind, xthread, reaped, clock, kernel
<1>3. Pending' = Pending
  <2>1. batch \in Seq(Soon \cup Watches)
    BY <1>0 DEF HandlesGood
  <2>2. Line' = Line
    BY <1>0, <1>2, <2>1, LineLeft DEF Line
  <2>3. QED
    BY <1>0, <1>2, <2>2, LineSame
<1>4. EventsHeld' = EventsHeld
  <2>1. tickEvents \in Seq(Conns)
    BY <1>0 DEF EventsGood
  <2>2. EventsHeld' = ToSet(netEvents) \cup ToSet(tickEvents) \cup ToSet(kernelDone) \cup ToSet(reapedOps)
    BY <1>0, <1>2, <2>1, EventsLeft
  <2>3. QED
    BY <2>2 DEF EventsHeld
<1>5. /\ dueTimers \in Seq(TimerEntry) /\ IsInjective(dueTimers) /\ expired \in Seq(TimerEntry)
      /\ heap \in Seq(TimerEntry) /\ xtimers \in Seq(TimerEntry)
      /\ ToSet(dueTimers) \cap (ToSet(expired) \cup ToSet(heap) \cup ToSet(xtimers)) = {}
      /\ \A f \in ToSet(dueTimers) : f.when <= now
  BY <1>0 DEF TimersGood, TimersApart, TimersOnTime, Apart
<1>6. /\ e \in TimerEntry /\ d \in Seq(TimerEntry) /\ ToSet(dueTimers) = ToSet(d) \cup {e} /\ e \notin ToSet(d)
  BY <1>1, <1>2, <1>5, TailElements
<1>7. Entries' = ToSet(d) \cup ToSet(expired) \cup ToSet(heap) \cup ToSet(xtimers)
  BY <1>0, <1>2, <1>6, EntriesLeft
<1>8. Entries' = Entries \ {e} /\ e \in Entries /\ e.when <= now
  BY <1>5, <1>6, <1>7 DEF Entries
<1>9. Waiting' = {f \in Entries' : f.timer \notin cancelled} /\ Waiting = {f \in Entries : f.timer \notin cancelled}
  BY <1>0, <1>2, WaitingNext, SeenNow
<1>10. e.timer \in Timers /\ e.timer \notin Watches
  BY <1>6, LoopAssumption DEF TimerEntry
<1>11. CASE e.timer \notin cancelled
  <2>1. seen' = Contract!Ran(e.timer)
    BY <1>1, <1>10, <1>11 DEF SeenRun
  <2>2. Waiting' = Waiting \ {e} /\ e \in Waiting
    BY <1>8, <1>9, <1>11
  <2>3. Contract!RunTimer(e)
    BY <1>2, <1>3, <1>4, <1>8, <2>1, <2>2 DEF Contract!RunTimer, Pending, Waiting
  <2>4. QED
    BY <2>2, <2>3 DEF Contract!Next, Waiting
<1>12. CASE e.timer \in cancelled
  <2>1. seen' = seen
    BY <1>1, <1>12 DEF SeenRun
  <2>2. Waiting' = Waiting
    BY <1>8, <1>9, <1>12
  <2>3. QED
    BY <1>2, <1>3, <1>4, <2>1, <2>2, Stutters
<1>13. QED
  BY <1>11, <1>12

\* dispatch_events delivers an event that arrived, once.
LEMMA DispatchEventMaps ==
  ASSUME RefInv, LoopInv', DispatchEvent, seen' = Contract!Ran(Head(tickEvents))
  PROVE  Contract!Next
<1>0. LoopInv /\ TimersGood /\ EventsGood /\ HandlesGood
  BY DEF RefInv, LoopInv
<1>1. PICK c, d : c = Head(tickEvents) /\ d = Tail(tickEvents)
  OBVIOUS
<1>2. /\ tickEvents # <<>> /\ mode # "closed" /\ mode' # "closed" /\ cancelled' = cancelled
      /\ UNCHANGED <<heap, xqueue, xtimers, kernelDone, reapedOps, now>>
      /\ \/ batch' = batch /\ ready' = ready
         \/ batch' = <<>> /\ ready' = batch \o ready
      /\ \/ dueTimers' = dueTimers /\ expired' = expired
         \/ dueTimers' = <<>> /\ expired' = dueTimers \o expired
      /\ \/ tickEvents' = d /\ netEvents' = netEvents
         \/ tickEvents' = <<>> /\ netEvents' = d \o netEvents
  BY <1>1 DEF DispatchEvent, HandBack, Unwind, xthread, reaped, clock, kernel
<1>3. SetCancelled(cancelled)
  BY <1>2, CancelledStays
<1>4. Pending' = Pending
  <2>1. batch \in Seq(Soon \cup Watches)
    BY <1>0 DEF HandlesGood
  <2>2. Line' = Line
    BY <1>0, <1>2, <2>1, LineLeft DEF Line
  <2>3. QED
    BY <1>0, <1>3, <2>2, LineSame
<1>5. Waiting' = Waiting
  <2>1. dueTimers \in Seq(TimerEntry)
    BY <1>0 DEF TimersGood
  <2>2. Entries' = Entries
    BY <1>0, <1>2, <2>1, EntriesLeft DEF Entries
  <2>3. \A e \in TimerEntry : e.timer \notin cancelled => (e \in Entries' <=> e \in Entries)
    BY <2>2
  <2>4. QED
    BY <1>0, <1>3, <2>3, EntriesSame
<1>6. /\ tickEvents \in Seq(Conns) /\ IsInjective(tickEvents)
      /\ ToSet(tickEvents) \cap (ToSet(netEvents) \cup ToSet(kernelDone) \cup ToSet(reapedOps)) = {}
  BY <1>0 DEF EventsGood, EventsApart, Apart
<1>7. c \in Conns /\ d \in Seq(Conns) /\ ToSet(tickEvents) = ToSet(d) \cup {c} /\ c \notin ToSet(d)
  BY <1>1, <1>2, <1>6, TailElements
<1>8. EventsHeld' = ToSet(netEvents) \cup ToSet(d) \cup ToSet(kernelDone) \cup ToSet(reapedOps)
  BY <1>0, <1>2, <1>7, EventsLeft
<1>9. EventsHeld' = EventsHeld \ {c} /\ c \in EventsHeld
  BY <1>6, <1>7, <1>8 DEF EventsHeld
<1>10. Contract!DeliverEvent(c)
  BY <1>1, <1>2, <1>4, <1>5, <1>9 DEF Contract!DeliverEvent, Pending, Waiting
<1>11. QED
  BY <1>7, <1>10 DEF Contract!Next

\* Handle.cancel, TimerHandle.cancel: nothing else is taken out of the line.
LEMMA CancelMaps ==
  ASSUME RefInv, LoopInv', NEW h \in Handles, Cancel(h),
         seen' = IF h \in Watches THEN seen ELSE Contract!Cancelled(h)
  PROVE  Contract!Next \/ UNCHANGED Contract!vars
<1>0. LoopInv /\ TimersGood
  BY DEF RefInv, LoopInv
<1>1. PICK c, p, kept : c = cancelled \cup {h} /\ p = Only(heap, kept) /\ kept = {e \in TimerEntry : e.timer # h}
  OBVIOUS
<1>2. /\ SetCancelled(c) /\ heap' = p /\ mode # "closed" /\ mode' = mode /\ now' = now
      /\ UNCHANGED <<batch, ready, xqueue, dueTimers, expired, xtimers>>
      /\ UNCHANGED <<netEvents, tickEvents, kernelDone, reapedOps>>
  BY <1>1 DEF Cancel, Reachable, Borrowed, tickVars, xthread, kernel, reaped, clock
<1>3. Line' = Line /\ EventsHeld' = EventsHeld
  BY <1>2 DEF Line, EventsHeld
<1>4. ToSet(p) = {e \in ToSet(heap) : e.timer # h}
  <2>1. heap \in Seq(TimerEntry)
    BY <1>0 DEF TimersGood
  <2>2. ToSet(p) = ToSet(heap) \cap kept /\ ToSet(heap) \subseteq TimerEntry
    BY <1>1, <2>1, OnlyElements, Elements
  <2>3. QED
    BY <1>1, <2>2
<1>5. \A e : e.timer # h => (e \in Entries' <=> e \in Entries)
  BY <1>2, <1>4 DEF Entries
<1>6. Waiting' = {e \in Waiting : e.timer # h}
  <2>1. Waiting' = {e \in Entries' : e.timer \notin c} /\ Waiting = {e \in Entries : e.timer \notin cancelled}
    BY <1>0, <1>2, WaitingNext, SeenNow
  <2>2. QED
    BY <1>1, <1>5, <2>1
<1>7. Pending' = Only(Pending, Soon \ {h})
  <2>1. PICK l, K, J : l = Line /\ K = Soon \ cancelled /\ J = Soon \ {h}
    OBVIOUS
  <2>2. l \in Seq(Soon \cup Watches) /\ Pending = Only(l, K)
    BY <1>0, <2>1, SeenNow
  <2>3. Only(Only(l, K), J) = Only(l, K \cap J)
    BY <2>2, OnlyTwice
  <2>4. K \cap J = Soon \ c
    BY <1>1, <2>1
  <2>5. Pending' = Only(l, Soon \ c)
    BY <1>2, <1>3, <2>1, PendingNext
  <2>6. QED
    BY <2>1, <2>2, <2>3, <2>4, <2>5
<1>8. CASE h \in Watches
  <2>1. h \notin Soon /\ h \notin Timers
    BY <1>8, LoopAssumption
  <2>2. Pending' = Pending
    <3>1. c \cap Soon = cancelled \cap Soon
      BY <1>1, <2>1
    <3>2. QED
      BY <1>0, <1>2, <1>3, <3>1, LineSame
  <2>3. Waiting' = Waiting
    <3>1. \A e \in TimerEntry : e.timer # h
      BY <2>1 DEF TimerEntry
    <3>2. Waiting \subseteq TimerEntry
      BY <1>0, SeenNow
    <3>3. QED
      BY <1>6, <3>1, <3>2
  <2>4. seen' = seen /\ now' = now /\ mode' # "closed"
    BY <1>2, <1>8
  <2>5. QED
    BY <1>2, <1>3, <2>2, <2>3, <2>4, Stutters
<1>9. CASE h \notin Watches
  <2>1. h \in Soon \cup Timers
    BY <1>9 DEF Handles
  <2>2. Pending' = Contract!Only(Pending, Soon \ {h})
    BY <1>7, SameFilter
  <2>3. Contract!Cancel(h)
    BY <1>2, <1>3, <1>6, <1>9, <2>2 DEF Contract!Cancel, Pending, Waiting
  <2>4. QED
    BY <2>1, <2>3 DEF Contract!Next
<1>10. QED
  BY <1>8, <1>9

\* enqueue_soon: behind everything called before, through whichever queue.
LEMMA CallSoonMaps ==
  ASSUME RefInv, LoopInv', NEW h \in Soon, CallSoon(h), seen' = Contract!Scheduled
  PROVE  Contract!Next
<1>0. LoopInv /\ TimersGood /\ HandlesGood /\ Handed
  BY DEF RefInv, LoopInv
<1>1. /\ h \notin Held /\ mode # "closed" /\ mode' = mode /\ now' = now /\ cancelled' = cancelled
      /\ UNCHANGED <<batch, dueTimers, expired, heap, xtimers>>
      /\ UNCHANGED <<netEvents, tickEvents, kernelDone, reapedOps>>
      /\ \/ Reachable /\ ready' = Append(ready, h) /\ xqueue' = xqueue
         \/ ready' = ready /\ xqueue' = Append(xqueue, h)
  BY DEF CallSoon, Reachable, Borrowed, tickVars, xthread, kernel, reaped, clock
<1>2. SetCancelled(cancelled)
  BY <1>1, CancelledStays
<1>3. EventsHeld' = EventsHeld
  BY <1>1 DEF EventsHeld
<1>4. Waiting' = Waiting
  <2>1. Entries' = Entries
    BY <1>1 DEF Entries
  <2>2. \A e \in TimerEntry : e.timer \notin cancelled => (e \in Entries' <=> e \in Entries)
    BY <2>1
  <2>3. QED
    BY <1>0, <1>2, <2>2, EntriesSame
<1>5. PICK b, r, x, K, S : b = batch /\ r = ready /\ x = xqueue /\ K = Soon \ cancelled /\ S = Soon \cup Watches
  OBVIOUS
<1>6. h \in K /\ h \notin ToSet(Line)
  <2>1. HeldKinds(Held, ready, expired, heap, xqueue, xtimers, batch, dueTimers, Registered)
    BY <1>0, HeldNow DEF HandlesGood, TypedHandles
  <2>2. h \notin ToSet(batch) \cup ToSet(ready) \cup ToSet(xqueue)
    BY <1>1, <2>1 DEF HeldKinds
  <2>3. h \notin cancelled
    BY <1>0, <1>1 DEF HandlesGood, CancelledIsHeld
  <2>4. QED
    BY <1>0, <1>5, <2>2, <2>3, SeenNow
<1>7. b \in Seq(S) /\ r \in Seq(S) /\ x \in Seq(S) /\ h \in S
  BY <1>0, <1>5 DEF HandlesGood
<1>8. /\ b \o r \o Append(x, h) = Append(b \o r \o x, h)
      /\ b \o Append(r, h) \o <<>> = Append(b \o r \o <<>>, h)
      /\ Only(Append(b \o r \o x, h), K) = Append(Only(b \o r \o x, K), h)
  <2>1. LongerBy(b, r, x, h, K)
    BY <1>6, <1>7, LineGrows, Zenon
  <2>2. QED
    BY <2>1 DEF LongerBy
<1>9. Line' = Append(Line, h)
  <2>1. CASE Reachable /\ ready' = Append(ready, h) /\ xqueue' = xqueue
    <3>1. x = <<>>
      BY <1>0, <1>5, <2>1 DEF Handed, Reachable
    <3>2. QED
      BY <1>1, <1>5, <1>8, <2>1, <3>1 DEF Line
  <2>2. CASE ready' = ready /\ xqueue' = Append(xqueue, h)
    BY <1>1, <1>5, <1>8, <2>2 DEF Line
  <2>3. QED
    BY <1>1, <2>1, <2>2
<1>10. Pending' = Append(Pending, h)
  <2>1. Pending' = Only(Line', K) /\ Pending = Only(Line, K)
    BY <1>0, <1>2, <1>5, PendingNext, SeenNow
  <2>2. Only(Append(Line, h), K) = Append(Only(Line, K), h)
    BY <1>5, <1>8 DEF Line
  <2>3. QED
    BY <1>9, <2>1, <2>2
<1>11. \A i \in 1..Len(Pending) : Pending[i] # h
  <2>1. PICK p, l : p = Pending /\ l = Line
    OBVIOUS
  <2>2. l \in Seq(S) /\ p = Only(l, K)
    BY <1>0, <1>5, <2>1, SeenNow
  <2>3. p \in Seq(S) /\ ToSet(p) = ToSet(l) \cap K
    BY <2>2, OnlyType, OnlyElements
  <2>4. h \notin ToSet(p)
    BY <1>6, <2>1, <2>3
  <2>5. \A i \in 1..Len(p) : p[i] # h
    BY <2>3, <2>4, Elements
  <2>6. QED
    BY <2>1, <2>5
<1>12. Contract!CallSoon(h)
  BY <1>1, <1>3, <1>4, <1>10, <1>11 DEF Contract!CallSoon, Pending, Waiting
<1>13. QED
  BY <1>12 DEF Contract!Next

\* schedule_timer
LEMMA CallAtMaps ==
  ASSUME RefInv, LoopInv', NEW t \in Timers, NEW d \in 0..MaxTime, CallAt(t, d), seen' = Contract!Scheduled
  PROVE  Contract!Next
<1>0. LoopInv /\ TimersGood /\ HandlesGood
  BY DEF RefInv, LoopInv
<1>1. PICK entry : entry = [when |-> d, timer |-> t]
  OBVIOUS
<1>2. entry \in TimerEntry /\ entry.timer = t
  BY <1>1 DEF TimerEntry
<1>3. PICK s, a : s = Schedule(heap, entry) /\ a = Append(xtimers, entry)
  OBVIOUS
<1>4. /\ t \notin Held /\ mode # "closed" /\ mode' = mode /\ now' = now /\ cancelled' = cancelled
      /\ UNCHANGED <<batch, ready, xqueue, dueTimers, expired>>
      /\ UNCHANGED <<netEvents, tickEvents, kernelDone, reapedOps>>
      /\ \/ heap' = s /\ xtimers' = xtimers
         \/ heap' = heap /\ xtimers' = a
  BY <1>1, <1>3 DEF CallAt, Reachable, Borrowed, tickVars, xthread, kernel, reaped, clock
<1>5. SetCancelled(cancelled)
  BY <1>4, CancelledStays
<1>6. EventsHeld' = EventsHeld
  BY <1>4 DEF EventsHeld
<1>7. Pending' = Pending
  <2>1. Line' = Line
    BY <1>4 DEF Line
  <2>2. QED
    BY <1>0, <1>5, <2>1, LineSame
<1>8. ToSet(s) = ToSet(heap) \cup {entry} /\ ToSet(a) = ToSet(xtimers) \cup {entry}
  <2>1. heap \in Seq(TimerEntry) /\ xtimers \in Seq(TimerEntry)
    BY <1>0 DEF TimersGood
  <2>2. QED
    BY <1>2, <1>3, <2>1, ScheduleKeeps, AppendElements
<1>9. Entries' = Entries \cup {entry}
  BY <1>4, <1>8 DEF Entries
<1>10. t \notin cancelled /\ \A e \in Entries : e.timer # t
  <2>1. HeldKinds(Held, ready, expired, heap, xqueue, xtimers, batch, dueTimers, Registered)
    BY <1>0, HeldNow DEF HandlesGood, TypedHandles
  <2>2. \A e \in Entries : e.timer # t
    BY <1>4, <2>1 DEF HeldKinds, Entries
  <2>3. QED
    BY <1>0, <1>4, <2>2 DEF HandlesGood, CancelledIsHeld
<1>11. Waiting' = Waiting \cup {entry} /\ \A e \in Waiting : e.timer # t
  <2>1. Waiting' = {e \in Entries' : e.timer \notin cancelled} /\ Waiting = {e \in Entries : e.timer \notin cancelled}
    BY <1>0, <1>5, WaitingNext, SeenNow
  <2>2. QED
    BY <1>2, <1>9, <1>10, <2>1
<1>12. Contract!CallAt(t, d)
  BY <1>1, <1>4, <1>6, <1>7, <1>11 DEF Contract!CallAt, Pending, Waiting
<1>13. QED
  BY <1>12 DEF Contract!Next

\* A transport's event, its own or the kernel's.
LEMMA EventArrivesMaps ==
  ASSUME RefInv, LoopInv', NEW c \in Conns, TransportEvent(c) \/ OperationCompletes(c),
         seen' = Contract!Scheduled
  PROVE  Contract!Next
<1>0. LoopInv /\ EventsGood
  BY DEF RefInv, LoopInv
<1>1. PICK x, y : x = Append(netEvents, c) /\ y = Append(kernelDone, c)
  OBVIOUS
<1>2. /\ c \notin EventsHeld /\ mode # "closed" /\ mode' = mode /\ now' = now /\ cancelled' = cancelled
      /\ UNCHANGED <<batch, ready, xqueue, dueTimers, expired, heap, xtimers>>
      /\ UNCHANGED <<tickEvents, reapedOps>>
      /\ \/ netEvents' = x /\ kernelDone' = kernelDone
         \/ netEvents' = netEvents /\ kernelDone' = y
  BY <1>1 DEF TransportEvent, OperationCompletes, Reachable, queues, tickVars, xthread, kernel, reaped, clock
<1>3. SetCancelled(cancelled)
  BY <1>2, CancelledStays
<1>4. Pending' = Pending
  <2>1. Line' = Line
    BY <1>2 DEF Line
  <2>2. QED
    BY <1>0, <1>3, <2>1, LineSame
<1>5. Waiting' = Waiting
  <2>1. Entries' = Entries
    BY <1>2 DEF Entries
  <2>2. \A e \in TimerEntry : e.timer \notin cancelled => (e \in Entries' <=> e \in Entries)
    BY <2>1
  <2>3. QED
    BY <1>0, <1>3, <2>2, EntriesSame
<1>6. ToSet(x) = ToSet(netEvents) \cup {c} /\ ToSet(y) = ToSet(kernelDone) \cup {c}
  <2>1. netEvents \in Seq(Conns) /\ kernelDone \in Seq(Conns)
    BY <1>0 DEF EventsGood
  <2>2. QED
    BY <1>1, <2>1, AppendElements
<1>7. EventsHeld' = EventsHeld \cup {c}
  BY <1>2, <1>6 DEF EventsHeld
<1>8. Contract!EventArrives(c)
  BY <1>2, <1>4, <1>5, <1>7 DEF Contract!EventArrives, Pending, Waiting
<1>9. QED
  BY <1>8 DEF Contract!Next

-----------------------------------------------------------------------------
(* The refinement.                                                         *)

\* The loop starts where the contract does.
LEMMA InitMaps == ObservedInit => RefInv /\ Contract!Init
<1> SUFFICES ASSUME ObservedInit PROVE RefInv /\ Contract!Init
  OBVIOUS
<1>1. Init /\ seen = Contract!Scheduled
  BY DEF ObservedInit
<1>2. LoopInv /\ WakeInv
  BY <1>1, InitLoop, InitWake DEF LoopInv
<1>3. Handed
  BY <1>1 DEF Init, Handed
<1>4. Pending = <<>>
  <2>1. /\ Pending = Only(Line, Soon \ cancelled) /\ Line \in Seq(Soon \cup Watches)
        /\ ToSet(Line) = ToSet(batch) \cup ToSet(ready) \cup ToSet(xqueue)
    BY <1>2, SeenNow
  <2>2. ToSet(Line) = {}
    BY <1>1, <2>1, Nothing DEF Init
  <2>3. PICK l, K : l = Line /\ K = Soon \ cancelled
    OBVIOUS
  <2>4. Only(l, K) = <<>>
    BY <2>1, <2>2, <2>3, OnlyNone
  <2>5. QED
    BY <2>1, <2>3, <2>4
<1>5. Waiting = {}
  <2>1. Waiting = {e \in Entries : e.timer \notin cancelled}
    BY <1>2, SeenNow
  <2>2. Entries = {}
    BY <1>1, Nothing DEF Init, Entries
  <2>3. QED
    BY <2>1, <2>2
<1>6. EventsHeld = {}
  BY <1>1, Nothing DEF Init, EventsHeld
<1>7. now = 0 /\ (mode = "closed") = FALSE
  BY <1>1 DEF Init
<1>8. Contract!Init
  BY <1>1, <1>4, <1>5, <1>6, <1>7 DEF Contract!Init, Pending, Waiting
<1>9. QED
  BY <1>2, <1>3, <1>8 DEF RefInv

\* Every step of the loop is a step of the contract or none.
LEMMA StepMaps ==
  ASSUME ~PollMayFail, RefInv, RefInv', [Observed \/ Unobserved]_<<vars, seen>>
  PROVE  [Contract!Next]_(Contract!vars)
<1>0. LoopInv'
  BY DEF RefInv
<1>1. CASE RunHandle /\ SeenRun(Head(batch))
  BY <1>0, <1>1, RunHandleMaps
<1>2. CASE RunTimer /\ SeenRun(Head(dueTimers).timer)
  BY <1>0, <1>2, RunTimerMaps
<1>3. CASE DispatchEvent /\ seen' = Contract!Ran(Head(tickEvents))
  BY <1>0, <1>3, DispatchEventMaps
<1>4. ASSUME NEW h \in Handles, Cancel(h), seen' = IF h \in Watches THEN seen ELSE Contract!Cancelled(h)
      PROVE  [Contract!Next]_(Contract!vars)
  BY <1>0, <1>4, CancelMaps
<1>5. ASSUME NEW h \in Soon, CallSoon(h), seen' = Contract!Scheduled PROVE [Contract!Next]_(Contract!vars)
  BY <1>0, <1>5, CallSoonMaps
<1>6. ASSUME NEW t \in Timers, NEW d \in 0..MaxTime, CallAt(t, d), seen' = Contract!Scheduled
      PROVE  [Contract!Next]_(Contract!vars)
  BY <1>0, <1>6, CallAtMaps
<1>7. ASSUME NEW c \in Conns, TransportEvent(c) \/ OperationCompletes(c), seen' = Contract!Scheduled
      PROVE  [Contract!Next]_(Contract!vars)
  BY <1>0, <1>7, EventArrivesMaps
<1>8. CASE Unobserved
  BY <1>0, <1>8, UnobservedMaps
<1>9. CASE UNCHANGED <<vars, seen>>
  <2>1. UNCHANGED <<batch, ready, xqueue, dueTimers, expired, heap, xtimers, netEvents, tickEvents,
                    kernelDone, reapedOps, cancelled, now, mode, seen>>
    BY <1>9 DEF vars, queues, xthread, tickVars, kernel, reaped, clock
  <2>2. UNCHANGED Contract!vars
    BY <2>1 DEF Contract!vars, Live, LiveEntries, EventsHeld
  <2>3. QED
    BY <2>2
<1>10. QED
  BY <1>1, <1>2, <1>3, <1>4, <1>5, <1>6, <1>7, <1>8, <1>9 DEF Observed

\* As long as the backend's poll does not fail, whatever threads call into a
\* running, parked, interrupted or unwinding loop sees asyncio's promises kept
\* (enqueue_soon, schedule_timer, tick, hand_back): callbacks in call order,
\* no timer early, nothing lost and nothing run twice.
THEOREM LoopKeepsContract ==
  ASSUME ~PollMayFail
  PROVE  ObservedSpec => KeepsContract
<1>1. ObservedInit => RefInv /\ Contract!Init
  BY InitMaps
<1>2. RefInv /\ [Observed \/ Unobserved]_<<vars, seen>> => RefInv'
  BY StepRef
<1>3. RefInv /\ RefInv' /\ [Observed \/ Unobserved]_<<vars, seen>> => [Contract!Next]_(Contract!vars)
  BY StepMaps
<1>4. QED
  BY <1>1, <1>2, <1>3, PTL DEF ObservedSpec, KeepsContract, Contract!Spec

=============================================================================
