-------------------------- MODULE EventLoop_proofs --------------------------
(***************************************************************************)
(* For any number of handles, descriptors and transports: a parked loop    *)
(* never sleeps over a stop or over handed-over work (WakeInv), and its    *)
(* timers, events and handles are each held once, on time and cancelled    *)
(* when they must not run any more (LoopInv).                              *)
(***************************************************************************)
EXTENDS EventLoop, Filtering_proofs, FiniteSetTheorems, TLAPS

\* The inductive invariant behind ParkedIsWoken: the flag stands for the
\* items in flight, and the wakeup for the flag and for stop().
WakeInv ==
  /\ wake \in BOOLEAN /\ wakePending \in BOOLEAN
  /\ xqueue # <<>> \/ xtimers # <<>> => wakePending
  /\ mode = "parked" /\ (stopping \/ wakePending) => wake

\* A new loop has nothing in flight.
LEMMA InitWake == Init => WakeInv
BY DEF Init, WakeInv

\* Steps that leave the flags alone and do not park the loop.
LEMMA QuietStep ==
  ASSUME WakeInv, UNCHANGED <<xqueue, xtimers, wakePending, wake>>,
         mode' = "parked" => mode = "parked" /\ stopping' = stopping
  PROVE  WakeInv'
BY DEF WakeInv

\* Every call into the loop keeps the invariant.
LEMMA CallsKeepWake == WakeInv /\ Calls => WakeInv'
<1> SUFFICES ASSUME WakeInv, Calls PROVE WakeInv'
  OBVIOUS
<1>1. ASSUME NEW h \in Soon, CallSoon(h) PROVE WakeInv'
  <2>1. CASE Reachable /\ ready' = Append(ready, h) /\ UNCHANGED xthread
    BY <1>1, <2>1, QuietStep DEF CallSoon, xthread
  <2>2. CASE Borrowed /\ PushWakes
    BY <1>1, <2>2 DEF CallSoon, PushWakes, WakeInv
  <2>3. QED
    BY <1>1, <2>1, <2>2 DEF CallSoon
<1>2. ASSUME NEW t \in Timers, NEW d \in 0..MaxTime, CallAt(t, d) PROVE WakeInv'
  <2>1. CASE UNCHANGED xthread
    BY <1>2, <2>1, QuietStep DEF CallAt, xthread
  <2>2. CASE Borrowed /\ PushWakes
    BY <1>2, <2>2 DEF CallAt, PushWakes, WakeInv
  <2>3. QED
    BY <1>2, <2>1, <2>2 DEF CallAt
<1>3. ASSUME NEW h \in Handles, Cancel(h) PROVE WakeInv'
  BY <1>3, QuietStep DEF Cancel, xthread
<1>4. CASE Stop
  BY <1>4 DEF Stop, WakeInv
<1>5. ASSUME NEW fd \in Fds, NEW w \in Watches, NEW refused \in BOOLEAN,
             AddReader(fd, w, refused)
      PROVE WakeInv'
  BY <1>5, QuietStep DEF AddReader, xthread
<1>6. ASSUME NEW fd \in Fds, NEW refused \in BOOLEAN, RemoveReader(fd, refused) PROVE WakeInv'
  BY <1>6, QuietStep DEF RemoveReader, xthread
<1>7. ASSUME NEW c \in Conns, TransportEvent(c) PROVE WakeInv'
  BY <1>7, QuietStep DEF TransportEvent, xthread
<1>8. QED
  BY <1>1, <1>2, <1>3, <1>4, <1>5, <1>6, <1>7 DEF Calls

\* The tick parks only once it drained the queue and saw no stop.
LEMMA TickKeepsWake == WakeInv /\ (TickImmediate \/ TickParks) => WakeInv'
<1> SUFFICES ASSUME WakeInv, TickImmediate \/ TickParks PROVE WakeInv'
  OBVIOUS
<1>1. CASE TickImmediate
  <2>1. mode' # "parked"
    BY <1>1 DEF TickImmediate, TakeBatch, TakeAndHandBack, Unwind
  <2>2. wake' \in BOOLEAN
    BY <1>1 DEF TickImmediate, WakeInv
  <2>3. XThreadDrained
    BY <1>1 DEF TickImmediate
  <2>4. QED
    BY <2>1, <2>2, <2>3 DEF XThreadDrained, WakeInv
<1>2. CASE TickParks
  BY <1>2 DEF TickParks, Immediate, XThreadDrained, WakeInv
<1>3. QED
  BY <1>1, <1>2

\* The rest of the loop thread's steps.
LEMMA LoopKeepsWake == WakeInv /\ LoopThread => WakeInv'
<1> SUFFICES ASSUME WakeInv, LoopThread PROVE WakeInv'
  OBVIOUS
<1>1. CASE TickImmediate \/ TickParks
  BY <1>1, TickKeepsWake
<1>2. CASE ParkEnds
  BY <1>2 DEF ParkEnds, PollReturns, WakeInv
<1>3. CASE Resume
  <2>1. mode' # "parked"
    BY <1>3 DEF Resume, TakeBatch, TakeAndHandBack, Unwind
  <2>2. XThreadDrained /\ wake' = wake
    BY <1>3 DEF Resume
  <2>3. QED
    BY <2>1, <2>2 DEF XThreadDrained, WakeInv
<1>4. CASE RunHandle
  BY <1>4, QuietStep DEF RunHandle, Unwind, xthread
<1>5. CASE DispatchEvent
  BY <1>5, QuietStep DEF DispatchEvent, Unwind, xthread
<1>6. CASE RunTimer
  BY <1>6, QuietStep DEF RunTimer, Unwind, xthread
<1>7. CASE FlushCorked
  BY <1>7, QuietStep DEF FlushCorked, xthread
<1>8. CASE TickEnds
  BY <1>8, QuietStep DEF TickEnds, xthread
<1>9. QED
  BY <1>1, <1>2, <1>3, <1>4, <1>5, <1>6, <1>7, <1>8 DEF LoopThread

\* The kernel, the clock and the ends of a park.
LEMMA EnvironmentKeepsWake == WakeInv /\ Environment => WakeInv'
<1> SUFFICES ASSUME WakeInv, Environment PROVE WakeInv'
  OBVIOUS
<1>1. ASSUME NEW fd \in Fds, BecomesReadable(fd) PROVE WakeInv'
  BY <1>1, QuietStep DEF BecomesReadable, xthread
<1>2. ASSUME NEW c \in Conns, OperationCompletes(c) PROVE WakeInv'
  BY <1>2, QuietStep DEF OperationCompletes, xthread
<1>3. CASE TimePasses
  BY <1>3, QuietStep DEF TimePasses, xthread
<1>4. CASE ParkTimesOut
  BY <1>4 DEF ParkTimesOut, PollReturns, WakeInv
<1>5. CASE PollFailed
  <2>1. mode' # "parked" /\ wake' = wake
    BY <1>5 DEF PollFailed, Unwind
  <2>2. CASE UNCHANGED <<xqueue, xtimers, wakePending>>
    BY <2>1, <2>2, QuietStep
  <2>3. CASE XThreadDrained
    BY <2>1, <2>3 DEF XThreadDrained, WakeInv
  <2>4. QED
    BY <1>5, <2>2, <2>3 DEF PollFailed
<1>6. CASE SpinEnds
  BY <1>6, QuietStep DEF SpinEnds, xthread
<1>7. QED
  BY <1>1, <1>2, <1>3, <1>4, <1>5, <1>6 DEF Environment

\* The invariant is inductive.
LEMMA StepWake == WakeInv /\ [Next]_vars => WakeInv'
<1> SUFFICES ASSUME WakeInv, [Next]_vars PROVE WakeInv'
  OBVIOUS
<1>1. CASE UNCHANGED vars
  BY <1>1, QuietStep DEF vars, xthread
<1>2. CASE LoopThread \/ Calls \/ Environment
  BY <1>2, LoopKeepsWake, CallsKeepWake, EnvironmentKeepsWake
<1>3. CASE RunForever
  BY <1>3, QuietStep DEF RunForever, xthread
<1>4. CASE Close
  BY <1>4 DEF Close, WakeInv
<1>5. QED
  BY <1>1, <1>2, <1>3, <1>4 DEF Next

\* coreloop.rs, enqueue_soon, schedule_timer and stop: whoever hands work to
\* a parked loop, or stops it, leaves a wakeup that ends the park.
THEOREM NeverSleepsOverWork == Spec => []ParkedIsWoken
<1>1. WakeInv => ParkedIsWoken
  BY DEF WakeInv, ParkedIsWoken
<1>2. QED
  BY <1>1, InitWake, StepWake, PTL DEF Spec

-----------------------------------------------------------------------------
(* The timer queue: Schedule keeps it sorted, so that the due entries are a *)
(* prefix of it.                                                            *)

Before == {p \in TimerEntry \X TimerEntry : p[1].when <= p[2].when}
Sorted(hp) == Ordered(hp, Before)

\* How many of the entries are due at w.
Due(hp, w) == Cardinality({k \in 1..Len(hp) : hp[k].when <= w})

\* Indices of a sequence are counted.
LEMMA CountIndices ==
  ASSUME NEW n \in Nat, NEW D \in SUBSET (1..n)
  PROVE  /\ Cardinality(D) \in 0..n
         /\ \A m \in 0..n : D = 1..m => Cardinality(D) = m
<1>1. \A m \in 0..n : IsFiniteSet(1..m) /\ Cardinality(1..m) = m
  <2> TAKE m \in 0..n
  <2>1. 1 \in Int /\ m \in Int /\ m >= 0
    OBVIOUS
  <2>2. IsFiniteSet(1..m) /\ Cardinality(1..m) = IF 1 > m THEN 0 ELSE m - 1 + 1
    BY <2>1, FS_Interval, Zenon
  <2>3. QED
    BY <2>1, <2>2
<1>2. n \in 0..n
  OBVIOUS
<1>3. IsFiniteSet(1..n) /\ Cardinality(1..n) = n
  BY <1>1, <1>2
<1>4. IsFiniteSet(D) /\ Cardinality(D) <= n
  BY <1>3, FS_Subset
<1>5. Cardinality(D) \in Nat
  BY <1>4, FS_CardinalityType
<1>6. QED
  BY <1>1, <1>4, <1>5

\* The due entries of a sorted sequence are its first ones.
LEMMA DuePrefix ==
  ASSUME NEW hp \in Seq(TimerEntry), Sorted(hp), NEW w \in Nat
  PROVE  /\ Due(hp, w) \in 0..Len(hp)
         /\ \A k \in 1..Len(hp) : hp[k].when <= w <=> k <= Due(hp, w)
<1> DEFINE n == Len(hp)
           D == {k \in 1..n : hp[k].when <= w}
           T == {k \in 1..(n + 1) : k = n + 1 \/ ~(hp[k].when <= w)}
<1>1. n \in Nat /\ D \in SUBSET (1..n)
  OBVIOUS
<1>2. n + 1 \in T /\ T \subseteq Nat
  BY <1>1
<1>3. PICK m \in T : \A k \in T : m <= k
  BY <1>2, LeastNumber
<1>4. m \in 1..(n + 1) /\ m - 1 \in 0..n
  BY <1>1
<1>5. ASSUME NEW k \in 1..n PROVE hp[k].when <= w <=> k < m
  <2>1. CASE k < m
    <3>1. k \notin T
      BY <1>1, <1>3, <1>4, <2>1
    <3>2. QED
      BY <2>1, <3>1, <1>1
  <2>2. CASE k = m
    BY <1>1, <1>3, <2>2
  <2>3. CASE k > m
    <3>1. m \in 1..n /\ m # n + 1
      BY <1>1, <1>4, <2>3
    <3>2. ~(hp[m].when <= w)
      BY <1>3, <3>1
    <3>3. <<hp[m], hp[k]>> \in Before
      BY <2>3, <3>1 DEF Sorted, Ordered
    <3>4. hp[m] \in TimerEntry /\ hp[k] \in TimerEntry
      BY <3>1
    <3>5. hp[m].when <= hp[k].when /\ hp[m].when \in Nat /\ hp[k].when \in Nat
      BY <3>3, <3>4, LoopAssumption DEF Before, TimerEntry
    <3>6. QED
      BY <2>3, <3>2, <3>5, <1>4
  <2>4. QED
    BY <1>4, <2>1, <2>2, <2>3
<1> HIDE DEF T
<1>6. D = 1..(m - 1)
  BY <1>1, <1>4, <1>5
<1>7. Cardinality(D) = m - 1
  BY <1>1, <1>4, <1>6, CountIndices
<1>8. Due(hp, w) = m - 1
  BY <1>7 DEF Due
<1>9. QED
  BY <1>4, <1>5, <1>8

\* Schedule as an insertion: how long the result is and what it holds where.
LEMMA Inserted ==
  ASSUME NEW hp \in Seq(TimerEntry), NEW entry \in TimerEntry
  PROVE  LET i == Due(hp, entry.when)  q == Schedule(hp, entry) IN
         /\ i \in 0..Len(hp)
         /\ q \in Seq(TimerEntry) /\ Len(q) = Len(hp) + 1
         /\ \A k \in 1..i : q[k] = hp[k]
         /\ q[i + 1] = entry
         /\ \A k \in (i + 2)..(Len(hp) + 1) : q[k] = hp[k - 1]
<1> DEFINE i == Due(hp, entry.when)
           a == SubSeq(hp, 1, i)
           b == SubSeq(hp, i + 1, Len(hp))
           q == Schedule(hp, entry)
<1>1. i \in 0..Len(hp)
  <2>1. Len(hp) \in Nat /\ {k \in 1..Len(hp) : hp[k].when <= entry.when} \in SUBSET (1..Len(hp))
    OBVIOUS
  <2>2. QED
    BY <2>1, CountIndices DEF Due
<1>2. q = a \o <<entry>> \o b
  BY DEF Schedule, Due
<1> HIDE DEF i, q
<1>3. /\ a \in Seq(TimerEntry) /\ Len(a) = i /\ \A k \in 1..i : a[k] = hp[k]
  BY <1>1, SubSeqProperties
<1>4. /\ b \in Seq(TimerEntry) /\ Len(b) = Len(hp) - i
      /\ \A k \in 1..(Len(hp) - i) : b[k] = hp[k + i]
  <2>1. \A k \in (i + 1)..Len(hp) : hp[k] \in TimerEntry
    BY <1>1
  <2>2. /\ b \in Seq(TimerEntry) /\ Len(b) = IF i + 1 <= Len(hp) THEN Len(hp) - (i + 1) + 1 ELSE 0
        /\ \A k \in 1..(Len(hp) - (i + 1) + 1) : b[k] = hp[(i + 1) + k - 1]
    BY <1>1, <2>1, SubSeqProperties
  <2>3. QED
    BY <1>1, <2>2
<1> HIDE DEF a, b
<1>5. /\ <<entry>> \in Seq(TimerEntry) /\ Len(<<entry>>) = 1 /\ <<entry>>[1] = entry
  OBVIOUS
<1>6. PICK c : c = a \o <<entry>>
  OBVIOUS
<1>7. /\ c \in Seq(TimerEntry) /\ Len(c) = i + 1
      /\ \A k \in 1..i : c[k] = hp[k]
      /\ c[i + 1] = entry
  BY <1>1, <1>3, <1>5, <1>6
<1>8. /\ c \o b \in Seq(TimerEntry) /\ Len(c \o b) = Len(hp) + 1
      /\ \A k \in 1..(Len(hp) + 1) : (c \o b)[k] = IF k <= i + 1 THEN c[k] ELSE b[k - (i + 1)]
  BY <1>1, <1>4, <1>7, ConcatProperties
<1>9. q = c \o b
  BY <1>2, <1>6
<1>10. \A k \in (i + 2)..(Len(hp) + 1) : q[k] = hp[k - 1]
  <2> TAKE k \in (i + 2)..(Len(hp) + 1)
  <2>1. k - (i + 1) \in 1..(Len(hp) - i) /\ k - (i + 1) + i = k - 1 /\ ~(k <= i + 1) /\ k \in 1..(Len(hp) + 1)
    BY <1>1
  <2>2. q[k] = b[k - (i + 1)]
    BY <1>8, <1>9, <2>1
  <2>3. QED
    BY <1>4, <2>1, <2>2
<1>11. /\ \A k \in 1..i : q[k] = hp[k]
       /\ q[i + 1] = entry
  BY <1>1, <1>7, <1>8, <1>9
<1>12. QED
  BY <1>1, <1>8, <1>9, <1>10, <1>11 DEF i, q

\* A sorted queue without duplicates, given one entry more.
LEMMA ScheduleKeeps ==
  ASSUME NEW hp \in Seq(TimerEntry), NEW entry \in TimerEntry
  PROVE  /\ Schedule(hp, entry) \in Seq(TimerEntry)
         /\ ToSet(Schedule(hp, entry)) = ToSet(hp) \cup {entry}
         /\ IsInjective(hp) /\ entry \notin ToSet(hp) => IsInjective(Schedule(hp, entry))
         /\ Sorted(hp) => Sorted(Schedule(hp, entry))
<1>1. PICK i, q : i = Due(hp, entry.when) /\ q = Schedule(hp, entry)
  OBVIOUS
<1>2. /\ i \in 0..Len(hp)
      /\ q \in Seq(TimerEntry) /\ Len(q) = Len(hp) + 1
      /\ \A k \in 1..i : q[k] = hp[k]
      /\ q[i + 1] = entry
      /\ \A k \in (i + 2)..(Len(hp) + 1) : q[k] = hp[k - 1]
  BY <1>1, Inserted
<1> DEFINE old(k) == IF k <= i THEN k ELSE k - 1
<1>3. \A k \in 1..Len(q) : k = i + 1 \/ (k # i + 1 /\ old(k) \in 1..Len(hp) /\ q[k] = hp[old(k)])
  BY <1>2
<1>4. ASSUME NEW e PROVE e \in ToSet(q) <=> e \in ToSet(hp) \cup {entry}
  <2>1. ASSUME e \in ToSet(q) PROVE e \in ToSet(hp) \cup {entry}
    <3>1. PICK k \in 1..Len(q) : q[k] = e
      BY <1>2, <2>1, Elements
    <3>2. CASE k = i + 1
      BY <1>2, <3>1, <3>2
    <3>3. CASE k # i + 1
      BY <1>3, <3>1, <3>3, Elements
    <3>4. QED
      BY <3>2, <3>3
  <2>2. ASSUME e \in ToSet(hp) PROVE e \in ToSet(q)
    <3>1. PICK k \in 1..Len(hp) : hp[k] = e
      BY <2>2, Elements
    <3>2. CASE k <= i
      <4>1. k \in 1..Len(q) /\ q[k] = e
        BY <1>2, <3>1, <3>2
      <4>2. QED
        BY <1>2, <4>1, Elements
    <3>3. CASE k > i
      <4>1. k + 1 \in 1..Len(q) /\ k + 1 \in (i + 2)..(Len(hp) + 1) /\ (k + 1) - 1 = k
        BY <1>2, <3>1, <3>3
      <4>2. q[k + 1] = e
        BY <1>2, <3>1, <4>1
      <4>3. QED
        BY <1>2, <4>1, <4>2, Elements
    <3>4. QED
      BY <1>2, <3>1, <3>2, <3>3
  <2>3. entry \in ToSet(q)
    <3>1. i + 1 \in 1..Len(q)
      BY <1>2
    <3>2. QED
      BY <1>2, <3>1, Elements
  <2>4. QED
    BY <2>1, <2>2, <2>3
<1>5. ASSUME IsInjective(hp), entry \notin ToSet(hp) PROVE IsInjective(q)
  <2>1. \A k \in 1..Len(hp) : hp[k] # entry
    BY <1>5, Elements
  <2>2. ASSUME NEW j \in 1..Len(q), NEW k \in 1..Len(q), q[j] = q[k] PROVE j = k
    <3>1. CASE j = i + 1 /\ k = i + 1
      BY <3>1
    <3>2. CASE j = i + 1 /\ k # i + 1
      BY <1>2, <1>3, <2>1, <2>2, <3>2
    <3>3. CASE j # i + 1 /\ k = i + 1
      BY <1>2, <1>3, <2>1, <2>2, <3>3
    <3>4. CASE j # i + 1 /\ k # i + 1
      <4>1. old(j) \in 1..Len(hp) /\ old(k) \in 1..Len(hp) /\ hp[old(j)] = hp[old(k)]
        BY <1>3, <2>2, <3>4
      <4>2. old(j) = old(k)
        <5> HIDE DEF old
        <5>1. QED
          BY <1>5, <4>1 DEF IsInjective
      <4>3. QED
        BY <1>2, <3>4, <4>2
    <3>5. QED
      BY <3>1, <3>2, <3>3, <3>4
  <2>3. QED
    BY <1>2, <2>2 DEF IsInjective
<1>6. ASSUME Sorted(hp) PROVE Sorted(q)
  <2>0. entry.when \in Nat /\ \A k \in 1..Len(hp) : hp[k] \in TimerEntry /\ hp[k].when \in Nat
    <3>1. \A e \in TimerEntry : e.when \in Nat
      BY LoopAssumption DEF TimerEntry
    <3>2. \A k \in 1..Len(hp) : hp[k] \in TimerEntry
      OBVIOUS
    <3>3. QED
      BY <3>1, <3>2
  <2>1. \A k \in 1..Len(hp) : hp[k].when <= entry.when <=> k <= i
    BY <1>1, <1>6, <2>0, DuePrefix
  <2>2. ASSUME NEW j \in 1..Len(q), NEW k \in 1..Len(q), j < k PROVE <<q[j], q[k]>> \in Before
    <3>0. q[j] \in TimerEntry /\ q[k] \in TimerEntry
      BY <1>2
    <3>1. CASE j = i + 1
      <4>1. k # i + 1 /\ old(k) \in 1..Len(hp) /\ q[k] = hp[old(k)] /\ old(k) > i
        BY <1>2, <1>3, <2>2, <3>1
      <4>2. ~(hp[old(k)].when <= entry.when)
        BY <1>2, <2>1, <4>1
      <4>3. q[j].when <= q[k].when
        BY <1>2, <2>0, <3>1, <4>1, <4>2
      <4>4. QED
        BY <3>0, <4>3 DEF Before
    <3>2. CASE k = i + 1
      <4>1. j # i + 1 /\ old(j) \in 1..Len(hp) /\ q[j] = hp[old(j)] /\ old(j) <= i
        BY <1>2, <1>3, <2>2, <3>2
      <4>2. hp[old(j)].when <= entry.when
        BY <1>2, <2>1, <4>1
      <4>3. q[j].when <= q[k].when
        BY <1>2, <2>0, <3>2, <4>1, <4>2
      <4>4. QED
        BY <3>0, <4>3 DEF Before
    <3>3. CASE j # i + 1 /\ k # i + 1
      <4>1. /\ old(j) \in 1..Len(hp) /\ q[j] = hp[old(j)]
            /\ old(k) \in 1..Len(hp) /\ q[k] = hp[old(k)]
        BY <1>3, <3>3
      <4>2. old(j) < old(k)
        BY <1>2, <2>2, <3>3
      <4>3. <<hp[old(j)], hp[old(k)]>> \in Before
        <5> HIDE DEF old
        <5>1. QED
          BY <1>6, <4>1, <4>2 DEF Sorted, Ordered
      <4>4. QED
        BY <4>1, <4>3
    <3>4. QED
      BY <3>1, <3>2, <3>3
  <2>3. QED
    BY <2>2 DEF Sorted, Ordered
<1>7. QED
  BY <1>1, <1>2, <1>4, <1>5, <1>6

\* f fills hp with the entries as ScheduleAll does.
Fills(f, hp, entries) ==
  /\ f \in [0..Len(entries) -> Seq(TimerEntry)]
  /\ ScheduleAll(hp, entries) = f[Len(entries)] /\ f[0] = hp
  /\ \A i \in 1..Len(entries) : f[i] = Schedule(f[i - 1], entries[i])

\* How ScheduleAll goes through the entries.
LEMMA Filled ==
  ASSUME NEW hp \in Seq(TimerEntry), NEW entries \in Seq(TimerEntry)
  PROVE  \E f : Fills(f, hp, entries)
<1> DEFINE n == Len(entries)
           step == [p \in (1..n) \X Seq(TimerEntry) |-> Schedule(p[2], entries[p[1]])]
           Solves(f) == f = [i \in 0..n |-> IF i = 0 THEN hp ELSE Schedule(f[i - 1], entries[i])]
<1>1. n \in Nat
  OBVIOUS
<1>2. step \in [(1..n) \X Seq(TimerEntry) -> Seq(TimerEntry)]
  <2>1. ASSUME NEW p \in (1..n) \X Seq(TimerEntry) PROVE Schedule(p[2], entries[p[1]]) \in Seq(TimerEntry)
    <3>1. p[2] \in Seq(TimerEntry) /\ entries[p[1]] \in TimerEntry
      OBVIOUS
    <3>2. QED
      BY <3>1, ScheduleKeeps
  <2>2. QED
    BY <2>1
<1>3. PICK f \in [0..n -> Seq(TimerEntry)] :
        f[0] = hp /\ \A i \in 1..n : f[i] = step[<<i, f[i - 1]>>]
  <2> HIDE DEF step, n
  <2>1. \E f : Iterates(f, Seq(TimerEntry), n, hp, step)
    BY <1>1, <1>2, Recursion, Zenon
  <2>2. QED
    BY <2>1 DEF Iterates
<1> HIDE DEF n
<1>4. ASSUME NEW i \in 1..n PROVE f[i] = Schedule(f[i - 1], entries[i])
  <2>1. i - 1 \in 0..n
    BY <1>1
  <2>2. <<i, f[i - 1]>> \in (1..n) \X Seq(TimerEntry)
    BY <2>1
  <2>3. QED
    BY <1>3, <2>2
<1>5. Solves(f)
  <2>1. \A i \in 0..n : i = 0 \/ i \in 1..n
    BY <1>1
  <2>2. QED
    BY <1>3, <1>4, <2>1
<1> DEFINE h == CHOOSE x : Solves(x)
<1>6. Solves(h)
  <2> HIDE DEF Solves
  <2>1. QED
    BY <1>5
<1>7. ScheduleAll(hp, entries) = h[n]
  BY DEF ScheduleAll, n
<1> HIDE DEF h
<1>8. h[0] = hp
  <2>1. 0 \in 0..n
    BY <1>1
  <2>2. QED
    BY <1>6, <2>1
<1>9. \A i \in 1..n : h[i] = Schedule(h[i - 1], entries[i])
  <2> SUFFICES ASSUME NEW i \in 1..n PROVE h[i] = Schedule(h[i - 1], entries[i])
    OBVIOUS
  <2>1. i \in 0..n /\ i # 0
    BY <1>1
  <2>2. QED
    BY <1>6, <2>1
<1>10. h \in [0..n -> Seq(TimerEntry)]
  <2> DEFINE A == {i \in 0..n : h[i] \in Seq(TimerEntry)}
  <2>1. 0 \in A
    BY <1>1, <1>8
  <2>2. ASSUME NEW i \in 0..n, i \in A, i < n PROVE i + 1 \in A
    <3>1. i + 1 \in 1..n /\ i + 1 \in 0..n /\ (i + 1) - 1 = i
      BY <1>1, <2>2
    <3>2. entries[i + 1] \in TimerEntry /\ h[i] \in Seq(TimerEntry)
      BY <2>2, <3>1 DEF n
    <3>3. h[i + 1] = Schedule(h[i], entries[i + 1])
      BY <1>9, <3>1
    <3>4. h[i + 1] \in Seq(TimerEntry)
      <4>1. \A a \in Seq(TimerEntry), e \in TimerEntry : Schedule(a, e) \in Seq(TimerEntry)
        BY ScheduleKeeps
      <4>2. QED
        BY <3>2, <3>3, <4>1
    <3>5. QED
      BY <3>1, <3>4
  <2>3. \A i \in 0..n : i \in A
    <3> HIDE DEF A
    <3>1. QED
      BY <1>1, <2>1, <2>2, UpTo
  <2>4. h = [i \in 0..n |-> h[i]]
    BY <1>6 DEF Solves
  <2>5. QED
    BY <2>3, <2>4
<1>11. Fills(h, hp, entries)
  BY <1>7, <1>8, <1>9, <1>10 DEF n, Fills
<1>12. QED
  BY <1>11

\* A sorted queue without duplicates, given several entries more.
LEMMA ScheduleAllKeeps ==
  ASSUME NEW hp \in Seq(TimerEntry), NEW entries \in Seq(TimerEntry),
         Sorted(hp), IsInjective(hp), IsInjective(entries), ToSet(hp) \cap ToSet(entries) = {}
  PROVE  /\ ScheduleAll(hp, entries) \in Seq(TimerEntry)
         /\ ToSet(ScheduleAll(hp, entries)) = ToSet(hp) \cup ToSet(entries)
         /\ IsInjective(ScheduleAll(hp, entries))
         /\ Sorted(ScheduleAll(hp, entries))
<1> DEFINE n == Len(entries)
           first(i) == {entries[j] : j \in 1..i}
<1>1. n \in Nat
  OBVIOUS
<1>2. PICK f : Fills(f, hp, entries)
  BY Filled
<1> DEFINE A == {i \in 0..n : /\ ToSet(f[i]) = ToSet(hp) \cup first(i)
                              /\ IsInjective(f[i]) /\ Sorted(f[i])}
<1>3. 0 \in A
  BY <1>1, <1>2 DEF Fills
<1>4. ASSUME NEW i \in 0..n, i \in A, i < n PROVE i + 1 \in A
  <2>1. i + 1 \in 1..n /\ i + 1 \in 0..n /\ (i + 1) - 1 = i
    BY <1>1, <1>4
  <2>2. PICK e : e = entries[i + 1]
    OBVIOUS
  <2>3. e \in TimerEntry /\ e \in ToSet(entries)
    BY <2>1, <2>2, Elements
  <2>4. f[i + 1] = Schedule(f[i], e) /\ f[i] \in Seq(TimerEntry)
    BY <1>2, <2>1, <2>2 DEF Fills
  <2>5. ToSet(f[i]) = ToSet(hp) \cup first(i) /\ IsInjective(f[i]) /\ Sorted(f[i])
    BY <1>4
  <2>6. e \notin first(i)
    <3> SUFFICES ASSUME NEW j \in 1..i, entries[j] = e PROVE FALSE
      OBVIOUS
    <3>1. j \in 1..n /\ j # i + 1
      BY <1>1
    <3>2. QED
      BY <2>1, <2>2, <3>1 DEF IsInjective
  <2>7. e \notin ToSet(f[i])
    BY <2>3, <2>5, <2>6
  <2>8. /\ ToSet(f[i + 1]) = ToSet(f[i]) \cup {e} /\ IsInjective(f[i + 1]) /\ Sorted(f[i + 1])
    BY <2>3, <2>4, <2>5, <2>7, ScheduleKeeps
  <2>9. first(i + 1) = first(i) \cup {e}
    BY <1>1, <2>2
  <2>10. QED
    BY <2>1, <2>5, <2>8, <2>9
<1>5. \A i \in 0..n : i \in A
  <2> HIDE DEF A, n
  <2>1. QED
    BY <1>1, <1>3, <1>4, UpTo
<1>6. n \in A /\ ScheduleAll(hp, entries) = f[n] /\ f[n] \in Seq(TimerEntry)
  BY <1>1, <1>2, <1>5 DEF Fills
<1>7. first(n) = ToSet(entries)
  BY DEF ToSet
<1>8. QED
  BY <1>6, <1>7

-----------------------------------------------------------------------------
(* The inductive invariant is LoopInv below: the parts each step keeps.    *)

\* The tick's own queues are empty between ticks, the poll's result once it
\* was translated.
Rested ==
  /\ mode \notin {"dispatch", "teardown"} => batch = <<>> /\ dueTimers = <<>> /\ tickEvents = <<>>
  /\ mode # "woken" => reapedFds = {} /\ reapedOps = <<>>

Apart(A, B, C, D) == A \cap (B \cup C \cup D) = {} /\ B \cap (C \cup D) = {} /\ C \cap D = {}

\* A timer's entry is in one place.
TimersApart ==
  /\ IsInjective(dueTimers) /\ IsInjective(expired) /\ IsInjective(heap) /\ IsInjective(xtimers)
  /\ Apart(ToSet(dueTimers), ToSet(expired), ToSet(heap), ToSet(xtimers))

\* What has left the heap was due.
TimersOnTime ==
  /\ Sorted(heap)
  /\ \A e \in ToSet(dueTimers) \cup ToSet(expired) : e.when <= now

\* A transport's event is in one place.
EventsApart ==
  /\ IsInjective(netEvents) /\ IsInjective(tickEvents) /\ IsInjective(kernelDone) /\ IsInjective(reapedOps)
  /\ Apart(ToSet(netEvents), ToSet(tickEvents), ToSet(kernelDone), ToSet(reapedOps))

\* Only handles the loop holds are remembered as cancelled.
CancelledIsHeld == cancelled \subseteq Held

\* No element of W occurs twice in s.
Once(s, W) == \A i, j \in 1..Len(s) : s[i] \in W /\ s[i] = s[j] => i = j

\* Until something unwinds, watches are queued only by the tick that
\* dispatches them, each once.
WatchesApart ==
  unwinds = 0 =>
    ToSet(ready) \cap Watches = {} /\ Once(batch, Watches)

-----------------------------------------------------------------------------
(* Timers.                                                                 *)

TimersGood ==
  /\ dueTimers \in Seq(TimerEntry) /\ expired \in Seq(TimerEntry)
  /\ heap \in Seq(TimerEntry) /\ xtimers \in Seq(TimerEntry) /\ now \in 0..MaxTime
  /\ TimersApart /\ TimersOnTime

\* The heap with what was handed over, cut where the due entries end.
LEMMA DrainedHeap ==
  ASSUME TimersGood
  PROVE  /\ HeapDrained \in Seq(TimerEntry) /\ Sorted(HeapDrained) /\ IsInjective(HeapDrained)
         /\ ToSet(HeapDrained) = ToSet(heap) \cup
              (IF wakePending THEN {e \in ToSet(xtimers) : e.timer \notin cancelled} ELSE {})
         /\ DueCount \in 0..Len(HeapDrained)
         /\ \A k \in 1..Len(HeapDrained) : HeapDrained[k].when <= now <=> k <= DueCount
<1> DEFINE new == Only(xtimers, {e \in TimerEntry : e.timer \notin cancelled})
<1>1. /\ heap \in Seq(TimerEntry) /\ xtimers \in Seq(TimerEntry)
      /\ IsInjective(heap) /\ IsInjective(xtimers) /\ ToSet(heap) \cap ToSet(xtimers) = {}
      /\ Sorted(heap)
  BY DEF TimersGood, TimersApart, Apart, TimersOnTime
<1>2. new \in Seq(TimerEntry) /\ IsInjective(new)
  BY <1>1, OnlyType, OnlyInjective
<1>3. ToSet(new) = {e \in ToSet(xtimers) : e.timer \notin cancelled}
  <2>1. ToSet(xtimers) \in SUBSET TimerEntry
    BY <1>1, Elements
  <2>2. ToSet(new) = ToSet(xtimers) \cap {e \in TimerEntry : e.timer \notin cancelled}
    BY <1>1, OnlyElements
  <2>3. QED
    BY <2>1, <2>2
<1>4. HeapDrained = IF wakePending THEN ScheduleAll(heap, new) ELSE heap
  BY DEF HeapDrained
<1> HIDE DEF new
<1>5. /\ HeapDrained \in Seq(TimerEntry) /\ Sorted(HeapDrained) /\ IsInjective(HeapDrained)
      /\ ToSet(HeapDrained) = ToSet(heap) \cup
           (IF wakePending THEN {e \in ToSet(xtimers) : e.timer \notin cancelled} ELSE {})
  <2>1. CASE wakePending
    <3>1. ToSet(heap) \cap ToSet(new) = {}
      BY <1>1, <1>3
    <3>2. PICK all : all = ScheduleAll(heap, new)
      OBVIOUS
    <3>3. /\ all \in Seq(TimerEntry) /\ Sorted(all) /\ IsInjective(all)
          /\ ToSet(all) = ToSet(heap) \cup ToSet(new)
      BY <1>1, <1>2, <3>1, <3>2, ScheduleAllKeeps
    <3>4. QED
      BY <1>3, <1>4, <2>1, <3>2, <3>3
  <2>2. CASE ~wakePending
    BY <1>1, <1>4, <2>2
  <2>3. QED
    BY <2>1, <2>2
<1>6. DueCount = Due(HeapDrained, now)
  BY DEF DueCount, Due
<1>7. now \in Nat
  BY LoopAssumption DEF TimersGood
<1>8. PICK all : all = HeapDrained
  OBVIOUS
<1>9. /\ Due(all, now) \in 0..Len(all)
      /\ \A k \in 1..Len(all) : all[k].when <= now <=> k <= Due(all, now)
  BY <1>5, <1>7, <1>8, DuePrefix
<1>10. QED
  BY <1>5, <1>6, <1>8, <1>9

\* What fires and what stays: nothing is lost, doubled or early.
LEMMA FiredAndLeft ==
  ASSUME TimersGood
  PROVE  /\ Fired \in Seq(TimerEntry) /\ HeapLeft \in Seq(TimerEntry)
         /\ IsInjective(Fired) /\ IsInjective(HeapLeft) /\ Sorted(HeapLeft)
         /\ ToSet(Fired) \cap ToSet(HeapLeft) = {}
         /\ ToSet(Fired) \cup ToSet(HeapLeft) = ToSet(expired) \cup ToSet(HeapDrained)
         /\ \A e \in ToSet(Fired) : e.when <= now
         /\ ToSet(expired) \subseteq ToSet(Fired)
<1>1. PICK all, n : all = HeapDrained /\ n = DueCount
  OBVIOUS
<1>2. /\ all \in Seq(TimerEntry) /\ Sorted(all) /\ IsInjective(all)
      /\ ToSet(all) \subseteq ToSet(heap) \cup ToSet(xtimers)
      /\ n \in 0..Len(all)
      /\ \A k \in 1..Len(all) : all[k].when <= now <=> k <= n
  BY <1>1, DrainedHeap
<1>3. PICK a, b : a = SubSeq(all, 1, n) /\ b = SubSeq(all, n + 1, Len(all))
  OBVIOUS
<1>4. /\ a \in Seq(TimerEntry) /\ b \in Seq(TimerEntry) /\ IsInjective(a) /\ IsInjective(b)
      /\ Len(a) = n /\ Len(b) = Len(all) - n
      /\ \A k \in 1..n : a[k] = all[k]
      /\ \A k \in 1..Len(b) : b[k] = all[k + n]
      /\ ToSet(a) \cap ToSet(b) = {} /\ ToSet(a) \cup ToSet(b) = ToSet(all)
  BY <1>2, <1>3, CutElements
<1>5. Fired = expired \o a /\ HeapLeft = b
  BY <1>1, <1>3 DEF Fired, HeapLeft
<1>6. /\ expired \in Seq(TimerEntry) /\ IsInjective(expired)
      /\ ToSet(expired) \cap ToSet(all) = {} /\ \A e \in ToSet(expired) : e.when <= now
  BY <1>2 DEF TimersGood, TimersApart, Apart, TimersOnTime
<1>7. ToSet(expired) \cap ToSet(a) = {}
  BY <1>4, <1>6
<1>8. /\ expired \o a \in Seq(TimerEntry) /\ IsInjective(expired \o a)
      /\ ToSet(expired \o a) = ToSet(expired) \cup ToSet(a)
  BY <1>4, <1>6, <1>7, ConcatElements
<1>9. \A e \in ToSet(a) : e.when <= now
  <2> SUFFICES ASSUME NEW e \in ToSet(a) PROVE e.when <= now
    OBVIOUS
  <2>1. PICK k \in 1..n : a[k] = e
    BY <1>4, Elements
  <2>2. k \in 1..Len(all) /\ k <= n /\ all[k] = e
    BY <1>2, <1>4, <2>1
  <2>3. QED
    BY <1>2, <2>2
<1>10. Sorted(b)
  <2>1. ASSUME NEW i \in 1..Len(b), NEW j \in 1..Len(b), i < j PROVE <<b[i], b[j]>> \in Before
    <3>1. i + n \in 1..Len(all) /\ j + n \in 1..Len(all) /\ i + n < j + n
      BY <1>2, <1>4, <2>1
    <3>2. <<all[i + n], all[j + n]>> \in Before
      BY <1>2, <3>1 DEF Sorted, Ordered
    <3>3. QED
      BY <1>4, <3>2
  <2>2. QED
    BY <2>1 DEF Sorted, Ordered
<1>11. ToSet(expired \o a) \cap ToSet(b) = {}
  BY <1>4, <1>6, <1>8
<1>12. QED
  BY <1>1, <1>4, <1>5, <1>6, <1>8, <1>9, <1>10, <1>11

\* The drain of a tick.
LEMMA DrainTimers ==
  ASSUME TimersGood, XThreadDrained, heap' = HeapLeft, now' = now, dueTimers = <<>>,
         \/ dueTimers' = Fired /\ expired' = <<>>
         \/ dueTimers' = <<>> /\ expired' = Fired
  PROVE  TimersGood'
<1>0. <<>> \in Seq(TimerEntry) /\ ToSet(<<>>) = {} /\ IsInjective(<<>>)
  BY DEF ToSet, IsInjective
<1>1. PICK fired, left : fired = Fired /\ left = HeapLeft
  OBVIOUS
<1>2. /\ fired \in Seq(TimerEntry) /\ left \in Seq(TimerEntry)
      /\ IsInjective(fired) /\ IsInjective(left) /\ Sorted(left)
      /\ ToSet(fired) \cap ToSet(left) = {}
      /\ ToSet(fired) \cup ToSet(left) = ToSet(expired) \cup ToSet(HeapDrained)
      /\ \A e \in ToSet(fired) : e.when <= now
  BY <1>1, FiredAndLeft
<1>3. /\ xtimers' = (IF wakePending THEN <<>> ELSE xtimers)
      /\ xtimers \in Seq(TimerEntry) /\ IsInjective(xtimers) /\ now \in 0..MaxTime
      /\ ToSet(xtimers) \cap (ToSet(expired) \cup ToSet(heap)) = {}
  BY DEF XThreadDrained, TimersGood, TimersApart, Apart
<1>4. ~wakePending => ToSet(HeapDrained) = ToSet(heap)
  BY DrainedHeap
<1>5. /\ xtimers' \in Seq(TimerEntry) /\ IsInjective(xtimers')
      /\ ToSet(xtimers') \cap (ToSet(fired) \cup ToSet(left)) = {}
  BY <1>0, <1>2, <1>3, <1>4
<1>6. CASE dueTimers' = Fired /\ expired' = <<>>
  <2>1. TimersApart'
    BY <1>0, <1>1, <1>2, <1>5, <1>6 DEF TimersApart, Apart
  <2>2. TimersOnTime'
    BY <1>0, <1>1, <1>2, <1>6 DEF TimersOnTime
  <2>3. QED
    BY <1>0, <1>1, <1>2, <1>3, <1>5, <1>6, <2>1, <2>2 DEF TimersGood
<1>7. CASE dueTimers' = <<>> /\ expired' = Fired
  <2>1. TimersApart'
    BY <1>0, <1>1, <1>2, <1>5, <1>7 DEF TimersApart, Apart
  <2>2. TimersOnTime'
    BY <1>0, <1>1, <1>2, <1>7 DEF TimersOnTime
  <2>3. QED
    BY <1>0, <1>1, <1>2, <1>3, <1>5, <1>7, <2>1, <2>2 DEF TimersGood
<1>8. QED
  BY <1>6, <1>7

\* The empty queue.
LEMMA Nothing ==
  /\ \A S : <<>> \in Seq(S)
  /\ ToSet(<<>>) = {} /\ IsInjective(<<>>)
BY DEF ToSet, IsInjective

\* The timers of a queue are those of its entries.
LEMMA TimersIn ==
  ASSUME NEW s \in Seq(TimerEntry)
  PROVE  \A t : t \in TimersOf(s) <=> \E e \in ToSet(s) : e.timer = t
<1> SUFFICES ASSUME NEW t PROVE t \in TimersOf(s) <=> \E e \in ToSet(s) : e.timer = t
  OBVIOUS
<1>1. ASSUME t \in TimersOf(s) PROVE \E e \in ToSet(s) : e.timer = t
  <2>1. PICK i \in 1..Len(s) : s[i].timer = t
    BY <1>1 DEF TimersOf
  <2>2. s[i] \in ToSet(s)
    BY <2>1, Elements
  <2>3. QED
    BY <2>1, <2>2
<1>2. ASSUME NEW e \in ToSet(s), e.timer = t PROVE t \in TimersOf(s)
  <2>1. PICK i \in 1..Len(s) : s[i] = e
    BY <1>2, Elements
  <2>2. QED
    BY <1>2, <2>1 DEF TimersOf
<1>3. QED
  BY <1>1, <1>2

\* Steps that leave the timers where they are; the clock may go on.
LEMMA TimersQuiet ==
  ASSUME TimersGood, UNCHANGED <<dueTimers, expired, heap, xtimers>>,
         now' \in 0..MaxTime, now <= now'
  PROVE  TimersGood'
<1>1. ASSUME NEW e \in ToSet(dueTimers) \cup ToSet(expired) PROVE e.when <= now'
  <2>1. e \in TimerEntry /\ e.when <= now
    BY Elements DEF TimersGood, TimersOnTime
  <2>2. e.when \in Nat /\ now \in Nat /\ now' \in Nat
    BY <2>1, LoopAssumption DEF TimerEntry, TimersGood
  <2>3. QED
    BY <2>1, <2>2
<1>2. TimersOnTime'
  BY <1>1 DEF TimersGood, TimersOnTime
<1>3. QED
  BY <1>2 DEF TimersGood, TimersApart

\* What is left of the due timers d stays, or goes back to the front of the
\* expired ones.
LEMMA TimersHandedBack ==
  ASSUME TimersGood, UNCHANGED <<heap, xtimers, now>>,
         NEW d \in Seq(TimerEntry), IsInjective(d), ToSet(d) \subseteq ToSet(dueTimers),
         \/ dueTimers' = d /\ expired' = expired
         \/ dueTimers' = <<>> /\ expired' = d \o expired
  PROVE  TimersGood'
<1>1. /\ expired \in Seq(TimerEntry) /\ IsInjective(expired) /\ ToSet(d) \cap ToSet(expired) = {}
  BY DEF TimersGood, TimersApart, Apart
<1>2. PICK x : x = d \o expired
  OBVIOUS
<1>3. /\ x \in Seq(TimerEntry) /\ IsInjective(x) /\ ToSet(x) = ToSet(d) \cup ToSet(expired)
  BY <1>1, <1>2, ConcatElements
<1>4. CASE dueTimers' = d /\ expired' = expired
  <2>1. TimersApart'
    BY <1>4 DEF TimersGood, TimersApart, Apart
  <2>2. TimersOnTime'
    BY <1>4 DEF TimersGood, TimersOnTime
  <2>3. QED
    BY <1>4, <2>1, <2>2 DEF TimersGood
<1>5. CASE dueTimers' = <<>> /\ expired' = x
  <2>1. TimersApart'
    BY <1>3, <1>5, Nothing DEF TimersGood, TimersApart, Apart
  <2>2. TimersOnTime'
    BY <1>3, <1>5, Nothing DEF TimersGood, TimersOnTime
  <2>3. QED
    BY <1>3, <1>5, <2>1, <2>2, Nothing DEF TimersGood
<1>6. QED
  BY <1>2, <1>4, <1>5

\* schedule_timer
LEMMA CallAtKeepsTimers ==
  ASSUME TimersGood, NEW t \in Timers, NEW d \in 0..MaxTime, CallAt(t, d)
  PROVE  TimersGood'
<1>1. PICK entry : entry = [when |-> d, timer |-> t]
  OBVIOUS
<1>2. entry \in TimerEntry /\ entry.timer = t
  BY <1>1 DEF TimerEntry
<1>3. /\ t \notin Held /\ UNCHANGED <<dueTimers, expired, now>>
      /\ \/ heap' = Schedule(heap, entry) /\ xtimers' = xtimers
         \/ heap' = heap /\ xtimers' = Append(xtimers, entry)
  BY <1>1 DEF CallAt, tickVars, clock, xthread
<1>4. /\ heap \in Seq(TimerEntry) /\ xtimers \in Seq(TimerEntry) /\ dueTimers \in Seq(TimerEntry)
      /\ expired \in Seq(TimerEntry) /\ IsInjective(heap) /\ IsInjective(xtimers) /\ Sorted(heap)
  BY DEF TimersGood, TimersApart, TimersOnTime
<1>5. /\ entry \notin ToSet(heap) /\ entry \notin ToSet(xtimers)
      /\ entry \notin ToSet(dueTimers) /\ entry \notin ToSet(expired)
  BY <1>2, <1>3, <1>4, TimersIn DEF Held
<1>6. PICK s, a : s = Schedule(heap, entry) /\ a = Append(xtimers, entry)
  OBVIOUS
<1>7. /\ s \in Seq(TimerEntry) /\ IsInjective(s) /\ Sorted(s) /\ ToSet(s) = ToSet(heap) \cup {entry}
  BY <1>2, <1>4, <1>5, <1>6, ScheduleKeeps
<1>8. /\ a \in Seq(TimerEntry) /\ IsInjective(a) /\ ToSet(a) = ToSet(xtimers) \cup {entry}
  BY <1>2, <1>4, <1>5, <1>6, AppendElements
<1>9. TimersApart'
  <2>1. CASE heap' = s /\ xtimers' = xtimers
    BY <1>3, <1>5, <1>7, <2>1 DEF TimersGood, TimersApart, Apart
  <2>2. CASE heap' = heap /\ xtimers' = a
    BY <1>3, <1>5, <1>8, <2>2 DEF TimersGood, TimersApart, Apart
  <2>3. QED
    BY <1>3, <1>6, <2>1, <2>2
<1>10. TimersOnTime'
  BY <1>3, <1>4, <1>6, <1>7 DEF TimersGood, TimersOnTime
<1>11. QED
  BY <1>3, <1>4, <1>6, <1>7, <1>8, <1>9, <1>10 DEF TimersGood

\* TimerHandle.cancel takes the timer's entry out of the heap.
LEMMA CancelKeepsTimers ==
  ASSUME TimersGood, NEW h \in Handles, Cancel(h)
  PROVE  TimersGood'
<1>1. PICK s, kept : s = Only(heap, kept) /\ kept = {e \in TimerEntry : e.timer # h}
  OBVIOUS
<1>2. heap' = s /\ UNCHANGED <<dueTimers, expired, xtimers, now>>
  BY <1>1 DEF Cancel, tickVars, clock, xthread
<1>3. heap \in Seq(TimerEntry) /\ IsInjective(heap) /\ Ordered(heap, Before)
  BY DEF TimersGood, TimersApart, TimersOnTime, Sorted
<1>4. /\ s \in Seq(TimerEntry) /\ IsInjective(s) /\ Ordered(s, Before) /\ ToSet(s) = ToSet(heap) \cap kept
  BY <1>1, <1>3, OnlyType, OnlyInjective, OnlyOrdered, OnlyElements
<1>5. TimersApart'
  BY <1>2, <1>4 DEF TimersGood, TimersApart, Apart
<1>6. TimersOnTime'
  BY <1>2, <1>4 DEF TimersGood, TimersOnTime, Sorted
<1>7. QED
  BY <1>2, <1>4, <1>5, <1>6 DEF TimersGood

\* A queue with no elements is empty.
LEMMA NoElements ==
  ASSUME NEW S, NEW s \in Seq(S), ToSet(s) = {}
  PROVE  s = <<>>
<1>1. ~(1 \in 1..Len(s))
  BY Elements
<1>2. QED
  BY <1>1

\* A tick that parks has nothing that fired.
LEMMA ParksWithoutExpired ==
  ASSUME TimersGood, Fired = <<>>
  PROVE  expired = <<>>
<1>1. ToSet(expired) = {} /\ expired \in Seq(TimerEntry)
  BY FiredAndLeft, Nothing DEF TimersGood
<1>2. QED
  BY <1>1, NoElements

\* No step loses, doubles or hurries a timer.
LEMMA StepTimers == TimersGood /\ Rested /\ [Next]_vars => TimersGood'
<1> SUFFICES ASSUME TimersGood, Rested, [Next]_vars PROVE TimersGood'
  OBVIOUS
<1>q. now \in 0..MaxTime /\ now <= now
  BY LoopAssumption DEF TimersGood
<1>d. /\ dueTimers \in Seq(TimerEntry) /\ IsInjective(dueTimers)
      /\ ToSet(dueTimers) \subseteq ToSet(dueTimers)
  BY DEF TimersGood, TimersApart
<1>1. CASE TickImmediate
  <2>1. dueTimers = <<>>
    BY <1>1 DEF TickImmediate, Rested
  <2>2. /\ XThreadDrained /\ heap' = HeapLeft /\ now' = now
        /\ \/ dueTimers' = Fired /\ expired' = <<>>
           \/ dueTimers' = <<>> /\ expired' = Fired
    BY <1>1, <2>1 DEF TickImmediate, TakeBatch, TakeAndHandBack
  <2>3. QED
    BY <2>1, <2>2, DrainTimers
<1>2. CASE TickParks
  <2>1. dueTimers = <<>> /\ Fired = <<>>
    BY <1>2 DEF TickParks, Rested, Immediate
  <2>2. expired = <<>>
    BY <2>1, ParksWithoutExpired
  <2>3. XThreadDrained /\ heap' = HeapLeft /\ now' = now /\ dueTimers' = <<>> /\ expired' = Fired
    BY <1>2, <2>1, <2>2 DEF TickParks, tickVars, clock
  <2>4. QED
    BY <2>1, <2>3, DrainTimers
<1>3. CASE ParkEnds \/ ParkTimesOut \/ SpinEnds
  BY <1>3, <1>q, TimersQuiet
     DEF ParkEnds, ParkTimesOut, SpinEnds, PollReturns, queues, tickVars, xthread, clock
<1>4. CASE Resume
  <2>1. dueTimers = <<>>
    BY <1>4 DEF Resume, Rested
  <2>2. /\ XThreadDrained /\ heap' = HeapLeft /\ now' = now
        /\ \/ dueTimers' = Fired /\ expired' = <<>>
           \/ dueTimers' = <<>> /\ expired' = Fired
    BY <1>4, <2>1 DEF Resume, TakeBatch, TakeAndHandBack, clock
  <2>3. QED
    BY <2>1, <2>2, DrainTimers
<1>5. CASE RunHandle
  <2>1. /\ UNCHANGED <<heap, xtimers, now>>
        /\ \/ dueTimers' = dueTimers /\ expired' = expired
           \/ dueTimers' = <<>> /\ expired' = dueTimers \o expired
    BY <1>5 DEF RunHandle, HandBack, xthread, clock
  <2>2. QED
    BY <1>d, <2>1, TimersHandedBack
<1>6. CASE DispatchEvent
  <2>1. /\ UNCHANGED <<heap, xtimers, now>>
        /\ \/ dueTimers' = dueTimers /\ expired' = expired
           \/ dueTimers' = <<>> /\ expired' = dueTimers \o expired
    BY <1>6 DEF DispatchEvent, HandBack, xthread, clock
  <2>2. QED
    BY <1>d, <2>1, TimersHandedBack
<1>7. CASE RunTimer
  <2>1. PICK d : d = Tail(dueTimers)
    OBVIOUS
  <2>2. /\ UNCHANGED <<heap, xtimers, now>> /\ dueTimers # <<>>
        /\ \/ dueTimers' = d /\ expired' = expired
           \/ dueTimers' = <<>> /\ expired' = d \o expired
    BY <1>7, <2>1 DEF RunTimer, HandBack, xthread, clock
  <2>3. d \in Seq(TimerEntry) /\ IsInjective(d) /\ ToSet(d) \subseteq ToSet(dueTimers)
    BY <1>d, <2>1, <2>2, TailElements
  <2>4. QED
    BY <2>2, <2>3, TimersHandedBack
<1>8. CASE FlushCorked \/ TickEnds \/ RunForever
  BY <1>8, <1>q, TimersQuiet DEF FlushCorked, TickEnds, RunForever, queues, tickVars, xthread, clock
<1>9. CASE Calls
  <2>1. ASSUME NEW h \in Soon, CallSoon(h) PROVE TimersGood'
    BY <2>1, <1>q, TimersQuiet DEF CallSoon, queues, tickVars, xthread, clock
  <2>2. ASSUME NEW t \in Timers, NEW d \in 0..MaxTime, CallAt(t, d) PROVE TimersGood'
    BY <2>2, CallAtKeepsTimers
  <2>3. ASSUME NEW h \in Handles, Cancel(h) PROVE TimersGood'
    BY <2>3, CancelKeepsTimers
  <2>4. CASE Stop
    BY <2>4, <1>q, TimersQuiet DEF Stop, queues, tickVars, xthread, clock
  <2>5. ASSUME NEW fd \in Fds, NEW w \in Watches, NEW refused \in BOOLEAN, AddReader(fd, w, refused)
        PROVE TimersGood'
    BY <2>5, <1>q, TimersQuiet DEF AddReader, queues, tickVars, xthread, clock
  <2>6. ASSUME NEW fd \in Fds, NEW refused \in BOOLEAN, RemoveReader(fd, refused) PROVE TimersGood'
    BY <2>6, <1>q, TimersQuiet DEF RemoveReader, queues, tickVars, xthread, clock
  <2>7. ASSUME NEW c \in Conns, TransportEvent(c) PROVE TimersGood'
    BY <2>7, <1>q, TimersQuiet DEF TransportEvent, queues, tickVars, xthread, clock
  <2>8. QED
    BY <1>9, <2>1, <2>2, <2>3, <2>4, <2>5, <2>6, <2>7 DEF Calls
<1>10. ASSUME NEW fd \in Fds, BecomesReadable(fd) PROVE TimersGood'
  BY <1>10, <1>q, TimersQuiet DEF BecomesReadable, queues, tickVars, xthread, clock
<1>11. ASSUME NEW c \in Conns, OperationCompletes(c) PROVE TimersGood'
  BY <1>11, <1>q, TimersQuiet DEF OperationCompletes, queues, tickVars, xthread, clock
<1>12. CASE TimePasses
  <2>1. now \in Nat /\ MaxTime \in Nat
    BY <1>q, LoopAssumption
  <2>2. now' \in 0..MaxTime /\ now <= now'
    BY <1>12, <1>q, <2>1 DEF TimePasses
  <2>3. QED
    BY <1>12, <2>2, TimersQuiet DEF TimePasses, queues, tickVars, xthread
<1>13. CASE PollFailed
  <2>1. CASE mode = "parked" /\ UNCHANGED <<queues, xqueue, xtimers, wakePending, cancelled>>
    BY <1>13, <2>1, <1>q, TimersQuiet DEF PollFailed, queues, clock
  <2>2. CASE mode = "tick" /\ Immediate /\ expired' = Fired /\ heap' = HeapLeft /\ XThreadDrained
    <3>1. dueTimers = <<>> /\ dueTimers' = <<>> /\ now' = now
      BY <1>13, <2>2 DEF PollFailed, Rested, clock
    <3>2. QED
      BY <2>2, <3>1, DrainTimers
  <2>3. QED
    BY <1>13, <2>1, <2>2 DEF PollFailed
<1>14. CASE Close
  <2>1. dueTimers' = <<>> /\ expired' = <<>> /\ heap' = <<>> /\ xtimers' = <<>> /\ now' = now
    BY <1>14 DEF Close, Rested, tickVars, clock
  <2>2. TimersApart'
    BY <2>1, Nothing DEF TimersApart, Apart
  <2>3. TimersOnTime'
    BY <2>1, Nothing DEF TimersOnTime, Sorted, Ordered
  <2>4. QED
    BY <1>q, <2>1, <2>2, <2>3, Nothing DEF TimersGood
<1>15. CASE UNCHANGED vars
  BY <1>15, <1>q, TimersQuiet DEF vars, queues, tickVars, xthread, clock
<1>16. QED
  BY <1>1, <1>2, <1>3, <1>4, <1>5, <1>6, <1>7, <1>8, <1>9, <1>10, <1>11, <1>12, <1>13, <1>14, <1>15
     DEF Next, LoopThread, Environment

-----------------------------------------------------------------------------
(* Transport events.                                                       *)

EventsGood ==
  /\ netEvents \in Seq(Conns) /\ tickEvents \in Seq(Conns)
  /\ kernelDone \in Seq(Conns) /\ reapedOps \in Seq(Conns)
  /\ EventsApart

\* Steps that leave the events where they are.
LEMMA EventsQuiet ==
  ASSUME EventsGood, UNCHANGED <<netEvents, tickEvents, kernelDone, reapedOps>>
  PROVE  EventsGood'
BY DEF EventsGood, EventsApart

\* The tick takes the queued events and the operations ops; rest stays with
\* the kernel.
LEMMA EventsTaken ==
  ASSUME EventsGood, tickEvents = <<>>,
         NEW ops \in Seq(Conns), NEW rest \in Seq(Conns), IsInjective(ops), IsInjective(rest),
         ToSet(ops) \cap ToSet(rest) = {},
         ToSet(ops) \cup ToSet(rest) \subseteq ToSet(kernelDone) \cup ToSet(reapedOps),
         kernelDone' = rest, reapedOps' = <<>>,
         \/ tickEvents' = netEvents \o ops /\ netEvents' = <<>>
         \/ netEvents' = netEvents \o ops /\ tickEvents' = <<>>
  PROVE  EventsGood'
<1>1. /\ netEvents \in Seq(Conns) /\ IsInjective(netEvents)
      /\ ToSet(netEvents) \cap (ToSet(ops) \cup ToSet(rest)) = {}
  BY DEF EventsGood, EventsApart, Apart
<1>2. PICK x : x = netEvents \o ops
  OBVIOUS
<1>3. x \in Seq(Conns) /\ IsInjective(x) /\ ToSet(x) = ToSet(netEvents) \cup ToSet(ops)
  BY <1>1, <1>2, ConcatElements
<1>4. ToSet(x) \cap ToSet(rest) = {}
  BY <1>1, <1>3
<1>5. EventsApart'
  <2>1. CASE tickEvents' = x /\ netEvents' = <<>>
    BY <1>3, <1>4, <2>1, Nothing DEF EventsApart, Apart
  <2>2. CASE netEvents' = x /\ tickEvents' = <<>>
    BY <1>3, <1>4, <2>2, Nothing DEF EventsApart, Apart
  <2>3. QED
    BY <1>2, <2>1, <2>2
<1>6. QED
  BY <1>2, <1>3, <1>5, Nothing DEF EventsGood

\* What is left of the tick's events stays, or goes back to the front.
LEMMA EventsHandedBack ==
  ASSUME EventsGood, UNCHANGED <<kernelDone, reapedOps>>,
         NEW d \in Seq(Conns), IsInjective(d), ToSet(d) \subseteq ToSet(tickEvents),
         \/ tickEvents' = d /\ netEvents' = netEvents
         \/ tickEvents' = <<>> /\ netEvents' = d \o netEvents
  PROVE  EventsGood'
<1>1. /\ netEvents \in Seq(Conns) /\ IsInjective(netEvents)
      /\ ToSet(d) \cap ToSet(netEvents) = {}
  BY DEF EventsGood, EventsApart, Apart
<1>2. PICK x : x = d \o netEvents
  OBVIOUS
<1>3. x \in Seq(Conns) /\ IsInjective(x) /\ ToSet(x) = ToSet(d) \cup ToSet(netEvents)
  BY <1>1, <1>2, ConcatElements
<1>4. EventsApart'
  <2>1. CASE tickEvents' = d /\ netEvents' = netEvents
    BY <2>1 DEF EventsGood, EventsApart, Apart
  <2>2. CASE tickEvents' = <<>> /\ netEvents' = x
    BY <1>3, <2>2, Nothing DEF EventsGood, EventsApart, Apart
  <2>3. QED
    BY <1>2, <2>1, <2>2
<1>5. QED
  BY <1>1, <1>2, <1>3, <1>4, Nothing DEF EventsGood

\* A new event, queued by a transport call or completed by the kernel.
LEMMA EventArrivesOnce ==
  ASSUME EventsGood, NEW c \in Conns, c \notin EventsHeld, UNCHANGED <<tickEvents, reapedOps>>,
         \/ netEvents' = Append(netEvents, c) /\ kernelDone' = kernelDone
         \/ netEvents' = netEvents /\ kernelDone' = Append(kernelDone, c)
  PROVE  EventsGood'
<1>1. /\ netEvents \in Seq(Conns) /\ IsInjective(netEvents) /\ c \notin ToSet(netEvents)
      /\ kernelDone \in Seq(Conns) /\ IsInjective(kernelDone) /\ c \notin ToSet(kernelDone)
      /\ c \notin ToSet(tickEvents) /\ c \notin ToSet(reapedOps)
  BY DEF EventsGood, EventsApart, EventsHeld
<1>2. PICK x, y : x = Append(netEvents, c) /\ y = Append(kernelDone, c)
  OBVIOUS
<1>3. /\ x \in Seq(Conns) /\ IsInjective(x) /\ ToSet(x) = ToSet(netEvents) \cup {c}
      /\ y \in Seq(Conns) /\ IsInjective(y) /\ ToSet(y) = ToSet(kernelDone) \cup {c}
  BY <1>1, <1>2, AppendElements
<1>4. EventsApart'
  <2>1. CASE netEvents' = x /\ kernelDone' = kernelDone
    BY <1>1, <1>3, <2>1 DEF EventsGood, EventsApart, Apart
  <2>2. CASE netEvents' = netEvents /\ kernelDone' = y
    BY <1>1, <1>3, <2>2 DEF EventsGood, EventsApart, Apart
  <2>3. QED
    BY <1>2, <2>1, <2>2
<1>5. QED
  BY <1>1, <1>2, <1>3, <1>4 DEF EventsGood

\* No step loses or doubles a transport's event.
LEMMA StepEvents == EventsGood /\ Rested /\ [Next]_vars => EventsGood'
<1> SUFFICES ASSUME EventsGood, Rested, [Next]_vars PROVE EventsGood'
  OBVIOUS
<1>t. /\ tickEvents \in Seq(Conns) /\ IsInjective(tickEvents)
      /\ ToSet(tickEvents) \subseteq ToSet(tickEvents)
      /\ kernelDone \in Seq(Conns) /\ IsInjective(kernelDone)
      /\ reapedOps \in Seq(Conns) /\ IsInjective(reapedOps)
      /\ ToSet(kernelDone) \cap ToSet(reapedOps) = {}
  BY DEF EventsGood, EventsApart, Apart
<1>1. CASE TickImmediate
  <2>1. PICK taken :
          /\ kernelDone' = Only(kernelDone, Conns \ taken)
          /\ \/ tickEvents' = netEvents \o Only(kernelDone, taken) /\ netEvents' = <<>>
             \/ netEvents' = netEvents \o Only(kernelDone, taken) /\ tickEvents' = tickEvents
    BY <1>1 DEF TickImmediate, TakeBatch, TakeAndHandBack
  <2>2. tickEvents = <<>> /\ reapedOps' = <<>>
    BY <1>1 DEF TickImmediate, Rested, reaped
  <2>3. PICK ops, rest : ops = Only(kernelDone, taken) /\ rest = Only(kernelDone, Conns \ taken)
    OBVIOUS
  <2>4. /\ ops \in Seq(Conns) /\ IsInjective(ops) /\ ToSet(ops) = ToSet(kernelDone) \cap taken
        /\ rest \in Seq(Conns) /\ IsInjective(rest) /\ ToSet(rest) = ToSet(kernelDone) \cap (Conns \ taken)
    BY <1>t, <2>3, OnlyType, OnlyInjective, OnlyElements
  <2>5. /\ ToSet(ops) \cap ToSet(rest) = {}
        /\ ToSet(ops) \cup ToSet(rest) \subseteq ToSet(kernelDone) \cup ToSet(reapedOps)
    BY <2>4
  <2>6. QED
    BY <2>1, <2>2, <2>3, <2>4, <2>5, EventsTaken
<1>2. CASE Resume
  <2>1. tickEvents = <<>> /\ reapedOps' = <<>> /\ kernelDone' = kernelDone
    BY <1>2 DEF Resume, Rested, kernel
  <2>2. \/ tickEvents' = netEvents \o reapedOps /\ netEvents' = <<>>
        \/ netEvents' = netEvents \o reapedOps /\ tickEvents' = <<>>
    BY <1>2, <2>1 DEF Resume, TakeBatch, TakeAndHandBack
  <2>3. ToSet(reapedOps) \cap ToSet(kernelDone) = {}
        /\ ToSet(reapedOps) \cup ToSet(kernelDone) \subseteq ToSet(kernelDone) \cup ToSet(reapedOps)
    BY <1>t
  <2>4. QED
    BY <1>t, <2>1, <2>2, <2>3, EventsTaken
<1>3. CASE ParkEnds \/ ParkTimesOut
  <2>1. reapedOps = <<>>
    BY <1>3 DEF ParkEnds, ParkTimesOut, Rested
  <2>2. reapedOps' = kernelDone /\ kernelDone' = <<>> /\ UNCHANGED <<netEvents, tickEvents>>
    BY <1>3 DEF ParkEnds, ParkTimesOut, PollReturns, tickVars
  <2>3. EventsApart'
    BY <2>1, <2>2, Nothing DEF EventsGood, EventsApart, Apart
  <2>4. QED
    BY <2>2, <2>3, Nothing DEF EventsGood
<1>4. CASE RunHandle
  <2>1. /\ UNCHANGED <<kernelDone, reapedOps>>
        /\ \/ tickEvents' = tickEvents /\ netEvents' = netEvents
           \/ tickEvents' = <<>> /\ netEvents' = tickEvents \o netEvents
    BY <1>4 DEF RunHandle, HandBack, reaped
  <2>2. QED
    BY <1>t, <2>1, EventsHandedBack
<1>5. CASE DispatchEvent
  <2>1. PICK d : d = Tail(tickEvents)
    OBVIOUS
  <2>2. /\ UNCHANGED <<kernelDone, reapedOps>> /\ tickEvents # <<>>
        /\ \/ tickEvents' = d /\ netEvents' = netEvents
           \/ tickEvents' = <<>> /\ netEvents' = d \o netEvents
    BY <1>5, <2>1 DEF DispatchEvent, HandBack, reaped, kernel
  <2>3. d \in Seq(Conns) /\ IsInjective(d) /\ ToSet(d) \subseteq ToSet(tickEvents)
    BY <1>t, <2>1, <2>2, TailElements
  <2>4. QED
    BY <2>2, <2>3, EventsHandedBack
<1>6. CASE RunTimer
  <2>1. /\ UNCHANGED <<kernelDone, reapedOps>>
        /\ \/ tickEvents' = tickEvents /\ netEvents' = netEvents
           \/ tickEvents' = <<>> /\ netEvents' = tickEvents \o netEvents
    BY <1>6 DEF RunTimer, HandBack, reaped, kernel
  <2>2. QED
    BY <1>t, <2>1, EventsHandedBack
<1>7. CASE FlushCorked
  <2>1. /\ tickEvents = <<>> /\ tickEvents' = netEvents /\ netEvents' = <<>>
        /\ UNCHANGED <<kernelDone, reapedOps>>
    BY <1>7 DEF FlushCorked, TickDispatched, kernel, reaped
  <2>2. EventsApart'
    BY <2>1, Nothing DEF EventsGood, EventsApart, Apart
  <2>3. QED
    BY <2>1, <2>2, Nothing DEF EventsGood
<1>8. CASE Close
  <2>1. /\ netEvents' = <<>> /\ tickEvents' = <<>> /\ kernelDone' = <<>> /\ reapedOps' = <<>>
    BY <1>8 DEF Close, Rested, tickVars, reaped
  <2>2. EventsApart'
    BY <2>1, Nothing DEF EventsApart, Apart
  <2>3. QED
    BY <2>1, <2>2, Nothing DEF EventsGood
<1>9. ASSUME NEW c \in Conns, TransportEvent(c) PROVE EventsGood'
  BY <1>9, EventArrivesOnce DEF TransportEvent, tickVars, kernel, reaped
<1>10. ASSUME NEW c \in Conns, OperationCompletes(c) PROVE EventsGood'
  BY <1>10, EventArrivesOnce DEF OperationCompletes, tickVars, reaped
<1>11. CASE TickParks \/ SpinEnds \/ TickEnds \/ RunForever \/ Stop \/ TimePasses \/ PollFailed
  BY <1>11, EventsQuiet DEF TickParks, SpinEnds, TickEnds, RunForever, Stop, TimePasses, PollFailed,
     tickVars, kernel, reaped
<1>12. ASSUME NEW h \in Soon, CallSoon(h) PROVE EventsGood'
  BY <1>12, EventsQuiet DEF CallSoon, tickVars, kernel, reaped
<1>13. ASSUME NEW t \in Timers, NEW d \in 0..MaxTime, CallAt(t, d) PROVE EventsGood'
  BY <1>13, EventsQuiet DEF CallAt, tickVars, kernel, reaped
<1>14. ASSUME NEW h \in Handles, Cancel(h) PROVE EventsGood'
  BY <1>14, EventsQuiet DEF Cancel, tickVars, kernel, reaped
<1>15. ASSUME NEW fd \in Fds, NEW w \in Watches, NEW refused \in BOOLEAN, AddReader(fd, w, refused)
       PROVE EventsGood'
  BY <1>15, EventsQuiet DEF AddReader, tickVars, kernel, reaped
<1>16. ASSUME NEW fd \in Fds, NEW refused \in BOOLEAN, RemoveReader(fd, refused) PROVE EventsGood'
  BY <1>16, EventsQuiet DEF RemoveReader, tickVars, kernel, reaped
<1>17. ASSUME NEW fd \in Fds, BecomesReadable(fd) PROVE EventsGood'
  BY <1>17, EventsQuiet DEF BecomesReadable, tickVars, reaped
<1>18. CASE UNCHANGED vars
  BY <1>18, EventsQuiet DEF vars, tickVars, kernel, reaped
<1>19. QED
  BY <1>1, <1>2, <1>3, <1>4, <1>5, <1>6, <1>7, <1>8, <1>9, <1>10, <1>11, <1>12, <1>13, <1>14, <1>15,
     <1>16, <1>17, <1>18 DEF Next, LoopThread, Environment, Calls

-----------------------------------------------------------------------------
(* Flags and counters, and which queues rest when.                         *)

FlagsGood ==
  /\ mode \in Modes /\ stopping \in BOOLEAN /\ wakePending \in BOOLEAN /\ wake \in BOOLEAN
  /\ hadEvents \in BOOLEAN /\ pollAge \in 0..SkipWindow /\ unwinds \in 0..MaxUnwinds
  /\ ioReady \in SUBSET Fds /\ reapedFds \in SUBSET Fds
  /\ Rested

\* Steps that leave most of it alone.
LEMMA FlagsQuiet ==
  ASSUME FlagsGood, UNCHANGED <<hadEvents, batch, dueTimers, tickEvents, reapedFds, reapedOps, unwinds>>,
         mode' = mode, stopping' \in BOOLEAN, wakePending' \in BOOLEAN, wake' \in BOOLEAN,
         pollAge' \in 0..SkipWindow, ioReady' \in SUBSET Fds
  PROVE  FlagsGood'
BY DEF FlagsGood, Rested

\* Every step keeps the flags in their ranges and the tick's queues at rest.
LEMMA StepFlags == FlagsGood /\ [Next]_vars => FlagsGood'
<1> SUFFICES ASSUME FlagsGood, [Next]_vars PROVE FlagsGood'
  OBVIOUS
<1>q. /\ stopping \in BOOLEAN /\ wakePending \in BOOLEAN /\ wake \in BOOLEAN
      /\ pollAge \in 0..SkipWindow /\ ioReady \in SUBSET Fds
      /\ SkipWindow \in Nat /\ MaxUnwinds \in Nat /\ 0 \in 0..SkipWindow
      /\ unwinds \in 0..MaxUnwinds
  BY LoopAssumption DEF FlagsGood
<1>u. ASSUME Unwind
      PROVE  /\ unwinds' \in 0..MaxUnwinds /\ mode' \in Modes /\ stopping' \in BOOLEAN
             /\ hadEvents' \in BOOLEAN /\ mode' = "idle"
  <2>1. unwinds < MaxUnwinds /\ unwinds' = unwinds + 1
    BY <1>u DEF Unwind
  <2>2. unwinds' \in 0..MaxUnwinds
    BY <1>q, <2>1
  <2>3. QED
    BY <1>u, <2>2 DEF Unwind, Modes
<1>1. CASE TickImmediate
  <2>1. batch = <<>> /\ dueTimers = <<>> /\ tickEvents = <<>> /\ reapedFds = {} /\ reapedOps = <<>>
    BY <1>1 DEF TickImmediate, FlagsGood, Rested
  <2>2. /\ wake' \in BOOLEAN /\ pollAge' \in 0..SkipWindow /\ UNCHANGED <<ioReady, reapedFds, reapedOps>>
        /\ wakePending' = FALSE
    BY <1>1, <1>q DEF TickImmediate, XThreadDrained, reaped
  <2>3. \/ mode' = "dispatch" /\ hadEvents' \in BOOLEAN /\ UNCHANGED <<stopping, unwinds>>
        \/ Unwind /\ UNCHANGED <<batch, dueTimers, tickEvents>>
    BY <1>1 DEF TickImmediate, TakeBatch, TakeAndHandBack
  <2>4. mode' \in Modes /\ stopping' \in BOOLEAN /\ unwinds' \in 0..MaxUnwinds /\ hadEvents' \in BOOLEAN
    BY <1>q, <1>u, <2>3 DEF Modes
  <2>5. Rested'
    BY <1>u, <2>1, <2>2, <2>3 DEF Rested
  <2>6. QED
    BY <2>1, <2>2, <2>4, <2>5, <1>q DEF FlagsGood
<1>2. CASE TickParks
  BY <1>2 DEF TickParks, XThreadDrained, FlagsGood, Rested, Modes, tickVars, reaped, clock, kernel
<1>3. CASE ParkEnds \/ ParkTimesOut
  <2>1. mode = "parked" /\ PollReturns
    BY <1>3 DEF ParkEnds, ParkTimesOut
  <2>2. /\ mode' = "woken" /\ wake' = FALSE /\ pollAge' \in 0..SkipWindow /\ reapedFds' \in SUBSET Fds
        /\ UNCHANGED <<stopping, wakePending, batch, dueTimers, tickEvents, hadEvents, ioReady, unwinds>>
    BY <1>q, <2>1 DEF PollReturns, tickVars
  <2>3. Rested'
    BY <2>1, <2>2 DEF FlagsGood, Rested
  <2>4. QED
    BY <2>2, <2>3 DEF FlagsGood, Modes
<1>4. CASE SpinEnds
  BY <1>4 DEF SpinEnds, FlagsGood, Rested, Modes, tickVars, reaped, clock, kernel, xthread
<1>5. CASE Resume
  <2>1. batch = <<>> /\ dueTimers = <<>> /\ tickEvents = <<>>
    BY <1>5 DEF Resume, FlagsGood, Rested
  <2>2. /\ UNCHANGED <<wake, pollAge, ioReady>> /\ reapedFds' = {} /\ reapedOps' = <<>>
        /\ wakePending' = FALSE
    BY <1>5 DEF Resume, XThreadDrained, kernel, clock
  <2>3. \/ mode' = "dispatch" /\ hadEvents' \in BOOLEAN /\ UNCHANGED <<stopping, unwinds>>
        \/ Unwind /\ UNCHANGED <<batch, dueTimers, tickEvents>>
    BY <1>5 DEF Resume, TakeBatch, TakeAndHandBack
  <2>4. mode' \in Modes /\ stopping' \in BOOLEAN /\ unwinds' \in 0..MaxUnwinds /\ hadEvents' \in BOOLEAN
    BY <1>q, <1>u, <2>3 DEF Modes
  <2>5. Rested'
    BY <1>u, <2>1, <2>2, <2>3 DEF Rested
  <2>6. QED
    BY <2>1, <2>2, <2>4, <2>5, <1>q DEF FlagsGood
<1>6. CASE RunHandle \/ DispatchEvent \/ RunTimer
  <2>1. /\ mode \in {"dispatch", "teardown"} /\ UNCHANGED <<wakePending, wake, reapedFds, reapedOps, pollAge>>
        /\ \/ UNCHANGED <<mode, stopping, hadEvents, unwinds>>
           \/ Unwind /\ batch' = <<>> /\ dueTimers' = <<>> /\ tickEvents' = <<>>
    BY <1>6 DEF RunHandle, DispatchEvent, RunTimer, HandBack, xthread, reaped, clock
  <2>2. ioReady' \in SUBSET Fds
    BY <1>6, <1>q DEF RunHandle, DispatchEvent, RunTimer, kernel
  <2>3. mode' \in Modes /\ stopping' \in BOOLEAN /\ unwinds' \in 0..MaxUnwinds /\ hadEvents' \in BOOLEAN
    BY <1>q, <1>u, <2>1 DEF FlagsGood
  <2>4. Rested'
    BY <1>u, <2>1 DEF FlagsGood, Rested
  <2>5. QED
    BY <2>1, <2>2, <2>3, <2>4 DEF FlagsGood
<1>7. CASE FlushCorked \/ TickEnds
  <2>1. /\ mode \in {"dispatch", "teardown"} /\ batch' = <<>> /\ dueTimers' = <<>>
        /\ mode' = "teardown" \/ tickEvents' = <<>>
        /\ mode' \in {"teardown", "idle", "tick"} /\ stopping' \in BOOLEAN /\ hadEvents' \in BOOLEAN
        /\ UNCHANGED <<wakePending, wake, reapedFds, reapedOps, pollAge, ioReady, unwinds>>
    BY <1>7 DEF FlushCorked, TickEnds, TickDispatched, FlagsGood, tickVars, xthread, reaped, clock, kernel
  <2>2. Rested'
    BY <2>1 DEF FlagsGood, Rested
  <2>3. QED
    BY <2>1, <2>2 DEF FlagsGood, Modes
<1>8. CASE RunForever \/ Close
  <2>1. /\ mode = "idle" /\ mode' \in {"tick", "closed"} /\ wakePending' \in BOOLEAN
        /\ UNCHANGED <<stopping, wake, batch, dueTimers, tickEvents, hadEvents, reapedFds, reapedOps,
                       pollAge, unwinds>>
        /\ ioReady' \in SUBSET Fds
    BY <1>8 DEF RunForever, Close, FlagsGood, tickVars, xthread, reaped, clock, kernel
  <2>2. Rested'
    BY <2>1 DEF FlagsGood, Rested
  <2>3. QED
    BY <2>1, <2>2 DEF FlagsGood, Modes
<1>9. CASE PollFailed
  <2>1. /\ Unwind /\ UNCHANGED <<wake, batch, dueTimers, tickEvents, ioReady, reapedFds, reapedOps, pollAge>>
        /\ mode \in {"parked", "tick"} /\ wakePending' \in BOOLEAN
    BY <1>9 DEF PollFailed, XThreadDrained, FlagsGood, kernel, reaped, clock
  <2>2. Rested'
    BY <1>u, <2>1 DEF FlagsGood, Rested
  <2>3. QED
    BY <1>u, <2>1, <2>2 DEF FlagsGood
<1>10. ASSUME NEW h \in Soon, CallSoon(h) PROVE FlagsGood'
  <2>1. wakePending' \in BOOLEAN /\ wake' \in BOOLEAN
    BY <1>10, <1>q DEF CallSoon, PushWakes, xthread
  <2>2. QED
    BY <1>10, <1>q, <2>1, FlagsQuiet DEF CallSoon, tickVars, reaped, clock, kernel
<1>11. ASSUME NEW t \in Timers, NEW d \in 0..MaxTime, CallAt(t, d) PROVE FlagsGood'
  <2>1. wakePending' \in BOOLEAN /\ wake' \in BOOLEAN
    BY <1>11, <1>q DEF CallAt, PushWakes, xthread
  <2>2. QED
    BY <1>11, <1>q, <2>1, FlagsQuiet DEF CallAt, tickVars, reaped, clock, kernel
<1>12. ASSUME NEW h \in Handles, Cancel(h) PROVE FlagsGood'
  BY <1>12, <1>q, FlagsQuiet DEF Cancel, tickVars, reaped, clock, kernel, xthread
<1>13. CASE Stop
  BY <1>13, <1>q, FlagsQuiet DEF Stop, tickVars, reaped, clock, kernel
<1>14. ASSUME NEW fd \in Fds, NEW w \in Watches, NEW refused \in BOOLEAN, AddReader(fd, w, refused)
       PROVE FlagsGood'
  BY <1>14, <1>q, FlagsQuiet DEF AddReader, tickVars, reaped, clock, kernel, xthread
<1>15. ASSUME NEW fd \in Fds, NEW refused \in BOOLEAN, RemoveReader(fd, refused) PROVE FlagsGood'
  BY <1>15, <1>q, FlagsQuiet DEF RemoveReader, tickVars, reaped, clock, kernel, xthread
<1>16. ASSUME NEW c \in Conns, TransportEvent(c) \/ OperationCompletes(c) PROVE FlagsGood'
  BY <1>16, <1>q, FlagsQuiet DEF TransportEvent, OperationCompletes, tickVars, reaped, clock, kernel, xthread
<1>17. ASSUME NEW fd \in Fds, BecomesReadable(fd) PROVE FlagsGood'
  BY <1>17, <1>q, FlagsQuiet DEF BecomesReadable, tickVars, reaped, clock, xthread
<1>18. CASE TimePasses
  <2>1. pollAge' \in 0..SkipWindow
    BY <1>18, <1>q DEF TimePasses
  <2>2. QED
    BY <1>18, <1>q, <2>1, FlagsQuiet DEF TimePasses, tickVars, reaped, kernel, xthread
<1>19. CASE UNCHANGED vars
  BY <1>19, <1>q, FlagsQuiet DEF vars, tickVars, reaped, clock, kernel, xthread
<1>20. QED
  BY <1>1, <1>2, <1>3, <1>4, <1>5, <1>6, <1>7, <1>8, <1>9, <1>10, <1>11, <1>12, <1>13, <1>14, <1>15,
     <1>16, <1>17, <1>18, <1>19 DEF Next, LoopThread, Environment, Calls

-----------------------------------------------------------------------------
(* Handles: what is queued, registered and cancelled.                      *)

\* The watches that fds queue are finitely many and registered.
LEMMA WatchesQueued ==
  ASSUME readers \in [Fds -> Watches \cup {None}], NEW fds
  PROVE  /\ WatchesOf(fds) \subseteq Registered \cap Watches
         /\ SetToSeq(WatchesOf(fds)) \in Seq(Watches)
         /\ ToSet(SetToSeq(WatchesOf(fds))) \subseteq WatchesOf(fds)
         /\ IsInjective(SetToSeq(WatchesOf(fds)))
<1>1. PICK D, W : D = (fds \cap Watched) \ CancelledAmong(fds) /\ W = WatchesOf(fds)
  OBVIOUS
<1>2. D \subseteq Fds /\ W = {readers[fd] : fd \in D} /\ \A fd \in D : readers[fd] # None
  BY <1>1 DEF WatchesOf, Watched
<1>3. W \subseteq Registered \cap Watches
  BY <1>2 DEF Registered
<1>4. IsFiniteSet(D)
  BY <1>2, LoopAssumption, FS_Subset
<1>5. [fd \in D |-> readers[fd]] \in Surjection(D, W)
  BY <1>2 DEF Surjection
<1>6. PICK f : f \in Surjection(D, W)
  BY <1>5
<1>7. IsFiniteSet(W)
  BY <1>4, <1>6, FS_Surjection
<1>8. PICK q : q = SetToSeq(W)
  OBVIOUS
<1>9. q \in Seq(W) /\ IsInjective(q)
  BY <1>7, <1>8, LinedUp
<1>10. ToSet(q) \subseteq W
  BY <1>9, Elements
<1>11. q \in Seq(Watches)
  BY <1>3, <1>9
<1>12. QED
  BY <1>1, <1>3, <1>8, <1>9, <1>10, <1>11

\* The tokens in the given queues and registrations.
HeldIn(rdy, exp, hp, xq, xt, bat, due, reg) ==
  ToSet(rdy) \cup TimersOf(exp) \cup TimersOf(hp) \cup ToSet(xq) \cup TimersOf(xt)
    \cup ToSet(bat) \cup TimersOf(due) \cup reg

\* Which kind of token is held where.
HeldKinds(H, rdy, exp, hp, xq, xt, bat, due, reg) ==
  /\ H \subseteq Handles
  /\ \A w \in Watches : w \in H <=> w \in ToSet(rdy) \cup ToSet(bat) \cup reg
  /\ \A h \in Soon : h \in H <=> h \in ToSet(rdy) \cup ToSet(bat) \cup ToSet(xq)
  /\ \A t \in Timers : t \in H <=> \E e \in ToSet(exp) \cup ToSet(hp) \cup ToSet(xt) \cup ToSet(due) : e.timer = t

\* Watches are queued or registered, call_soon handles queued, timers have an
\* entry.
LEMMA HeldParts ==
  ASSUME NEW rdy \in Seq(Soon \cup Watches), NEW exp \in Seq(TimerEntry), NEW hp \in Seq(TimerEntry),
         NEW xq \in Seq(Soon), NEW xt \in Seq(TimerEntry), NEW bat \in Seq(Soon \cup Watches),
         NEW due \in Seq(TimerEntry), NEW reg \in SUBSET Watches
  PROVE  HeldKinds(HeldIn(rdy, exp, hp, xq, xt, bat, due, reg), rdy, exp, hp, xq, xt, bat, due, reg)
<1>0. PICK H : H = HeldIn(rdy, exp, hp, xq, xt, bat, due, reg)
  OBVIOUS
<1>1. ToSet(rdy) \subseteq Soon \cup Watches /\ ToSet(bat) \subseteq Soon \cup Watches /\ ToSet(xq) \subseteq Soon
  BY Elements
<1>2. ToSet(exp) \subseteq TimerEntry /\ ToSet(hp) \subseteq TimerEntry /\ ToSet(xt) \subseteq TimerEntry
      /\ ToSet(due) \subseteq TimerEntry
  BY Elements
<1>3. \A e \in TimerEntry : e.timer \in Timers
  BY DEF TimerEntry
<1>4. /\ \A t : t \in TimersOf(exp) <=> \E e \in ToSet(exp) : e.timer = t
      /\ \A t : t \in TimersOf(hp) <=> \E e \in ToSet(hp) : e.timer = t
      /\ \A t : t \in TimersOf(xt) <=> \E e \in ToSet(xt) : e.timer = t
      /\ \A t : t \in TimersOf(due) <=> \E e \in ToSet(due) : e.timer = t
  BY TimersIn
<1>5. /\ TimersOf(exp) \subseteq Timers /\ TimersOf(hp) \subseteq Timers
      /\ TimersOf(xt) \subseteq Timers /\ TimersOf(due) \subseteq Timers
  BY <1>2, <1>3, <1>4
<1>6. H \subseteq Handles
  BY <1>0, <1>1, <1>5 DEF HeldIn, Handles
<1>7. \A w \in Watches : w \in H <=> w \in ToSet(rdy) \cup ToSet(bat) \cup reg
  BY <1>0, <1>1, <1>5, LoopAssumption DEF HeldIn
<1>8. \A h \in Soon : h \in H <=> h \in ToSet(rdy) \cup ToSet(bat) \cup ToSet(xq)
  BY <1>0, <1>5, LoopAssumption DEF HeldIn
<1>9. \A t \in Timers : t \in H <=> t \in TimersOf(exp) \cup TimersOf(hp) \cup TimersOf(xt) \cup TimersOf(due)
  BY <1>0, <1>1, LoopAssumption DEF HeldIn
<1>10. QED
  BY <1>0, <1>4, <1>6, <1>7, <1>8, <1>9 DEF HeldKinds

HandlesGood ==
  /\ ready \in Seq(Soon \cup Watches) /\ batch \in Seq(Soon \cup Watches)
  /\ xqueue \in Seq(Soon) /\ readers \in [Fds -> Watches \cup {None}]
  /\ CancelledIsHeld /\ UnregisteredIsCancelled /\ WatchesApart

TypedHandles(rdy, bat, xq, rd) ==
  /\ rdy \in Seq(Soon \cup Watches) /\ bat \in Seq(Soon \cup Watches)
  /\ xq \in Seq(Soon) /\ rd \in [Fds -> Watches \cup {None}]

\* Registrations are watches.
LEMMA RegisteredWatches ==
  ASSUME NEW rd \in [Fds -> Watches \cup {None}]
  PROVE  {rd[fd] : fd \in Fds} \ {None} \in SUBSET Watches
OBVIOUS

\* What the loop holds.
LEMMA HeldNow ==
  ASSUME TimersGood, TypedHandles(ready, batch, xqueue, readers)
  PROVE  HeldKinds(Held, ready, expired, heap, xqueue, xtimers, batch, dueTimers, Registered)
<1>1. Registered \in SUBSET Watches
  BY RegisteredWatches DEF Registered, TypedHandles
<1>2. Held = HeldIn(ready, expired, heap, xqueue, xtimers, batch, dueTimers, Registered)
  BY DEF Held, HeldIn
<1>3. PICK a, b, x, reg, e, h, y, d :
        /\ a = ready /\ b = batch /\ x = xqueue /\ reg = Registered
        /\ e = expired /\ h = heap /\ y = xtimers /\ d = dueTimers
  OBVIOUS
<1>4. /\ a \in Seq(Soon \cup Watches) /\ b \in Seq(Soon \cup Watches) /\ x \in Seq(Soon)
      /\ reg \in SUBSET Watches /\ e \in Seq(TimerEntry) /\ h \in Seq(TimerEntry)
      /\ y \in Seq(TimerEntry) /\ d \in Seq(TimerEntry)
  BY <1>1, <1>3 DEF TypedHandles, TimersGood
<1>5. HeldKinds(HeldIn(a, e, h, x, y, b, d, reg), a, e, h, x, y, b, d, reg)
  BY <1>4, HeldParts, Zenon
<1>6. QED
  BY <1>2, <1>3, <1>5

\* The same behind a step.
LEMMA HeldNext ==
  ASSUME TimersGood', TypedHandles(ready', batch', xqueue', readers')
  PROVE  HeldKinds(Held', ready', expired', heap', xqueue', xtimers', batch', dueTimers', Registered')
<1>1. Registered' \in SUBSET Watches
  BY RegisteredWatches DEF Registered, TypedHandles
<1>2. Held' = HeldIn(ready', expired', heap', xqueue', xtimers', batch', dueTimers', Registered')
  BY DEF Held, HeldIn
<1>3. PICK a, b, x, reg, e, h, y, d :
        /\ a = ready' /\ b = batch' /\ x = xqueue' /\ reg = Registered'
        /\ e = expired' /\ h = heap' /\ y = xtimers' /\ d = dueTimers'
  OBVIOUS
<1>4. /\ a \in Seq(Soon \cup Watches) /\ b \in Seq(Soon \cup Watches) /\ x \in Seq(Soon)
      /\ reg \in SUBSET Watches /\ e \in Seq(TimerEntry) /\ h \in Seq(TimerEntry)
      /\ y \in Seq(TimerEntry) /\ d \in Seq(TimerEntry)
  BY <1>1, <1>3 DEF TypedHandles, TimersGood
<1>5. HeldKinds(HeldIn(a, e, h, x, y, b, d, reg), a, e, h, x, y, b, d, reg)
  BY <1>4, HeldParts, Zenon
<1>6. QED
  BY <1>2, <1>3, <1>5

\* What a step must do for the handles to stay sound: watches are queued
\* because they are registered, and one that is unregistered is cancelled or
\* let go of.
LEMMA HandlesStep ==
  ASSUME HandlesGood, TimersGood, TimersGood', TypedHandles(ready', batch', xqueue', readers'),
         (ToSet(ready') \cup ToSet(batch')) \cap Watches \subseteq ToSet(ready) \cup ToSet(batch) \cup Registered \cup Registered',
         \A w \in Registered \ Registered' : w \in Held' => w \in cancelled',
         cancelled \cap Held' \subseteq cancelled', cancelled' \subseteq Held',
         WatchesApart'
  PROVE  HandlesGood'
<1>1. TypedHandles(ready, batch, xqueue, readers)
  BY DEF HandlesGood, TypedHandles
<1>2. ASSUME NEW w \in Watches, w \in Held', w \notin Registered' PROVE w \in cancelled'
  <2>1. w \in ToSet(ready') \cup ToSet(batch')
    BY <1>2, HeldNext DEF HeldKinds
  <2>2. w \in ToSet(ready) \cup ToSet(batch) \cup Registered
    BY <1>2, <2>1
  <2>3. CASE w \in Registered
    BY <1>2, <2>3
  <2>4. CASE w \notin Registered
    <3>1. w \in Held
      BY <1>1, <2>2, HeldNow DEF HeldKinds
    <3>2. w \in cancelled
      BY <2>4, <3>1 DEF HandlesGood, UnregisteredIsCancelled
    <3>3. QED
      BY <1>2, <3>2
  <2>5. QED
    BY <2>3, <2>4
<1>3. UnregisteredIsCancelled'
  BY <1>2 DEF UnregisteredIsCancelled
<1>4. CancelledIsHeld'
  BY DEF CancelledIsHeld
<1>5. QED
  BY <1>3, <1>4 DEF HandlesGood, TypedHandles

\* Watches that follow handles which are none are in the whole once.
LEMMA ConcatOnce ==
  ASSUME NEW S, NEW s \in Seq(S), NEW t \in Seq(S), NEW W, ToSet(s) \cap W = {}, IsInjective(t)
  PROVE  Once(s \o t, W)
<1>1. /\ Len(s \o t) = Len(s) + Len(t) /\ Len(s) \in Nat /\ Len(t) \in Nat
      /\ \A k \in 1..(Len(s) + Len(t)) : (s \o t)[k] = IF k <= Len(s) THEN s[k] ELSE t[k - Len(s)]
  BY ConcatProperties
<1>2. \A k \in 1..Len(s) : s[k] \notin W
  BY Elements
<1>3. PICK q : q = s \o t
  OBVIOUS
<1>4. ASSUME NEW i \in 1..Len(q), NEW j \in 1..Len(q), q[i] \in W, q[i] = q[j] PROVE i = j
  <2>1. ASSUME NEW k \in 1..Len(q), q[k] \in W PROVE k - Len(s) \in 1..Len(t) /\ q[k] = t[k - Len(s)]
    <3>1. k \in 1..(Len(s) + Len(t)) /\ (k <= Len(s) => k \in 1..Len(s) /\ q[k] = s[k])
      BY <1>1, <1>3
    <3>2. ~(k <= Len(s))
      BY <1>2, <2>1, <3>1
    <3>3. QED
      BY <1>1, <1>3, <3>1, <3>2
  <2>2. /\ i - Len(s) \in 1..Len(t) /\ q[i] = t[i - Len(s)]
        /\ j - Len(s) \in 1..Len(t) /\ q[j] = t[j - Len(s)]
    BY <1>4, <2>1
  <2>3. \A a, b \in 1..Len(t) : t[a] = t[b] => a = b
    BY DEF IsInjective
  <2>4. i - Len(s) = j - Len(s)
    BY <1>4, <2>2, <2>3
  <2>5. QED
    BY <1>1, <1>3, <2>4
<1>5. QED
  BY <1>3, <1>4 DEF Once

\* What is once in a queue is once in the rest of it.
LEMMA TailOnce ==
  ASSUME NEW S, NEW s \in Seq(S), s # <<>>, NEW W, Once(s, W)
  PROVE  Once(Tail(s), W)
<1>1. PICK t : t = Tail(s)
  OBVIOUS
<1>2. /\ t \in Seq(S) /\ Len(t) = Len(s) - 1 /\ Len(s) \in Nat \ {0}
      /\ \A k \in 1..Len(t) : t[k] = s[k + 1]
  BY <1>1, HeadTailProperties
<1>3. ASSUME NEW i \in 1..Len(t), NEW j \in 1..Len(t), t[i] \in W, t[i] = t[j] PROVE i = j
  <2>1. i + 1 \in 1..Len(s) /\ j + 1 \in 1..Len(s) /\ s[i + 1] \in W /\ s[i + 1] = s[j + 1]
    BY <1>2, <1>3
  <2>2. i + 1 = j + 1
    BY <2>1 DEF Once
  <2>3. QED
    BY <2>2
<1>4. QED
  BY <1>1, <1>3 DEF Once

\* Steps that leave the queues and the registrations alone; handles may be
\* cancelled or let go of.
LEMMA HandlesQuiet ==
  ASSUME HandlesGood, TimersGood, TimersGood', UNCHANGED <<ready, batch, xqueue, readers>>,
         unwinds' = unwinds,
         cancelled \cap Held' \subseteq cancelled', cancelled' \subseteq Held'
  PROVE  HandlesGood'
<1>1. TypedHandles(ready', batch', xqueue', readers')
  BY DEF HandlesGood, TypedHandles
<1>2. WatchesApart'
  BY DEF HandlesGood, WatchesApart
<1>3. Registered' = Registered
  BY DEF Registered
<1>4. (ToSet(ready') \cup ToSet(batch')) \cap Watches \subseteq ToSet(ready) \cup ToSet(batch) \cup Registered \cup Registered'
  OBVIOUS
<1>5. \A w \in Registered \ Registered' : w \in Held' => w \in cancelled'
  BY <1>3
<1>6. QED
  BY <1>1, <1>2, <1>4, <1>5, HandlesStep

\* Steps that leave all of it alone.
LEMMA HandlesStill ==
  ASSUME HandlesGood, TimersGood, TimersGood',
         UNCHANGED <<ready, batch, xqueue, readers, cancelled, unwinds, expired, heap, xtimers, dueTimers>>
  PROVE  HandlesGood'
<1>1. Held' = Held
  BY DEF Held, Registered
<1>2. cancelled \cap Held' \subseteq cancelled' /\ cancelled' \subseteq Held'
  BY <1>1 DEF HandlesGood, CancelledIsHeld
<1>3. QED
  BY <1>2, HandlesQuiet

\* translate drops only cancelled watches.
LEMMA Unwatched ==
  ASSUME readers \in [Fds -> Watches \cup {None}], NEW fds, Unwatch(fds)
  PROVE  /\ readers' \in [Fds -> Watches \cup {None}]
         /\ \A w \in Registered \ Registered' : w \in cancelled
<1>1. PICK dropped \in SUBSET CancelledAmong(fds) :
        readers' = [fd \in Fds |-> IF fd \in dropped THEN None ELSE readers[fd]]
  BY DEF Unwatch
<1>2. readers' \in [Fds -> Watches \cup {None}]
  BY <1>1
<1>3. ASSUME NEW w \in Registered, w \notin Registered' PROVE w \in cancelled
  <2>1. PICK fd \in Fds : readers[fd] = w /\ w # None
    BY <1>3 DEF Registered
  <2>2. readers'[fd] # w
    BY <1>3, <2>1 DEF Registered
  <2>3. fd \in dropped
    BY <1>1, <2>1, <2>2
  <2>4. QED
    BY <2>1, <2>3 DEF CancelledAmong
<1>4. QED
  BY <1>2, <1>3

\* What is drained from other threads holds no watch.
LEMMA DrainedHandles ==
  ASSUME HandlesGood
  PROVE  /\ Drained \in Seq(Soon \cup Watches)
         /\ ToSet(Drained) \cap Watches \subseteq ToSet(ready)
         /\ (IF wakePending THEN <<>> ELSE xqueue) \in Seq(Soon)
<1>1. ready \in Seq(Soon \cup Watches) /\ xqueue \in Seq(Soon)
  BY DEF HandlesGood
<1>2. xqueue \in Seq(Soon \cup Watches)
  BY <1>1
<1>3. ToSet(xqueue) \subseteq Soon
  BY <1>1, Elements
<1>4. PICK x : x = ready \o xqueue
  OBVIOUS
<1>5. x \in Seq(Soon \cup Watches) /\ ToSet(x) = ToSet(ready) \cup ToSet(xqueue)
  BY <1>1, <1>2, <1>4, ConcatElements
<1>6. ToSet(x) \cap Watches \subseteq ToSet(ready)
  BY <1>3, <1>5, LoopAssumption
<1>7. QED
  BY <1>1, <1>4, <1>5, <1>6, Nothing DEF Drained

\* The batch of a tick: what was ready, then each watch once.
LEMMA TakesBatch ==
  ASSUME HandlesGood, TimersGood, TimersGood', batch = <<>>, unwinds \in Nat, NEW fds, Unwatch(fds),
         SetCancelled(cancelled), xqueue' = (IF wakePending THEN <<>> ELSE xqueue),
         \/ /\ batch' = Drained \o SetToSeq(WatchesOf(fds)) /\ ready' = <<>> /\ unwinds' = unwinds
         \/ /\ ready' = Drained \o SetToSeq(WatchesOf(fds)) /\ batch' = <<>> /\ unwinds' = unwinds + 1
  PROVE  HandlesGood'
<1>0. /\ readers \in [Fds -> Watches \cup {None}] /\ WatchesApart
  BY DEF HandlesGood
<1>1. PICK q, r, W : q = SetToSeq(WatchesOf(fds)) /\ r = Drained /\ W = WatchesOf(fds)
  OBVIOUS
<1>2. W \subseteq Registered \cap Watches /\ q \in Seq(Watches) /\ ToSet(q) \subseteq W /\ IsInjective(q)
  BY <1>0, <1>1, WatchesQueued
<1>3. r \in Seq(Soon \cup Watches) /\ ToSet(r) \cap Watches \subseteq ToSet(ready)
  BY <1>1, DrainedHandles
<1>4. q \in Seq(Soon \cup Watches)
  BY <1>2
<1>5. PICK x : x = r \o q
  OBVIOUS
<1>6. x \in Seq(Soon \cup Watches) /\ ToSet(x) = ToSet(r) \cup ToSet(q)
  BY <1>3, <1>4, <1>5, ConcatElements
<1>7. TypedHandles(ready', batch', xqueue', readers')
  <2>1. readers' \in [Fds -> Watches \cup {None}]
    BY <1>0, Unwatched
  <2>2. xqueue' \in Seq(Soon)
    BY DrainedHandles
  <2>3. ready' \in Seq(Soon \cup Watches) /\ batch' \in Seq(Soon \cup Watches)
    BY <1>1, <1>5, <1>6, Nothing
  <2>4. QED
    BY <2>1, <2>2, <2>3 DEF TypedHandles
<1>8. (ToSet(ready') \cup ToSet(batch')) \cap Watches \subseteq ToSet(ready) \cup ToSet(batch) \cup Registered \cup Registered'
  <2>1. ToSet(ready') \cup ToSet(batch') = ToSet(x)
    BY <1>1, <1>5, Nothing
  <2>2. QED
    BY <1>2, <1>3, <1>6, <2>1
<1>9. /\ \A w \in Registered \ Registered' : w \in Held' => w \in cancelled'
      /\ cancelled \cap Held' \subseteq cancelled' /\ cancelled' \subseteq Held'
  BY <1>0, Unwatched DEF SetCancelled
<1>10. WatchesApart'
  <2>1. SUFFICES ASSUME unwinds' = 0 PROVE ToSet(ready') \cap Watches = {} /\ Once(batch', Watches)
    BY DEF WatchesApart
  <2>2. batch' = x /\ ready' = <<>> /\ unwinds = 0
    BY <1>1, <1>5, <2>1
  <2>3. ToSet(r) \cap Watches = {}
    BY <1>0, <1>3, <2>2 DEF WatchesApart
  <2>4. Once(x, Watches)
    BY <1>2, <1>3, <1>4, <1>5, <2>3, ConcatOnce
  <2>5. QED
    BY <2>2, <2>4, Nothing
<1>11. QED
  BY <1>7, <1>8, <1>9, <1>10, HandlesStep

\* Steps that leave the registrations alone and queue no further watch.
LEMMA HandlesMoved ==
  ASSUME HandlesGood, TimersGood, TimersGood', readers' = readers, xqueue' \in Seq(Soon),
         ready' \in Seq(Soon \cup Watches), batch' \in Seq(Soon \cup Watches),
         (ToSet(ready') \cup ToSet(batch')) \cap Watches \subseteq ToSet(ready) \cup ToSet(batch),
         cancelled \cap Held' \subseteq cancelled', cancelled' \subseteq Held',
         WatchesApart'
  PROVE  HandlesGood'
<1>1. TypedHandles(ready', batch', xqueue', readers')
  BY DEF HandlesGood, TypedHandles
<1>2. Registered' = Registered
  BY DEF Registered
<1>3. \A w \in Registered \ Registered' : w \in Held' => w \in cancelled'
  BY <1>2
<1>4. (ToSet(ready') \cup ToSet(batch')) \cap Watches \subseteq ToSet(ready) \cup ToSet(batch) \cup Registered \cup Registered'
  OBVIOUS
<1>5. QED
  BY <1>1, <1>3, <1>4, HandlesStep

\* enqueue_soon
LEMMA CallSoonKeepsHandles ==
  ASSUME HandlesGood, TimersGood, TimersGood', NEW h \in Soon, CallSoon(h)
  PROVE  HandlesGood'
<1>1. PICK r, x : r = Append(ready, h) /\ x = Append(xqueue, h)
  OBVIOUS
<1>2. /\ ready \in Seq(Soon \cup Watches) /\ xqueue \in Seq(Soon) /\ h \in Soon \cup Watches
      /\ batch \in Seq(Soon \cup Watches)
  BY DEF HandlesGood
<1>3. /\ r \in Seq(Soon \cup Watches) /\ ToSet(r) = ToSet(ready) \cup {h}
      /\ x \in Seq(Soon) /\ ToSet(x) = ToSet(xqueue) \cup {h}
  BY <1>1, <1>2, AppendElements
<1>4. /\ UNCHANGED <<readers, batch, expired, heap, xtimers, dueTimers, cancelled, unwinds>>
      /\ \/ ready' = r /\ xqueue' = xqueue
         \/ ready' = ready /\ xqueue' = x
  BY <1>1 DEF CallSoon, xthread, tickVars
<1>5. Held \subseteq Held'
  BY <1>3, <1>4 DEF Held, Registered
<1>6. cancelled \cap Held' \subseteq cancelled' /\ cancelled' \subseteq Held'
  BY <1>4, <1>5 DEF HandlesGood, CancelledIsHeld
<1>7. ToSet(ready') \cap Watches = ToSet(ready) \cap Watches
  BY <1>3, <1>4, LoopAssumption
<1>8. WatchesApart'
  BY <1>4, <1>7 DEF HandlesGood, WatchesApart
<1>9. (ToSet(ready') \cup ToSet(batch')) \cap Watches \subseteq ToSet(ready) \cup ToSet(batch)
  BY <1>4, <1>7
<1>10. ready' \in Seq(Soon \cup Watches) /\ xqueue' \in Seq(Soon) /\ batch' \in Seq(Soon \cup Watches)
  BY <1>2, <1>3, <1>4
<1>11. QED
  BY <1>4, <1>6, <1>8, <1>9, <1>10, HandlesMoved

\* schedule_timer
LEMMA CallAtKeepsHandles ==
  ASSUME HandlesGood, TimersGood, TimersGood', NEW t \in Timers, NEW d \in 0..MaxTime, CallAt(t, d)
  PROVE  HandlesGood'
<1>1. PICK entry : entry = [when |-> d, timer |-> t]
  OBVIOUS
<1>2. PICK s, a : s = Schedule(heap, entry) /\ a = Append(xtimers, entry)
  OBVIOUS
<1>3. entry \in TimerEntry /\ heap \in Seq(TimerEntry) /\ xtimers \in Seq(TimerEntry)
  BY <1>1 DEF TimerEntry, TimersGood
<1>4. s \in Seq(TimerEntry) /\ ToSet(s) = ToSet(heap) \cup {entry}
  BY <1>2, <1>3, ScheduleKeeps
<1>5. a \in Seq(TimerEntry) /\ ToSet(a) = ToSet(xtimers) \cup {entry}
  BY <1>2, <1>3, AppendElements
<1>6. TimersOf(heap) \subseteq TimersOf(s) /\ TimersOf(xtimers) \subseteq TimersOf(a)
  BY <1>3, <1>4, <1>5, TimersIn
<1>7. /\ UNCHANGED <<ready, readers, batch, xqueue, expired, dueTimers, cancelled, unwinds>>
      /\ \/ heap' = s /\ xtimers' = xtimers
         \/ heap' = heap /\ xtimers' = a
  BY <1>1, <1>2 DEF CallAt, xthread, tickVars
<1>8. Held \subseteq Held'
  BY <1>6, <1>7 DEF Held, Registered
<1>9. cancelled \cap Held' \subseteq cancelled' /\ cancelled' \subseteq Held'
  BY <1>7, <1>8 DEF HandlesGood, CancelledIsHeld
<1>10. QED
  BY <1>7, <1>9, HandlesQuiet

\* add_reader and remove_reader: the displaced or removed watch is cancelled.
LEMMA ReadersKeepHandles ==
  ASSUME HandlesGood, TimersGood, TimersGood', NEW fd \in Fds, NEW w \in Watches \cup {None},
         readers' = [readers EXCEPT ![fd] = w], UNCHANGED <<ready, batch, xqueue, unwinds>>,
         SetCancelled(cancelled \cup {readers[fd]})
  PROVE  HandlesGood'
<1>1. readers \in [Fds -> Watches \cup {None}]
  BY DEF HandlesGood
<1>2. TypedHandles(ready', batch', xqueue', readers')
  BY <1>1 DEF HandlesGood, TypedHandles
<1>3. ASSUME NEW v \in Registered \ Registered' PROVE v = readers[fd]
  <2>1. PICK g \in Fds : readers[g] = v /\ v # None
    BY DEF Registered
  <2>2. readers'[g] # v
    BY <2>1 DEF Registered
  <2>3. QED
    BY <1>1, <2>1, <2>2
<1>4. /\ \A v \in Registered \ Registered' : v \in Held' => v \in cancelled'
      /\ cancelled \cap Held' \subseteq cancelled' /\ cancelled' \subseteq Held'
  BY <1>3 DEF SetCancelled
<1>5. WatchesApart'
  BY DEF HandlesGood, WatchesApart
<1>6. (ToSet(ready') \cup ToSet(batch')) \cap Watches \subseteq ToSet(ready) \cup ToSet(batch) \cup Registered \cup Registered'
  OBVIOUS
<1>7. QED
  BY <1>2, <1>4, <1>5, <1>6, HandlesStep

\* What is left of the batch, d, stays or goes back to the front.
LEMMA HandlesHandedBack ==
  ASSUME HandlesGood, TimersGood, TimersGood', UNCHANGED <<readers, xqueue>>, unwinds \in Nat,
         NEW d \in Seq(Soon \cup Watches), ToSet(d) \subseteq ToSet(batch),
         unwinds = 0 => Once(d, Watches),
         cancelled \cap Held' \subseteq cancelled', cancelled' \subseteq Held',
         \/ batch' = d /\ ready' = ready /\ unwinds' = unwinds
         \/ batch' = <<>> /\ ready' = d \o ready /\ unwinds' = unwinds + 1
  PROVE  HandlesGood'
<1>1. ready \in Seq(Soon \cup Watches) /\ xqueue \in Seq(Soon) /\ WatchesApart
  BY DEF HandlesGood
<1>2. PICK x : x = d \o ready
  OBVIOUS
<1>3. x \in Seq(Soon \cup Watches) /\ ToSet(x) = ToSet(d) \cup ToSet(ready)
  BY <1>1, <1>2, ConcatElements
<1>4. /\ ready' \in Seq(Soon \cup Watches) /\ batch' \in Seq(Soon \cup Watches) /\ xqueue' \in Seq(Soon)
      /\ (ToSet(ready') \cup ToSet(batch')) \cap Watches \subseteq ToSet(ready) \cup ToSet(batch)
  BY <1>1, <1>2, <1>3, Nothing
<1>5. WatchesApart'
  <2>1. SUFFICES ASSUME unwinds' = 0 PROVE ToSet(ready') \cap Watches = {} /\ Once(batch', Watches)
    BY DEF WatchesApart
  <2>2. batch' = d /\ ready' = ready /\ unwinds = 0
    BY <2>1
  <2>3. QED
    BY <1>1, <2>2 DEF WatchesApart
<1>6. QED
  BY <1>4, <1>5, HandlesMoved

\* The timers of two queues, one behind the other.
LEMMA TimersConcat ==
  ASSUME NEW s \in Seq(TimerEntry), NEW t \in Seq(TimerEntry)
  PROVE  TimersOf(s \o t) = TimersOf(s) \cup TimersOf(t)
<1>1. PICK x : x = s \o t
  OBVIOUS
<1>2. x \in Seq(TimerEntry) /\ ToSet(x) = ToSet(s) \cup ToSet(t)
  BY <1>1, ConcatElements
<1>3. \A u : u \in TimersOf(x) <=> u \in TimersOf(s) \/ u \in TimersOf(t)
  BY <1>2, TimersIn
<1>4. QED
  BY <1>1, <1>3

\* dispatch_events hands the timers back and forgets none.
LEMMA DispatchEventKeepsHeld ==
  ASSUME TimersGood, HandlesGood, DispatchEvent
  PROVE  Held \subseteq Held'
<1>1. /\ UNCHANGED <<heap, xqueue, xtimers, readers>> /\ batch = <<>> /\ batch' = <<>>
      /\ \/ ready' = ready /\ dueTimers' = dueTimers /\ expired' = expired
         \/ ready' = <<>> \o ready /\ dueTimers' = <<>> /\ expired' = dueTimers \o expired
  BY DEF DispatchEvent, HandBack, xthread
<1>2. /\ dueTimers \in Seq(TimerEntry) /\ expired \in Seq(TimerEntry)
      /\ ready \in Seq(Soon \cup Watches)
  BY DEF TimersGood, HandlesGood
<1>3. ready' = ready
  BY <1>1, <1>2
<1>4. TimersOf(dueTimers \o expired) = TimersOf(dueTimers) \cup TimersOf(expired)
  BY <1>2, TimersConcat
<1>5. TimersOf(dueTimers) \cup TimersOf(expired) \subseteq TimersOf(dueTimers') \cup TimersOf(expired')
  BY <1>1, <1>4
<1>6. QED
  BY <1>1, <1>3, <1>5 DEF Held, Registered

\* No step queues an unregistered watch, or one watch twice.
LEMMA StepHandles ==
  HandlesGood /\ TimersGood /\ FlagsGood /\ TimersGood' /\ [Next]_vars => HandlesGood'
<1> SUFFICES ASSUME HandlesGood, TimersGood, FlagsGood, TimersGood', [Next]_vars PROVE HandlesGood'
  OBVIOUS
<1>u. unwinds \in Nat
  BY LoopAssumption DEF FlagsGood
<1>b. /\ batch \in Seq(Soon \cup Watches) /\ ToSet(batch) \subseteq ToSet(batch)
      /\ unwinds = 0 => Once(batch, Watches)
  BY DEF HandlesGood, WatchesApart
<1>c. SetCancelled(cancelled) => cancelled \cap Held' \subseteq cancelled' /\ cancelled' \subseteq Held'
  BY DEF SetCancelled
<1>1. CASE TickImmediate
  <2>1. batch = <<>>
    BY <1>1 DEF TickImmediate, FlagsGood, Rested
  <2>2. PICK fds :
          /\ Unwatch(fds)
          /\ \/ /\ batch' = Drained \o SetToSeq(WatchesOf(fds)) /\ ready' = <<>> /\ unwinds' = unwinds
             \/ /\ ready' = Drained \o SetToSeq(WatchesOf(fds)) /\ batch' = <<>> /\ unwinds' = unwinds + 1
    BY <1>1, <2>1 DEF TickImmediate, TakeBatch, TakeAndHandBack, Unwind
  <2>3. SetCancelled(cancelled) /\ xqueue' = (IF wakePending THEN <<>> ELSE xqueue)
    BY <1>1 DEF TickImmediate, XThreadDrained
  <2>4. QED
    BY <1>u, <2>1, <2>2, <2>3, TakesBatch
<1>2. CASE Resume
  <2>1. batch = <<>>
    BY <1>2 DEF Resume, FlagsGood, Rested
  <2>2. PICK fds :
          /\ Unwatch(fds)
          /\ \/ /\ batch' = Drained \o SetToSeq(WatchesOf(fds)) /\ ready' = <<>> /\ unwinds' = unwinds
             \/ /\ ready' = Drained \o SetToSeq(WatchesOf(fds)) /\ batch' = <<>> /\ unwinds' = unwinds + 1
    BY <1>2, <2>1 DEF Resume, TakeBatch, TakeAndHandBack, Unwind
  <2>3. SetCancelled(cancelled) /\ xqueue' = (IF wakePending THEN <<>> ELSE xqueue)
    BY <1>2 DEF Resume, XThreadDrained
  <2>4. QED
    BY <1>u, <2>1, <2>2, <2>3, TakesBatch
<1>3. CASE TickParks
  <2>1. /\ UNCHANGED <<ready, batch, readers, unwinds>> /\ SetCancelled(cancelled)
        /\ xqueue' = (IF wakePending THEN <<>> ELSE xqueue)
    BY <1>3 DEF TickParks, XThreadDrained, tickVars
  <2>2. xqueue' \in Seq(Soon)
    BY <2>1, DrainedHandles
  <2>3. WatchesApart'
    BY <2>1 DEF HandlesGood, WatchesApart
  <2>4. (ToSet(ready') \cup ToSet(batch')) \cap Watches \subseteq ToSet(ready) \cup ToSet(batch)
    BY <2>1
  <2>5. ready' \in Seq(Soon \cup Watches) /\ batch' \in Seq(Soon \cup Watches)
    BY <2>1 DEF HandlesGood
  <2>6. QED
    BY <1>c, <2>1, <2>2, <2>3, <2>4, <2>5, HandlesMoved
<1>4. CASE ParkEnds \/ ParkTimesOut \/ SpinEnds
  BY <1>4, HandlesStill DEF ParkEnds, ParkTimesOut, SpinEnds, PollReturns, queues, tickVars, xthread
<1>5. CASE RunHandle
  <2>1. PICK d : d = Tail(batch)
    OBVIOUS
  <2>2. /\ batch # <<>> /\ UNCHANGED <<readers, xqueue>> /\ SetCancelled(cancelled)
        /\ \/ batch' = d /\ ready' = ready /\ unwinds' = unwinds
           \/ batch' = <<>> /\ ready' = d \o ready /\ unwinds' = unwinds + 1
    BY <1>5, <2>1 DEF RunHandle, HandBack, Unwind, xthread
  <2>3. d \in Seq(Soon \cup Watches) /\ ToSet(d) \subseteq ToSet(batch)
    BY <1>b, <2>1, <2>2, TailElements
  <2>4. unwinds = 0 => Once(d, Watches)
    BY <1>b, <2>1, <2>2, TailOnce
  <2>5. QED
    BY <1>u, <1>c, <2>2, <2>3, <2>4, HandlesHandedBack
<1>6. CASE DispatchEvent
  <2>1. /\ batch = <<>> /\ UNCHANGED <<readers, xqueue, cancelled>>
        /\ \/ batch' = batch /\ ready' = ready /\ unwinds' = unwinds
           \/ batch' = <<>> /\ ready' = batch \o ready /\ unwinds' = unwinds + 1
    BY <1>6 DEF DispatchEvent, HandBack, Unwind, xthread
  <2>2. cancelled \cap Held' \subseteq cancelled' /\ cancelled' \subseteq Held'
    BY <1>6, <2>1, DispatchEventKeepsHeld DEF HandlesGood, CancelledIsHeld
  <2>3. QED
    BY <1>u, <1>b, <2>1, <2>2, HandlesHandedBack
<1>7. CASE RunTimer
  <2>1. /\ batch = <<>> /\ UNCHANGED <<readers, xqueue>> /\ SetCancelled(cancelled)
        /\ \/ batch' = batch /\ ready' = ready /\ unwinds' = unwinds
           \/ batch' = <<>> /\ ready' = batch \o ready /\ unwinds' = unwinds + 1
    BY <1>7 DEF RunTimer, HandBack, Unwind, xthread
  <2>2. QED
    BY <1>u, <1>b, <1>c, <2>1, HandlesHandedBack
<1>8. CASE FlushCorked \/ TickEnds \/ RunForever \/ Stop
  BY <1>8, HandlesStill DEF FlushCorked, TickEnds, RunForever, Stop, queues, tickVars, xthread
<1>9. ASSUME NEW h \in Soon, CallSoon(h) PROVE HandlesGood'
  BY <1>9, CallSoonKeepsHandles
<1>10. ASSUME NEW t \in Timers, NEW d \in 0..MaxTime, CallAt(t, d) PROVE HandlesGood'
  BY <1>10, CallAtKeepsHandles
<1>11. ASSUME NEW h \in Handles, Cancel(h) PROVE HandlesGood'
  <2>1. /\ UNCHANGED <<ready, batch, xqueue, readers>> /\ unwinds' = unwinds
        /\ cancelled \cap Held' \subseteq cancelled' /\ cancelled' \subseteq Held'
    BY <1>11 DEF Cancel, SetCancelled, tickVars, xthread
  <2>2. QED
    BY <2>1, HandlesQuiet
<1>12. ASSUME NEW fd \in Fds, NEW w \in Watches, NEW refused \in BOOLEAN, AddReader(fd, w, refused)
       PROVE HandlesGood'
  <2>1. UNCHANGED <<ready, batch, xqueue, unwinds>>
    BY <1>12 DEF AddReader, queues, tickVars, xthread
  <2>2. CASE refused
    <3>1. readers' = readers /\ SetCancelled(cancelled \cup {w})
      BY <1>12, <2>2 DEF AddReader
    <3>2. cancelled \cap Held' \subseteq cancelled' /\ cancelled' \subseteq Held'
      BY <3>1 DEF SetCancelled
    <3>3. QED
      BY <2>1, <3>1, <3>2, HandlesQuiet
  <2>3. CASE ~refused
    <3>1. readers' = [readers EXCEPT ![fd] = w] /\ SetCancelled(cancelled \cup {readers[fd]})
      BY <1>12, <2>3 DEF AddReader
    <3>2. QED
      BY <2>1, <3>1, ReadersKeepHandles
  <2>4. QED
    BY <2>2, <2>3
<1>13. ASSUME NEW fd \in Fds, NEW refused \in BOOLEAN, RemoveReader(fd, refused) PROVE HandlesGood'
  <2>1. UNCHANGED <<ready, batch, xqueue, unwinds>>
    BY <1>13 DEF RemoveReader, queues, tickVars, xthread
  <2>2. CASE refused
    <3>1. readers' = readers /\ SetCancelled(cancelled)
      BY <1>13, <2>2 DEF RemoveReader
    <3>2. QED
      BY <1>c, <2>1, <3>1, HandlesQuiet
  <2>3. CASE ~refused
    <3>1. readers' = [readers EXCEPT ![fd] = None] /\ SetCancelled(cancelled \cup {readers[fd]})
      BY <1>13, <2>3 DEF RemoveReader
    <3>2. QED
      BY <2>1, <3>1, ReadersKeepHandles
  <2>4. QED
    BY <2>2, <2>3
<1>14. ASSUME NEW c \in Conns, TransportEvent(c) \/ OperationCompletes(c) PROVE HandlesGood'
  BY <1>14, HandlesStill DEF TransportEvent, OperationCompletes, queues, tickVars, xthread
<1>15. ASSUME NEW fd \in Fds, BecomesReadable(fd) PROVE HandlesGood'
  BY <1>15, HandlesStill DEF BecomesReadable, queues, tickVars, xthread
<1>16. CASE TimePasses
  BY <1>16, HandlesStill DEF TimePasses, queues, tickVars, xthread
<1>17. CASE PollFailed
  <2>1. /\ batch = <<>> /\ batch' = <<>> /\ readers' = readers /\ unwinds' = unwinds + 1
    BY <1>17 DEF PollFailed, Unwind, FlagsGood, Rested
  <2>2. WatchesApart'
    BY <1>u, <2>1 DEF WatchesApart
  <2>3. CASE mode = "parked" /\ UNCHANGED <<queues, xqueue, xtimers, wakePending, cancelled>>
    <3>1. UNCHANGED <<ready, expired, heap, dueTimers>>
      BY <1>17, <2>3 DEF PollFailed, queues
    <3>2. Held' = Held
      BY <2>1, <2>3, <3>1 DEF Held, Registered
    <3>3. cancelled \cap Held' \subseteq cancelled' /\ cancelled' \subseteq Held'
      BY <2>3, <3>2 DEF HandlesGood, CancelledIsHeld
    <3>4. (ToSet(ready') \cup ToSet(batch')) \cap Watches \subseteq ToSet(ready) \cup ToSet(batch)
      BY <2>1, <3>1
    <3>5. ready' \in Seq(Soon \cup Watches) /\ batch' \in Seq(Soon \cup Watches) /\ xqueue' \in Seq(Soon)
      BY <2>1, <2>3, <3>1 DEF HandlesGood
    <3>6. QED
      BY <2>1, <2>2, <3>3, <3>4, <3>5, HandlesMoved
  <2>4. CASE ready' = Drained /\ XThreadDrained /\ SetCancelled(cancelled)
    <3>1. xqueue' = (IF wakePending THEN <<>> ELSE xqueue)
      BY <2>4 DEF XThreadDrained
    <3>2. ready' \in Seq(Soon \cup Watches) /\ batch' \in Seq(Soon \cup Watches) /\ xqueue' \in Seq(Soon)
      BY <2>1, <2>4, <3>1, DrainedHandles, Nothing
    <3>3. (ToSet(ready') \cup ToSet(batch')) \cap Watches \subseteq ToSet(ready) \cup ToSet(batch)
      BY <2>1, <2>4, DrainedHandles, Nothing
    <3>4. QED
      BY <1>c, <2>1, <2>2, <2>4, <3>2, <3>3, HandlesMoved
  <2>5. QED
    BY <1>17, <2>3, <2>4 DEF PollFailed
<1>18. CASE Close
  <2>1. /\ ready' = <<>> /\ batch' = <<>> /\ xqueue' = <<>> /\ cancelled' = {}
        /\ readers' = [fd \in Fds |-> None]
    BY <1>18 DEF Close, FlagsGood, Rested, tickVars
  <2>2. Registered' = {}
    BY <2>1 DEF Registered
  <2>3. TypedHandles(ready', batch', xqueue', readers')
    BY <2>1, Nothing DEF TypedHandles
  <2>4. UnregisteredIsCancelled'
    BY <2>1, <2>2, <2>3, HeldNext, Nothing DEF UnregisteredIsCancelled, HeldKinds
  <2>5. CancelledIsHeld' /\ WatchesApart'
    BY <2>1, Nothing DEF CancelledIsHeld, WatchesApart, Once
  <2>6. QED
    BY <2>3, <2>4, <2>5 DEF HandlesGood, TypedHandles
<1>19. CASE UNCHANGED vars
  BY <1>19, HandlesStill DEF vars, queues, tickVars, xthread
<1>20. QED
  BY <1>1, <1>2, <1>3, <1>4, <1>5, <1>6, <1>7, <1>8, <1>9, <1>10, <1>11, <1>12, <1>13, <1>14, <1>15,
     <1>16, <1>17, <1>18, <1>19 DEF Next, LoopThread, Environment, Calls

-----------------------------------------------------------------------------
(* The theorem.                                                            *)

\* A new loop.
LEMMA InitLoop == Init => TimersGood /\ EventsGood /\ FlagsGood /\ HandlesGood
<1> SUFFICES ASSUME Init PROVE TimersGood /\ EventsGood /\ FlagsGood /\ HandlesGood
  OBVIOUS
<1>1. TimersGood
  <2>1. dueTimers = <<>> /\ expired = <<>> /\ heap = <<>> /\ xtimers = <<>> /\ now = 0
    BY DEF Init
  <2>2. TimersApart /\ TimersOnTime
    BY <2>1, Nothing DEF TimersApart, Apart, TimersOnTime, Sorted, Ordered
  <2>3. QED
    BY <2>1, <2>2, Nothing, LoopAssumption DEF TimersGood
<1>2. EventsGood
  <2>1. netEvents = <<>> /\ tickEvents = <<>> /\ kernelDone = <<>> /\ reapedOps = <<>>
    BY DEF Init
  <2>2. EventsApart
    BY <2>1, Nothing DEF EventsApart, Apart
  <2>3. QED
    BY <2>1, <2>2, Nothing DEF EventsGood
<1>3. FlagsGood
  <2>1. Rested /\ mode \in Modes /\ ioReady \in SUBSET Fds /\ reapedFds \in SUBSET Fds
    BY DEF Init, Rested, Modes
  <2>2. /\ stopping \in BOOLEAN /\ wakePending \in BOOLEAN /\ wake \in BOOLEAN /\ hadEvents \in BOOLEAN
    BY DEF Init
  <2>3. pollAge \in 0..SkipWindow /\ unwinds \in 0..MaxUnwinds
    BY LoopAssumption DEF Init
  <2>4. QED
    BY <2>1, <2>2, <2>3 DEF FlagsGood
<1>4. HandlesGood
  <2>1. /\ ready = <<>> /\ batch = <<>> /\ xqueue = <<>> /\ cancelled = {}
        /\ readers = [fd \in Fds |-> None]
    BY DEF Init
  <2>2. Registered = {}
    BY <2>1 DEF Registered
  <2>3. TypedHandles(ready, batch, xqueue, readers)
    BY <2>1, Nothing DEF TypedHandles
  <2>4. UnregisteredIsCancelled
    BY <1>1, <2>1, <2>2, <2>3, HeldNow, Nothing DEF UnregisteredIsCancelled, HeldKinds
  <2>5. CancelledIsHeld /\ WatchesApart
    BY <2>1, Nothing DEF CancelledIsHeld, WatchesApart, Once
  <2>6. QED
    BY <2>3, <2>4, <2>5 DEF HandlesGood, TypedHandles
<1>5. QED
  BY <1>1, <1>2, <1>3, <1>4

LoopInv == TimersGood /\ EventsGood /\ FlagsGood /\ HandlesGood

\* The invariant is inductive.
LEMMA StepLoop == LoopInv /\ [Next]_vars => LoopInv'
<1> SUFFICES ASSUME LoopInv, [Next]_vars PROVE LoopInv'
  OBVIOUS
<1>1. TimersGood /\ EventsGood /\ FlagsGood /\ HandlesGood /\ Rested
  BY DEF LoopInv, FlagsGood
<1>2. TimersGood' /\ EventsGood' /\ FlagsGood'
  BY <1>1, StepTimers, StepEvents, StepFlags
<1>3. HandlesGood'
  BY <1>1, <1>2, StepHandles
<1>4. QED
  BY <1>2, <1>3 DEF LoopInv

\* An index set with no two members has at most one.
LEMMA AtMostOne ==
  ASSUME NEW D, \A i, j \in D : i = j
  PROVE  Cardinality(D) <= 1
<1>1. CASE D = {}
  BY <1>1, FS_EmptySet
<1>2. CASE D # {}
  <2>1. PICK i : i \in D
    BY <1>2
  <2>2. D = {i}
    BY <2>1
  <2>3. Cardinality({i}) = 1
    BY FS_Singleton
  <2>4. QED
    BY <2>2, <2>3
<1>3. QED
  BY <1>1, <1>2

\* Until something unwinds, each watch is queued at most once.
LEMMA QueuedOnce ==
  ASSUME HandlesGood
  PROVE  WatchQueuedOnce
<1> SUFFICES ASSUME unwinds = 0, NEW w \in Watches PROVE QueuedTimes(w) <= 1
  BY DEF WatchQueuedOnce
<1>1. /\ batch \in Seq(Soon \cup Watches) /\ ready \in Seq(Soon \cup Watches)
      /\ ToSet(ready) \cap Watches = {} /\ Once(batch, Watches)
  BY DEF HandlesGood, WatchesApart
<1>2. PICK q : q = batch \o ready
  OBVIOUS
<1>3. /\ Len(q) = Len(batch) + Len(ready) /\ Len(batch) \in Nat /\ Len(ready) \in Nat
      /\ \A k \in 1..(Len(batch) + Len(ready)) :
           q[k] = IF k <= Len(batch) THEN batch[k] ELSE ready[k - Len(batch)]
  BY <1>1, <1>2, ConcatProperties
<1>4. \A k \in 1..Len(ready) : ready[k] # w
  BY <1>1, Elements
<1>5. PICK D : D = {i \in 1..Len(q) : q[i] = w}
  OBVIOUS
<1>6. \A i \in D : i \in 1..Len(batch) /\ batch[i] = w
  <2> SUFFICES ASSUME NEW i \in D PROVE i \in 1..Len(batch) /\ batch[i] = w
    OBVIOUS
  <2>1. i \in 1..(Len(batch) + Len(ready)) /\ q[i] = w
    BY <1>3, <1>5
  <2>2. CASE i <= Len(batch)
    BY <1>3, <2>1, <2>2
  <2>3. CASE ~(i <= Len(batch))
    <3>1. i - Len(batch) \in 1..Len(ready) /\ q[i] = ready[i - Len(batch)]
      BY <1>3, <2>1, <2>3
    <3>2. QED
      BY <1>4, <2>1, <3>1
  <2>4. QED
    BY <2>2, <2>3
<1>7. \A i, j \in D : i = j
  BY <1>1, <1>6 DEF Once
<1>8. Cardinality(D) <= 1
  BY <1>7, AtMostOne
<1>9. QED
  BY <1>2, <1>5, <1>8 DEF QueuedTimes

\* The invariant and what follows from it.
LEMMA LoopSound == LoopInv => WatchesSound
<1> SUFFICES ASSUME LoopInv PROVE WatchesSound
  OBVIOUS
<1>1. TimersGood /\ EventsGood /\ FlagsGood /\ HandlesGood
  BY DEF LoopInv
<1>2. TypedHandles(ready, batch, xqueue, readers)
  BY <1>1 DEF HandlesGood, TypedHandles
<1>3. cancelled \in SUBSET Handles
  BY <1>1, <1>2, HeldNow DEF HeldKinds, HandlesGood, CancelledIsHeld
<1>4. TypeOK
  BY <1>1, <1>3 DEF TypeOK, TimersGood, EventsGood, FlagsGood, HandlesGood
<1>5. UnregisteredIsCancelled /\ WatchQueuedOnce
  BY <1>1, QueuedOnce DEF HandlesGood
<1>6. QED
  BY <1>4, <1>5 DEF WatchesSound

\* Everything the loop thread relies on, at every step of every schedule:
\* the queues are typed and disjoint, no timer is early, no event doubled.
THEOREM LoopIsSound == Spec => []LoopInv
<1>1. Init => LoopInv
  BY InitLoop DEF LoopInv
<1>2. QED
  BY <1>1, StepLoop, PTL DEF Spec

\* add_reader, remove_reader, translate and absorb_into_batch: a watch's
\* callback runs only for a registration that stands, and once for one
\* readiness event.
THEOREM WatchesAreSound == Spec => []WatchesSound
BY LoopIsSound, LoopSound, PTL

=============================================================================
