--------------------------- MODULE WebSocket_proofs ---------------------------
(***************************************************************************)
(* Proofs about WebSocket: what is on the wire, and what a session that    *)
(* does not read waits for.                                                *)
(***************************************************************************)
EXTENDS WebSocket, Filtering_proofs

-----------------------------------------------------------------------------
(* What the proofs look at.  A session is a record; its other fields are   *)
(* left out of account.                                                    *)

Watched == {"open", "closing", "disconnected", "reading", "inbox_paused", "inbox_bytes", "out", "sent",
            "accepted", "ws_closing", "connect_sent", "held", "taken", "inbox", "q", "recv_waiters",
            "tasks", "assembled", "trailing", "input", "ready", "lingering"}

Kinds == {"accept", "error", "close", "pong", "message"}
FrameRecord == [kind : Kinds, msg : Int]

\* The types of what is watched; and only a closing session lingers.
Shape(c) ==
  /\ c.lingering => c.closing
  /\ Watched \subseteq DOMAIN c /\ {"items", "joiners"} \subseteq DOMAIN c.q
  /\ c.inbox_paused \in BOOLEAN /\ c.inbox_bytes \in Nat /\ c.sent \in Nat /\ c.assembled \in Nat
  /\ c.out \in Seq(FrameRecord) /\ c.inbox \in Seq(Int) /\ c.q.items \in Seq(Int)
  /\ Listed(c.recv_waiters) /\ Listed(c.q.joiners) /\ Listed(c.trailing) /\ Listed(c.input)
  /\ c.ready \in Seq(Tasks) /\ c.held \in [Tasks -> Int] /\ c.taken \in [Tasks -> Int]
  /\ \A t \in Tasks : t \in DOMAIN c.tasks /\ "at" \in DOMAIN c.tasks[t]

\* The tasks suspended in Queue.put.
Putting(c) == {t \in Tasks : c.tasks[t].at = "put"}

SameData(c, d) ==
  /\ d.out = c.out /\ d.sent = c.sent /\ d.accepted = c.accepted /\ d.ws_closing = c.ws_closing
  /\ d.connect_sent = c.connect_sent /\ d.held = c.held /\ d.taken = c.taken
  /\ d.q.items = c.q.items /\ Putting(d) \subseteq Putting(c)

SameSession(c, d) ==
  /\ SameData(c, d)
  /\ d.open = c.open /\ d.closing = c.closing /\ d.disconnected = c.disconnected
  /\ d.inbox = c.inbox /\ d.inbox_bytes = c.inbox_bytes

\* d is c as far as it is watched.
Quiet(c, d) ==
  /\ Shape(d) /\ SameSession(c, d)
  /\ d.recv_waiters = c.recv_waiters /\ d.reading = c.reading /\ d.inbox_paused = c.inbox_paused

-----------------------------------------------------------------------------
(* Futures, tasks and the queue: most of it is not watched.                *)

\* Nothing happens.
LEMMA QuietSelf == ASSUME NEW c, Shape(c) PROVE Quiet(c, c)
  BY DEF Quiet, SameSession, SameData

\* Two quiet steps are one.
LEMMA QuietTwice == ASSUME NEW c, NEW d, NEW e, Quiet(c, d), Quiet(d, e) PROVE Quiet(c, e)
  BY DEF Quiet, SameSession, SameData

\* Those who wait for a future are tasks.
LEMMA WaitersLinedUp == ASSUME NEW c, NEW f PROVE SetToSeq({t \in Tasks : c.tasks[t].wait = f}) \in Seq(Tasks)
<1>1. PICK S : S = {t \in Tasks : c.tasks[t].wait = f}
  OBVIOUS
<1>2. S \subseteq Tasks /\ IsFiniteSet(Tasks)
  BY <1>1, TaskAssumption DEF TaskAssumption
<1>3. SetToSeq(S) \in Seq(S)
  BY <1>2, FS_Subset, LinedUp
<1>4. SetToSeq(S) \in Seq(Tasks)
  BY <1>2, <1>3
<1>5. QED
  BY <1>1, <1>4

\* The ready queue changes.
LEMMA QuietReady == ASSUME NEW c, NEW r \in Seq(Tasks), Shape(c) PROVE Quiet(c, [c EXCEPT !.ready = r])
  BY DEF Shape, Quiet, SameSession, SameData, Putting, Watched

\* A wake-up is queued.
LEMMA QuietScheduled == ASSUME NEW c, NEW f, Shape(c) PROVE Quiet(c, Scheduled(c, f))
<1>1. PICK w : w = SetToSeq({t \in Tasks : c.tasks[t].wait = f})
  OBVIOUS
<1>2. c.ready \in Seq(Tasks) /\ w \in Seq(Tasks)
  BY <1>1, WaitersLinedUp, ZenonT(40) DEF Shape
<1>3. c.ready \o w \in Seq(Tasks)
  BY <1>2
<1>4. QED
  BY <1>1, <1>3, QuietReady DEF Scheduled

\* A future changes its state.
LEMMA QuietFut == ASSUME NEW c, NEW f, NEW v, Shape(c) PROVE Quiet(c, [c EXCEPT !.fut[f] = v])
  BY DEF Shape, Quiet, SameSession, SameData, Putting, Watched

\* A future is resolved.
LEMMA QuietResolve == ASSUME NEW c, NEW f, NEW result, Shape(c) PROVE Quiet(c, Resolve(c, f, result))
<1>1. Quiet(c, [c EXCEPT !.fut[f] = result])
  BY QuietFut
<1>2. Quiet([c EXCEPT !.fut[f] = result], Scheduled([c EXCEPT !.fut[f] = result], f))
  BY <1>1, QuietScheduled DEF Quiet
<1>3. QED
  BY <1>1, <1>2, QuietSelf, QuietTwice DEF Resolve

\* A task suspends on a future, elsewhere than in Queue.put.
LEMMA QuietAwait ==
  ASSUME NEW c, NEW t \in Tasks, NEW at, NEW f, Shape(c), at # "put" PROVE Quiet(c, Await(c, t, at, f))
<1>1. PICK p : p = [c EXCEPT !.tasks[t].at = at, !.tasks[t].wait = f, !.running = Nobody]
  OBVIOUS
<1>2. PICK l : l = [p EXCEPT !.fut[f] = "cancelled", !.tasks[t].must_cancel = FALSE]
  OBVIOUS
<1>3. Quiet(c, p)
  BY <1>1 DEF Shape, Quiet, SameSession, SameData, Putting, Watched
<1>4. Shape(p)
  BY <1>3 DEF Quiet
<1>5. Quiet(p, l)
  BY <1>2, <1>4 DEF Shape, Quiet, SameSession, SameData, Putting, Watched
<1>6. Quiet(c, l) /\ Shape(l)
  BY <1>3, <1>5, QuietTwice DEF Quiet
<1>7. Quiet(c, Scheduled(p, f)) /\ Quiet(c, Scheduled(l, f))
  BY <1>3, <1>4, <1>6, QuietScheduled, QuietTwice
<1>8. Await(c, t, at, f) \in {p, Scheduled(p, f), Scheduled(l, f)}
  BY <1>1, <1>2 DEF Await
<1>9. QED
  BY <1>3, <1>7, <1>8

\* A task yields.
LEMMA QuietYield ==
  ASSUME NEW c, NEW t \in Tasks, NEW at, Shape(c), at # "put" PROVE Quiet(c, Yield(c, t, at))
<1>1. PICK r : r = Append(c.ready, t)
  OBVIOUS
<1>2. r \in Seq(Tasks)
  BY <1>1 DEF Shape
<1>3. PICK d : d = [c EXCEPT !.tasks[t].at = at, !.tasks[t].wait = NoFuture, !.running = Nobody, !.ready = r]
  OBVIOUS
<1>4. Quiet(c, d)
  BY <1>2, <1>3 DEF Shape, Quiet, SameSession, SameData, Putting, Watched
<1>5. d = Yield(c, t, at)
  BY <1>1, <1>3 DEF Yield, Shape, Watched
<1>6. QED
  BY <1>4, <1>5

\* A task goes on elsewhere.
LEMMA QuietAt ==
  ASSUME NEW c, NEW t \in Tasks, NEW at, Shape(c), at # "put" PROVE Quiet(c, [c EXCEPT !.tasks[t].at = at])
  BY DEF Shape, Quiet, SameSession, SameData, Putting, Watched

\* A task is stepped.
LEMMA QuietStep ==
  ASSUME NEW c, NEW t \in Tasks, Shape(c), c.ready # <<>> PROVE Quiet(c, Step(c, t))
<1>1. PICK r : r = Tail(c.ready)
  OBVIOUS
<1>2. r \in Seq(Tasks)
  BY <1>1 DEF Shape
<1>3. PICK o : o = (c.tasks[t].owed /\ ~Thrown(c, t))
  OBVIOUS
<1>4. PICK d : d = [c EXCEPT !.ready = r, !.running = t, !.tasks[t].wait = NoFuture,
                             !.tasks[t].must_cancel = FALSE, !.tasks[t].at = "run", !.tasks[t].owed = o]
  OBVIOUS
<1>5. Quiet(c, d)
  BY <1>2, <1>4 DEF Shape, Quiet, SameSession, SameData, Putting, Watched
<1>6. d = Step(c, t)
  BY <1>1, <1>3, <1>4 DEF Step, Shape, Watched
<1>7. QED
  BY <1>5, <1>6

\* A task ends.
LEMMA QuietFinish == ASSUME NEW c, NEW t \in Tasks, Shape(c) PROVE Quiet(c, Finish(c, t))
  BY SMTT(60) DEF Shape, Quiet, SameSession, SameData, Putting, Watched, Finish

\* Futures are forgotten.
LEMMA QuietCollect == ASSUME NEW c, NEW held, Shape(c) PROVE Quiet(c, Collect(c, held))
  BY DEF Shape, Quiet, SameSession, SameData, Putting, Watched, Collect

\* Events are queued.
LEMMA QuietPushAll == ASSUME NEW c, NEW kind, NEW futs, Shape(c) PROVE Quiet(c, PushAll(c, kind, futs))
  BY DEF Shape, Quiet, SameSession, SameData, Putting, Watched, PushAll

\* A task is cancelled.
LEMMA QuietCancelTask == ASSUME NEW c, NEW t \in Tasks, Shape(c) PROVE Quiet(c, CancelTask(c, t))
<1>1. PICK f : f = c.tasks[t].wait
  OBVIOUS
<1>2. PICK a : a = [c EXCEPT !.tasks[t].owed = TRUE]
  OBVIOUS
<1>3. PICK d, e : d = [a EXCEPT !.fut[f] = "cancelled"] /\ e = [a EXCEPT !.tasks[t].must_cancel = TRUE]
  OBVIOUS
<1>4. Quiet(c, a)
  BY <1>2 DEF Shape, Quiet, SameSession, SameData, Putting, Watched
<1>5. Shape(a)
  BY <1>4 DEF Quiet
<1>6. Quiet(a, e)
  BY <1>3, <1>5 DEF Shape, Quiet, SameSession, SameData, Putting, Watched
<1>7. Quiet(a, d)
  BY <1>3, <1>5, QuietFut
<1>8. Quiet(c, e) /\ Quiet(c, d)
  BY <1>4, <1>6, <1>7, QuietTwice
<1>9. Quiet(c, Scheduled(d, f))
  BY <1>8, QuietScheduled, QuietTwice DEF Quiet
<1>10. CancelTask(c, t) \in {c, e, Scheduled(d, f)}
  BY <1>1, <1>2, <1>3 DEF CancelTask
<1>11. QED
  BY <1>8, <1>9, <1>10, QuietSelf

\* What ResolveAll goes through.
Resolves(f, c, futs, result) ==
  /\ ResolveAll(c, futs, result) = f[Len(futs)] /\ f[0] = c
  /\ \A i \in 1..Len(futs) : f[i] = Resolve(f[i - 1], futs[i], result)

\* A loop over futures ends.
LEMMA Resolving ==
  ASSUME NEW c, NEW futs, NEW result, Listed(futs)
  PROVE  \E f : Resolves(f, c, futs, result)
<1> DEFINE n == Len(futs)
           Of(f, k) == [i \in 0..k |-> IF i = 0 THEN c
                                       ELSE Then(f[i - 1], LAMBDA d : Resolve(d, futs[i], result))]
           A == {k \in 0..n : \E f : f = Of(f, k)}
<1>1. n \in Nat
  BY DEF Listed
<1>2. \A d, g : Then(d, LAMBDA e : Resolve(e, g, result)) = Resolve(d, g, result)
  BY DEF Then
<1>3. 0 \in A
  <2> DEFINE f == [i \in 0..0 |-> c]
  <2>1. f = Of(f, 0)
    OBVIOUS
  <2> HIDE DEF f, Of
  <2>2. QED
    BY <1>1, <2>1
<1>4. ASSUME NEW k \in 0..n, k \in A, k < n PROVE k + 1 \in A
  <2>1. PICK f : f = Of(f, k)
    BY <1>4
  <2> DEFINE h == [i \in 0..(k + 1) |-> IF i = k + 1 THEN Resolve(f[k], futs[k + 1], result) ELSE f[i]]
  <2>2. ASSUME NEW i \in 0..(k + 1)
        PROVE h[i] = IF i = 0 THEN c ELSE Then(h[i - 1], LAMBDA d : Resolve(d, futs[i], result))
    <3>1. CASE i = k + 1
      <4>1. k \in 0..(k + 1) /\ h[k] = f[k] /\ i # 0 /\ i - 1 = k
        BY <1>1, <3>1
      <4>2. h[i] = Resolve(f[k], futs[k + 1], result)
        BY <3>1
      <4>3. QED
        BY <1>2, <3>1, <4>1, <4>2
    <3>2. CASE i \in 0..k
      <4>1. i # k + 1 /\ h[i] = f[i]
        BY <1>1, <3>2
      <4>2. f[i] = IF i = 0 THEN c ELSE Then(f[i - 1], LAMBDA d : Resolve(d, futs[i], result))
        BY <2>1, <3>2
      <4>3. i # 0 => i - 1 \in 0..(k + 1) /\ i - 1 # k + 1 /\ h[i - 1] = f[i - 1]
        BY <1>1, <3>2
      <4> HIDE DEF h
      <4>4. QED
        BY <4>1, <4>2, <4>3
    <3>3. QED
      BY <1>1, <3>1, <3>2
  <2>3. h = Of(h, k + 1)
    <3>1. h = [i \in 0..(k + 1) |-> h[i]]
      OBVIOUS
    <3> HIDE DEF h
    <3>2. QED
      BY <2>2, <3>1, Zenon
  <2> HIDE DEF h, Of
  <2>4. QED
    BY <1>1, <1>4, <2>3
<1>5. n \in A
  <2> HIDE DEF A, n
  <2>1. \A i \in 0..n : i \in A
    BY <1>1, <1>3, <1>4, UpTo
  <2>2. QED
    BY <1>1, <2>1
<1> DEFINE h == CHOOSE f : f = Of(f, n)
<1>6. h = Of(h, n)
  <2>1. \E f : f = Of(f, n)
    BY <1>5
  <2> HIDE DEF Of
  <2>2. QED
    BY <2>1
<1>7. ResolveAll(c, futs, result) = h[n]
  BY Zenon DEF ResolveAll
<1> HIDE DEF h
<1>8. h[0] = c
  BY <1>1, <1>6
<1>9. ASSUME NEW i \in 1..n PROVE h[i] = Resolve(h[i - 1], futs[i], result)
  <2>1. i \in 0..n /\ i # 0
    BY <1>1
  <2>2. h[i] = Then(h[i - 1], LAMBDA d : Resolve(d, futs[i], result))
    BY <1>6, <2>1
  <2>3. QED
    BY <1>2, <2>2
<1>10. Resolves(h, c, futs, result)
  BY <1>7, <1>8, <1>9 DEF Resolves
<1>11. QED
  BY <1>10

\* Several futures are resolved.
LEMMA QuietResolveAll ==
  ASSUME NEW c, NEW futs, NEW result, Shape(c), Listed(futs) PROVE Quiet(c, ResolveAll(c, futs, result))
<1> DEFINE n == Len(futs)
<1>1. n \in Nat
  BY DEF Listed
<1>2. PICK f : Resolves(f, c, futs, result)
  BY Resolving
<1> DEFINE A == {k \in 0..n : Quiet(c, f[k])}
<1>3. 0 \in A
  BY <1>1, <1>2, QuietSelf DEF Resolves
<1>4. ASSUME NEW k \in 0..n, k \in A, k < n PROVE k + 1 \in A
  <2>1. k + 1 \in 1..n /\ k + 1 \in 0..n /\ (k + 1) - 1 = k
    BY <1>1, <1>4
  <2>2. f[k + 1] = Resolve(f[k], futs[k + 1], result)
    BY <1>2, <2>1 DEF Resolves
  <2>3. Quiet(c, f[k])
    BY <1>4
  <2>4. Shape(f[k])
    BY <2>3 DEF Quiet
  <2>5. Quiet(f[k], f[k + 1])
    BY <2>2, <2>4, QuietResolve
  <2>6. QED
    BY <2>1, <2>3, <2>5, QuietTwice
<1>5. n \in A
  <2> HIDE DEF A, n
  <2>1. \A i \in 0..n : i \in A
    BY <1>1, <1>3, <1>4, UpTo
  <2>2. QED
    BY <1>1, <2>1
<1>6. QED
  BY <1>2, <1>5 DEF Resolves

\* A waiter's place in the queue is not watched.
LEMMA QuietWaiters ==
  ASSUME NEW c, NEW w, Shape(c)
  PROVE  Quiet(c, [c EXCEPT !.q.getters = w]) /\ Quiet(c, [c EXCEPT !.q.putters = w])
  BY DEF Shape, Quiet, SameSession, SameData, Putting, Watched

\* A joiner's is, as far as they are a sequence.
LEMMA QuietJoiners ==
  ASSUME NEW c, NEW w, NEW u, Shape(c), Listed(w)
  PROVE  Quiet(c, [c EXCEPT !.q.unfinished = u, !.q.joiners = w]) /\ Quiet(c, [c EXCEPT !.q.joiners = w])
         /\ Quiet(c, [c EXCEPT !.q.unfinished = u])
  BY DEF Shape, Quiet, SameSession, SameData, Putting, Watched

\* A getter or a putter is woken.
LEMMA QuietWake ==
  ASSUME NEW c, Shape(c) PROVE Quiet(c, WakeGetter(c)) /\ Quiet(c, WakePutter(c))
<1>1. Quiet(c, WakeGetter(c))
  <2>1. PICK w : w = Behind(c, c.q.getters)
    OBVIOUS
  <2>2. PICK d : d = [c EXCEPT !.q.getters = Tail(w)]
    OBVIOUS
  <2>3. Quiet(c, d) /\ Quiet(c, [c EXCEPT !.q.getters = <<>>])
    BY <2>2, QuietWaiters
  <2>4. Quiet(d, Resolve(d, Head(w), "none"))
    BY <2>3, QuietResolve DEF Quiet
  <2>5. Quiet(c, Resolve(d, Head(w), "none"))
    BY <2>3, <2>4, QuietTwice
  <2>6. WakeGetter(c) = IF w = <<>> THEN [c EXCEPT !.q.getters = <<>>] ELSE Resolve(d, Head(w), "none")
    BY <2>1, <2>2, Zenon DEF WakeGetter
  <2>7. QED
    BY <2>3, <2>5, <2>6
<1>2. Quiet(c, WakePutter(c))
  <2>1. PICK w : w = Behind(c, c.q.putters)
    OBVIOUS
  <2>2. PICK d : d = [c EXCEPT !.q.putters = Tail(w)]
    OBVIOUS
  <2>3. Quiet(c, d) /\ Quiet(c, [c EXCEPT !.q.putters = <<>>])
    BY <2>2, QuietWaiters
  <2>4. Quiet(d, Resolve(d, Head(w), "none"))
    BY <2>3, QuietResolve DEF Quiet
  <2>5. Quiet(c, Resolve(d, Head(w), "none"))
    BY <2>3, <2>4, QuietTwice
  <2>6. WakePutter(c) = IF w = <<>> THEN [c EXCEPT !.q.putters = <<>>] ELSE Resolve(d, Head(w), "none")
    BY <2>1, <2>2, Zenon DEF WakePutter
  <2>7. QED
    BY <2>3, <2>5, <2>6
<1>3. QED
  BY <1>1, <1>2

\* A cancelled waiter leaves the queue.
LEMMA QuietRecovery ==
  ASSUME NEW c, NEW f, Shape(c)
  PROVE  Quiet(c, GetterRecovery(c, f)) /\ Quiet(c, PutterRecovery(c, f)) /\ Quiet(c, Unjoin(c, f))
<1>1. Quiet(c, GetterRecovery(c, f))
  <2>1. PICK d : d = [c EXCEPT !.q.getters = Only(@, Futures \ {f})]
    OBVIOUS
  <2>2. Quiet(c, d)
    BY <2>1, QuietWaiters
  <2>3. Quiet(c, WakeGetter(d))
    BY <2>2, QuietWake, QuietTwice DEF Quiet
  <2>4. GetterRecovery(c, f) \in {d, WakeGetter(d)}
    BY <2>1 DEF GetterRecovery, Then
  <2>5. QED
    BY <2>2, <2>3, <2>4
<1>2. Quiet(c, PutterRecovery(c, f))
  <2>1. PICK d : d = [c EXCEPT !.q.putters = Only(@, Futures \ {f})]
    OBVIOUS
  <2>2. Quiet(c, d)
    BY <2>1, QuietWaiters
  <2>3. Quiet(c, WakePutter(d))
    BY <2>2, QuietWake, QuietTwice DEF Quiet
  <2>4. PutterRecovery(c, f) \in {d, WakePutter(d)}
    BY <2>1 DEF PutterRecovery, Then
  <2>5. QED
    BY <2>2, <2>3, <2>4
<1>3. Quiet(c, Unjoin(c, f))
  <2>1. Listed(Only(c.q.joiners, Futures \ {f}))
    BY ListedOnly DEF Shape
  <2>2. QED
    BY <2>1, QuietJoiners DEF Unjoin
<1>4. QED
  BY <1>1, <1>2, <1>3

\* A task parks as a getter or as a joiner.
LEMMA QuietPark ==
  ASSUME NEW c, NEW t \in Tasks, NEW f, Shape(c)
  PROVE  Quiet(c, ParkGetter(c, t, f)) /\ Quiet(c, ParkJoiner(c, t, f))
<1>1. PICK d : d = [c EXCEPT !.fut[f] = "pending"]
  OBVIOUS
<1>2. Quiet(c, d) /\ Shape(d)
  BY <1>1, QuietFut DEF Quiet
<1>3. Quiet(c, ParkGetter(c, t, f))
  <2>1. PICK e : e = [d EXCEPT !.q.getters = Append(c.q.getters, f)]
    OBVIOUS
  <2>2. Quiet(d, e)
    BY <1>2, <2>1, QuietWaiters
  <2>3. e = [c EXCEPT !.fut[f] = "pending", !.q.getters = Append(@, f)]
    BY <1>1, <1>2, <2>1 DEF Shape, Watched
  <2>4. Quiet(e, Await(e, t, "get", f))
    BY <2>2, QuietAwait DEF Quiet
  <2>5. QED
    BY <1>2, <2>2, <2>3, <2>4, QuietTwice DEF ParkGetter
<1>4. Quiet(c, ParkJoiner(c, t, f))
  <2>1. PICK e : e = [d EXCEPT !.q.joiners = Append(c.q.joiners, f)]
    OBVIOUS
  <2>2. Quiet(d, e)
    BY <1>2, <2>1, QuietJoiners, ListedAppend DEF Shape
  <2>3. e = [c EXCEPT !.fut[f] = "pending", !.q.joiners = Append(@, f)]
    BY <1>1, <1>2, <2>1 DEF Shape, Watched
  <2>4. Quiet(e, Await(e, t, "join", f))
    BY <2>2, QuietAwait DEF Quiet
  <2>5. QED
    BY <1>2, <2>2, <2>3, <2>4, QuietTwice DEF ParkJoiner
<1>5. QED
  BY <1>3, <1>4

\* An item is marked done.
LEMMA QuietTaskDone == ASSUME NEW c, Shape(c) PROVE Quiet(c, TaskDone(c))
<1>1. Quiet(c, [c EXCEPT !.q.unfinished = @ - 1])
  BY QuietJoiners, ListedEmpty
<1>2. PICK d : d = [c EXCEPT !.q.unfinished = 0, !.q.joiners = <<>>]
  OBVIOUS
<1>3. Quiet(c, d)
  BY <1>2, QuietJoiners, ListedEmpty
<1>4. Quiet(d, ResolveAll(d, c.q.joiners, "none"))
  <2>1. Shape(d)
    BY <1>3 DEF Quiet
  <2>2. Listed(c.q.joiners)
    BY DEF Shape
  <2>3. QED
    BY <2>1, <2>2, QuietResolveAll
<1>5. TaskDone(c) \in {[c EXCEPT !.q.unfinished = @ - 1], ResolveAll(d, c.q.joiners, "none")}
  BY <1>2 DEF TaskDone
<1>6. QED
  BY <1>1, <1>3, <1>4, <1>5, QuietTwice

-----------------------------------------------------------------------------
(* The invariant.                                                          *)

Live(c) == c.open /\ ~c.closing

\* WireSound, of what was enqueued.
InOrder(out) ==
  /\ out # <<>> => out[1].kind \in {"accept", "error"}
  /\ \A i, j \in 1..Len(out) : i < j =>
       out[i].kind # "error" /\ (out[i].kind = "close" => out[j].kind = "pong") /\ out[j].kind # "accept"

Without(out, kind) == \A i \in 1..Len(out) : out[i].kind # kind

\* What the flags of a session that may still send say of what it sent.
Told(c) ==
  Live(c) => /\ c.accepted <=> c.out # <<>>
             /\ Without(c.out, "error")
             /\ ~c.ws_closing => Without(c.out, "close")

NoConnect(seq) == \A i \in 1..Len(seq) : seq[i] # Connect

\* websocket.connect is given out once: nobody can accept a session twice.
ConnectOnce(c) ==
  /\ \A t \in Tasks : c.held[t] = Connect \/ c.taken[t] = Connect => c.connect_sent
  /\ \A t, u \in Tasks : ~(c.held[t] = Connect /\ c.taken[u] = Connect)
  /\ \A t, u \in Tasks : c.held[t] = Connect /\ c.held[u] = Connect => t = u
  /\ \A t, u \in Tasks : c.taken[t] = Connect /\ c.taken[u] = Connect => t = u
  /\ NoConnect(c.inbox) /\ NoConnect(c.q.items)
  /\ \A t \in Putting(c) : c.held[t] # Connect
Accounted(c) ==
  Live(c) /\ c.accepted => c.connect_sent /\ \A t \in Tasks : c.held[t] # Connect /\ c.taken[t] # Connect

\* A session that does not read is paused, a paused one is pressed.
Healthy(c) == Live(c) /\ ~c.disconnected
Pressed(c) == c.inbox_bytes * 2 >= MaxInbox \/ Unsent(c) > Low
PauseSound(c) == Healthy(c) /\ c.inbox_paused => Pressed(c)
ReadSound(c) == Healthy(c) /\ ~c.reading => c.inbox_paused

\* A receive() is parked only beside an empty inbox.
MailSound(c) == c.open => c.inbox = <<>> \/ c.recv_waiters = <<>>

WireInv(c) == InOrder(c.out) /\ Told(c) /\ ConnectOnce(c) /\ Accounted(c)
SessionInv(c) == Shape(c) /\ WireInv(c) /\ PauseSound(c) /\ ReadSound(c) /\ MailSound(c)

-----------------------------------------------------------------------------
(* A connection on its way down: less open than before, or as open and     *)
(* reading again.                                                          *)

Down(c, d) ==
  /\ Shape(d) /\ SameData(c, d) /\ d.inbox_bytes = c.inbox_bytes
  /\ d.open => c.open /\ d.inbox = c.inbox /\ d.recv_waiters = c.recv_waiters
  /\ d.inbox \in {c.inbox, <<>>}
  /\ Live(d) => Live(c) /\ d.disconnected = c.disconnected /\ d.inbox_paused = c.inbox_paused
                        /\ (c.reading => d.reading)

\* Nothing that is watched happens.
LEMMA QuietDown == ASSUME NEW c, NEW d, Quiet(c, d) PROVE Down(c, d)
  BY DEF Quiet, Down, SameSession, Live

\* Two steps down are one.
LEMMA DownTwice == ASSUME NEW c, NEW d, NEW e, Down(c, d), Down(d, e) PROVE Down(c, e)
<1>1. SameData(c, e)
  BY DEF Down, SameData
<1>2. QED
  BY <1>1 DEF Down

\* teardown_lost
LEMMA TeardownDown == ASSUME NEW c, Shape(c) PROVE Down(c, Teardown(c)) /\ ~Teardown(c).open
<1>1. CASE ~c.open
  <2>1. Teardown(c) = c
    BY <1>1 DEF Teardown
  <2>2. QED
    BY <1>1, <2>1, QuietSelf, QuietDown
<1>2. CASE c.open
  <2>1. PICK d : d = [c EXCEPT !.open = FALSE, !.reading = FALSE, !.disconnected = TRUE,
                      !.recv_waiters = <<>>, !.drain_waiters = <<>>,
                      !.inbox = <<>>, !.gone = @ \cup Numbers(c.inbox)]
    OBVIOUS
  <2>2. Down(c, d) /\ ~d.open
    BY <2>1, ListedEmpty DEF Down, Shape, SameData, Putting, Live, Watched
  <2>3. PICK e : e = PushAll(d, "drained", c.drain_waiters)
    OBVIOUS
  <2>4. Teardown(c) = PushAll(e, "disconnect", c.recv_waiters)
    BY <1>2, <2>1, <2>3 DEF Teardown, Then
  <2>5. Quiet(d, e)
    BY <2>2, <2>3, QuietPushAll DEF Down
  <2>6. Quiet(e, Teardown(c))
    BY <2>4, <2>5, QuietPushAll DEF Quiet
  <2>7. Quiet(d, Teardown(c))
    BY <2>5, <2>6, QuietTwice
  <2>8. Down(c, Teardown(c))
    BY <2>2, <2>7, QuietDown, DownTwice
  <2>9. QED
    BY <2>2, <2>7, <2>8 DEF Quiet, SameSession
<1>3. QED
  BY <1>1, <1>2

\* post_recv
LEMMA PostRecvDown == ASSUME NEW c, Shape(c) PROVE Down(c, PostRecv(c))
<1>1. Down(c, c)
  BY QuietSelf, QuietDown
<1>2. Down(c, [c EXCEPT !.reading = TRUE])
  BY DEF Down, Shape, SameData, Putting, Live, Watched
<1>3. QED
  BY <1>1, <1>2 DEF PostRecv

\* maybe_finish_shutdown
LEMMA FinishShutdownDown == ASSUME NEW c, Shape(c) PROVE Down(c, MaybeFinishShutdown(c))
<1>1. Down(c, c)
  BY QuietSelf, QuietDown
<1>2. PICK d : d = [c EXCEPT !.fin = TRUE]
  OBVIOUS
<1>3. Down(c, d)
  BY <1>2 DEF Down, Shape, SameData, Putting, Live, Watched
<1>4. Down(c, PostRecv(d))
  BY <1>3, PostRecvDown, DownTwice DEF Down
<1>5. MaybeFinishShutdown(c) \in {c, Teardown(c), PostRecv(d)}
  BY <1>2 DEF MaybeFinishShutdown
<1>6. QED
  BY <1>1, <1>4, <1>5, TeardownDown

\* http_close_after_write: nothing is sent behind it.
LEMMA CloseAfterWriteDown ==
  ASSUME NEW c, Shape(c) PROVE Down(c, CloseAfterWrite(c)) /\ ~Live(CloseAfterWrite(c))
<1>1. CASE ~c.open \/ c.closing
  <2>1. CloseAfterWrite(c) = c
    BY <1>1 DEF CloseAfterWrite
  <2>2. QED
    BY <1>1, <2>1, QuietSelf, QuietDown DEF Live
<1>2. CASE ~(~c.open \/ c.closing)
  <2>1. PICK l : l = (c.timeouts /\ ~c.disconnected)
    OBVIOUS
  <2>2. PICK d : d = [c EXCEPT !.closing = TRUE, !.lingering = l, !.reading = @ /\ l]
    OBVIOUS
  <2>3. Down(c, d) /\ ~Live(d)
    BY <2>2 DEF Down, Shape, SameData, Putting, Live, Watched
  <2>4. CloseAfterWrite(c) = MaybeFinishShutdown(d)
    BY <1>2, <2>1, <2>2 DEF CloseAfterWrite, Then
  <2>5. Down(d, MaybeFinishShutdown(d))
    BY <2>3, FinishShutdownDown DEF Down
  <2>6. ~Live(MaybeFinishShutdown(d))
    BY <2>3, <2>5 DEF Down
  <2>7. QED
    BY <2>3, <2>4, <2>5, <2>6, DownTwice
<1>3. QED
  BY <1>1, <1>2

\* The way down keeps the invariant.
LEMMA DownKeeps ==
  ASSUME NEW c, NEW d, Down(c, d)
  PROVE  /\ WireInv(c) => WireInv(d)
         /\ PauseSound(c) => PauseSound(d)
         /\ ReadSound(c) => ReadSound(d)
         /\ MailSound(c) => MailSound(d)
         /\ ConnectOnce(c) => ConnectOnce(d)
<1>1. ConnectOnce(c) => ConnectOnce(d)
  BY DEF Down, SameData, ConnectOnce, NoConnect
<1>2. Told(c) => Told(d)
  BY DEF Down, SameData, Told
<1>3. Accounted(c) => Accounted(d)
  BY DEF Down, SameData, Accounted
<1>4. PauseSound(c) => PauseSound(d)
  BY DEF Down, SameData, PauseSound, Healthy, Pressed, Unsent
<1>5. ReadSound(c) => ReadSound(d)
  BY DEF Down, ReadSound, Healthy
<1>6. MailSound(c) => MailSound(d)
  BY DEF Down, MailSound
<1>7. InOrder(c.out) => InOrder(d.out)
  BY DEF Down, SameData
<1>8. QED
  BY <1>1, <1>2, <1>3, <1>4, <1>5, <1>6, <1>7 DEF WireInv

\* Steps that are not watched keep it.
LEMMA QuietKeeps == ASSUME NEW c, NEW d, Quiet(c, d), SessionInv(c) PROVE SessionInv(d)
<1>1. Down(c, d)
  BY QuietDown
<1>2. Shape(d)
  BY DEF Quiet
<1>3. QED
  BY <1>1, <1>2, DownKeeps DEF SessionInv

\* So does the way down.
LEMMA DownKeepsAll == ASSUME NEW c, NEW d, Down(c, d), SessionInv(c) PROVE SessionInv(d)
<1>1. Shape(d)
  BY DEF Down
<1>2. QED
  BY <1>1, DownKeeps DEF SessionInv

\* At its end little is asked of what is left.
LEMMA Ended ==
  ASSUME NEW c, NEW d, Down(c, d), ~Live(d), InOrder(c.out), ConnectOnce(c), MailSound(c)
  PROVE  SessionInv(d)
<1>1. ConnectOnce(d) /\ MailSound(d)
  BY DownKeeps
<1>2. Shape(d) /\ InOrder(d.out)
  BY DEF Down, SameData
<1>3. Told(d) /\ Accounted(d) /\ PauseSound(d) /\ ReadSound(d)
  BY DEF Told, Accounted, PauseSound, ReadSound, Healthy
<1>4. QED
  BY <1>1, <1>2, <1>3 DEF SessionInv, WireInv

-----------------------------------------------------------------------------
(* Pausing and waking.                                                     *)

\* Everything but the pause is as it was, and that is right.
Synced(c, d) ==
  /\ Shape(d) /\ SameSession(c, d) /\ d.recv_waiters = c.recv_waiters
  /\ PauseSound(d) /\ (ReadSound(c) => ReadSound(d))

\* ws_sync_read_pause
LEMMA SyncReadPauseSyncs == ASSUME NEW c, Shape(c) PROVE Synced(c, SyncReadPause(c))
<1> DEFINE pause == IF c.inbox_paused THEN c.inbox_bytes * 2 >= MaxInbox \/ Unsent(c) > Low
                    ELSE c.inbox_bytes >= MaxInbox \/ Unsent(c) > High
           e == [c EXCEPT !.inbox_paused = pause]
<1>1. /\ pause \in BOOLEAN /\ c.inbox_paused \in BOOLEAN /\ c.inbox_bytes \in Nat /\ Unsent(c) \in Int
      /\ MaxInbox \in Nat /\ High \in Nat /\ Low \in Nat /\ Low <= High
  <2>1. c.inbox_paused \in BOOLEAN /\ c.inbox_bytes \in Nat /\ Unsent(c) \in Int
    BY DEF Shape, Unsent
  <2>2. MaxInbox \in Nat /\ High \in Nat /\ Low \in Nat /\ Low <= High
    BY SocketAssumption DEF SocketAssumption
  <2>3. pause \in BOOLEAN
    OBVIOUS
  <2>4. QED
    BY <2>1, <2>2, <2>3
<1>2. pause => Pressed(c)
  <2>1. CASE c.inbox_paused
    BY <2>1 DEF Pressed
  <2>2. CASE ~c.inbox_paused
    BY <1>1, <2>2 DEF Pressed
  <2>3. QED
    BY <2>1, <2>2
<1>3. CASE ~c.open \/ pause = c.inbox_paused
  <2>1. SyncReadPause(c) = c
    BY <1>3 DEF SyncReadPause
  <2>2. PauseSound(c)
    BY <1>1, <1>2, <1>3 DEF PauseSound, Healthy, Live
  <2>3. QED
    BY <2>1, <2>2, QuietSelf DEF Synced, Quiet
<1>4. CASE ~(~c.open \/ pause = c.inbox_paused)
  <2>1. SyncReadPause(c) = IF pause THEN e ELSE PostRecv(e)
    BY <1>4 DEF SyncReadPause, Then
  <2>2. Shape(e) /\ SameSession(c, e) /\ e.recv_waiters = c.recv_waiters /\ e.inbox_paused = pause
        /\ e.reading = c.reading
    BY <1>1 DEF Shape, Watched, SameSession, SameData, Putting
  <2>3. Pressed(e) <=> Pressed(c)
    BY <2>2 DEF Pressed, Unsent, SameSession, SameData
  <2>4. PauseSound(e)
    BY <1>2, <2>2, <2>3 DEF PauseSound
  <2> HIDE DEF e, pause
  <2>5. CASE pause
    BY <2>1, <2>2, <2>4, <2>5 DEF Synced, ReadSound
  <2>6. CASE ~pause
    <3>1. PICK d : d = PostRecv(e)
      OBVIOUS
    <3>2. d = IF e.closing /\ ~e.lingering THEN e ELSE [e EXCEPT !.reading = TRUE]
      BY <1>4, <2>2, <2>6, <3>1 DEF PostRecv, SameSession
    <3>3. Shape(d) /\ SameSession(e, d) /\ d.recv_waiters = e.recv_waiters /\ d.inbox_paused = e.inbox_paused
          /\ (~e.closing => d.reading)
      BY <2>2, <3>2 DEF Shape, Watched, SameSession, SameData, Putting
    <3>4. SameSession(c, d) /\ d.recv_waiters = c.recv_waiters
      BY <2>2, <3>3 DEF SameSession, SameData
    <3>5. PauseSound(d)
      BY <2>2, <2>6, <3>3 DEF PauseSound
    <3>6. ReadSound(d)
      BY <3>3 DEF ReadSound, SameSession, Healthy, Live
    <3>7. QED
      BY <2>1, <2>6, <3>1, <3>3, <3>4, <3>5, <3>6 DEF Synced
  <2>7. QED
    BY <2>5, <2>6
<1>5. QED
  BY <1>3, <1>4

\* Waiters are told: nobody waits beside a message.
Woken(c, d) ==
  /\ Shape(d) /\ SameSession(c, d) /\ d.reading = c.reading /\ d.inbox_paused = c.inbox_paused
  /\ MailSound(d)

\* Every parked receive() is woken.
LEMMA WakeReceiversWakes == ASSUME NEW c, Shape(c) PROVE Woken(c, WakeReceivers(c))
<1>1. CASE ~c.open
  BY <1>1, QuietSelf DEF WakeReceivers, Woken, Quiet, MailSound
<1>2. CASE c.open
  <2>1. PICK e : e = [c EXCEPT !.recv_waiters = <<>>]
    OBVIOUS
  <2>2. Shape(e) /\ SameSession(c, e) /\ e.reading = c.reading /\ e.inbox_paused = c.inbox_paused
        /\ e.recv_waiters = <<>>
    BY <2>1, ListedEmpty DEF Shape, Watched, SameSession, SameData, Putting
  <2>3. PICK d : d = PushAll(e, "ws_wake", c.recv_waiters)
    OBVIOUS
  <2>4. WakeReceivers(c) = d
    BY <1>2, <2>1, <2>3 DEF WakeReceivers
  <2>5. Quiet(e, d)
    BY <2>2, <2>3, QuietPushAll
  <2>6. d.recv_waiters = <<>> /\ Shape(d) /\ SameSession(e, d) /\ d.reading = e.reading /\ d.inbox_paused = e.inbox_paused
    BY <2>2, <2>5 DEF Quiet
  <2>7. SameSession(c, d)
    BY <2>2, <2>6 DEF SameSession, SameData
  <2>8. QED
    BY <2>2, <2>4, <2>6, <2>7 DEF Woken, MailSound
<1>3. QED
  BY <1>1, <1>2

-----------------------------------------------------------------------------
(* Frames out and in.                                                      *)

\* d is c, and what it sends may have grown.
SameButOut(c, d) ==
  /\ d.open = c.open /\ d.closing = c.closing /\ d.disconnected = c.disconnected
  /\ d.sent = c.sent /\ d.accepted = c.accepted /\ d.ws_closing = c.ws_closing
  /\ d.connect_sent = c.connect_sent /\ d.held = c.held /\ d.taken = c.taken
  /\ d.q.items = c.q.items /\ d.tasks = c.tasks
  /\ d.inbox = c.inbox /\ d.inbox_bytes = c.inbox_bytes
  /\ d.recv_waiters = c.recv_waiters /\ d.reading = c.reading /\ d.inbox_paused = c.inbox_paused

Enqueued(c, d, frame) ==
  Shape(d) /\ SameButOut(c, d) /\ d.out = IF Live(c) THEN Append(c.out, frame) ELSE c.out

\* http_enqueue_raw
LEMMA EnqueueAdds ==
  ASSUME NEW c, NEW frame \in FrameRecord, Shape(c) PROVE Enqueued(c, EnqueueFrame(c, frame), frame)
<1>1. CASE Live(c)
  <2>1. EnqueueFrame(c, frame) = [c EXCEPT !.out = Append(@, frame)]
    BY <1>1 DEF EnqueueFrame, Live
  <2>2. Append(c.out, frame) \in Seq(FrameRecord)
    BY DEF Shape
  <2>3. QED
    BY <1>1, <2>1, <2>2 DEF Enqueued, Shape, Watched, SameButOut
<1>2. CASE ~Live(c)
  <2>1. EnqueueFrame(c, frame) = c
    BY <1>2 DEF EnqueueFrame, Live
  <2>2. QED
    BY <1>2, <2>1 DEF Enqueued, SameButOut
<1>3. QED
  BY <1>1, <1>2

\* A frame without a message.
LEMMA EnqueueKindAdds ==
  ASSUME NEW c, NEW kind \in Kinds, Shape(c) PROVE Enqueued(c, Enqueue(c, kind), Frame(kind, Nothing))
<1>1. Frame(kind, Nothing) \in FrameRecord
  BY DEF Frame, FrameRecord, Nothing
<1>2. QED
  BY <1>1, EnqueueAdds DEF Enqueue

MayFollow(out, kind) ==
  /\ Without(out, "error")
  /\ out = <<>> => kind \in {"accept", "error"}
  /\ out # <<>> => kind # "accept" /\ (kind = "pong" \/ Without(out, "close"))

\* A frame behind others.
LEMMA Appended ==
  ASSUME NEW out \in Seq(FrameRecord), NEW f \in FrameRecord, InOrder(out), MayFollow(out, f.kind)
  PROVE  /\ InOrder(Append(out, f)) /\ Append(out, f) # <<>>
         /\ \A k : Without(out, k) /\ f.kind # k => Without(Append(out, f), k)
<1>1. PICK n : n = Len(out)
  OBVIOUS
<1>2. PICK w : w = Append(out, f)
  OBVIOUS
<1>3. n \in Nat /\ Len(w) = n + 1 /\ w[n + 1] = f /\ \A i \in 1..n : w[i] = out[i]
  BY <1>1, <1>2
<1>4. n = 0 <=> out = <<>>
  BY <1>1
<1>5. w # <<>>
  BY <1>2
<1>6. w[1].kind \in {"accept", "error"}
  <2>1. CASE n = 0
    BY <1>3, <1>4, <2>1 DEF MayFollow
  <2>2. CASE n # 0
    <3>1. 1 \in 1..n
      BY <1>3, <2>2
    <3>2. QED
      BY <1>3, <1>4, <2>2, <3>1 DEF InOrder
  <2>3. QED
    BY <2>1, <2>2
<1>7. ASSUME NEW i \in 1..Len(w), NEW j \in 1..Len(w), i < j
      PROVE  w[i].kind # "error" /\ (w[i].kind = "close" => w[j].kind = "pong") /\ w[j].kind # "accept"
  <2>1. i \in 1..n /\ w[i] = out[i] /\ n # 0
    BY <1>3, <1>7
  <2>2. CASE j \in 1..n
    BY <1>1, <1>3, <1>7, <2>1, <2>2 DEF InOrder
  <2>3. CASE j = n + 1
    BY <1>1, <1>3, <1>4, <2>1, <2>3 DEF MayFollow, Without
  <2>4. QED
    BY <1>3, <2>2, <2>3
<1>8. ASSUME NEW k, Without(out, k), f.kind # k PROVE Without(w, k)
  <2> SUFFICES ASSUME NEW i \in 1..Len(w) PROVE w[i].kind # k
    BY DEF Without
  <2>1. i \in 1..n \/ i = n + 1
    BY <1>3
  <2>2. QED
    BY <1>1, <1>3, <1>8, <2>1 DEF Without
<1>9. QED
  BY <1>2, <1>5, <1>6, <1>7, <1>8 DEF InOrder

\* A session with a frame more is sound if the frame may follow and the
\* flags tell of it.
LEMMA EnqueuedTells ==
  ASSUME NEW c, NEW d, NEW f \in FrameRecord, Shape(c), Enqueued(c, d, f), InOrder(c.out), ConnectOnce(c),
         Live(c) => /\ MayFollow(c.out, f.kind) /\ c.accepted /\ Accounted(c) /\ f.kind # "error"
                    /\ (f.kind = "close" \/ ~Without(c.out, "close")) => c.ws_closing
  PROVE  WireInv(d)
<1>1. ConnectOnce(d)
  BY DEF Enqueued, SameButOut, ConnectOnce, Putting
<1>2. CASE ~Live(c)
  <2>1. ~Live(d) /\ d.out = c.out
    BY <1>2 DEF Enqueued, SameButOut, Live
  <2>2. QED
    BY <1>1, <2>1 DEF WireInv, Told, Accounted
<1>3. CASE Live(c)
  <2>1. d.out = Append(c.out, f) /\ c.out \in Seq(FrameRecord)
    BY <1>3 DEF Enqueued, Shape
  <2>2. InOrder(d.out) /\ d.out # <<>> /\ \A k : Without(c.out, k) /\ f.kind # k => Without(d.out, k)
    BY <1>3, <2>1, Appended
  <2>3. Without(d.out, "error")
    BY <1>3, <2>2 DEF MayFollow
  <2>4. d.accepted = c.accepted /\ d.ws_closing = c.ws_closing
    BY DEF Enqueued, SameButOut
  <2>5. ~d.ws_closing => Without(d.out, "close")
    BY <1>3, <2>2, <2>4
  <2>6. Told(d)
    BY <1>3, <2>2, <2>3, <2>4, <2>5 DEF Told
  <2>7. Accounted(d)
    BY <1>3 DEF Enqueued, SameButOut, Accounted, Live
  <2>8. QED
    BY <1>1, <2>2, <2>6, <2>7 DEF WireInv
<1>4. QED
  BY <1>2, <1>3

\* What parsing leaves of a session: messages may have come, frames may
\* have been answered.
Parsed(c, d) ==
  /\ Shape(d) /\ WireInv(d)
  /\ d.open = c.open /\ d.closing = c.closing /\ d.disconnected = c.disconnected
  /\ d.accepted = c.accepted /\ d.sent = c.sent /\ d.recv_waiters = c.recv_waiters
  /\ d.reading = c.reading /\ d.inbox_paused = c.inbox_paused
  /\ d.inbox_bytes >= c.inbox_bytes /\ Len(d.out) >= Len(c.out)
  /\ d.inbox = c.inbox \/ Len(d.inbox) > Len(c.inbox)

\* A message is assembled.
LEMMA AssembledParsed ==
  ASSUME NEW c, Shape(c), WireInv(c) PROVE Parsed(c, Assembled(c))
<1>1. PICK d : d = Assembled(c)
  OBVIOUS
<1>2. PICK m : m = c.assembled + 1
  OBVIOUS
<1>3. m \in Nat /\ m # Connect /\ m \in Int
  BY <1>2 DEF Shape, Connect
<1>4. d = [c EXCEPT !.assembled = m, !.inbox = Append(@, m), !.inbox_bytes = @ + 1]
  BY <1>1, <1>2 DEF Assembled
<1>5. Append(c.inbox, m) \in Seq(Int) /\ Len(Append(c.inbox, m)) = Len(c.inbox) + 1 /\ Len(c.inbox) \in Nat
  BY <1>3 DEF Shape
<1>6. Shape(d)
  BY <1>3, <1>4, <1>5 DEF Shape, Watched
<1>7. d.inbox = Append(c.inbox, m) /\ d.inbox_bytes = c.inbox_bytes + 1
  BY <1>4 DEF Shape, Watched
<1>8. /\ d.open = c.open /\ d.closing = c.closing /\ d.disconnected = c.disconnected
      /\ d.accepted = c.accepted /\ d.sent = c.sent /\ d.recv_waiters = c.recv_waiters
      /\ d.reading = c.reading /\ d.inbox_paused = c.inbox_paused /\ d.out = c.out
      /\ d.ws_closing = c.ws_closing /\ d.connect_sent = c.connect_sent
      /\ d.held = c.held /\ d.taken = c.taken /\ d.q = c.q /\ d.tasks = c.tasks
  BY <1>4 DEF Shape, Watched
<1>9. NoConnect(c.inbox) => NoConnect(d.inbox)
  BY <1>3, <1>7 DEF NoConnect, Shape
<1>10. WireInv(d)
  BY <1>8, <1>9 DEF WireInv, Told, Live, ConnectOnce, Putting, Accounted
<1>11. c.inbox_bytes + 1 >= c.inbox_bytes /\ Len(c.out) >= Len(c.out)
  BY DEF Shape
<1>12. QED
  BY <1>1, <1>5, <1>6, <1>7, <1>8, <1>10, <1>11 DEF Parsed

\* A ping is answered.
LEMMA PongParsed ==
  ASSUME NEW c, Shape(c), WireInv(c), c.accepted PROVE Parsed(c, Enqueue(c, "pong"))
<1>1. PICK f : f = Frame("pong", Nothing)
  OBVIOUS
<1>2. f \in FrameRecord /\ f.kind = "pong"
  BY <1>1 DEF Frame, FrameRecord, Nothing, Kinds
<1>3. PICK d : d = Enqueue(c, "pong")
  OBVIOUS
<1>4. Enqueued(c, d, f)
  <2>1. "pong" \in Kinds
    BY DEF Kinds
  <2>2. QED
    BY <1>1, <1>3, <2>1, EnqueueKindAdds
<1>5. InOrder(c.out) /\ ConnectOnce(c) /\ Told(c) /\ Accounted(c)
  BY DEF WireInv
<1>6. Live(c) => MayFollow(c.out, "pong") /\ (~Without(c.out, "close") => c.ws_closing)
  BY <1>5 DEF MayFollow, Told
<1>7. WireInv(d)
  BY <1>2, <1>4, <1>5, <1>6, EnqueuedTells
<1>8. Len(d.out) >= Len(c.out)
  BY <1>2, <1>4 DEF Enqueued, Shape
<1>9. d.inbox_bytes = c.inbox_bytes /\ c.inbox_bytes \in Nat
  BY <1>4 DEF Enqueued, SameButOut, Shape
<1>10. QED
  <2>1. SameButOut(c, d) /\ Shape(d)
    BY <1>4 DEF Enqueued
  <2>2. d.inbox_bytes >= c.inbox_bytes
    BY <1>9
  <2>3. QED
    BY <1>3, <1>7, <1>8, <2>1, <2>2 DEF Parsed, SameButOut

\* The peer's close frame, or its error, is answered and noted.
LEMMA PeerEndsParsed ==
  ASSUME NEW c, Shape(c), WireInv(c), c.accepted PROVE Parsed(c, PeerEnds(c))
<1>1. PICK f : f = Frame("close", Nothing)
  OBVIOUS
<1>2. f \in FrameRecord /\ f.kind = "close"
  BY <1>1 DEF Frame, FrameRecord, Nothing, Kinds
<1>3. PICK e : e = [c EXCEPT !.ws_closing = TRUE]
  OBVIOUS
<1>4. PICK d : d = IF c.ws_closing THEN c ELSE Enqueue(e, "close")
  OBVIOUS
<1>5. PICK g : g = [d EXCEPT !.ended = TRUE, !.inbox = Append(@, Gone)]
  OBVIOUS
<1>6. PeerEnds(c) = g
  BY <1>3, <1>4, <1>5 DEF PeerEnds, Then
<1>7. InOrder(c.out) /\ ConnectOnce(c) /\ Told(c) /\ Accounted(c)
  BY DEF WireInv
<1>8. /\ Shape(d) /\ WireInv(d)
      /\ d.open = c.open /\ d.closing = c.closing /\ d.disconnected = c.disconnected
      /\ d.accepted = c.accepted /\ d.sent = c.sent /\ d.recv_waiters = c.recv_waiters
      /\ d.reading = c.reading /\ d.inbox_paused = c.inbox_paused
      /\ d.inbox_bytes = c.inbox_bytes /\ Len(d.out) >= Len(c.out) /\ d.inbox = c.inbox
  <2>1. CASE c.ws_closing
    <3>1. d = c
      BY <1>4, <2>1
    <3>2. Len(c.out) >= Len(c.out)
      BY DEF Shape
    <3>3. QED
      BY <3>1, <3>2
  <2>2. CASE ~c.ws_closing
    <3>1. Shape(e) /\ e.ws_closing
      BY <1>3 DEF Shape, Watched
    <3>2. /\ e.open = c.open /\ e.closing = c.closing /\ e.disconnected = c.disconnected
          /\ e.accepted = c.accepted /\ e.sent = c.sent /\ e.recv_waiters = c.recv_waiters
          /\ e.reading = c.reading /\ e.inbox_paused = c.inbox_paused /\ e.out = c.out
          /\ e.connect_sent = c.connect_sent /\ e.inbox = c.inbox /\ e.inbox_bytes = c.inbox_bytes
          /\ e.held = c.held /\ e.taken = c.taken /\ e.q = c.q /\ e.tasks = c.tasks
      BY <1>3 DEF Shape, Watched
    <3>3. Enqueued(e, d, f)
      <4>1. "close" \in Kinds
        BY DEF Kinds
      <4>2. QED
        BY <1>1, <1>4, <2>2, <3>1, <4>1, EnqueueKindAdds
    <3>4. InOrder(e.out) /\ ConnectOnce(e) /\ Accounted(e)
      BY <1>7, <3>2 DEF ConnectOnce, Putting, Accounted, Live
    <3>5. Live(e) => MayFollow(e.out, "close")
      BY <1>7, <2>2, <3>2 DEF MayFollow, Told, Live
    <3>6. WireInv(d)
      BY <1>2, <3>1, <3>2, <3>3, <3>4, <3>5, EnqueuedTells
    <3>7. Len(d.out) >= Len(e.out)
      BY <1>2, <3>1, <3>3 DEF Enqueued, Shape
    <3>8. QED
      BY <3>2, <3>3, <3>6, <3>7 DEF Enqueued, SameButOut
  <2>3. QED
    BY <2>1, <2>2
<1>9. PICK m : m = Gone
  OBVIOUS
<1>10. m \in Int /\ m # Connect
  BY <1>9 DEF Gone, Connect
<1>11. Append(d.inbox, m) \in Seq(Int) /\ Len(Append(d.inbox, m)) = Len(d.inbox) + 1 /\ Len(d.inbox) \in Nat
  BY <1>8, <1>10 DEF Shape
<1>12. Shape(g) /\ g.inbox = Append(d.inbox, m)
  BY <1>5, <1>8, <1>9, <1>11 DEF Shape, Watched
<1>13. /\ g.open = d.open /\ g.closing = d.closing /\ g.disconnected = d.disconnected
       /\ g.accepted = d.accepted /\ g.sent = d.sent /\ g.recv_waiters = d.recv_waiters
       /\ g.reading = d.reading /\ g.inbox_paused = d.inbox_paused /\ g.out = d.out
       /\ g.ws_closing = d.ws_closing /\ g.connect_sent = d.connect_sent /\ g.inbox_bytes = d.inbox_bytes
       /\ g.held = d.held /\ g.taken = d.taken /\ g.q = d.q /\ g.tasks = d.tasks
  BY <1>5, <1>8 DEF Shape, Watched
<1>14. NoConnect(d.inbox) => NoConnect(g.inbox)
  <2>1. d.inbox \in Seq(Int) /\ g.inbox = Append(d.inbox, m)
    BY <1>8, <1>12 DEF Shape
  <2>2. QED
    BY <1>10, <2>1 DEF NoConnect
<1>15. WireInv(g)
  BY <1>8, <1>13, <1>14 DEF WireInv, Told, Live, ConnectOnce, Putting, Accounted
<1>16. g.inbox_bytes >= c.inbox_bytes /\ Len(g.out) >= Len(c.out) /\ Len(g.inbox) > Len(c.inbox)
  BY <1>8, <1>11, <1>12, <1>13, SMTT(20) DEF Shape
<1>17. QED
  BY <1>6, <1>8, <1>12, <1>13, <1>15, <1>16 DEF Parsed

\* Nothing was there to parse, or parsing goes on.
LEMMA ParsedSelf == ASSUME NEW c, Shape(c), WireInv(c) PROVE Parsed(c, c)
  BY DEF Parsed, Shape

\* Two frames are parsed one behind the other.
LEMMA ParsedTwice == ASSUME NEW c, NEW d, NEW e, Shape(c), Parsed(c, d), Parsed(d, e) PROVE Parsed(c, e)
<1>1. c.inbox_bytes \in Nat /\ d.inbox_bytes \in Nat /\ e.inbox_bytes \in Nat
      /\ Len(c.out) \in Nat /\ Len(d.out) \in Nat /\ Len(e.out) \in Nat
      /\ Len(c.inbox) \in Nat /\ Len(d.inbox) \in Nat /\ Len(e.inbox) \in Nat
  <2>1. \A x : Shape(x) => x.inbox_bytes \in Nat /\ Len(x.out) \in Nat /\ Len(x.inbox) \in Nat
    BY SMTT(20) DEF Shape
  <2>2. Shape(d) /\ Shape(e)
    BY DEF Parsed
  <2>3. QED
    BY <2>1, <2>2
<1>2. QED
  BY <1>1 DEF Parsed

\* parse_one, and the arm of ws_ingest for what it yields.
LEMMA ParseParsed ==
  ASSUME NEW c, NEW frame, Shape(c), WireInv(c), c.accepted PROVE Parsed(c, Parse(c, frame))
<1>1. PICK e : e = [c EXCEPT !.frag = FALSE]
  OBVIOUS
<1>2. PICK g : g = [c EXCEPT !.frag = TRUE]
  OBVIOUS
<1>3. Quiet(c, e) /\ Quiet(c, g)
  BY <1>1, <1>2 DEF Shape, Quiet, SameSession, SameData, Putting, Watched
<1>4. Parsed(c, e) /\ Parsed(c, g)
  <2>1. WireInv(e) /\ WireInv(g)
    BY <1>3, QuietDown, DownKeeps
  <2>2. c.inbox_bytes \in Nat /\ Len(c.out) \in Nat
    BY DEF Shape
  <2>3. QED
    BY <1>3, <2>1, <2>2 DEF Quiet, SameSession, SameData, Parsed
<1>5. Parsed(c, Assembled(e))
  <2>1. Shape(e) /\ WireInv(e)
    BY <1>4 DEF Parsed
  <2>2. QED
    BY <1>4, <2>1, AssembledParsed, ParsedTwice
<1>6. Parse(c, frame) \in {c, Enqueue(c, "pong"), Assembled(c), Assembled(e), g, PeerEnds(c)}
  BY <1>1, <1>2 DEF Parse
<1>7. QED
  BY <1>4, <1>5, <1>6, AssembledParsed, PongParsed, PeerEndsParsed, ParsedSelf

ParseNext(d, frame) == IF d.ended THEN d ELSE Parse(d, frame)

\* What ParseAll goes through.
Parses(f, c, batch) ==
  /\ ParseAll(c, batch) = f[Len(batch)] /\ f[0] = c
  /\ \A i \in 1..Len(batch) : f[i] = ParseNext(f[i - 1], batch[i])

\* A loop over frames ends.
LEMMA Parsing ==
  ASSUME NEW c, NEW batch, Listed(batch)
  PROVE  \E f : Parses(f, c, batch)
<1> DEFINE n == Len(batch)
           Of(f, k) == [i \in 0..k |-> IF i = 0 THEN c
                                       ELSE Then(f[i - 1], LAMBDA d : IF d.ended THEN d ELSE Parse(d, batch[i]))]
           A == {k \in 0..n : \E f : f = Of(f, k)}
<1>1. n \in Nat
  BY DEF Listed
<1>2. \A d, g : Then(d, LAMBDA e : IF e.ended THEN e ELSE Parse(e, g)) = ParseNext(d, g)
  BY DEF Then, ParseNext
<1>3. 0 \in A
  <2> DEFINE f == [i \in 0..0 |-> c]
  <2>1. f = Of(f, 0)
    OBVIOUS
  <2> HIDE DEF f, Of
  <2>2. QED
    BY <1>1, <2>1
<1>4. ASSUME NEW k \in 0..n, k \in A, k < n PROVE k + 1 \in A
  <2>1. PICK f : f = Of(f, k)
    BY <1>4
  <2> DEFINE h == [i \in 0..(k + 1) |-> IF i = k + 1 THEN ParseNext(f[k], batch[k + 1]) ELSE f[i]]
  <2>2. ASSUME NEW i \in 0..(k + 1)
        PROVE h[i] = IF i = 0 THEN c ELSE Then(h[i - 1], LAMBDA d : IF d.ended THEN d ELSE Parse(d, batch[i]))
    <3>1. CASE i = k + 1
      <4>1. k \in 0..(k + 1) /\ h[k] = f[k] /\ i # 0 /\ i - 1 = k
        BY <1>1, <3>1
      <4>2. h[i] = ParseNext(f[k], batch[k + 1])
        BY <3>1
      <4>3. QED
        BY <1>2, <3>1, <4>1, <4>2
    <3>2. CASE i \in 0..k
      <4>1. i # k + 1 /\ h[i] = f[i]
        BY <1>1, <3>2
      <4>2. f[i] = IF i = 0 THEN c ELSE Then(f[i - 1], LAMBDA d : IF d.ended THEN d ELSE Parse(d, batch[i]))
        BY <2>1, <3>2
      <4>3. i # 0 => i - 1 \in 0..(k + 1) /\ i - 1 # k + 1 /\ h[i - 1] = f[i - 1]
        BY <1>1, <3>2
      <4> HIDE DEF h
      <4>4. QED
        BY <4>1, <4>2, <4>3
    <3>3. QED
      BY <1>1, <3>1, <3>2
  <2>3. h = Of(h, k + 1)
    <3>1. h = [i \in 0..(k + 1) |-> h[i]]
      OBVIOUS
    <3> HIDE DEF h
    <3>2. QED
      BY <2>2, <3>1, Zenon
  <2> HIDE DEF h, Of
  <2>4. QED
    BY <1>1, <1>4, <2>3
<1>5. n \in A
  <2> HIDE DEF A, n
  <2>1. \A i \in 0..n : i \in A
    BY <1>1, <1>3, <1>4, UpTo
  <2>2. QED
    BY <1>1, <2>1
<1> DEFINE h == CHOOSE f : f = Of(f, n)
<1>6. h = Of(h, n)
  <2>1. \E f : f = Of(f, n)
    BY <1>5
  <2> HIDE DEF Of
  <2>2. QED
    BY <2>1
<1>7. ParseAll(c, batch) = h[n]
  BY Zenon DEF ParseAll
<1> HIDE DEF h
<1>8. h[0] = c
  BY <1>1, <1>6
<1>9. ASSUME NEW i \in 1..n PROVE h[i] = ParseNext(h[i - 1], batch[i])
  <2>1. i \in 0..n /\ i # 0
    BY <1>1
  <2>2. h[i] = Then(h[i - 1], LAMBDA d : IF d.ended THEN d ELSE Parse(d, batch[i]))
    BY <1>6, <2>1
  <2>3. QED
    BY <1>2, <2>2
<1>10. Parses(h, c, batch)
  BY <1>7, <1>8, <1>9 DEF Parses
<1>11. QED
  BY <1>10

\* WsRx::push
LEMMA ParseAllParsed ==
  ASSUME NEW c, NEW batch, Shape(c), WireInv(c), c.accepted, Listed(batch) PROVE Parsed(c, ParseAll(c, batch))
<1> DEFINE n == Len(batch)
<1>1. n \in Nat
  BY DEF Listed
<1>2. PICK f : Parses(f, c, batch)
  BY Parsing
<1> DEFINE A == {k \in 0..n : Parsed(c, f[k])}
<1>3. 0 \in A
  BY <1>1, <1>2, ParsedSelf DEF Parses
<1>4. ASSUME NEW k \in 0..n, k \in A, k < n PROVE k + 1 \in A
  <2>1. k + 1 \in 1..n /\ k + 1 \in 0..n /\ (k + 1) - 1 = k
    BY <1>1, <1>4
  <2>2. f[k + 1] \in {f[k], Parse(f[k], batch[k + 1])}
    BY <1>2, <2>1 DEF Parses, ParseNext
  <2>3. Parsed(c, f[k])
    BY <1>4
  <2>4. Shape(f[k]) /\ WireInv(f[k]) /\ f[k].accepted
    BY <2>3 DEF Parsed
  <2>5. Parsed(f[k], f[k + 1])
    BY <2>2, <2>4, ParseParsed, ParsedSelf
  <2>6. QED
    BY <2>1, <2>3, <2>5, ParsedTwice
<1>5. n \in A
  <2> HIDE DEF A, n
  <2>1. \A i \in 0..n : i \in A
    BY <1>1, <1>3, <1>4, UpTo
  <2>2. QED
    BY <1>1, <2>1
<1>6. QED
  BY <1>2, <1>5 DEF Parses

\* What is on the wire and in whose hands connect is does not depend on the
\* rest.
LEMMA SameKeepsWire == ASSUME NEW c, NEW d, SameSession(c, d), WireInv(c) PROVE WireInv(d)
<1>1. ConnectOnce(d)
  BY DEF SameSession, SameData, WireInv, ConnectOnce, NoConnect
<1>2. Told(d) /\ Accounted(d) /\ InOrder(d.out)
  BY DEF SameSession, SameData, WireInv, Told, Accounted, Live
<1>3. QED
  BY <1>1, <1>2 DEF WireInv

\* What a step leaves sound if it was, reading included.
Kept(c, d) == Shape(d) /\ WireInv(d) /\ PauseSound(d) /\ MailSound(d) /\ (ReadSound(c) => ReadSound(d))

\* A session with frames more is not less pressed.
LEMMA MorePressed ==
  ASSUME NEW c, NEW d, Shape(c), Shape(d), PauseSound(c), d.inbox_bytes >= c.inbox_bytes, d.sent = c.sent,
         Len(d.out) >= Len(c.out), d.open = c.open, d.closing = c.closing, d.disconnected = c.disconnected,
         d.inbox_paused = c.inbox_paused
  PROVE  PauseSound(d)
<1>1. c.inbox_bytes \in Nat /\ d.inbox_bytes \in Nat /\ Len(c.out) \in Nat /\ Len(d.out) \in Nat /\ c.sent \in Nat
  BY DEF Shape
<1>2. MaxInbox \in Nat /\ Low \in Nat
  BY SocketAssumption DEF SocketAssumption
<1>3. Pressed(c) => Pressed(d)
  BY <1>1, <1>2, SMTT(20) DEF Pressed, Unsent
<1>4. QED
  BY <1>3 DEF PauseSound, Healthy, Live

\* A session closes behind its last frame.
LEMMA ClosedBehind ==
  ASSUME NEW c, NEW d, NEW kind \in Kinds, Shape(c), Enqueued(c, d, Frame(kind, Nothing)), ConnectOnce(c),
         MailSound(c), InOrder(c.out), Live(c) => MayFollow(c.out, kind)
  PROVE  SessionInv(CloseAfterWrite(d))
<1>1. PICK f : f = Frame(kind, Nothing)
  OBVIOUS
<1>2. f \in FrameRecord /\ f.kind = kind
  BY <1>1 DEF Frame, FrameRecord, Nothing, Kinds
<1>3. InOrder(d.out)
  <2>1. CASE Live(c)
    <3>1. MayFollow(c.out, kind) /\ c.out \in Seq(FrameRecord)
      BY <2>1 DEF Shape
    <3>2. InOrder(Append(c.out, f))
      BY <1>2, <3>1, Appended
    <3>3. QED
      BY <1>1, <2>1, <3>2 DEF Enqueued
  <2>2. CASE ~Live(c)
    BY <2>2 DEF Enqueued
  <2>3. QED
    BY <2>1, <2>2
<1>4. ConnectOnce(d) /\ MailSound(d)
  BY DEF Enqueued, SameButOut, ConnectOnce, Putting, MailSound
<1>5. Shape(d)
  BY DEF Enqueued
<1>6. QED
  BY <1>3, <1>4, <1>5, CloseAfterWriteDown, Ended

\* ws_ingest
LEMMA IngestKeeps ==
  ASSUME NEW c, NEW batch, Shape(c), WireInv(c), PauseSound(c), MailSound(c), Listed(batch)
  PROVE  Kept(c, Ingest(c, batch))
<1>1. CASE ~c.open
  BY <1>1 DEF Ingest, Kept
<1>2. CASE c.open /\ ~c.accepted
  <2>1. PICK e : e = [c EXCEPT !.trailing = <<>>]
    OBVIOUS
  <2>2. Quiet(c, e)
    BY <2>1, ListedEmpty DEF Shape, Quiet, SameSession, SameData, Putting, Watched
  <2>3. PICK d : d = Enqueue(e, "error")
    OBVIOUS
  <2>4. Shape(e) /\ WireInv(e) /\ MailSound(e)
    BY <2>2, QuietDown, DownKeeps DEF Quiet
  <2>5. "error" \in Kinds
    BY DEF Kinds
  <2>6. Enqueued(e, d, Frame("error", Nothing))
    BY <2>3, <2>4, <2>5, EnqueueKindAdds
  <2>7. Live(e) => MayFollow(e.out, "error")
    BY <1>2, <2>2, <2>4 DEF Quiet, SameSession, SameData, WireInv, Told, MayFollow
  <2>8. SessionInv(CloseAfterWrite(d))
    BY <2>4, <2>5, <2>6, <2>7, ClosedBehind DEF WireInv
  <2>9. PICK g : g = [c EXCEPT !.trailing = @ \o batch]
    OBVIOUS
  <2>10. Quiet(c, g)
    <3>1. PICK S : c.trailing \in Seq(S)
      BY DEF Shape, Listed
    <3>2. PICK T : batch \in Seq(T)
      BY DEF Listed
    <3>3. c.trailing \in Seq(S \cup T) /\ batch \in Seq(S \cup T)
      BY <3>1, <3>2
    <3>4. c.trailing \o batch \in Seq(S \cup T)
      BY <3>3
    <3>5. Listed(c.trailing \o batch)
      BY <3>4 DEF Listed
    <3>6. QED
      BY <2>9, <3>5 DEF Shape, Quiet, SameSession, SameData, Putting, Watched
  <2>11. Kept(c, g)
    BY <2>10, QuietDown, DownKeeps DEF Kept, Quiet
  <2>12. Ingest(c, batch) \in {CloseAfterWrite(d), g}
    BY <1>2, <2>1, <2>3, <2>9 DEF Ingest
  <2>13. QED
    BY <2>8, <2>11, <2>12 DEF Kept, SessionInv
<1>3. CASE c.open /\ c.accepted
  <2>1. PICK d : d = ParseAll(c, batch)
    OBVIOUS
  <2>2. PICK e : e = IF d.ended /\ ~c.ended THEN CloseAfterWrite(d) ELSE d
    OBVIOUS
  <2>3. PICK g : g = IF Len(d.inbox) > Len(c.inbox) THEN WakeReceivers(e) ELSE e
    OBVIOUS
  <2>4. Ingest(c, batch) = SyncReadPause(g)
    BY <1>3, <2>1, <2>2, <2>3 DEF Ingest, Then
  <2>5. Parsed(c, d)
    BY <1>3, <2>1, ParseAllParsed
  <2>6. Shape(d) /\ WireInv(d)
    BY <2>5 DEF Parsed
  <2>7. Down(d, e)
    BY <2>2, <2>6, CloseAfterWriteDown, QuietSelf, QuietDown
  <2>8. Shape(e) /\ WireInv(e) /\ (ReadSound(d) => ReadSound(e)) /\ (MailSound(d) => MailSound(e))
    BY <2>6, <2>7, DownKeeps DEF Down
  <2>9. ReadSound(c) => ReadSound(d)
    BY <2>5 DEF Parsed, ReadSound, Healthy, Live
  <2>10. Shape(g) /\ WireInv(g) /\ (ReadSound(e) => ReadSound(g)) /\ MailSound(g)
    <3>1. CASE Len(d.inbox) > Len(c.inbox)
      <4>1. Woken(e, g)
        BY <2>3, <2>8, <3>1, WakeReceiversWakes
      <4>2. WireInv(g)
        BY <2>8, <4>1, SameKeepsWire DEF Woken
      <4>3. QED
        BY <4>1, <4>2 DEF Woken, ReadSound, SameSession, Healthy, Live
    <3>2. CASE ~(Len(d.inbox) > Len(c.inbox))
      <4>1. d.inbox = c.inbox /\ d.recv_waiters = c.recv_waiters /\ d.open = c.open
        BY <2>5, <3>2 DEF Parsed
      <4>2. MailSound(d)
        BY <4>1 DEF MailSound
      <4>3. QED
        BY <2>3, <2>8, <3>2, <4>2
    <3>3. QED
      BY <3>1, <3>2
  <2>11. PICK h : h = SyncReadPause(g)
    OBVIOUS
  <2>12. Synced(g, h)
    BY <2>10, <2>11, SyncReadPauseSyncs
  <2>13. WireInv(h) /\ MailSound(h)
    BY <2>10, <2>12, SameKeepsWire DEF Synced, MailSound, SameSession
  <2>14. QED
    BY <2>4, <2>8, <2>9, <2>10, <2>11, <2>12, <2>13 DEF Kept, Synced
<1>4. QED
  BY <1>1, <1>2, <1>3

-----------------------------------------------------------------------------
(* What tasks hold.                                                        *)

\* A task is given something that is not connect.
LEMMA HandKeeps ==
  ASSUME NEW c, NEW t \in Tasks, NEW x \in Int, x # Connect, SessionInv(c)
  PROVE  SessionInv([c EXCEPT !.held[t] = x]) /\ SessionInv([c EXCEPT !.taken[t] = x])
<1>1. Shape(c) /\ WireInv(c) /\ PauseSound(c) /\ ReadSound(c) /\ MailSound(c)
  BY DEF SessionInv
<1>2. ASSUME NEW d, d \in {[c EXCEPT !.held[t] = x], [c EXCEPT !.taken[t] = x]} PROVE SessionInv(d)
  <2>1. /\ Shape(d)
        /\ d.held \in {c.held, [c.held EXCEPT ![t] = x]} /\ d.taken \in {c.taken, [c.taken EXCEPT ![t] = x]}
    <3>1. CASE d = [c EXCEPT !.held[t] = x]
      BY <1>1, <3>1 DEF Shape, Watched
    <3>2. CASE d = [c EXCEPT !.taken[t] = x]
      BY <1>1, <3>2 DEF Shape, Watched
    <3>3. QED
      BY <1>2, <3>1, <3>2
  <2>2. /\ d.open = c.open /\ d.closing = c.closing /\ d.disconnected = c.disconnected
        /\ d.sent = c.sent /\ d.accepted = c.accepted /\ d.ws_closing = c.ws_closing
        /\ d.connect_sent = c.connect_sent /\ d.q = c.q /\ d.tasks = c.tasks /\ d.out = c.out
        /\ d.inbox = c.inbox /\ d.inbox_bytes = c.inbox_bytes
        /\ d.recv_waiters = c.recv_waiters /\ d.reading = c.reading /\ d.inbox_paused = c.inbox_paused
    BY <1>1, <1>2 DEF Shape, Watched
  <2>3. \A u \in Tasks : (d.held[u] = Connect => c.held[u] = Connect) /\ (d.taken[u] = Connect => c.taken[u] = Connect)
    BY ZenonT(40), <1>1, <2>1 DEF Shape
  <2>4. ConnectOnce(d) /\ Accounted(d)
    BY <1>1, <2>2, <2>3 DEF WireInv, ConnectOnce, Accounted, Live, Putting
  <2>5. Told(d) /\ InOrder(d.out)
    BY <1>1, <2>2 DEF WireInv, Told, Live
  <2>6. PauseSound(d) /\ ReadSound(d) /\ MailSound(d)
    BY <1>1, <2>2 DEF PauseSound, ReadSound, MailSound, Healthy, Live, Pressed, Unsent
  <2>7. QED
    BY <2>1, <2>4, <2>5, <2>6 DEF SessionInv, WireInv
<1>3. QED
  BY <1>2

\* A task is told that the peer is gone.
LEMMA GoneKeeps ==
  ASSUME NEW c, NEW t \in Tasks, SessionInv(c) PROVE SessionInv([c EXCEPT !.held[t] = Gone])
<1>1. Gone \in Int /\ Gone # Connect
  BY DEF Gone, Connect
<1>2. QED
  BY <1>1, HandKeeps

\* Synchronising the pause mends what a message more or less did to it.
LEMMA SyncKeeps ==
  ASSUME NEW c, Shape(c), WireInv(c), ReadSound(c), MailSound(c) PROVE SessionInv(SyncReadPause(c))
<1>1. PICK d : d = SyncReadPause(c)
  OBVIOUS
<1>2. Synced(c, d)
  BY <1>1, SyncReadPauseSyncs
<1>3. WireInv(d)
  BY <1>2, SameKeepsWire DEF Synced
<1>4. MailSound(d)
  BY <1>2 DEF Synced, MailSound, SameSession
<1>5. QED
  BY <1>1, <1>2, <1>3, <1>4 DEF SessionInv, Synced

\* The front message leaves the inbox.
LEMMA PopInboxKeeps ==
  ASSUME NEW c, SessionInv(c), c.inbox # <<>> PROVE SessionInv(PopInbox(c))
<1>1. Shape(c) /\ WireInv(c) /\ PauseSound(c) /\ ReadSound(c) /\ MailSound(c)
  BY DEF SessionInv
<1>2. PICK g : g = IF Head(c.inbox) > 0 THEN Append(c.got, Head(c.inbox)) ELSE c.got
  OBVIOUS
<1>3. PICK n : n = IF c.inbox_bytes > 0 THEN c.inbox_bytes - 1 ELSE 0
  OBVIOUS
<1>4. PICK i : i = Tail(c.inbox)
  OBVIOUS
<1>5. n \in Nat /\ i \in Seq(Int)
  BY <1>1, <1>3, <1>4 DEF Shape
<1>6. PICK d : d = [c EXCEPT !.inbox = i, !.inbox_bytes = n, !.got = g]
  OBVIOUS
<1>7. PopInbox(c) = SyncReadPause(d)
  BY <1>2, <1>3, <1>4, <1>6 DEF PopInbox
<1>8. Shape(d) /\ d.inbox = i
  BY <1>1, <1>5, <1>6 DEF Shape, Watched
<1>9. /\ d.open = c.open /\ d.closing = c.closing /\ d.disconnected = c.disconnected
      /\ d.sent = c.sent /\ d.accepted = c.accepted /\ d.ws_closing = c.ws_closing
      /\ d.connect_sent = c.connect_sent /\ d.q = c.q /\ d.tasks = c.tasks /\ d.out = c.out
      /\ d.held = c.held /\ d.taken = c.taken
      /\ d.recv_waiters = c.recv_waiters /\ d.reading = c.reading /\ d.inbox_paused = c.inbox_paused
  BY <1>1, <1>6 DEF Shape, Watched
<1>10. NoConnect(c.inbox) => NoConnect(i)
  <2> SUFFICES ASSUME NoConnect(c.inbox), NEW k \in 1..Len(i) PROVE i[k] # Connect
    BY DEF NoConnect
  <2>1. c.inbox \in Seq(Int)
    BY <1>1 DEF Shape
  <2>2. k + 1 \in 1..Len(c.inbox) /\ i[k] = c.inbox[k + 1]
    BY <1>4, <2>1
  <2>3. QED
    BY <2>2 DEF NoConnect
<1>11. WireInv(d)
  BY <1>1, <1>8, <1>9, <1>10 DEF WireInv, Told, Live, ConnectOnce, Putting, Accounted
<1>12. ReadSound(d) /\ MailSound(d)
  BY <1>1, <1>9 DEF ReadSound, Healthy, Live, MailSound
<1>13. QED
  BY <1>7, <1>8, <1>11, <1>12, SyncKeeps

\* receive() parks, beside an empty inbox.
LEMMA ParkReceiverKeeps ==
  ASSUME NEW c, NEW t \in Tasks, NEW f, SessionInv(c), c.inbox = <<>> PROVE SessionInv(ParkReceiver(c, t, f))
<1>1. Shape(c) /\ WireInv(c) /\ PauseSound(c) /\ ReadSound(c)
  BY DEF SessionInv
<1>2. PICK w : w = Append(Only(c.recv_waiters, PendingOnes(c)), f)
  OBVIOUS
<1>3. Listed(w)
  BY <1>1, <1>2, ListedOnly, ListedAppend DEF Shape
<1>4. PICK d : d = [c EXCEPT !.fut[f] = "pending", !.recv_waiters = w]
  OBVIOUS
<1>5. Shape(d) /\ SameSession(c, d) /\ d.reading = c.reading /\ d.inbox_paused = c.inbox_paused
  BY <1>1, <1>3, <1>4 DEF Shape, Watched, SameSession, SameData, Putting
<1>6. WireInv(d)
  BY <1>1, <1>5, SameKeepsWire
<1>7. PauseSound(d) /\ ReadSound(d) /\ MailSound(d)
  BY <1>1, <1>5 DEF PauseSound, ReadSound, MailSound, SameSession, SameData, Healthy, Live, Pressed, Unsent
<1>8. ParkReceiver(c, t, f) = Await(d, t, "recv", f)
  BY <1>2, <1>4 DEF ParkReceiver
<1>9. QED
  BY <1>5, <1>6, <1>7, <1>8, QuietAwait, QuietKeeps DEF SessionInv

\* A message is taken from the inbox for a task.
LEMMA TakeKeeps ==
  ASSUME NEW c, NEW t \in Tasks, SessionInv(c), c.inbox # <<>>
  PROVE  /\ SessionInv(PopInbox([c EXCEPT !.taken[t] = Head(c.inbox)]))
         /\ SessionInv(PopInbox([c EXCEPT !.held[t] = Head(c.inbox)]))
<1>1. PICK x : x = Head(c.inbox)
  OBVIOUS
<1>2. x \in Int /\ x # Connect
  <2>1. c.inbox \in Seq(Int) /\ NoConnect(c.inbox)
    BY DEF SessionInv, Shape, WireInv, ConnectOnce
  <2>2. 1 \in 1..Len(c.inbox) /\ x = c.inbox[1]
    BY <1>1, <2>1
  <2>3. QED
    BY <2>1, <2>2 DEF NoConnect
<1>3. PICK d, e : d = [c EXCEPT !.taken[t] = x] /\ e = [c EXCEPT !.held[t] = x]
  OBVIOUS
<1>4. SessionInv(d) /\ SessionInv(e)
  BY <1>2, <1>3, HandKeeps
<1>5. d.inbox = c.inbox /\ e.inbox = c.inbox
  BY <1>3 DEF SessionInv, Shape, Watched
<1>6. QED
  BY <1>1, <1>3, <1>4, <1>5, PopInboxKeeps

\* connect is given out.
LEMMA ConnectKeeps ==
  ASSUME NEW c, NEW t \in Tasks, SessionInv(c), ~c.connect_sent
  PROVE  SessionInv([c EXCEPT !.connect_sent = TRUE, !.taken[t] = Connect])
<1>1. Shape(c) /\ WireInv(c) /\ PauseSound(c) /\ ReadSound(c) /\ MailSound(c)
  BY DEF SessionInv
<1>2. PICK d : d = [c EXCEPT !.connect_sent = TRUE, !.taken[t] = Connect]
  OBVIOUS
<1>3. Connect \in Int
  BY DEF Connect
<1>4. Shape(d) /\ d.taken = [c.taken EXCEPT ![t] = Connect] /\ d.connect_sent
  BY <1>1, <1>2, <1>3 DEF Shape, Watched
<1>5. /\ d.open = c.open /\ d.closing = c.closing /\ d.disconnected = c.disconnected
      /\ d.sent = c.sent /\ d.accepted = c.accepted /\ d.ws_closing = c.ws_closing
      /\ d.q = c.q /\ d.tasks = c.tasks /\ d.out = c.out /\ d.held = c.held
      /\ d.inbox = c.inbox /\ d.inbox_bytes = c.inbox_bytes
      /\ d.recv_waiters = c.recv_waiters /\ d.reading = c.reading /\ d.inbox_paused = c.inbox_paused
  BY <1>1, <1>2 DEF Shape, Watched
<1>6. \A u \in Tasks : c.held[u] # Connect /\ c.taken[u] # Connect
  BY <1>1 DEF WireInv, ConnectOnce
<1>7. \A u \in Tasks : d.held[u] # Connect /\ (d.taken[u] = Connect => u = t)
  BY <1>1, <1>4, <1>5, <1>6 DEF Shape
<1>8. ~(Live(c) /\ c.accepted)
  BY <1>1 DEF WireInv, Accounted
<1>9. ConnectOnce(d) /\ Accounted(d)
  BY <1>1, <1>4, <1>5, <1>7, <1>8 DEF WireInv, ConnectOnce, Accounted, Live, Putting
<1>10. Told(d) /\ InOrder(d.out)
  BY <1>1, <1>5 DEF WireInv, Told, Live
<1>11. PauseSound(d) /\ ReadSound(d) /\ MailSound(d)
  BY <1>1, <1>5 DEF PauseSound, ReadSound, MailSound, Healthy, Live, Pressed, Unsent
<1>12. QED
  BY <1>2, <1>4, <1>9, <1>10, <1>11 DEF SessionInv, WireInv

\* HttpReceive.__call__
LEMMA ReceiveKeeps == ASSUME NEW c, NEW t \in Tasks, SessionInv(c) PROVE SessionInv(Receive(c, t))
<1>1. CASE ~c.open
  BY <1>1, GoneKeeps DEF Receive
<1>2. CASE c.open /\ ~c.connect_sent
  BY <1>2, ConnectKeeps DEF Receive
<1>3. CASE c.open /\ c.connect_sent /\ c.inbox # <<>>
  BY <1>3, TakeKeeps DEF Receive
<1>4. CASE c.open /\ c.connect_sent /\ c.inbox = <<>>
  BY <1>4, GoneKeeps, ParkReceiverKeeps DEF Receive
<1>5. QED
  BY <1>1, <1>2, <1>3, <1>4

\* WsRecv.resume
LEMMA ResumeReceiveKeeps ==
  ASSUME NEW c, NEW t \in Tasks, NEW result, SessionInv(c) PROVE SessionInv(ResumeReceive(c, t, result))
<1>1. CASE result = "gone" \/ ~c.open
  BY <1>1, GoneKeeps DEF ResumeReceive
<1>2. CASE ~(result = "gone" \/ ~c.open) /\ c.inbox # <<>>
  BY <1>2, TakeKeeps DEF ResumeReceive
<1>3. CASE ~(result = "gone" \/ ~c.open) /\ c.inbox = <<>>
  BY <1>3, GoneKeeps, ParkReceiverKeeps DEF ResumeReceive
<1>4. QED
  BY <1>1, <1>2, <1>3

\* Waking every receive() keeps all.
LEMMA WakeReceiversKeeps == ASSUME NEW c, SessionInv(c) PROVE SessionInv(WakeReceivers(c))
<1>1. PICK d : d = WakeReceivers(c)
  OBVIOUS
<1>2. Shape(c) /\ WireInv(c) /\ PauseSound(c) /\ ReadSound(c)
  BY DEF SessionInv
<1>3. Woken(c, d)
  BY <1>1, <1>2, WakeReceiversWakes
<1>4. WireInv(d)
  BY <1>2, <1>3, SameKeepsWire DEF Woken
<1>5. PauseSound(d) /\ ReadSound(d)
  BY <1>2, <1>3 DEF Woken, SameSession, SameData, PauseSound, ReadSound, Healthy, Live, Pressed, Unsent
<1>6. QED
  BY <1>1, <1>3, <1>4, <1>5 DEF SessionInv, Woken

\* WsRecv.abandon
LEMMA AbandonKeeps == ASSUME NEW c, NEW result, SessionInv(c) PROVE SessionInv(Abandon(c, result))
  BY WakeReceiversKeeps DEF Abandon

\* A message returns to the front of the inbox.
LEMMA ReturnKeeps ==
  ASSUME NEW c, NEW m \in Int, m # Connect, SessionInv(c)
  PROVE  SessionInv(SyncReadPause(WakeReceivers([c EXCEPT !.inbox = <<m>> \o @, !.inbox_bytes = @ + 1])))
<1>1. Shape(c) /\ WireInv(c) /\ PauseSound(c) /\ ReadSound(c) /\ MailSound(c)
  BY DEF SessionInv
<1>2. PICK i : i = <<m>> \o c.inbox
  OBVIOUS
<1>3. i \in Seq(Int) /\ (NoConnect(c.inbox) => NoConnect(i))
  <2>1. c.inbox \in Seq(Int) /\ <<m>> \in Seq(Int)
    BY <1>1 DEF Shape
  <2>2. i \in Seq(Int) /\ Len(i) = 1 + Len(c.inbox) /\ i[1] = m /\ \A k \in 2..Len(i) : i[k] = c.inbox[k - 1]
    BY <1>2, <2>1
  <2>3. ASSUME NoConnect(c.inbox), NEW k \in 1..Len(i) PROVE i[k] # Connect
    <3>1. CASE k = 1
      BY <2>2, <3>1
    <3>2. CASE k # 1
      <4>1. k \in 2..Len(i) /\ k - 1 \in 1..Len(c.inbox)
        BY <2>1, <2>2, <3>2
      <4>2. QED
        BY <2>2, <2>3, <4>1 DEF NoConnect
    <3>3. QED
      BY <3>1, <3>2
  <2>4. QED
    BY <2>2, <2>3 DEF NoConnect
<1>4. PICK d : d = [c EXCEPT !.inbox = i, !.inbox_bytes = @ + 1]
  OBVIOUS
<1>5. Shape(d) /\ d.inbox = i
  BY <1>1, <1>3, <1>4 DEF Shape, Watched
<1>6. /\ d.open = c.open /\ d.closing = c.closing /\ d.disconnected = c.disconnected
      /\ d.sent = c.sent /\ d.accepted = c.accepted /\ d.ws_closing = c.ws_closing
      /\ d.connect_sent = c.connect_sent /\ d.q = c.q /\ d.tasks = c.tasks /\ d.out = c.out
      /\ d.held = c.held /\ d.taken = c.taken
      /\ d.recv_waiters = c.recv_waiters /\ d.reading = c.reading /\ d.inbox_paused = c.inbox_paused
  BY <1>1, <1>4 DEF Shape, Watched
<1>7. WireInv(d)
  BY <1>1, <1>3, <1>5, <1>6 DEF WireInv, Told, Live, ConnectOnce, Putting, Accounted
<1>8. ReadSound(d)
  BY <1>1, <1>6 DEF ReadSound, Healthy, Live
<1>9. PICK e : e = WakeReceivers(d)
  OBVIOUS
<1>10. Woken(d, e)
  BY <1>5, <1>9, WakeReceiversWakes
<1>11. WireInv(e)
  BY <1>7, <1>10, SameKeepsWire DEF Woken
<1>12. Shape(e) /\ MailSound(e) /\ ReadSound(e)
  BY <1>8, <1>10 DEF Woken, SameSession, ReadSound, Healthy, Live
<1>13. QED
  BY <1>2, <1>4, <1>9, <1>11, <1>12, SyncKeeps

\* connect is put back: nobody else has it, and nobody accepted.
LEMMA UnconnectKeeps ==
  ASSUME NEW c, NEW t \in Tasks, NEW r, NEW g, SessionInv(c), c.taken[t] = Connect
  PROVE  SessionInv([c EXCEPT !.taken[t] = Nothing, !.returned = r, !.got = g, !.connect_sent = FALSE])
<1>1. Shape(c) /\ WireInv(c) /\ PauseSound(c) /\ ReadSound(c) /\ MailSound(c)
  BY DEF SessionInv
<1>2. PICK d : d = [c EXCEPT !.taken[t] = Nothing, !.returned = r, !.got = g, !.connect_sent = FALSE]
  OBVIOUS
<1>3. Nothing \in Int /\ Nothing # Connect
  BY DEF Nothing, Connect
<1>4. Shape(d) /\ d.taken = [c.taken EXCEPT ![t] = Nothing]
  BY <1>1, <1>2, <1>3 DEF Shape, Watched
<1>5. /\ d.open = c.open /\ d.closing = c.closing /\ d.disconnected = c.disconnected
      /\ d.sent = c.sent /\ d.accepted = c.accepted /\ d.ws_closing = c.ws_closing
      /\ d.q = c.q /\ d.tasks = c.tasks /\ d.out = c.out /\ d.held = c.held
      /\ d.inbox = c.inbox /\ d.inbox_bytes = c.inbox_bytes
      /\ d.recv_waiters = c.recv_waiters /\ d.reading = c.reading /\ d.inbox_paused = c.inbox_paused
  BY <1>1, <1>2 DEF Shape, Watched
<1>6. \A u \in Tasks : c.held[u] # Connect /\ (u # t => c.taken[u] # Connect)
  BY <1>1 DEF WireInv, ConnectOnce
<1>7. \A u \in Tasks : d.held[u] # Connect /\ d.taken[u] # Connect
  BY <1>1, <1>3, <1>4, <1>5, <1>6 DEF Shape
<1>8. ~(Live(c) /\ c.accepted)
  BY <1>1 DEF WireInv, Accounted
<1>9. ConnectOnce(d) /\ Accounted(d)
  BY <1>1, <1>5, <1>7, <1>8 DEF WireInv, ConnectOnce, Accounted, Live, Putting
<1>10. Told(d) /\ InOrder(d.out)
  BY <1>1, <1>5 DEF WireInv, Told, Live
<1>11. PauseSound(d) /\ ReadSound(d) /\ MailSound(d)
  BY <1>1, <1>5 DEF PauseSound, ReadSound, MailSound, Healthy, Live, Pressed, Unsent
<1>12. QED
  BY <1>2, <1>4, <1>9, <1>10, <1>11 DEF SessionInv, WireInv

\* Taken.put_back
LEMMA PutBackKeeps == ASSUME NEW c, NEW t \in Tasks, SessionInv(c) PROVE SessionInv(PutBack(c, t))
<1>1. PICK m : m = c.taken[t]
  OBVIOUS
<1>2. PICK r : r = c.returned \cup Numbers(<<m>>)
  OBVIOUS
<1>3. PICK g : g = SelectSeq(c.got, LAMBDA x : x # m)
  OBVIOUS
<1>4. PICK e : e = [c EXCEPT !.taken[t] = Nothing]
  OBVIOUS
<1>5. PICK d : d = [c EXCEPT !.taken[t] = Nothing, !.returned = r, !.got = g]
  OBVIOUS
<1>6. Nothing \in Int /\ Nothing # Connect /\ m \in Int
  BY <1>1 DEF Nothing, Connect, SessionInv, Shape
<1>7. SessionInv(e)
  BY <1>4, <1>6, HandKeeps
<1>8. d = [e EXCEPT !.returned = r, !.got = g]
  BY <1>4, <1>5
<1>9. SessionInv(d)
  <2>1. Quiet(e, d)
    BY <1>7, <1>8 DEF SessionInv, Shape, Quiet, SameSession, SameData, Putting, Watched
  <2>2. QED
    BY <1>7, <2>1, QuietKeeps
<1>10. CASE m = Nothing
  BY <1>1, <1>10 DEF PutBack
<1>11. CASE m # Nothing /\ ~c.open
  <2>1. PICK x : x = d.gone \cup Numbers(<<m>>)
    OBVIOUS
  <2>2. PutBack(c, t) = [d EXCEPT !.gone = x]
    BY <1>1, <1>2, <1>3, <1>5, <1>11, <2>1 DEF PutBack
  <2>3. Quiet(d, [d EXCEPT !.gone = x])
    BY <1>9 DEF SessionInv, Shape, Quiet, SameSession, SameData, Putting, Watched
  <2>4. QED
    BY <1>9, <2>2, <2>3, QuietKeeps
<1>12. CASE m = Connect /\ c.open
  <2>1. PutBack(c, t) = [d EXCEPT !.connect_sent = FALSE]
    BY <1>1, <1>2, <1>3, <1>5, <1>6, <1>12 DEF PutBack
  <2>2. PutBack(c, t) = [c EXCEPT !.taken[t] = Nothing, !.returned = r, !.got = g, !.connect_sent = FALSE]
    BY <1>5, <2>1
  <2>3. c.taken[t] = Connect
    BY <1>1, <1>12
  <2>4. SessionInv([c EXCEPT !.taken[t] = Nothing, !.returned = r, !.got = g, !.connect_sent = FALSE])
    BY <2>3, UnconnectKeeps, Zenon
  <2>5. QED
    BY <2>2, <2>4
<1>13. CASE m # Nothing /\ m # Connect /\ c.open
  <2>1. PutBack(c, t) = SyncReadPause(WakeReceivers([d EXCEPT !.inbox = <<m>> \o @, !.inbox_bytes = @ + 1]))
    BY <1>1, <1>2, <1>3, <1>5, <1>13 DEF PutBack
  <2>2. QED
    BY <1>6, <1>9, <1>13, <2>1, ReturnKeeps
<1>14. QED
  BY <1>10, <1>11, <1>12, <1>13

-----------------------------------------------------------------------------
(* The queue.                                                              *)

\* What a step of the queue leaves: nobody puts connect on it.
LEMMA QueueKeeps ==
  ASSUME NEW c, NEW d, SessionInv(c), Shape(d),
         d.open = c.open, d.closing = c.closing, d.disconnected = c.disconnected,
         d.sent = c.sent, d.accepted = c.accepted, d.ws_closing = c.ws_closing,
         d.connect_sent = c.connect_sent, d.out = c.out, d.held = c.held, d.taken = c.taken,
         d.inbox = c.inbox, d.inbox_bytes = c.inbox_bytes,
         d.recv_waiters = c.recv_waiters, d.reading = c.reading, d.inbox_paused = c.inbox_paused,
         NoConnect(d.q.items), \A t \in Putting(d) : c.held[t] # Connect
  PROVE  SessionInv(d)
<1>1. WireInv(c) /\ PauseSound(c) /\ ReadSound(c) /\ MailSound(c)
  BY DEF SessionInv
<1>2. ConnectOnce(d) /\ Accounted(d)
  BY <1>1 DEF WireInv, ConnectOnce, Accounted, Live
<1>3. Told(d) /\ InOrder(d.out)
  BY <1>1 DEF WireInv, Told, Live
<1>4. PauseSound(d) /\ ReadSound(d) /\ MailSound(d)
  BY <1>1 DEF PauseSound, ReadSound, MailSound, Healthy, Live, Pressed, Unsent
<1>5. QED
  BY <1>2, <1>3, <1>4 DEF SessionInv, WireInv

\* A task that does not hold connect parks as a putter.
LEMMA ParkPutterKeeps ==
  ASSUME NEW c, NEW t \in Tasks, NEW f, SessionInv(c), c.held[t] # Connect PROVE SessionInv(ParkPutter(c, t, f))
<1>1. PICK w : w = Append(c.q.putters, f)
  OBVIOUS
<1>2. PICK d : d = [c EXCEPT !.fut[f] = "pending", !.q.putters = Append(@, f)]
  OBVIOUS
<1>3. Shape(c)
  BY DEF SessionInv
<1>4. Shape(d) /\ SessionInv(d) /\ d.held = c.held
  <2>1. PICK e : e = [c EXCEPT !.fut[f] = "pending"]
    OBVIOUS
  <2>2. Quiet(c, e)
    BY <1>3, <2>1, QuietFut
  <2>3. Quiet(e, [e EXCEPT !.q.putters = w])
    BY <2>2, QuietWaiters DEF Quiet
  <2>4. d = [e EXCEPT !.q.putters = w]
    BY <1>1, <1>2, <1>3, <2>1 DEF Shape, Watched
  <2>5. Quiet(c, d)
    BY <2>2, <2>3, <2>4, QuietTwice
  <2>6. QED
    BY <2>5, QuietKeeps DEF Quiet, SameSession, SameData
<1>5. PICK e : e = [d EXCEPT !.tasks[t].at = "put", !.tasks[t].wait = f, !.running = Nobody]
  OBVIOUS
<1>6. /\ Shape(e) /\ e.open = d.open /\ e.closing = d.closing /\ e.disconnected = d.disconnected
      /\ e.sent = d.sent /\ e.accepted = d.accepted /\ e.ws_closing = d.ws_closing
      /\ e.connect_sent = d.connect_sent /\ e.out = d.out /\ e.held = d.held /\ e.taken = d.taken
      /\ e.inbox = d.inbox /\ e.inbox_bytes = d.inbox_bytes
      /\ e.recv_waiters = d.recv_waiters /\ e.reading = d.reading /\ e.inbox_paused = d.inbox_paused
      /\ e.q = d.q /\ Putting(e) \subseteq Putting(d) \cup {t}
  BY <1>4, <1>5 DEF Shape, Watched, Putting
<1>7. NoConnect(e.q.items) /\ \A u \in Putting(e) : d.held[u] # Connect
  BY <1>4, <1>6 DEF SessionInv, WireInv, ConnectOnce
<1>8. SessionInv(e)
  BY <1>4, <1>6, <1>7, QueueKeeps
<1>9. PICK l : l = [e EXCEPT !.fut[f] = "cancelled", !.tasks[t].must_cancel = FALSE]
  OBVIOUS
<1>10. Quiet(e, l)
  BY <1>6, <1>9 DEF Shape, Quiet, SameSession, SameData, Putting, Watched
<1>11. Quiet(e, Scheduled(e, f)) /\ Quiet(l, Scheduled(l, f))
  BY <1>6, <1>10, QuietScheduled DEF Quiet
<1>12. ParkPutter(c, t, f) \in {e, Scheduled(e, f), Scheduled(l, f)}
  BY <1>2, <1>5, <1>9 DEF ParkPutter, Await
<1>13. QED
  BY <1>8, <1>10, <1>11, <1>12, QuietKeeps

\* put_now: an item that is not connect joins the queue.
LEMMA PutNowKeeps ==
  ASSUME NEW c, NEW m \in Int, m # Connect, SessionInv(c) PROVE SessionInv(PutNow(c, m))
<1>1. Shape(c) /\ c.q.items \in Seq(Int) /\ NoConnect(c.q.items)
  BY DEF SessionInv, WireInv, ConnectOnce, Shape
<1>2. PICK i : i = Append(c.q.items, m)
  OBVIOUS
<1>3. i \in Seq(Int) /\ NoConnect(i)
  BY <1>1, <1>2 DEF NoConnect
<1>4. PICK d : d = [c EXCEPT !.q.items = i, !.q.unfinished = @ + 1]
  OBVIOUS
<1>5. /\ Shape(d) /\ d.open = c.open /\ d.closing = c.closing /\ d.disconnected = c.disconnected
      /\ d.sent = c.sent /\ d.accepted = c.accepted /\ d.ws_closing = c.ws_closing
      /\ d.connect_sent = c.connect_sent /\ d.out = c.out /\ d.held = c.held /\ d.taken = c.taken
      /\ d.inbox = c.inbox /\ d.inbox_bytes = c.inbox_bytes
      /\ d.recv_waiters = c.recv_waiters /\ d.reading = c.reading /\ d.inbox_paused = c.inbox_paused
      /\ d.q.items = i /\ d.tasks = c.tasks
  BY <1>1, <1>3, <1>4 DEF Shape, Watched
<1>6. NoConnect(d.q.items) /\ \A u \in Putting(d) : c.held[u] # Connect
  BY <1>3, <1>5 DEF SessionInv, WireInv, ConnectOnce, Putting
<1>7. SessionInv(d)
  BY <1>5, <1>6, QueueKeeps
<1>8. Quiet(d, WakeGetter(d))
  BY <1>5, QuietWake
<1>9. PutNow(c, m) = WakeGetter(d)
  BY <1>2, <1>4 DEF PutNow, Then
<1>10. QED
  BY <1>7, <1>8, <1>9, QuietKeeps

\* get_now: the front item leaves the queue.
LEMMA GetNowKeeps ==
  ASSUME NEW c, SessionInv(c), c.q.items # <<>> PROVE SessionInv(GetNow(c))
<1>1. Shape(c) /\ c.q.items \in Seq(Int) /\ NoConnect(c.q.items)
  BY DEF SessionInv, WireInv, ConnectOnce, Shape
<1>2. PICK i : i = Tail(c.q.items)
  OBVIOUS
<1>3. i \in Seq(Int) /\ NoConnect(i)
  <2>1. i \in Seq(Int) /\ Len(i) = Len(c.q.items) - 1 /\ \A k \in 1..Len(i) : i[k] = c.q.items[k + 1]
    BY <1>1, <1>2
  <2>2. \A k \in 1..Len(i) : k + 1 \in 1..Len(c.q.items)
    BY <1>1, <2>1
  <2>3. QED
    BY <1>1, <2>1, <2>2 DEF NoConnect
<1>4. PICK d : d = [c EXCEPT !.q.items = i]
  OBVIOUS
<1>5. /\ Shape(d) /\ d.open = c.open /\ d.closing = c.closing /\ d.disconnected = c.disconnected
      /\ d.sent = c.sent /\ d.accepted = c.accepted /\ d.ws_closing = c.ws_closing
      /\ d.connect_sent = c.connect_sent /\ d.out = c.out /\ d.held = c.held /\ d.taken = c.taken
      /\ d.inbox = c.inbox /\ d.inbox_bytes = c.inbox_bytes
      /\ d.recv_waiters = c.recv_waiters /\ d.reading = c.reading /\ d.inbox_paused = c.inbox_paused
      /\ d.q.items = i /\ d.tasks = c.tasks
  BY <1>1, <1>3, <1>4 DEF Shape, Watched
<1>6. NoConnect(d.q.items) /\ \A u \in Putting(d) : c.held[u] # Connect
  BY <1>3, <1>5 DEF SessionInv, WireInv, ConnectOnce, Putting
<1>7. SessionInv(d)
  BY <1>5, <1>6, QueueKeeps
<1>8. Quiet(d, WakePutter(d))
  BY <1>5, QuietWake
<1>9. GetNow(c) = WakePutter(d)
  BY <1>2, <1>4 DEF GetNow, Then
<1>10. QED
  BY <1>7, <1>8, <1>9, QuietKeeps

\* Queue.put, one turn of its loop.
LEMMA QueuePutKeeps ==
  ASSUME NEW c, NEW t \in Tasks, SessionInv(c), c.held[t] # Connect PROVE SessionInv(QueuePut(c, t))
<1>1. CASE IsFull(c)
  BY <1>1, ParkPutterKeeps DEF QueuePut
<1>2. CASE ~IsFull(c)
  <2>1. Nothing \in Int /\ Nothing # Connect /\ c.held[t] \in Int
    BY DEF Nothing, Connect, SessionInv, Shape
  <2>2. SessionInv([c EXCEPT !.held[t] = Nothing])
    BY <2>1, HandKeeps
  <2>3. SessionInv(PutNow([c EXCEPT !.held[t] = Nothing], c.held[t]))
    BY <2>1, <2>2, PutNowKeeps
  <2>4. QED
    BY <1>2, <2>3 DEF QueuePut
<1>3. QED
  BY <1>1, <1>2

\* Queue.get, one turn of its loop.
LEMMA QueueGetKeeps ==
  ASSUME NEW c, NEW t \in Tasks, SessionInv(c) PROVE SessionInv(QueueGet(c, t))
<1>1. CASE c.q.items = <<>>
  BY <1>1, QuietPark, QuietKeeps DEF QueueGet, SessionInv
<1>2. CASE c.q.items # <<>>
  <2>1. PICK x : x = Head(c.q.items)
    OBVIOUS
  <2>2. x \in Int /\ x # Connect
    <3>1. c.q.items \in Seq(Int) /\ NoConnect(c.q.items)
      BY DEF SessionInv, Shape, WireInv, ConnectOnce
    <3>2. 1 \in 1..Len(c.q.items) /\ x = c.q.items[1]
      BY <1>2, <2>1, <3>1
    <3>3. QED
      BY <3>1, <3>2 DEF NoConnect
  <2>3. PICK d : d = [c EXCEPT !.held[t] = x]
    OBVIOUS
  <2>4. SessionInv(d) /\ d.q.items # <<>>
    <3>1. d.q = c.q
      BY <2>3 DEF SessionInv, Shape, Watched
    <3>2. QED
      BY <1>2, <2>2, <2>3, <3>1, HandKeeps
  <2>5. QED
    BY <1>2, <2>1, <2>3, <2>4, GetNowKeeps DEF QueueGet
<1>3. QED
  BY <1>1, <1>2

-----------------------------------------------------------------------------
(* The handler's end of the session.                                       *)

\* Parked receives are let go: nothing else changes.
LEMMA UnparkKeeps ==
  ASSUME NEW c, NEW d, SessionInv(c), Shape(d), SameSession(c, d), d.recv_waiters = <<>>,
         d.reading = c.reading, d.inbox_paused = c.inbox_paused
  PROVE  SessionInv(d)
<1>1. WireInv(c) /\ PauseSound(c) /\ ReadSound(c)
  BY DEF SessionInv
<1>2. WireInv(d)
  BY <1>1, SameKeepsWire
<1>3. PauseSound(d) /\ ReadSound(d)
  BY <1>1 DEF SameSession, SameData, PauseSound, ReadSound, Healthy, Live, Pressed, Unsent
<1>4. MailSound(d)
  BY DEF MailSound
<1>5. QED
  BY <1>2, <1>3, <1>4 DEF SessionInv

\* finish_request
LEMMA FinishRequestKeeps == ASSUME NEW c, SessionInv(c) PROVE SessionInv(FinishRequest(c))
<1>1. CASE ~c.open
  BY <1>1 DEF FinishRequest
<1>2. CASE c.open
  <2>1. PICK d : d = [c EXCEPT !.active = FALSE, !.recv_waiters = <<>>]
    OBVIOUS
  <2>2. Shape(c) /\ Listed(c.recv_waiters)
    BY DEF SessionInv, Shape
  <2>3. /\ Shape(d) /\ SameSession(c, d) /\ d.recv_waiters = <<>>
        /\ d.reading = c.reading /\ d.inbox_paused = c.inbox_paused
    BY <2>1, <2>2, ListedEmpty DEF Shape, Watched, SameSession, SameData, Putting
  <2>4. SessionInv(d)
    BY <2>3, UnparkKeeps
  <2>5. Quiet(d, ResolveAll(d, c.recv_waiters, "gone"))
    BY <2>2, <2>3, QuietResolveAll
  <2>6. FinishRequest(c) = ResolveAll(d, c.recv_waiters, "gone")
    BY <1>2, <2>1 DEF FinishRequest
  <2>7. QED
    BY <2>4, <2>5, <2>6, QuietKeeps
<1>3. QED
  BY <1>1, <1>2

\* Less is held, and nothing else is given out.
LEMMA HeldLess ==
  ASSUME NEW c, NEW d, ConnectOnce(c), d.inbox = c.inbox, d.q.items = c.q.items,
         d.connect_sent = c.connect_sent, d.taken = c.taken, Putting(d) \subseteq Putting(c),
         \A t \in Tasks : d.held[t] = Connect => c.held[t] = Connect
  PROVE  ConnectOnce(d)
<1>1. NoConnect(d.inbox) /\ NoConnect(d.q.items)
  BY DEF ConnectOnce
<1>2. \A t \in Putting(d) : d.held[t] # Connect
  BY DEF ConnectOnce, Putting
<1>3. \A t \in Tasks : d.held[t] = Connect \/ d.taken[t] = Connect => d.connect_sent
  BY DEF ConnectOnce
<1>4. \A t, u \in Tasks : /\ ~(d.held[t] = Connect /\ d.taken[u] = Connect)
                          /\ d.held[t] = Connect /\ d.held[u] = Connect => t = u
                          /\ d.taken[t] = Connect /\ d.taken[u] = Connect => t = u
  BY DEF ConnectOnce
<1>5. QED
  BY <1>1, <1>2, <1>3, <1>4 DEF ConnectOnce

\* A session is answered and closed: refused before the accept, with a
\* close frame after it.
LEMMA AnsweredKeeps ==
  ASSUME NEW c, NEW d, NEW kind \in {"error", "close"}, SessionInv(c), Shape(d), c.open,
         d.open = c.open, d.closing = c.closing, d.out = c.out, d.inbox = c.inbox,
         d.recv_waiters = c.recv_waiters, d.q.items = c.q.items, d.connect_sent = c.connect_sent,
         d.taken = c.taken, Putting(d) \subseteq Putting(c),
         \A t \in Tasks : d.held[t] \in {c.held[t], Nothing},
         kind = "error" => ~c.accepted,
         kind = "close" => c.accepted /\ ~c.ws_closing
  PROVE  SessionInv(CloseAfterWrite(Enqueue(d, kind)))
<1>1. WireInv(c) /\ MailSound(c)
  BY DEF SessionInv
<1>2. Nothing # Connect
  BY DEF Nothing, Connect
<1>3. \A t \in Tasks : d.held[t] = Connect => c.held[t] = Connect
  BY <1>2
<1>4. ConnectOnce(d)
  BY <1>1, <1>3, HeldLess DEF WireInv
<1>5. MailSound(d) /\ InOrder(d.out)
  BY <1>1 DEF WireInv, MailSound
<1>6. Live(d) => MayFollow(d.out, kind)
  <2>1. Live(d) => Live(c)
    BY DEF Live
  <2>2. Live(c) => /\ c.accepted <=> c.out # <<>>
                   /\ Without(c.out, "error")
                   /\ ~c.ws_closing => Without(c.out, "close")
    BY <1>1 DEF WireInv, Told
  <2>3. CASE kind = "error"
    BY <2>1, <2>2, <2>3 DEF MayFollow
  <2>4. CASE kind = "close"
    BY <2>1, <2>2, <2>4 DEF MayFollow
  <2>5. QED
    BY <2>3, <2>4
<1>7. kind \in Kinds
  BY DEF Kinds
<1>8. Enqueued(d, Enqueue(d, kind), Frame(kind, Nothing))
  BY <1>7, EnqueueKindAdds
<1>9. QED
  BY <1>4, <1>5, <1>6, <1>7, <1>8, ClosedBehind

\* ws_app_done, fail_request
LEMMA EndSessionKeeps == ASSUME NEW c, SessionInv(c) PROVE SessionInv(EndSession(c))
<1>1. Shape(c)
  BY DEF SessionInv
<1>2. CASE ~c.open
  <2>1. Quiet(c, [c EXCEPT !.active = FALSE])
    BY <1>1 DEF Shape, Quiet, SameSession, SameData, Putting, Watched
  <2>2. QED
    BY <1>2, <2>1, QuietKeeps DEF EndSession
<1>3. CASE c.open
  <2>1. PICK d : d = [c EXCEPT !.accepted = TRUE, !.ws_closing = TRUE]
    OBVIOUS
  <2>2. /\ Shape(d) /\ d.open = c.open /\ d.closing = c.closing /\ d.out = c.out /\ d.inbox = c.inbox
        /\ d.recv_waiters = c.recv_waiters /\ d.q.items = c.q.items /\ d.connect_sent = c.connect_sent
        /\ d.taken = c.taken /\ Putting(d) \subseteq Putting(c)
        /\ \A t \in Tasks : d.held[t] \in {c.held[t], Nothing}
    BY <1>1, <2>1 DEF Shape, Watched, Putting
  <2>3. PICK e : e = IF ~c.accepted THEN Enqueue(d, "error")
                     ELSE IF ~c.ws_closing THEN Enqueue(d, "close") ELSE c
    OBVIOUS
  <2>4. EndSession(c) = FinishRequest(CloseAfterWrite(e))
    BY <1>3, <2>1, <2>3 DEF EndSession, Then
  <2>5. SessionInv(CloseAfterWrite(e))
    <3>1. CASE ~c.accepted
      <4>1. SessionInv(CloseAfterWrite(Enqueue(d, "error")))
        BY <1>3, <2>2, <3>1, AnsweredKeeps
      <4>2. QED
        BY <2>3, <3>1, <4>1
    <3>2. CASE c.accepted /\ ~c.ws_closing
      <4>1. SessionInv(CloseAfterWrite(Enqueue(d, "close")))
        BY <1>3, <2>2, <3>2, AnsweredKeeps
      <4>2. QED
        BY <2>3, <3>2, <4>1
    <3>3. CASE c.accepted /\ c.ws_closing
      BY <1>1, <2>3, <3>3, CloseAfterWriteDown, DownKeepsAll
    <3>4. QED
      BY <3>1, <3>2, <3>3
  <2>6. QED
    BY <2>4, <2>5, FinishRequestKeeps
<1>4. QED
  BY <1>2, <1>3

\* The coroutine of a task ends.
LEMMA TaskEndsKeeps == ASSUME NEW c, NEW t \in Tasks, SessionInv(c) PROVE SessionInv(TaskEnds(c, t))
<1>1. PICK d : d = PutBack(c, t)
  OBVIOUS
<1>2. SessionInv(d)
  BY <1>1, PutBackKeeps
<1>3. PICK g : g = Finish(d, t)
  OBVIOUS
<1>4. SessionInv(g)
  BY <1>2, <1>3, QuietFinish, QuietKeeps DEF SessionInv
<1>5. PICK x : x = g.gone \cup Numbers(<<d.held[t]>>)
  OBVIOUS
<1>6. PICK h : h = [g EXCEPT !.gone = x]
  OBVIOUS
<1>7. SessionInv(h)
  <2>1. Shape(g)
    BY <1>4 DEF SessionInv
  <2>2. Quiet(g, h)
    BY <1>6, <2>1 DEF Shape, Quiet, SameSession, SameData, Putting, Watched
  <2>3. QED
    BY <1>4, <2>2, QuietKeeps
<1>8. PICK e : e = [h EXCEPT !.held[t] = Nothing]
  OBVIOUS
<1>9. SessionInv(e)
  <2>1. Nothing \in Int /\ Nothing # Connect
    BY DEF Nothing, Connect
  <2>2. QED
    BY <1>7, <1>8, <2>1, HandKeeps
<1>10. e = [Finish(d, t) EXCEPT !.gone = @ \cup Numbers(<<d.held[t]>>), !.held[t] = Nothing]
  BY <1>3, <1>5, <1>6, <1>8
<1>11. TaskEnds(c, t) = IF t = App THEN EndSession(e) ELSE e
  BY <1>1, <1>10 DEF TaskEnds, Then
<1>12. QED
  BY <1>9, <1>11, EndSessionKeeps

\* A sender waits for the peer to read.
LEMMA QuietParkDrain ==
  ASSUME NEW c, NEW t \in Tasks, NEW f, Shape(c) PROVE Quiet(c, ParkDrain(c, t, f))
<1>1. PICK w : w = Append(Only(c.drain_waiters, PendingOnes(c)), f)
  OBVIOUS
<1>2. PICK d : d = [c EXCEPT !.fut[f] = "pending", !.drain_waiters = w]
  OBVIOUS
<1>3. Quiet(c, d)
  BY <1>2 DEF Shape, Quiet, SameSession, SameData, Putting, Watched
<1>4. Quiet(d, Await(d, t, "drain", f))
  BY <1>3, QuietAwait DEF Quiet
<1>5. d = [c EXCEPT !.fut[f] = "pending", !.drain_waiters = Append(Only(@, PendingOnes(c)), f)]
  BY <1>1, <1>2
<1>6. QED
  BY <1>3, <1>4, <1>5, QuietTwice DEF ParkDrain

-----------------------------------------------------------------------------
(* The handler's steps.                                                    *)

\* Every action ends with the futures that were let go.
LEMMA Collected == ASSUME NEW c, SessionInv(c) PROVE SessionInv(Then(c, LAMBDA d : Collect(d, Holds(d))))
<1>1. Then(c, LAMBDA d : Collect(d, Holds(d))) = Collect(c, Holds(c))
  BY DEF Then
<1>2. Quiet(c, Collect(c, Holds(c)))
  BY QuietCollect DEF SessionInv
<1>3. QED
  BY <1>1, <1>2, QuietKeeps

\* HttpReceive.__call__, called by a reader.
LEMMA CallReceiveKeeps ==
  ASSUME SessionInv(s), NEW t \in Tasks, CallReceive(t) PROVE SessionInv(s')
<1>1. SessionInv(Receive(s, t))
  BY ReceiveKeeps
<1>2. QED
  BY <1>1, Collected DEF CallReceive, Becomes

\* What was taken is awaited: it changes hands within its task.
LEMMA AwaitTakenKeeps ==
  ASSUME SessionInv(s), NEW t \in Tasks, AwaitTaken(t) PROVE SessionInv(s')
<1>1. PICK d : d = [s EXCEPT !.held[t] = s.taken[t], !.taken[t] = Nothing, !.tasks[t].at = "run"]
  OBVIOUS
<1>2. Shape(s) /\ WireInv(s) /\ PauseSound(s) /\ ReadSound(s) /\ MailSound(s)
  BY DEF SessionInv
<1>3. Nothing \in Int /\ Nothing # Connect /\ s.taken[t] \in Int
  BY <1>2 DEF Nothing, Connect, Shape
<1>4. /\ Shape(d) /\ d.held = [s.held EXCEPT ![t] = s.taken[t]] /\ d.taken = [s.taken EXCEPT ![t] = Nothing]
      /\ Putting(d) \subseteq Putting(s) \ {t}
  BY <1>1, <1>2, <1>3 DEF Shape, Watched, Putting
<1>5. /\ d.open = s.open /\ d.closing = s.closing /\ d.disconnected = s.disconnected
      /\ d.sent = s.sent /\ d.accepted = s.accepted /\ d.ws_closing = s.ws_closing
      /\ d.connect_sent = s.connect_sent /\ d.q = s.q /\ d.out = s.out
      /\ d.inbox = s.inbox /\ d.inbox_bytes = s.inbox_bytes
      /\ d.recv_waiters = s.recv_waiters /\ d.reading = s.reading /\ d.inbox_paused = s.inbox_paused
  BY <1>1, <1>2 DEF Shape, Watched
<1>6. /\ \A u \in Tasks : d.held[u] = Connect => IF u = t THEN s.taken[t] = Connect ELSE s.held[u] = Connect
      /\ \A u \in Tasks : d.taken[u] = Connect => u # t /\ s.taken[u] = Connect
  BY SMTT(30), <1>2, <1>3, <1>4 DEF Shape
<1>7. ConnectOnce(s) /\ Accounted(s)
  BY <1>2 DEF WireInv
<1>8. ConnectOnce(d)
  <2>1. NoConnect(d.inbox) /\ NoConnect(d.q.items)
    BY <1>5, <1>7 DEF ConnectOnce
  <2>2. \A u \in Putting(d) : d.held[u] # Connect
    BY <1>4, <1>6, <1>7 DEF ConnectOnce, Putting
  <2>3. \A u \in Tasks : d.held[u] = Connect \/ d.taken[u] = Connect => d.connect_sent
    BY <1>5, <1>6, <1>7 DEF ConnectOnce
  <2>4. \A u, v \in Tasks : d.held[u] = Connect /\ d.held[v] = Connect => u = v
    BY <1>6, <1>7 DEF ConnectOnce
  <2>5. \A u, v \in Tasks : /\ ~(d.held[u] = Connect /\ d.taken[v] = Connect)
                            /\ d.taken[u] = Connect /\ d.taken[v] = Connect => u = v
    BY <1>6, <1>7 DEF ConnectOnce
  <2>6. QED
    BY <2>1, <2>2, <2>3, <2>4, <2>5 DEF ConnectOnce
<1>9. Accounted(d)
  BY <1>5, <1>6, <1>7 DEF Accounted, Live
<1>10. Told(d) /\ InOrder(d.out)
  BY <1>2, <1>5 DEF WireInv, Told, Live
<1>11. PauseSound(d) /\ ReadSound(d) /\ MailSound(d)
  BY <1>2, <1>5 DEF PauseSound, ReadSound, MailSound, Healthy, Live, Pressed, Unsent
<1>12. SessionInv(d)
  BY <1>4, <1>8, <1>9, <1>10, <1>11 DEF SessionInv, WireInv
<1>13. QED
  BY <1>1, <1>12, Collected DEF AwaitTaken, Becomes

\* What was taken is kept over a yield, or forgotten.
LEMMA KeepTakenKeeps ==
  ASSUME SessionInv(s), NEW t \in Tasks, KeepTaken(t) \/ DropTaken(t) PROVE SessionInv(s')
<1>1. SessionInv(Yield(s, t, "kept"))
  BY QuietYield, QuietKeeps DEF SessionInv
<1>2. PICK c : c = PutBack(s, t)
  OBVIOUS
<1>3. SessionInv(c)
  BY <1>2, PutBackKeeps
<1>4. SessionInv([c EXCEPT !.tasks[t].at = "run"])
  BY <1>3, QuietAt, QuietKeeps DEF SessionInv
<1>5. CASE KeepTaken(t)
  BY <1>1, <1>5, Collected DEF KeepTaken, Becomes
<1>6. CASE DropTaken(t)
  BY <1>2, <1>4, <1>6, Collected DEF DropTaken, Becomes
<1>7. QED
  BY <1>5, <1>6

\* websocket.accept: whoever holds connect is the first to answer.
LEMMA AcceptKeeps ==
  ASSUME SessionInv(s), NEW t \in Tasks, Accept(t) PROVE SessionInv(s')
<1>1. Shape(s) /\ WireInv(s) /\ PauseSound(s) /\ ReadSound(s) /\ MailSound(s)
  BY DEF SessionInv
<1>2. s.held[t] = Connect
  BY DEF Accept
<1>3. PICK o : o = SetToSeq({u \in Tasks \ {App} : Role(u) # "none"})
  OBVIOUS
<1>4. o \in Seq(Tasks)
  <2>1. PICK S : S = {u \in Tasks \ {App} : Role(u) # "none"}
    OBVIOUS
  <2>2. S \subseteq Tasks /\ IsFiniteSet(Tasks)
    BY <2>1, TaskAssumption DEF TaskAssumption
  <2>3. SetToSeq(S) \in Seq(S)
    BY <2>2, FS_Subset, LinedUp
  <2>4. QED
    BY <1>3, <2>1, <2>2, <2>3
<1>5. PICK a : a = [s EXCEPT !.accepted = TRUE, !.held[t] = Nothing, !.trailing = <<>>]
  OBVIOUS
<1>6. PICK e : e = Enqueue(a, "accept")
  OBVIOUS
<1>7. PICK d : d = Ingest(e, s.trailing)
  OBVIOUS
<1>8. CASE ~s.open \/ s.accepted
  <2>1. SessionInv(TaskEnds(s, t))
    BY TaskEndsKeeps
  <2>2. QED
    BY <1>8, <2>1, Collected DEF Accept, Becomes
<1>9. CASE ~(~s.open \/ s.accepted)
  <2>1. Nothing \in Int /\ Nothing # Connect
    BY DEF Nothing, Connect
  <2>2. /\ Shape(a) /\ a.held = [s.held EXCEPT ![t] = Nothing] /\ a.accepted
        /\ a.open = s.open /\ a.closing = s.closing /\ a.disconnected = s.disconnected
        /\ a.sent = s.sent /\ a.ws_closing = s.ws_closing
        /\ a.connect_sent = s.connect_sent /\ a.q = s.q /\ a.tasks = s.tasks /\ a.out = s.out /\ a.taken = s.taken
        /\ a.inbox = s.inbox /\ a.inbox_bytes = s.inbox_bytes
        /\ a.recv_waiters = s.recv_waiters /\ a.reading = s.reading /\ a.inbox_paused = s.inbox_paused
    BY <1>1, <1>5, <2>1, ListedEmpty DEF Shape, Watched
  <2>3. \A u \in Tasks : a.held[u] = Connect => u # t /\ s.held[u] = Connect
    BY <1>1, <2>1, <2>2 DEF Shape
  <2>4. ConnectOnce(s)
    BY <1>1 DEF WireInv
  <2>5. Putting(a) = Putting(s)
    BY <2>2 DEF Putting
  <2>6. ConnectOnce(a)
    BY <2>2, <2>3, <2>4, <2>5, HeldLess
  <2>7. \A u \in Tasks : a.held[u] # Connect /\ a.taken[u] # Connect
    BY <1>2, <2>2, <2>3, <2>4 DEF ConnectOnce
  <2>8. a.connect_sent
    BY <1>2, <2>2, <2>4 DEF ConnectOnce
  <2>9. Accounted(a)
    BY <2>7, <2>8 DEF Accounted
  <2>10. Live(a) => s.out = <<>>
    BY <1>1, <1>2, <2>2 DEF WireInv, Told, Accounted, Live
  <2>11. Live(a) => MayFollow(a.out, "accept") /\ Without(a.out, "close")
    BY <2>2, <2>10 DEF MayFollow, Without
  <2>12. PICK f : f = Frame("accept", Nothing)
    OBVIOUS
  <2>13. f \in FrameRecord /\ f.kind = "accept" /\ "accept" \in Kinds
    BY <2>1, <2>12 DEF Frame, FrameRecord, Kinds
  <2>14. Enqueued(a, e, f)
    BY <1>6, <2>2, <2>12, <2>13, EnqueueKindAdds
  <2>15. InOrder(a.out)
    BY <1>1, <2>2 DEF WireInv
  <2>16. WireInv(e)
    BY <2>2, <2>6, <2>9, <2>11, <2>13, <2>14, <2>15, EnqueuedTells
  <2>17. PauseSound(a) /\ ReadSound(a) /\ MailSound(a)
    BY <1>1, <2>2 DEF PauseSound, ReadSound, MailSound, Healthy, Live, Pressed, Unsent
  <2>18. Len(e.out) >= Len(a.out) /\ Shape(e) /\ SameButOut(a, e)
    <3>1. a.out \in Seq(FrameRecord) /\ Len(a.out) \in Nat
      BY <2>2 DEF Shape
    <3>2. Len(Append(a.out, f)) >= Len(a.out)
      BY <2>13, <3>1
    <3>3. QED
      BY <2>14, <3>1, <3>2 DEF Enqueued
  <2>19. a.inbox_bytes \in Nat /\ e.inbox_bytes = a.inbox_bytes
    BY <2>2, <2>18 DEF Shape, SameButOut
  <2>20. PauseSound(e)
    BY <2>2, <2>17, <2>18, <2>19, MorePressed DEF SameButOut
  <2>21. ReadSound(e) /\ MailSound(e)
    BY <2>17, <2>18 DEF SameButOut, ReadSound, MailSound, Healthy, Live
  <2>22. Listed(s.trailing)
    BY <1>1 DEF Shape
  <2>23. SessionInv(d)
    BY <1>7, <2>16, <2>18, <2>20, <2>21, <2>22, IngestKeeps DEF Kept, SessionInv
  <2>24. SessionInv([d EXCEPT !.ready = @ \o o])
    <3>1. d.ready \in Seq(Tasks) /\ Shape(d)
      BY <2>23 DEF SessionInv, Shape
    <3>2. d.ready \o o \in Seq(Tasks)
      BY <1>4, <3>1
    <3>3. QED
      BY <2>23, <3>1, <3>2, QuietReady, QuietKeeps
  <2>25. Accept(t) => Becomes([d EXCEPT !.ready = @ \o o])
    BY <1>3, <1>5, <1>6, <1>7, <1>9 DEF Accept, Then
  <2>26. QED
    BY <2>24, <2>25, Collected DEF Becomes
<1>10. QED
  BY <1>8, <1>9

\* websocket.close
LEMMA CloseKeeps ==
  ASSUME SessionInv(s), NEW t \in Tasks, Close(t) PROVE SessionInv(s')
<1>1. Shape(s) /\ WireInv(s) /\ MailSound(s) /\ s.open
  BY DEF SessionInv, Close
<1>2. PICK x : x = IF s.held[t] = Connect THEN Nothing ELSE s.held[t]
  OBVIOUS
<1>3. x \in Int /\ x # Connect
  BY <1>1, <1>2 DEF Nothing, Connect, Shape
<1>4. PICK d : d = [s EXCEPT !.app_closed = TRUE, !.accepted = TRUE, !.ws_closing = TRUE,
                             !.held[t] = IF @ = Connect THEN Nothing ELSE @]
  OBVIOUS
<1>5. d = [s EXCEPT !.app_closed = TRUE, !.accepted = TRUE, !.ws_closing = TRUE, !.held[t] = x]
  BY <1>1, <1>2, <1>4 DEF Shape, Watched
<1>6. /\ Shape(d) /\ d.open = s.open /\ d.closing = s.closing /\ d.out = s.out /\ d.inbox = s.inbox
      /\ d.recv_waiters = s.recv_waiters /\ d.q.items = s.q.items /\ d.connect_sent = s.connect_sent
      /\ d.taken = s.taken /\ d.tasks = s.tasks /\ d.held = [s.held EXCEPT ![t] = x]
  BY <1>1, <1>3, <1>5 DEF Shape, Watched
<1>7. Putting(d) \subseteq Putting(s)
  BY <1>6 DEF Putting
<1>8. \A u \in Tasks : d.held[u] \in {s.held[u], Nothing}
  BY SMTT(30), <1>1, <1>2, <1>6 DEF Shape
<1>9. PICK e : e = IF ~s.accepted THEN Enqueue(d, "error")
                   ELSE IF ~s.ws_closing THEN Enqueue(d, "close") ELSE d
  OBVIOUS
<1>10. SessionInv(CloseAfterWrite(e))
  <2>1. CASE ~s.accepted
    <3>1. SessionInv(CloseAfterWrite(Enqueue(d, "error")))
      BY <1>1, <1>6, <1>7, <1>8, <2>1, AnsweredKeeps
    <3>2. QED
      BY <1>9, <2>1, <3>1
  <2>2. CASE s.accepted /\ ~s.ws_closing
    <3>1. SessionInv(CloseAfterWrite(Enqueue(d, "close")))
      BY <1>1, <1>6, <1>7, <1>8, <2>2, AnsweredKeeps
    <3>2. QED
      BY <1>9, <2>2, <3>1
  <2>3. CASE s.accepted /\ s.ws_closing
    <3>1. e = d
      BY <1>9, <2>3
    <3>2. Nothing # Connect
      BY DEF Nothing, Connect
    <3>3. \A u \in Tasks : d.held[u] = Connect => s.held[u] = Connect
      BY <1>8, <3>2
    <3>4. ConnectOnce(d)
      BY <1>1, <1>6, <1>7, <3>3, HeldLess DEF WireInv
    <3>5. MailSound(d) /\ InOrder(d.out)
      BY <1>1, <1>6 DEF WireInv, MailSound
    <3>6. QED
      BY <1>6, <3>1, <3>4, <3>5, CloseAfterWriteDown, Ended
  <2>4. QED
    BY <2>1, <2>2, <2>3
<1>11. Close(t) => Becomes(CloseAfterWrite(e))
  BY <1>4, <1>9 DEF Close
<1>12. QED
  BY <1>10, <1>11, Collected DEF Becomes

\* Queue.put, Queue.get and Queue.join, called by the handler's tasks.
LEMMA QueueCallsKeep ==
  ASSUME SessionInv(s), NEW t \in Tasks, Put(t) \/ Get(t) \/ Join(t) PROVE SessionInv(s')
<1>1. Shape(s)
  BY DEF SessionInv
<1>2. CASE Put(t)
  <2>1. s.held[t] # Connect
    BY <1>2 DEF Put, Connect
  <2>2. SessionInv(QueuePut(s, t))
    BY <2>1, QueuePutKeeps
  <2>3. QED
    BY <1>2, <2>2, Collected DEF Put, Becomes
<1>3. CASE Get(t)
  <2>1. SessionInv(QueueGet(s, t))
    BY QueueGetKeeps
  <2>2. QED
    BY <1>3, <2>1, Collected DEF Get, Becomes
<1>4. CASE Join(t)
  <2>1. SessionInv(TaskEnds(s, t))
    BY TaskEndsKeeps
  <2>2. SessionInv(ParkJoiner(s, t, NextFuture(s)))
    BY <1>1, QuietPark, QuietKeeps
  <2>3. PICK c : c = IF s.q.unfinished = 0 THEN TaskEnds(s, t) ELSE ParkJoiner(s, t, NextFuture(s))
    OBVIOUS
  <2>4. SessionInv(c)
    BY <2>1, <2>2, <2>3
  <2>5. QED
    BY <1>4, <2>3, <2>4, Collected DEF Join, Becomes
<1>5. QED
  BY <1>2, <1>3, <1>4

\* websocket.send: a message follows the accept and no close frame.
LEMMA SendKeeps ==
  ASSUME SessionInv(s), NEW t \in Tasks, Send(t) PROVE SessionInv(s')
<1>1. Shape(s) /\ WireInv(s) /\ PauseSound(s) /\ ReadSound(s) /\ MailSound(s)
  BY DEF SessionInv
<1>2. PICK f : f = Frame("message", s.held[t])
  OBVIOUS
<1>3. f \in FrameRecord /\ f.kind = "message"
  BY <1>1, <1>2 DEF Frame, FrameRecord, Kinds, Shape
<1>4. PICK e : e = EnqueueFrame(s, f)
  OBVIOUS
<1>5. PICK d : d = [e EXCEPT !.held[t] = Echoed]
  OBVIOUS
<1>6. CASE ~Sendable(s)
  <2>1. SessionInv(TaskEnds(s, t))
    BY TaskEndsKeeps
  <2>2. QED
    BY <1>6, <2>1, Collected DEF Send, Becomes
<1>7. CASE Sendable(s)
  <2>1. Enqueued(s, e, f)
    BY <1>1, <1>3, <1>4, EnqueueAdds
  <2>2. Live(s) => s.out # <<>> /\ Without(s.out, "error") /\ Without(s.out, "close")
    BY <1>1, <1>7 DEF Sendable, WireInv, Told
  <2>3. Live(s) => MayFollow(s.out, f.kind)
    BY <1>3, <2>2 DEF MayFollow
  <2>4. s.accepted /\ Accounted(s) /\ InOrder(s.out) /\ ConnectOnce(s)
    BY <1>1, <1>7 DEF Sendable, WireInv
  <2>5. WireInv(e)
    BY <1>1, <1>3, <2>1, <2>2, <2>3, <2>4, EnqueuedTells
  <2>6. Len(e.out) >= Len(s.out) /\ Shape(e) /\ SameButOut(s, e)
    <3>1. s.out \in Seq(FrameRecord) /\ Len(s.out) \in Nat
      BY <1>1 DEF Shape
    <3>2. Len(Append(s.out, f)) >= Len(s.out)
      BY <1>3, <3>1
    <3>3. QED
      BY <2>1, <3>1, <3>2 DEF Enqueued
  <2>7. s.inbox_bytes \in Nat /\ e.inbox_bytes = s.inbox_bytes
    BY <1>1, <2>6 DEF Shape, SameButOut
  <2>8. PauseSound(e)
    BY <1>1, <2>6, <2>7, MorePressed DEF SameButOut
  <2>9. ReadSound(e) /\ MailSound(e)
    BY <1>1, <2>6 DEF SameButOut, ReadSound, MailSound, Healthy, Live
  <2>10. SessionInv(e)
    BY <2>5, <2>6, <2>8, <2>9 DEF SessionInv
  <2>11. Echoed \in Int /\ Echoed # Connect
    BY DEF Echoed, Connect
  <2>12. SessionInv(d)
    BY <1>5, <2>10, <2>11, HandKeeps
  <2>13. SessionInv(ParkDrain(d, t, NextFuture(d)))
    BY <2>12, QuietParkDrain, QuietKeeps DEF SessionInv
  <2>14. PICK c : c = IF Unsent(d) > High THEN ParkDrain(d, t, NextFuture(d)) ELSE d
    OBVIOUS
  <2>15. SessionInv(c)
    BY <2>12, <2>13, <2>14
  <2>16. Send(t) => Becomes(c)
    BY <1>2, <1>4, <1>5, <1>7, <2>14 DEF Send
  <2>17. QED
    BY <2>15, <2>16, Collected DEF Becomes
<1>8. QED
  BY <1>6, <1>7

\* An item is marked done, a task ends, or goes on after a cancellation.
LEMMA EndKeeps ==
  ASSUME SessionInv(s), NEW t \in Tasks, MarkDone(t) \/ End(t) \/ GoOn(t) PROVE SessionInv(s')
<1>1. SessionInv(TaskEnds(s, t))
  BY TaskEndsKeeps
<1>2. PICK c : c = [s EXCEPT !.held[t] = Nothing]
  OBVIOUS
<1>3. SessionInv(c)
  <2>1. Nothing \in Int /\ Nothing # Connect
    BY DEF Nothing, Connect
  <2>2. QED
    BY <1>2, <2>1, HandKeeps
<1>4. SessionInv(TaskDone(c))
  BY <1>3, QuietTaskDone, QuietKeeps DEF SessionInv
<1>5. SessionInv([s EXCEPT !.tasks[t].at = "run"])
  BY QuietAt, QuietKeeps DEF SessionInv
<1>6. CASE MarkDone(t)
  BY <1>2, <1>4, <1>6, Collected DEF MarkDone, Becomes
<1>7. CASE End(t)
  BY <1>1, <1>7, Collected DEF End, Becomes
<1>8. CASE GoOn(t)
  BY <1>1, <1>5, <1>8, Collected DEF GoOn, Becomes
<1>9. QED
  BY <1>6, <1>7, <1>8

-----------------------------------------------------------------------------
(* The loop's steps.                                                       *)

\* What an await does with a CancelledError.
LEMMA CaughtKeeps ==
  ASSUME NEW c, NEW t \in Tasks, NEW at, NEW f, NEW result, SessionInv(c)
  PROVE  SessionInv(Caught(c, t, at, f, result))
<1>1. Shape(c)
  BY DEF SessionInv
<1>2. PICK d : d = CASE at = "recv" -> Abandon(c, result)
                     [] at = "get" -> GetterRecovery(c, f)
                     [] at = "put" -> PutterRecovery(c, f)
                     [] at = "join" -> Unjoin(c, f)
                     [] at = "kept" -> PutBack(c, t)
                     [] OTHER -> c
  OBVIOUS
<1>3. SessionInv(Abandon(c, result)) /\ SessionInv(PutBack(c, t))
  BY AbandonKeeps, PutBackKeeps
<1>4. SessionInv(GetterRecovery(c, f)) /\ SessionInv(PutterRecovery(c, f)) /\ SessionInv(Unjoin(c, f))
  BY <1>1, QuietRecovery, QuietKeeps
<1>5. SessionInv(d)
  BY <1>2, <1>3, <1>4
<1>6. SessionInv(Finish(d, t)) /\ SessionInv([d EXCEPT !.tasks[t].at = "caught"])
  BY <1>5, QuietFinish, QuietAt, QuietKeeps DEF SessionInv
<1>7. Caught(c, t, at, f, result) \in {Finish(d, t), [d EXCEPT !.tasks[t].at = "caught"]}
  <2>1. Caught(c, t, at, f, result) =
          CHOOSE x \in {IF at = "start" THEN Finish(e, t) ELSE [e EXCEPT !.tasks[t].at = "caught"] : e \in {d}} : TRUE
    BY <1>2, Zenon DEF Caught, Then
  <2>2. QED
    BY <2>1
<1>8. QED
  BY <1>6, <1>7

\* What an await does when its future was resolved.
LEMMA ResumedKeeps ==
  ASSUME NEW c, NEW t \in Tasks, NEW at, NEW result, SessionInv(c), at = "put" => c.held[t] # Connect
  PROVE  SessionInv(Resumed(c, t, at, result))
<1>1. SessionInv(ResumeReceive(c, t, result)) /\ SessionInv(QueueGet(c, t)) /\ SessionInv(TaskEnds(c, t))
  BY ResumeReceiveKeeps, QueueGetKeeps, TaskEndsKeeps
<1>2. at = "put" => SessionInv(QueuePut(c, t))
  BY QueuePutKeeps
<1>3. SessionInv([c EXCEPT !.tasks[t].at = "kept"])
  BY QuietAt, QuietKeeps DEF SessionInv
<1>4. QED
  BY <1>1, <1>2, <1>3 DEF Resumed

\* The wake-up at the head of the ready queue is run.
LEMMA RunReadyKeeps == ASSUME SessionInv(s), RunReady PROVE SessionInv(s')
<1>1. Shape(s) /\ s.ready # <<>> /\ s.ready \in Seq(Tasks)
  BY DEF SessionInv, Shape, RunReady
<1>2. PICK t : t = Head(s.ready)
  OBVIOUS
<1>3. t \in Tasks
  BY <1>1, <1>2
<1>4. PICK at, f : at = s.tasks[t].at /\ f = s.tasks[t].wait
  OBVIOUS
<1>5. PICK result : result = IF f = NoFuture THEN "none" ELSE s.fut[f]
  OBVIOUS
<1>6. PICK c : c = Step(s, t)
  OBVIOUS
<1>7. Quiet(s, c)
  BY <1>1, <1>3, <1>6, QuietStep
<1>8. SessionInv(c) /\ c.held = s.held
  BY <1>7, QuietKeeps DEF Quiet, SameSession, SameData
<1>9. at = "put" => c.held[t] # Connect
  BY <1>3, <1>4, <1>8 DEF SessionInv, WireInv, ConnectOnce, Putting
<1>10. SessionInv(Caught(c, t, at, f, result)) /\ SessionInv(Resumed(c, t, at, result))
  BY <1>3, <1>8, <1>9, CaughtKeeps, ResumedKeeps
<1>11. PICK d : d = IF Thrown(s, t) THEN Caught(c, t, at, f, result) ELSE Resumed(c, t, at, result)
  OBVIOUS
<1>12. SessionInv(d)
  BY <1>10, <1>11
<1>13. Becomes(d)
  BY <1>2, <1>4, <1>5, <1>6, <1>11 DEF RunReady
<1>14. QED
  BY <1>12, <1>13, Collected DEF Becomes

\* An event is dispatched: only a receive() whose message another took is
\* parked again, beside the empty inbox.
LEMMA DispatchKeeps == ASSUME SessionInv(s), Dispatch PROVE SessionInv(s')
<1>1. Shape(s)
  BY DEF SessionInv
<1>2. PICK f, k : f = Head(s.events).fut /\ k = Head(s.events).kind
  OBVIOUS
<1>3. PICK r : r = [s EXCEPT !.events = Tail(@)]
  OBVIOUS
<1>4. Quiet(s, r)
  BY <1>1, <1>3 DEF Shape, Quiet, SameSession, SameData, Putting, Watched
<1>5. SessionInv(r) /\ Shape(r)
  BY <1>4, QuietKeeps DEF Quiet
<1>6. \A result : SessionInv(Resolve(r, f, result))
  BY <1>5, QuietResolve, QuietKeeps
<1>7. SessionInv(WsWake(r, f))
  <2>1. CASE r.open /\ ~r.disconnected /\ r.inbox = <<>>
    <3>1. PICK w : w = Append(r.recv_waiters, f)
      OBVIOUS
    <3>2. Listed(w)
      BY <1>5, <3>1, ListedAppend DEF Shape
    <3>3. PICK d : d = [r EXCEPT !.recv_waiters = w]
      OBVIOUS
    <3>4. Shape(d) /\ SameSession(r, d) /\ d.reading = r.reading /\ d.inbox_paused = r.inbox_paused
      BY <1>5, <3>2, <3>3 DEF Shape, Watched, SameSession, SameData, Putting
    <3>5. WireInv(d)
      BY <1>5, <3>4, SameKeepsWire DEF SessionInv
    <3>6. PauseSound(d) /\ ReadSound(d) /\ MailSound(d)
      BY <1>5, <2>1, <3>4 DEF SessionInv, PauseSound, ReadSound, MailSound, SameSession, SameData, Healthy, Live,
                              Pressed, Unsent
    <3>7. WsWake(r, f) = d
      BY <2>1, <3>1, <3>3 DEF WsWake
    <3>8. QED
      BY <3>4, <3>5, <3>6, <3>7 DEF SessionInv
  <2>2. CASE ~(r.open /\ ~r.disconnected /\ r.inbox = <<>>)
    BY <1>6, <2>2 DEF WsWake
  <2>3. QED
    BY <2>1, <2>2
<1>8. PICK result : result = IF k = "disconnect" THEN "gone" ELSE "none"
  OBVIOUS
<1>9. PICK d : d = IF ~Pending(s, f) THEN r ELSE IF k = "ws_wake" THEN WsWake(r, f) ELSE Resolve(r, f, result)
  OBVIOUS
<1>10. SessionInv(d)
  BY <1>5, <1>6, <1>7, <1>9
<1>11. Becomes(d)
  BY <1>2, <1>3, <1>8, <1>9 DEF Dispatch
<1>12. QED
  BY <1>10, <1>11, Collected DEF Becomes

-----------------------------------------------------------------------------
(* The network, the timer and the server.                                  *)

\* post_recv, after a read: the session reads again or has a reason not to.
LEMMA PostRecvReads ==
  ASSUME NEW c, Shape(c), WireInv(c), PauseSound(c), MailSound(c) PROVE SessionInv(PostRecv(c))
<1>1. PICK d : d = PostRecv(c)
  OBVIOUS
<1>2. Down(c, d)
  BY <1>1, PostRecvDown
<1>3. Shape(d) /\ WireInv(d) /\ PauseSound(d) /\ MailSound(d)
  BY <1>2, DownKeeps DEF Down
<1>4. ReadSound(d)
  <2>1. CASE ~c.open \/ c.inbox_paused \/ (c.closing /\ ~c.lingering)
    BY <1>1, <2>1 DEF PostRecv, ReadSound, Healthy, Live
  <2>2. CASE ~(~c.open \/ c.inbox_paused \/ (c.closing /\ ~c.lingering))
    <3>1. d = [c EXCEPT !.reading = TRUE]
      BY <1>1, <2>2 DEF PostRecv
    <3>2. d.reading
      BY <3>1 DEF Shape, Watched
    <3>3. QED
      BY <3>2 DEF ReadSound
  <2>3. QED
    BY <2>1, <2>2
<1>5. QED
  BY <1>1, <1>3, <1>4 DEF SessionInv

\* on_recv_done
LEMMA ReadKeeps == ASSUME SessionInv(s), Read PROVE SessionInv(s')
<1>1. Shape(s) /\ WireInv(s) /\ PauseSound(s) /\ MailSound(s)
  BY DEF SessionInv
<1>2. PICK k \in 1..Batch :
        /\ k <= Len(s.input)
        /\ LET rest == [s EXCEPT !.input = SubSeq(@, k + 1, Len(@)), !.reading = FALSE]
               batch == SubSeq(s.input, 1, k)
           IN Becomes(Then(IF s.lingering THEN rest ELSE Ingest(rest, batch), PostRecv))
  BY DEF Read
<1>3. PICK i, b : i = SubSeq(s.input, k + 1, Len(s.input)) /\ b = SubSeq(s.input, 1, k)
  OBVIOUS
<1>4. Listed(i) /\ Listed(b)
  <2>1. PICK S : s.input \in Seq(S)
    BY <1>1 DEF Shape, Listed
  <2>2. k \in Nat /\ Len(s.input) \in Nat /\ k >= 1
    BY <2>1, SocketAssumption DEF SocketAssumption
  <2>3. i \in Seq(S)
    BY <1>2, <1>3, <2>1, <2>2
  <2>4. b \in Seq(S)
    BY <1>2, <1>3, <2>1, <2>2
  <2>5. QED
    BY <2>3, <2>4 DEF Listed
<1>5. PICK r : r = [s EXCEPT !.input = i, !.reading = FALSE]
  OBVIOUS
<1>6. Shape(r) /\ SameSession(s, r) /\ r.recv_waiters = s.recv_waiters /\ r.inbox_paused = s.inbox_paused
  BY <1>1, <1>4, <1>5 DEF Shape, Watched, SameSession, SameData, Putting
<1>7. WireInv(r)
  BY <1>1, <1>6, SameKeepsWire
<1>8. PauseSound(r) /\ MailSound(r)
  BY <1>1, <1>6 DEF PauseSound, MailSound, SameSession, SameData, Healthy, Live, Pressed, Unsent
<1>9. PICK d : d = IF s.lingering THEN r ELSE Ingest(r, b)
  OBVIOUS
<1>10. Shape(d) /\ WireInv(d) /\ PauseSound(d) /\ MailSound(d)
  BY <1>4, <1>6, <1>7, <1>8, <1>9, IngestKeeps DEF Kept
<1>11. SessionInv(PostRecv(d))
  BY <1>10, PostRecvReads
<1>12. Becomes(PostRecv(d))
  <2>1. r = [s EXCEPT !.input = SubSeq(@, k + 1, Len(@)), !.reading = FALSE]
    BY <1>1, <1>3, <1>5 DEF Shape, Watched
  <2>2. QED
    BY <1>2, <1>3, <1>9, <2>1 DEF Then
<1>13. QED
  BY <1>11, <1>12, Collected DEF Becomes

\* on_recv_done, the end of the stream; a connection that is lost.
LEMMA EofKeeps == ASSUME SessionInv(s), Eof \/ Reset PROVE SessionInv(s')
<1>1. Shape(s) /\ WireInv(s)
  BY DEF SessionInv
<1>2. SessionInv(Teardown(s))
  BY <1>1, TeardownDown, DownKeepsAll
<1>3. PICK a : a = [s EXCEPT !.reading = FALSE, !.disconnected = TRUE, !.recv_waiters = <<>>]
  OBVIOUS
<1>4. /\ Shape(a) /\ SameData(s, a) /\ a.open = s.open /\ a.closing = s.closing /\ a.inbox = s.inbox
      /\ a.disconnected /\ a.recv_waiters = <<>>
  BY <1>1, <1>3, ListedEmpty DEF Shape, Watched, SameData, Putting
<1>5. ConnectOnce(a)
  BY <1>1, <1>4 DEF WireInv, SameData, ConnectOnce, NoConnect
<1>6. Told(a) /\ Accounted(a) /\ InOrder(a.out)
  BY <1>1, <1>4 DEF WireInv, SameData, Told, Accounted, Live
<1>7. PauseSound(a) /\ ReadSound(a) /\ MailSound(a)
  BY <1>4 DEF PauseSound, ReadSound, MailSound, Healthy
<1>8. SessionInv(a)
  BY <1>4, <1>5, <1>6, <1>7 DEF SessionInv, WireInv
<1>9. PICK d : d = PushAll(a, "disconnect", s.recv_waiters)
  OBVIOUS
<1>10. SessionInv(d) /\ Shape(d)
  BY <1>4, <1>8, <1>9, QuietPushAll, QuietKeeps DEF SessionInv
<1>11. SessionInv(Teardown(d))
  BY <1>10, TeardownDown, DownKeepsAll
<1>12. PICK e : e = IF d.active THEN d ELSE Teardown(d)
  OBVIOUS
<1>13. SessionInv(e)
  BY <1>10, <1>11, <1>12
<1>14. PICK b : b = [s EXCEPT !.reading = FALSE, !.lingering = FALSE]
  OBVIOUS
<1>15. ASSUME s.lingering PROVE SessionInv(MaybeFinishShutdown(b))
  <2>1. Shape(b) /\ SameData(s, b) /\ Down(s, b)
    BY <1>1, <1>14, <1>15 DEF Shape, Watched, SameData, Putting, Down, Live
  <2>2. Down(s, MaybeFinishShutdown(b))
    BY <2>1, FinishShutdownDown, DownTwice
  <2>3. QED
    BY <1>1, <2>2, DownKeepsAll
<1>16. CASE Eof
  <2>1. CASE s.lingering
    <3>1. Becomes(MaybeFinishShutdown(b))
      BY <1>14, <1>16, <2>1 DEF Eof
    <3>2. QED
      BY <1>15, <2>1, <3>1, Collected DEF Becomes
  <2>2. CASE ~s.lingering
    <3>1. Becomes(e)
      BY <1>3, <1>9, <1>12, <1>16, <2>2 DEF Eof, Then
    <3>2. QED
      BY <1>13, <3>1, Collected DEF Becomes
  <2>3. QED
    BY <2>1, <2>2
<1>17. CASE Reset
  BY <1>2, <1>17, Collected DEF Reset, Becomes
<1>18. QED
  BY <1>16, <1>17

\* on_send_done: what the peer has read may end a pause.
LEMMA SentKeeps == ASSUME SessionInv(s), Sent PROVE SessionInv(s')
<1>1. Shape(s) /\ WireInv(s) /\ ReadSound(s) /\ MailSound(s)
  BY DEF SessionInv
<1>2. PICK n \in {s.sent + 1, Len(s.out)} : Becomes(SendDone([s EXCEPT !.sent = n]))
  BY DEF Sent
<1>3. n \in Nat
  <2>1. s.sent \in Nat /\ s.out \in Seq(FrameRecord)
    BY <1>1 DEF Shape
  <2>2. Len(s.out) \in Nat /\ s.sent + 1 \in Nat
    BY <2>1
  <2>3. QED
    BY <2>2
<1>4. PICK a : a = [s EXCEPT !.sent = n]
  OBVIOUS
<1>5. /\ Shape(a) /\ a.open = s.open /\ a.closing = s.closing /\ a.disconnected = s.disconnected
      /\ a.accepted = s.accepted /\ a.ws_closing = s.ws_closing
      /\ a.connect_sent = s.connect_sent /\ a.q = s.q /\ a.tasks = s.tasks /\ a.out = s.out
      /\ a.held = s.held /\ a.taken = s.taken /\ a.inbox = s.inbox
      /\ a.recv_waiters = s.recv_waiters /\ a.reading = s.reading /\ a.inbox_paused = s.inbox_paused
  BY <1>1, <1>3, <1>4 DEF Shape, Watched
<1>6. WireInv(a)
  BY <1>1, <1>5 DEF WireInv, Told, Live, ConnectOnce, Putting, Accounted
<1>7. ReadSound(a) /\ MailSound(a)
  BY <1>1, <1>5 DEF ReadSound, MailSound, Healthy, Live
<1>8. PICK b : b = [a EXCEPT !.drain_waiters = <<>>]
  OBVIOUS
<1>9. Quiet(a, b)
  BY <1>5, <1>8 DEF Shape, Quiet, SameSession, SameData, Putting, Watched
<1>10. Quiet(a, PushAll(b, "drained", a.drain_waiters))
  BY <1>9, QuietPushAll, QuietTwice DEF Quiet
<1>11. PICK d : d = IF Unsent(a) > Low THEN a ELSE PushAll(b, "drained", a.drain_waiters)
  OBVIOUS
<1>12. Down(a, d) /\ Shape(d)
  BY <1>5, <1>10, <1>11, QuietSelf, QuietDown DEF Down
<1>13. PICK e : e = MaybeFinishShutdown(d)
  OBVIOUS
<1>14. Down(a, e)
  BY <1>12, <1>13, FinishShutdownDown, DownTwice
<1>15. Shape(e) /\ WireInv(e) /\ ReadSound(e) /\ MailSound(e)
  BY <1>6, <1>7, <1>14, DownKeeps DEF Down
<1>16. SessionInv(SyncReadPause(e))
  BY <1>15, SyncKeeps
<1>17. SendDone(a) = SyncReadPause(e)
  BY <1>8, <1>11, <1>13 DEF SendDone, Then
<1>18. SessionInv(SendDone(a))
  BY <1>16, <1>17
<1>19. QED
  BY <1>2, <1>4, <1>18, Collected DEF Becomes

\* http_sweep, and a cancellation.
LEMMA SweepKeeps == ASSUME SessionInv(s), Sweep \/ \E t \in Tasks : Cancel(t) PROVE SessionInv(s')
<1>1. Shape(s)
  BY DEF SessionInv
<1>2. PICK c : c = Teardown(s)
  OBVIOUS
<1>3. SessionInv(c) /\ Shape(c)
  BY <1>1, <1>2, TeardownDown, DownKeepsAll DEF SessionInv
<1>4. SessionInv(CancelTask(c, App))
  BY <1>3, SocketAssumption, QuietCancelTask, QuietKeeps DEF SocketAssumption
<1>5. CASE Sweep
  BY <1>2, <1>3, <1>4, <1>5, Collected DEF Sweep, Becomes
<1>6. ASSUME NEW t \in Tasks, Cancel(t) PROVE SessionInv(s')
  <2>1. PICK d : d = CancelTask(s, t)
    OBVIOUS
  <2>2. SessionInv(d) /\ Shape(d)
    BY <1>1, <2>1, QuietCancelTask, QuietKeeps DEF SessionInv
  <2>3. PICK e : e = [d EXCEPT !.cancels = @ - 1]
    OBVIOUS
  <2>4. Quiet(d, e)
    BY <2>2, <2>3 DEF Shape, Quiet, SameSession, SameData, Putting, Watched
  <2>5. SessionInv(e)
    BY <2>2, <2>4, QuietKeeps
  <2>6. QED
    BY <1>6, <2>1, <2>3, <2>5, Collected DEF Cancel, Becomes
<1>7. QED
  BY <1>5, <1>6

\* http_begin_shutdown
LEMMA ShutdownKeeps == ASSUME SessionInv(s), Shutdown PROVE SessionInv(s')
<1>1. Shape(s) /\ WireInv(s) /\ PauseSound(s) /\ ReadSound(s) /\ MailSound(s)
  BY DEF SessionInv
<1>2. PICK b : b = [s EXCEPT !.stopping = TRUE]
  OBVIOUS
<1>3. Quiet(s, b)
  BY <1>1, <1>2 DEF Shape, Quiet, SameSession, SameData, Putting, Watched
<1>4. SessionInv(b)
  BY <1>3, QuietKeeps
<1>5. CASE ~s.accepted \/ s.ws_closing
  BY <1>2, <1>4, <1>5, Collected DEF Shutdown, Becomes
<1>6. CASE ~(~s.accepted \/ s.ws_closing)
  <2>1. Shape(b) /\ WireInv(b) /\ PauseSound(b) /\ ReadSound(b)
    BY <1>4 DEF SessionInv
  <2>2. Live(b) /\ b.accepted /\ ~b.ws_closing
    BY <1>3, <1>6 DEF Shutdown, Live, Quiet, SameSession, SameData
  <2>3. PICK f : f = Frame("close", Nothing)
    OBVIOUS
  <2>4. f \in FrameRecord /\ f.kind = "close" /\ "close" \in Kinds
    BY <2>3 DEF Frame, FrameRecord, Kinds, Nothing
  <2>5. PICK e : e = Enqueue(b, "close")
    OBVIOUS
  <2>6. Enqueued(b, e, f)
    BY <2>1, <2>3, <2>4, <2>5, EnqueueKindAdds
  <2>7. Shape(e) /\ SameButOut(b, e) /\ e.out = Append(b.out, f)
    BY <2>2, <2>6 DEF Enqueued
  <2>8. b.out # <<>> /\ Without(b.out, "error") /\ Without(b.out, "close") /\ InOrder(b.out)
    BY <2>1, <2>2 DEF WireInv, Told
  <2>9. MayFollow(b.out, "close")
    BY <2>8 DEF MayFollow
  <2>10. b.out \in Seq(FrameRecord)
    BY <2>1 DEF Shape
  <2>11. InOrder(e.out) /\ e.out # <<>> /\ Without(e.out, "error")
    BY <2>4, <2>7, <2>8, <2>9, <2>10, Appended
  <2>12. PICK i : i = Append(e.inbox, Gone)
    OBVIOUS
  <2>13. i \in Seq(Int) /\ (NoConnect(e.inbox) => NoConnect(i))
    <3>1. Gone \in Int /\ Gone # Connect /\ e.inbox \in Seq(Int)
      BY <2>7 DEF Gone, Connect, Shape
    <3>2. QED
      BY <2>12, <3>1 DEF NoConnect
  <2>14. PICK d : d = [e EXCEPT !.ws_closing = TRUE, !.inbox = i, !.inbox_bytes = @ + 1]
    OBVIOUS
  <2>15. /\ Shape(d) /\ d.ws_closing /\ d.inbox = i /\ d.inbox_bytes = e.inbox_bytes + 1
         /\ d.open = e.open /\ d.closing = e.closing /\ d.disconnected = e.disconnected
         /\ d.sent = e.sent /\ d.accepted = e.accepted
         /\ d.connect_sent = e.connect_sent /\ d.q = e.q /\ d.tasks = e.tasks /\ d.out = e.out
         /\ d.held = e.held /\ d.taken = e.taken
         /\ d.recv_waiters = e.recv_waiters /\ d.reading = e.reading /\ d.inbox_paused = e.inbox_paused
    <3>1. e.inbox_bytes \in Nat /\ e.inbox_bytes + 1 \in Nat /\ Watched \subseteq DOMAIN e
      BY <2>7 DEF Shape
    <3>2. d.ws_closing = TRUE /\ d.inbox = i /\ d.inbox_bytes = e.inbox_bytes + 1
      BY <2>14, <3>1 DEF Watched
    <3>3. /\ d.open = e.open /\ d.closing = e.closing /\ d.disconnected = e.disconnected
          /\ d.sent = e.sent /\ d.accepted = e.accepted /\ d.assembled = e.assembled
          /\ d.connect_sent = e.connect_sent /\ d.q = e.q /\ d.tasks = e.tasks /\ d.out = e.out
          /\ d.held = e.held /\ d.taken = e.taken /\ d.ready = e.ready /\ d.input = e.input
          /\ d.recv_waiters = e.recv_waiters /\ d.reading = e.reading /\ d.inbox_paused = e.inbox_paused
          /\ d.trailing = e.trailing /\ d.lingering = e.lingering /\ DOMAIN d = DOMAIN e
      BY <2>14, <3>1 DEF Watched
    <3>4. Shape(d)
      BY <2>7, <2>13, <3>1, <3>2, <3>3 DEF Shape
    <3>5. QED
      BY <3>2, <3>3, <3>4
  <2>16. ConnectOnce(e) /\ Accounted(e)
    BY <2>1, <2>7 DEF WireInv, SameButOut, ConnectOnce, Accounted, Putting, Live
  <2>17. ConnectOnce(d) /\ Accounted(d)
    BY <2>13, <2>15, <2>16 DEF ConnectOnce, Accounted, Putting, Live
  <2>18. Told(d)
    BY <2>2, <2>7, <2>11, <2>15 DEF Told, SameButOut
  <2>19. WireInv(d)
    BY <2>11, <2>15, <2>17, <2>18 DEF WireInv
  <2>20. ReadSound(d)
    BY <2>1, <2>7, <2>15 DEF SameButOut, ReadSound, Healthy, Live
  <2>21. PauseSound(d)
    <3>1. b.inbox_bytes \in Nat /\ e.inbox_bytes = b.inbox_bytes
      BY <2>1, <2>7 DEF Shape, SameButOut
    <3>2. d.inbox_bytes >= b.inbox_bytes
      BY <2>15, <3>1
    <3>3. Len(Append(b.out, f)) >= Len(b.out)
      BY <2>4, <2>10
    <3>4. Len(d.out) >= Len(b.out)
      BY <2>7, <2>15, <3>3
    <3>5. QED
      BY <2>1, <2>7, <2>15, <3>2, <3>4, MorePressed DEF SameButOut
  <2>22. CASE s.recv_waiters = <<>>
    <3>1. MailSound(d)
      BY <1>3, <2>7, <2>15, <2>22 DEF MailSound, SameButOut, Quiet
    <3>2. SessionInv(d)
      BY <2>15, <2>19, <2>20, <2>21, <3>1 DEF SessionInv
    <3>3. SessionInv(CloseAfterWrite(d))
      BY <2>15, <3>2, CloseAfterWriteDown, DownKeepsAll
    <3>4. Becomes(CloseAfterWrite(d))
      BY <1>2, <1>6, <2>5, <2>12, <2>14, <2>22 DEF Shutdown
    <3>5. QED
      BY <3>3, <3>4, Collected DEF Becomes
  <2>23. CASE s.recv_waiters # <<>>
    <3>1. PICK g : g = WakeReceivers(d)
      OBVIOUS
    <3>2. Woken(d, g)
      BY <2>15, <3>1, WakeReceiversWakes
    <3>3. WireInv(g)
      BY <2>19, <3>2, SameKeepsWire DEF Woken
    <3>4. PauseSound(g) /\ ReadSound(g)
      BY <2>20, <2>21, <3>2 DEF Woken, SameSession, SameData, PauseSound, ReadSound, Healthy, Live, Pressed, Unsent
    <3>5. SessionInv(g)
      BY <3>2, <3>3, <3>4 DEF SessionInv, Woken
    <3>6. Becomes(g)
      BY <1>2, <1>6, <2>5, <2>12, <2>14, <2>23, <3>1 DEF Shutdown
    <3>7. QED
      BY <3>5, <3>6, Collected DEF Becomes
  <2>24. QED
    BY <2>22, <2>23
<1>7. QED
  BY <1>5, <1>6

-----------------------------------------------------------------------------
(* Theorems.                                                               *)

SessionSound == SessionInv(s)

\* The upgraded session is sound.
LEMMA SessionInit == Init => SessionSound
<1> SUFFICES ASSUME NEW sc \in Scenarios, s = Upgraded(sc) PROVE SessionInv(s)
  BY DEF Init, SessionSound
<1>1. sc.input \in Seq(Frames)
  BY SocketAssumption DEF SocketAssumption, Scenario
<1>2. Listed(sc.input)
  BY <1>1 DEF Listed
<1>3. /\ s.open /\ ~s.closing /\ s.lingering = FALSE /\ s.reading = TRUE /\ s.inbox_paused = FALSE /\ s.inbox_bytes = 0 /\ s.out = <<>>
      /\ s.sent = 0 /\ s.accepted = FALSE /\ s.ws_closing = FALSE /\ s.connect_sent = FALSE
      /\ s.held = [t \in Tasks |-> Nothing] /\ s.taken = [t \in Tasks |-> Nothing] /\ s.inbox = <<>>
      /\ s.q = EmptyQueue /\ s.recv_waiters = <<>> /\ s.assembled = 0 /\ s.trailing = <<>>
      /\ s.input = sc.input /\ s.ready = <<>> /\ Watched \subseteq DOMAIN s
      /\ s.tasks = [t \in Tasks |-> IF t = App THEN [Fresh EXCEPT !.at = "run"] ELSE Fresh]
  BY DEF Upgraded, Watched
<1>4. Nothing \in Int /\ Nothing # Connect
  BY DEF Nothing, Connect
<1>5. s.q.items = <<>> /\ s.q.joiners = <<>> /\ {"items", "joiners"} \subseteq DOMAIN s.q
  BY <1>3 DEF EmptyQueue
<1>6. \A t \in Tasks : t \in DOMAIN s.tasks /\ "at" \in DOMAIN s.tasks[t] /\ s.tasks[t].at # "put"
  BY <1>3 DEF Fresh
<1>7. s.held \in [Tasks -> Int] /\ s.taken \in [Tasks -> Int]
  BY <1>3, <1>4
<1>8. Shape(s)
  <2>1. s.inbox_paused \in BOOLEAN /\ s.inbox_bytes \in Nat /\ s.sent \in Nat /\ s.assembled \in Nat
    <3>1. s.inbox_paused = FALSE /\ s.inbox_bytes = 0 /\ s.sent = 0 /\ s.assembled = 0
      BY <1>3
    <3>2. s.inbox_paused \in BOOLEAN
      BY <3>1, Zenon
    <3>3. QED
      BY <3>1, <3>2
  <2>2. s.out \in Seq(FrameRecord) /\ s.inbox \in Seq(Int) /\ s.q.items \in Seq(Int) /\ s.ready \in Seq(Tasks)
    BY <1>3, <1>5
  <2>3. Listed(s.recv_waiters) /\ Listed(s.q.joiners) /\ Listed(s.trailing) /\ Listed(s.input)
    BY <1>2, <1>3, <1>5, ListedEmpty
  <2>4. QED
    BY <1>3, <1>5, <1>6, <1>7, <2>1, <2>2, <2>3 DEF Shape
<1>9. \A t \in Tasks : s.held[t] # Connect /\ s.taken[t] # Connect
  BY <1>3, <1>4
<1>10. ConnectOnce(s) /\ Accounted(s)
  BY <1>3, <1>5, <1>6, <1>9 DEF ConnectOnce, Accounted, NoConnect, Putting
<1>11. Told(s) /\ InOrder(s.out)
  BY <1>3 DEF Told, InOrder, Without
<1>12. PauseSound(s) /\ ReadSound(s) /\ MailSound(s)
  BY <1>3 DEF PauseSound, ReadSound, MailSound
<1>13. QED
  BY <1>8, <1>10, <1>11, <1>12 DEF SessionInv, WireInv

\* Every step of the handler, the loop, the network and the server keeps it.
LEMMA SessionNext == SessionSound /\ [Next]_vars => SessionSound'
<1> SUFFICES ASSUME SessionInv(s), [Next]_vars PROVE SessionInv(s')
  BY DEF SessionSound
<1>1. ASSUME NEW t \in Tasks, HandlerCode(t) PROVE SessionInv(s')
  BY <1>1, CallReceiveKeeps, AwaitTakenKeeps, KeepTakenKeeps, AcceptKeeps, CloseKeeps, QueueCallsKeep, SendKeeps,
     EndKeeps DEF HandlerCode
<1>2. CASE Progress
  BY <1>1, <1>2, RunReadyKeeps, DispatchKeeps, ReadKeeps, SentKeeps, SweepKeeps DEF Progress
<1>3. CASE Eof \/ Reset \/ Shutdown \/ (\E t \in Tasks : Cancel(t))
  BY <1>3, EofKeeps, ShutdownKeeps, SweepKeeps
<1>4. CASE UNCHANGED vars
  BY <1>4 DEF vars
<1>5. QED
  BY <1>2, <1>3, <1>4 DEF Next

\* The inductive invariant of a session holds always.
THEOREM SessionIsSound == Spec => []SessionSound
  BY SessionInit, SessionNext, PTL DEF Spec

\* The wire, whoever was cancelled where and whichever ends raced: the
\* upgrade is answered once, nothing follows a refusal, and behind a close
\* frame there are pongs only (ws_send, ws_ingest, ws_app_done, fail_request,
\* http_begin_shutdown).
THEOREM WireIsSound == Spec => []WireSound
<1>1. SessionSound => WireSound
  BY DEF SessionSound, SessionInv, WireInv, InOrder, WireSound
<1>2. QED
  BY <1>1, SessionIsSound, PTL

\* ws_sync_read_pause and post_recv lose no read: a healthy session that
\* does not read has messages nobody took or frames the peer did not read.
THEOREM ReadsOrIsPressed == Spec => []ReadsUnlessPressed
<1>1. SessionSound => ReadsUnlessPressed
  BY DEF SessionSound, SessionInv, PauseSound, ReadSound, Healthy, Live, Pressed, ReadsUnlessPressed
<1>2. QED
  BY <1>1, SessionIsSound, PTL

\* A receive() that is parked on an open connection is parked beside an
\* empty inbox: no interleaving of arrivals, wake-ups, cancellations and
\* put-backs leaves it waiting for a message that is there.
THEOREM NobodyWaitsBesideMail == Spec => [](s.open /\ s.recv_waiters # <<>> => s.inbox = <<>>)
<1>1. SessionSound => (s.open /\ s.recv_waiters # <<>> => s.inbox = <<>>)
  BY DEF SessionSound, SessionInv, MailSound
<1>2. QED
  BY <1>1, SessionIsSound, PTL

=============================================================================
