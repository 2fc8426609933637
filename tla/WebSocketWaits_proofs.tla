------------------------- MODULE WebSocketWaits_proofs -------------------------
(***************************************************************************)
(* Proofs about WebSocket: no cancellation is lost, and nobody waits for   *)
(* what is already there.                                                  *)
(***************************************************************************)
EXTENDS WebSocket_proofs

-----------------------------------------------------------------------------
(* What these proofs look at: the tasks, their futures and the queue.      *)

Looked == {"open", "role", "accepted", "held", "taken", "tasks", "ready", "running", "fut", "q",
           "recv_waiters", "drain_waiters", "events"}

Outcomes == {"pending", "none", "gone", "cancelled"}
Awaits == {"start", "run", "recv", "drain", "get", "put", "join", "kept", "caught", "end"}
TaskRecord == [at : Awaits, wait : Futures \cup {NoFuture}, must_cancel : BOOLEAN, done : BOOLEAN, owed : BOOLEAN]
EventKinds == {"ws_wake", "drained", "disconnect"}
EventRecord == [kind : EventKinds, fut : Futures]

QueueShape(q) ==
  /\ {"items", "getters", "putters", "unfinished", "joiners"} \subseteq DOMAIN q
  /\ Listed(q.items) /\ q.unfinished \in Int
  /\ q.getters \in Seq(Futures) /\ q.putters \in Seq(Futures) /\ q.joiners \in Seq(Futures)

\* The types of what is looked at.
Typed(c) ==
  /\ Looked \subseteq DOMAIN c /\ QueueShape(c.q) /\ c.fut \in [Futures -> Outcomes]
  /\ c.tasks \in [Tasks -> TaskRecord] /\ c.ready \in Seq(Tasks) /\ c.running \in Tasks \cup {Nobody}
  /\ DOMAIN c.held = Tasks /\ DOMAIN c.taken = Tasks
  /\ c.recv_waiters \in Seq(Futures) /\ c.drain_waiters \in Seq(Futures) /\ c.events \in Seq(EventRecord)

-----------------------------------------------------------------------------
(* The invariant.                                                          *)

\* A task is suspended, or it runs or is about to.
Asleep(c, t) == c.tasks[t].wait # NoFuture /\ Pending(c, c.tasks[t].wait)
Queued(c, t) == t \in ToSet(c.ready)
Coming(c, t) == c.running = t \/ Queued(c, t)

TaskOk(c, t) ==
  /\ c.running = t => ~Queued(c, t) /\ c.tasks[t].wait = NoFuture /\ ~c.tasks[t].done
  /\ Queued(c, t) => ~c.tasks[t].done /\ ~Asleep(c, t)
  /\ c.tasks[t].done => c.tasks[t].wait = NoFuture /\ ~c.tasks[t].owed
  /\ ~c.tasks[t].done /\ c.tasks[t].at # "start" => Coming(c, t) \/ Asleep(c, t)
  /\ c.tasks[t].at = "start" => c.tasks[t].wait = NoFuture /\ ~c.tasks[t].done
  /\ c.tasks[t].owed => Thrown(c, t) /\ Coming(c, t)

\* Nobody shares a future.
OwnFutures(c) == \A t, u \in Tasks : c.tasks[t].wait = c.tasks[u].wait /\ c.tasks[t].wait # NoFuture => t = u

\* The handler's other tasks start when the session is accepted.
Early(c) ==
  /\ c.tasks[App].at # "start"
  /\ ~c.accepted => \A t \in Tasks \ {App} : c.tasks[t].at = "start" /\ ~Coming(c, t)

TaskInv(c) == OwnFutures(c) /\ IsInjective(c.ready) /\ Early(c) /\ \A t \in Tasks : TaskOk(c, t)

\* Every parked future of a getter or a putter is awaited by a task in get()
\* or put().
Backed(c, futs, at) ==
  \A f \in ToSet(futs) : Pending(c, f) => \E t \in Tasks : c.tasks[t].wait = f /\ c.tasks[t].at = at

\* QueueServed, up to g items and p slots that a task which runs leaves.
GettersServed(c, g) == ParkedIn(c, c.q.getters) # {} => Len(c.q.items) <= Cardinality(WokenIn(c, "get")) + g
PuttersServed(c, p) == ParkedIn(c, c.q.putters) # {} => MaxSize - Len(c.q.items) <= Cardinality(WokenIn(c, "put")) + p
JoinersServed(c) == ParkedIn(c, c.q.joiners) # {} => c.q.unfinished > 0

\* The items that were put and are not marked done: those in the queue, those
\* with a writer, and those whose writer was lost.
Working(c) == {t \in Tasks : c.role[t] = "writer" /\ c.held[t] # Nothing}
Counted(c) == c.q.unfinished >= Len(c.q.items) + Cardinality(Working(c))

\* Writers do not read.
RolesSound(c) == \A t \in Tasks : c.tasks[t].at = "recv" \/ c.taken[t] # Nothing => c.role[t] # "writer"

\* Nobody waits on a connection that is gone.
ClosedSound(c) == ~c.open => c.recv_waiters = <<>>

WaitInv(c, g, p) ==
  /\ Typed(c) /\ TaskInv(c) /\ Backed(c, c.q.getters, "get") /\ Backed(c, c.q.putters, "put")
  /\ GettersServed(c, g) /\ PuttersServed(c, p) /\ JoinersServed(c) /\ Counted(c)
  /\ RolesSound(c) /\ ClosedSound(c)

-----------------------------------------------------------------------------
(* The session beside the tasks.                                           *)

\* From c to d only the session changes: who waits where, and no more.
Beside(c, d) ==
  /\ Typed(d) /\ (ClosedSound(c) => ClosedSound(d))
  /\ d.tasks = c.tasks /\ d.ready = c.ready /\ d.running = c.running /\ d.fut = c.fut /\ d.q = c.q
  /\ d.held = c.held /\ d.taken = c.taken /\ d.role = c.role /\ d.accepted = c.accepted

\* Nothing happens.
LEMMA BesideSelf == ASSUME NEW c, Typed(c) PROVE Beside(c, c)
  BY DEF Beside

\* Two such steps are one.
LEMMA BesideTwice == ASSUME NEW c, NEW d, NEW e, Beside(c, d), Beside(d, e) PROVE Beside(c, e)
  BY DEF Beside

\* They keep the invariant.
LEMMA BesideKeeps == ASSUME NEW c, NEW d, NEW g, NEW p, WaitInv(c, g, p), Beside(c, d) PROVE WaitInv(d, g, p)
<1>1. TaskInv(d)
  BY DEF WaitInv, Beside, TaskInv, OwnFutures, Early, TaskOk, Queued, Coming, Asleep, Thrown, Pending
<1>2. Backed(d, d.q.getters, "get") /\ Backed(d, d.q.putters, "put")
  BY DEF WaitInv, Beside, Backed, Pending
<1>3. WokenIn(d, "get") = WokenIn(c, "get") /\ WokenIn(d, "put") = WokenIn(c, "put")
  BY DEF Beside, WokenIn
<1>4. \A q : ParkedIn(d, q) = ParkedIn(c, q)
  BY DEF Beside, ParkedIn, Pending
<1>5. GettersServed(d, g) /\ PuttersServed(d, p) /\ JoinersServed(d)
  BY <1>3, <1>4 DEF WaitInv, Beside, GettersServed, PuttersServed, JoinersServed
<1>6. Working(d) = Working(c)
  BY DEF Beside, Working
<1>7. Counted(d) /\ RolesSound(d) /\ ClosedSound(d)
  BY <1>6 DEF WaitInv, Beside, Counted, RolesSound
<1>8. QED
  BY <1>1, <1>2, <1>5, <1>7 DEF WaitInv, Beside

\* Waiters are told by events.
LEMMA BesidePushAll ==
  ASSUME NEW c, NEW kind \in EventKinds, NEW futs \in Seq(Futures), Typed(c) PROVE Beside(c, PushAll(c, kind, futs))
<1>1. PICK n : n = [k \in 1..Len(futs) |-> [kind |-> kind, fut |-> futs[k]]]
  OBVIOUS
<1>2. n \in Seq(EventRecord)
  BY <1>1 DEF EventRecord
<1>3. PICK e : e = c.events \o n
  OBVIOUS
<1>4. e \in Seq(EventRecord)
  BY <1>2, <1>3 DEF Typed
<1>5. Beside(c, [c EXCEPT !.events = e])
  BY <1>4 DEF Typed, Looked, Beside, ClosedSound
<1>6. QED
  BY <1>1, <1>3, <1>5 DEF PushAll

\* A connection is torn down.
LEMMA BesideTeardown == ASSUME NEW c, Typed(c) PROVE Beside(c, Teardown(c))
<1>1. PICK x : x = c.gone \cup Numbers(c.inbox)
  OBVIOUS
<1>2. PICK d : d = [c EXCEPT !.open = FALSE, !.reading = FALSE, !.disconnected = TRUE,
                            !.recv_waiters = <<>>, !.drain_waiters = <<>>, !.inbox = <<>>, !.gone = x]
  OBVIOUS
<1>3. Beside(c, d)
  BY <1>2 DEF Typed, Looked, Beside, ClosedSound
<1>4. PICK e : e = PushAll(d, "drained", c.drain_waiters)
  OBVIOUS
<1>5. c.drain_waiters \in Seq(Futures) /\ c.recv_waiters \in Seq(Futures)
  BY DEF Typed
<1>6. Beside(d, e)
  BY <1>3, <1>4, <1>5, BesidePushAll, ZenonT(40) DEF Beside, EventKinds
<1>7. Beside(e, PushAll(e, "disconnect", c.recv_waiters))
  BY <1>5, <1>6, BesidePushAll DEF Beside, EventKinds
<1>8. Beside(c, PushAll(e, "disconnect", c.recv_waiters))
  BY <1>3, <1>6, <1>7, BesideTwice
<1>9. c.open => Teardown(c) = PushAll(e, "disconnect", c.recv_waiters)
  BY <1>1, <1>2, <1>4 DEF Teardown, Then
<1>10. QED
  BY <1>8, <1>9, BesideSelf DEF Teardown

\* The session reads, closes, sends.
LEMMA BesidePostRecv == ASSUME NEW c, Typed(c) PROVE Beside(c, PostRecv(c))
  BY DEF Typed, Looked, Beside, ClosedSound, PostRecv

\* maybe_finish_shutdown
LEMMA BesideFinishShutdown == ASSUME NEW c, Typed(c) PROVE Beside(c, MaybeFinishShutdown(c))
<1>1. PICK d : d = [c EXCEPT !.fin = TRUE]
  OBVIOUS
<1>2. Beside(c, d)
  BY <1>1 DEF Typed, Looked, Beside, ClosedSound
<1>3. Beside(d, PostRecv(d))
  BY <1>2, BesidePostRecv DEF Beside
<1>4. Beside(c, PostRecv(d))
  BY <1>2, <1>3, BesideTwice
<1>5. MaybeFinishShutdown(c) \in {c, Teardown(c), PostRecv(d)}
  BY <1>1 DEF MaybeFinishShutdown
<1>6. QED
  BY <1>4, <1>5, BesideSelf, BesideTeardown

\* http_enqueue_raw
LEMMA BesideEnqueueFrame == ASSUME NEW c, NEW frame, Typed(c) PROVE Beside(c, EnqueueFrame(c, frame))
  BY DEF Typed, Looked, Beside, ClosedSound, EnqueueFrame

\* A frame of a kind is sent the same way.
LEMMA BesideEnqueue == ASSUME NEW c, NEW kind, Typed(c) PROVE Beside(c, Enqueue(c, kind))
  BY BesideEnqueueFrame DEF Enqueue

\* http_close_after_write
LEMMA BesideCloseAfterWrite == ASSUME NEW c, Typed(c) PROVE Beside(c, CloseAfterWrite(c))
<1>1. PICK l : l = (c.timeouts /\ ~c.disconnected)
  OBVIOUS
<1>2. PICK d : d = [c EXCEPT !.closing = TRUE, !.lingering = l, !.reading = @ /\ l]
  OBVIOUS
<1>3. Beside(c, d)
  BY <1>2 DEF Typed, Looked, Beside, ClosedSound
<1>4. Beside(c, MaybeFinishShutdown(d))
  BY <1>3, BesideFinishShutdown, BesideTwice DEF Beside
<1>5. CloseAfterWrite(c) \in {c, MaybeFinishShutdown(d)}
  BY <1>1, <1>2 DEF CloseAfterWrite, Then
<1>6. QED
  BY <1>4, <1>5, BesideSelf

\* ws_sync_read_pause
LEMMA BesideSyncReadPause == ASSUME NEW c, Typed(c) PROVE Beside(c, SyncReadPause(c))
<1>1. PICK x : x = IF c.inbox_paused THEN c.inbox_bytes * 2 >= MaxInbox \/ Unsent(c) > Low
                   ELSE c.inbox_bytes >= MaxInbox \/ Unsent(c) > High
  OBVIOUS
<1>2. PICK d : d = [c EXCEPT !.inbox_paused = x]
  OBVIOUS
<1>3. Beside(c, d)
  BY <1>2 DEF Typed, Looked, Beside, ClosedSound
<1>4. Beside(c, PostRecv(d))
  BY <1>3, BesidePostRecv, BesideTwice DEF Beside
<1>5. SyncReadPause(c) \in {c, d, PostRecv(d)}
  BY <1>1, <1>2 DEF SyncReadPause, Then
<1>6. QED
  BY <1>3, <1>4, <1>5, BesideSelf

\* Parked receive()s are woken.
LEMMA BesideWakeReceivers == ASSUME NEW c, Typed(c) PROVE Beside(c, WakeReceivers(c))
<1>1. PICK d : d = [c EXCEPT !.recv_waiters = <<>>]
  OBVIOUS
<1>2. Beside(c, d)
  BY <1>1 DEF Typed, Looked, Beside, ClosedSound
<1>3. c.recv_waiters \in Seq(Futures)
  BY DEF Typed
<1>4. Beside(c, PushAll(d, "ws_wake", c.recv_waiters))
  <2>1. Typed(d) /\ "ws_wake" \in EventKinds
    BY <1>2 DEF Beside, EventKinds
  <2>2. Beside(d, PushAll(d, "ws_wake", c.recv_waiters))
    BY <1>3, <2>1, BesidePushAll
  <2>3. QED
    BY <1>2, <2>2, BesideTwice
<1>5. QED
  BY <1>1, <1>4, BesideSelf DEF WakeReceivers

\* A field that is not looked at changes.
LEMMA BesideUnseen ==
  ASSUME NEW c, NEW x, NEW y, Typed(c)
  PROVE  /\ Beside(c, [c EXCEPT !.frag = x]) /\ Beside(c, [c EXCEPT !.trailing = x]) /\ Beside(c, [c EXCEPT !.gone = x])
         /\ Beside(c, [c EXCEPT !.ended = x, !.inbox = y]) /\ Beside(c, [c EXCEPT !.ws_closing = x])
         /\ Beside(c, [c EXCEPT !.input = x, !.reading = y]) /\ Beside(c, [c EXCEPT !.inbox = x, !.inbox_bytes = y])
         /\ Beside(c, [c EXCEPT !.connect_sent = x]) /\ Beside(c, [c EXCEPT !.stopping = x])
         /\ Beside(c, [c EXCEPT !.sent = x]) /\ Beside(c, [c EXCEPT !.active = x])
         /\ Beside(c, [c EXCEPT !.returned = x, !.got = y]) /\ Beside(c, [c EXCEPT !.cancels = x])
  BY DEF Typed, Looked, Beside, ClosedSound

\* A message is assembled.
LEMMA BesideAssembled == ASSUME NEW c, Typed(c) PROVE Beside(c, Assembled(c))
  BY DEF Typed, Looked, Beside, ClosedSound, Assembled

\* The peer ends the session.
LEMMA BesidePeerEnds == ASSUME NEW c, Typed(c) PROVE Beside(c, PeerEnds(c))
<1>1. PICK e : e = [c EXCEPT !.ws_closing = TRUE]
  OBVIOUS
<1>2. Beside(c, e)
  BY <1>1, BesideUnseen
<1>3. PICK d : d = IF c.ws_closing THEN c ELSE Enqueue(e, "close")
  OBVIOUS
<1>4. Beside(c, d)
  BY <1>2, <1>3, BesideSelf, BesideEnqueue, BesideTwice DEF Beside
<1>5. PICK x : x = Append(d.inbox, Gone)
  OBVIOUS
<1>6. PeerEnds(c) = [d EXCEPT !.ended = TRUE, !.inbox = x]
  BY <1>1, <1>3, <1>5 DEF PeerEnds, Then
<1>7. Typed(d)
  BY <1>4 DEF Beside
<1>8. Beside(d, [d EXCEPT !.ended = TRUE, !.inbox = x])
  BY <1>7, BesideUnseen
<1>9. QED
  BY <1>4, <1>6, <1>8, BesideTwice

\* A frame is parsed.
LEMMA BesideParse == ASSUME NEW c, NEW frame, Typed(c) PROVE Beside(c, Parse(c, frame))
<1>1. PICK e, g : e = [c EXCEPT !.frag = FALSE] /\ g = [c EXCEPT !.frag = TRUE]
  OBVIOUS
<1>2. Beside(c, e) /\ Beside(c, g)
  BY <1>1, BesideUnseen
<1>3. Beside(c, Assembled(e))
  BY <1>2, BesideAssembled, BesideTwice DEF Beside
<1>4. Parse(c, frame) \in {c, Enqueue(c, "pong"), Assembled(c), Assembled(e), g, PeerEnds(c)}
  BY <1>1 DEF Parse
<1>5. QED
  BY <1>2, <1>3, <1>4, BesideSelf, BesideEnqueue, BesideAssembled, BesidePeerEnds

\* Several are.
LEMMA BesideParseAll == ASSUME NEW c, NEW batch, Typed(c), Listed(batch) PROVE Beside(c, ParseAll(c, batch))
<1> DEFINE n == Len(batch)
<1>1. n \in Nat
  BY DEF Listed
<1>2. PICK f : Parses(f, c, batch)
  BY Parsing
<1> DEFINE A == {k \in 0..n : Beside(c, f[k])}
<1>3. 0 \in A
  BY <1>1, <1>2, BesideSelf DEF Parses
<1>4. ASSUME NEW k \in 0..n, k \in A, k < n PROVE k + 1 \in A
  <2>1. k + 1 \in 1..n /\ k + 1 \in 0..n /\ (k + 1) - 1 = k
    BY <1>1, <1>4
  <2>2. f[k + 1] \in {f[k], Parse(f[k], batch[k + 1])}
    BY <1>2, <2>1 DEF Parses, ParseNext
  <2>3. Beside(c, f[k])
    BY <1>4
  <2>4. Typed(f[k])
    BY <2>3 DEF Beside
  <2>5. Beside(f[k], f[k + 1])
    BY <2>2, <2>4, BesideParse, BesideSelf
  <2>6. QED
    BY <2>1, <2>3, <2>5, BesideTwice
<1>5. n \in A
  <2> HIDE DEF A, n
  <2>1. \A i \in 0..n : i \in A
    BY <1>1, <1>3, <1>4, UpTo
  <2>2. QED
    BY <1>1, <2>1
<1>6. QED
  BY <1>2, <1>5 DEF Parses

\* ws_ingest
LEMMA BesideIngest == ASSUME NEW c, NEW batch, Typed(c), Listed(batch) PROVE Beside(c, Ingest(c, batch))
<1>1. PICK e, g : e = [c EXCEPT !.trailing = <<>>] /\ g = [c EXCEPT !.trailing = @ \o batch]
  OBVIOUS
<1>2. Beside(c, e) /\ Beside(c, g)
  BY <1>1, BesideUnseen
<1>3. Beside(c, Enqueue(e, "error"))
  BY <1>2, BesideEnqueue, BesideTwice DEF Beside
<1>4. Beside(c, CloseAfterWrite(Enqueue(e, "error")))
  BY <1>3, BesideCloseAfterWrite, BesideTwice DEF Beside
<1>5. PICK d : d = ParseAll(c, batch)
  OBVIOUS
<1>6. PICK h : h = IF d.ended /\ ~c.ended THEN CloseAfterWrite(d) ELSE d
  OBVIOUS
<1>7. PICK w : w = IF Len(d.inbox) > Len(c.inbox) THEN WakeReceivers(h) ELSE h
  OBVIOUS
<1>8. Beside(c, d)
  BY <1>5, BesideParseAll
<1>9. Beside(c, h)
  BY <1>6, <1>8, BesideCloseAfterWrite, BesideTwice DEF Beside
<1>10. Beside(c, w)
  BY <1>7, <1>9, BesideWakeReceivers, BesideTwice DEF Beside
<1>11. Beside(c, SyncReadPause(w))
  BY <1>10, BesideSyncReadPause, BesideTwice DEF Beside
<1>12. Ingest(c, batch) \in {c, CloseAfterWrite(Enqueue(e, "error")), g, SyncReadPause(w)}
  BY <1>1, <1>5, <1>6, <1>7 DEF Ingest, Then
<1>13. QED
  BY <1>2, <1>4, <1>11, <1>12, BesideSelf

\* The front message leaves the inbox.
LEMMA BesidePopInbox == ASSUME NEW c, Typed(c) PROVE Beside(c, PopInbox(c))
<1>1. PICK x, y, z : x = Tail(c.inbox) /\ y = (IF c.inbox_bytes > 0 THEN c.inbox_bytes - 1 ELSE 0)
                     /\ z = IF Head(c.inbox) > 0 THEN Append(c.got, Head(c.inbox)) ELSE c.got
  OBVIOUS
<1>2. PICK d : d = [c EXCEPT !.inbox = x, !.inbox_bytes = y, !.got = z]
  OBVIOUS
<1>3. Beside(c, d)
  BY <1>2 DEF Typed, Looked, Beside, ClosedSound
<1>4. PopInbox(c) = SyncReadPause(d)
  BY <1>1, <1>2 DEF PopInbox
<1>5. QED
  BY <1>3, <1>4, BesideSyncReadPause, BesideTwice DEF Beside

\* WsRecv.abandon
LEMMA BesideAbandon == ASSUME NEW c, NEW result, Typed(c) PROVE Beside(c, Abandon(c, result))
  BY BesideSelf, BesideWakeReceivers DEF Abandon

-----------------------------------------------------------------------------
(* Counting tasks.                                                         *)

\* A set of tasks has a size.
LEMMA TasksCounted ==
  ASSUME NEW S, S \subseteq Tasks PROVE IsFiniteSet(S) /\ Cardinality(S) \in Nat
<1>1. IsFiniteSet(Tasks)
  BY TaskAssumption DEF TaskAssumption
<1>2. IsFiniteSet(S)
  BY <1>1, FS_Subset
<1>3. QED
  BY <1>2, FS_CardinalityType

\* A smaller set is smaller, one that has lost or gained one task by one.
LEMMA TasksCompared ==
  ASSUME NEW S, NEW T, S \subseteq Tasks, T \subseteq Tasks
  PROVE  /\ S \subseteq T => Cardinality(S) <= Cardinality(T)
         /\ \A t : S \subseteq T \cup {t} => Cardinality(S) <= Cardinality(T) + 1
         /\ \A t \in T : S \subseteq T \ {t} => Cardinality(S) <= Cardinality(T) - 1
<1>1. IsFiniteSet(S) /\ IsFiniteSet(T) /\ Cardinality(S) \in Nat /\ Cardinality(T) \in Nat
  BY TasksCounted
<1>2. S \subseteq T => Cardinality(S) <= Cardinality(T)
  BY <1>1, FS_Subset
<1>3. ASSUME NEW t, S \subseteq T \cup {t} PROVE Cardinality(S) <= Cardinality(T) + 1
  <2>1. PICK U : U = T \cup {t}
    OBVIOUS
  <2>2. IsFiniteSet(U) /\ Cardinality(U) <= Cardinality(T) + 1 /\ Cardinality(U) \in Nat
    BY <1>1, <2>1, FS_AddElement, FS_CardinalityType
  <2>3. Cardinality(S) <= Cardinality(U)
    BY <1>3, <2>1, <2>2, FS_Subset
  <2>4. QED
    BY <1>1, <2>2, <2>3
<1>4. ASSUME NEW t \in T, S \subseteq T \ {t} PROVE Cardinality(S) <= Cardinality(T) - 1
  <2>1. PICK U : U = T \ {t}
    OBVIOUS
  <2>2. IsFiniteSet(U) /\ Cardinality(U) = Cardinality(T) - 1
    BY <1>1, <2>1, FS_RemoveElement
  <2>3. Cardinality(S) <= Cardinality(U)
    BY <1>4, <2>1, <2>2, FS_Subset
  <2>4. QED
    BY <2>2, <2>3
<1>5. QED
  BY <1>2, <1>3, <1>4

\* SetToSeq lines up every task of a set.
LEMMA AllLinedUp ==
  ASSUME NEW S, S \subseteq Tasks
  PROVE  SetToSeq(S) \in Seq(Tasks) /\ IsInjective(SetToSeq(S)) /\ ToSet(SetToSeq(S)) = S
<1>1. IsFiniteSet(S) /\ Cardinality(S) \in Nat
  BY TasksCounted
<1>2. PICK n : n = Cardinality(S)
  OBVIOUS
<1>3. PICK w : w = SetToSeq(S)
  OBVIOUS
<1>4. \E f \in [1..n -> S] : IsInjective(f)
  <2>1. ExistsBijection(1..n, S)
    BY <1>1, <1>2, FS_CardinalityType
  <2>2. QED
    BY <2>1 DEF ExistsBijection, Bijection, Injection
<1>5. w \in [1..n -> S] /\ IsInjective(w)
  BY <1>2, <1>3, <1>4 DEF SetToSeq
<1>6. w \in Injection(1..n, S)
  BY <1>5 DEF Injection, IsInjective
<1>7. Cardinality(1..n) = n
  BY <1>1, <1>2, FS_Interval
<1>8. w \in Surjection(1..n, S)
  BY <1>1, <1>2, <1>6, <1>7, FS_Injection
<1>9. ToSet(w) = S
  BY <1>5, <1>8 DEF Surjection, ToSet
<1>10. w \in Seq(Tasks)
  BY <1>1, <1>2, <1>5
<1>11. QED
  BY <1>3, <1>5, <1>9, <1>10

\* Tasks woken and tasks at work are tasks.
LEMMA WokenAreTasks == ASSUME NEW c, NEW at PROVE WokenIn(c, at) \subseteq Tasks /\ Working(c) \subseteq Tasks
  BY DEF WokenIn, Working

\* The queue serves its waiters as long as none wait anew and as many are on
\* their way.
LEMMA ServedStill ==
  ASSUME NEW c, NEW d, NEW g \in Nat, NEW p \in Nat, Typed(c), d.q = c.q,
         GettersServed(c, g), PuttersServed(c, p), JoinersServed(c),
         \A futs \in Seq(Futures) : ParkedIn(d, futs) \subseteq ParkedIn(c, futs),
         \A at : WokenIn(c, at) \subseteq WokenIn(d, at)
  PROVE  GettersServed(d, g) /\ PuttersServed(d, p) /\ JoinersServed(d)
<1>1. \A at : /\ Cardinality(WokenIn(c, at)) \in Nat /\ Cardinality(WokenIn(d, at)) \in Nat
              /\ Cardinality(WokenIn(c, at)) <= Cardinality(WokenIn(d, at))
  <2> TAKE at
  <2>1. WokenIn(c, at) \subseteq Tasks /\ WokenIn(d, at) \subseteq Tasks
    BY WokenAreTasks
  <2>2. QED
    BY <2>1, TasksCounted, TasksCompared
<1>2. Len(c.q.items) \in Nat /\ MaxSize \in Nat
  BY QueueAssumption DEF Typed, QueueShape, Listed, QueueAssumption
<1>3. ParkedIn(d, d.q.getters) # {} => ParkedIn(c, c.q.getters) # {}
  BY DEF Typed, QueueShape
<1>4. ParkedIn(d, d.q.putters) # {} => ParkedIn(c, c.q.putters) # {}
  BY DEF Typed, QueueShape
<1>5. ParkedIn(d, d.q.joiners) # {} => ParkedIn(c, c.q.joiners) # {}
  BY DEF Typed, QueueShape
<1>6. GettersServed(d, g)
  BY <1>1, <1>2, <1>3 DEF GettersServed
<1>7. PuttersServed(d, p)
  BY <1>1, <1>2, <1>4 DEF PuttersServed
<1>8. QED
  BY <1>5, <1>6, <1>7 DEF JoinersServed

\* Futures are numbers, NoFuture is none of them.
LEMMA FuturesNumbered == Futures \subseteq Nat /\ NoFuture \notin Futures
<1>1. PICK n : n = Cardinality(Futures)
  OBVIOUS
<1>2. n \in Nat /\ Futures = 1..n
  BY <1>1, TaskAssumption, FS_CardinalityType DEF TaskAssumption
<1>3. QED
  BY <1>2 DEF NoFuture

-----------------------------------------------------------------------------
(* Wake-ups.                                                               *)

Waiting(c, f) == {t \in Tasks : c.tasks[t].wait = f}

\* From c to d, future f is done with outcome v and who waits for it is
\* queued.
Woke(c, d, f, v) ==
  /\ Typed(d) /\ d.fut = [c.fut EXCEPT ![f] = v]
  /\ ToSet(d.ready) = ToSet(c.ready) \cup Waiting(c, f) /\ IsInjective(d.ready)
  /\ d.tasks = c.tasks /\ d.running = c.running /\ d.q = c.q /\ d.held = c.held /\ d.taken = c.taken
  /\ d.role = c.role /\ d.accepted = c.accepted /\ d.open = c.open /\ d.recv_waiters = c.recv_waiters

\* That is what Scheduled does.
LEMMA ScheduledWakes ==
  ASSUME NEW c, NEW f \in Futures, NEW v \in Outcomes, Typed(c), TaskInv(c), Pending(c, f)
  PROVE  Woke(c, Scheduled([c EXCEPT !.fut[f] = v], f), f, v)
<1>1. PICK w : w = SetToSeq(Waiting(c, f))
  OBVIOUS
<1>2. w \in Seq(Tasks) /\ IsInjective(w) /\ ToSet(w) = Waiting(c, f)
  BY <1>1, AllLinedUp DEF Waiting
<1>3. c.ready \in Seq(Tasks) /\ IsInjective(c.ready)
  BY DEF Typed, TaskInv
<1>4. f # NoFuture
  BY FuturesNumbered
<1>5. \A t \in Waiting(c, f) : t \notin ToSet(c.ready)
  BY <1>4 DEF Waiting, TaskInv, TaskOk, Asleep, Queued
<1>6. PICK r : r = c.ready \o w
  OBVIOUS
<1>7. r \in Seq(Tasks) /\ IsInjective(r) /\ ToSet(r) = ToSet(c.ready) \cup Waiting(c, f)
  BY <1>2, <1>3, <1>5, <1>6, ConcatElements
<1>8. PICK b : b = [c EXCEPT !.fut[f] = v]
  OBVIOUS
<1>9. b.tasks = c.tasks /\ b.ready = c.ready
  BY <1>8 DEF Typed, Looked
<1>10. Scheduled(b, f) = [b EXCEPT !.ready = r]
  BY <1>1, <1>6, <1>9 DEF Scheduled, Waiting
<1>11. [c.fut EXCEPT ![f] = v] \in [Futures -> Outcomes]
  BY DEF Typed
<1>12. Woke(c, [b EXCEPT !.ready = r], f, v)
  BY <1>7, <1>8, <1>11 DEF Woke, Typed, Looked
<1>13. QED
  BY <1>8, <1>10, <1>12

\* A wake-up keeps the tasks in order.
LEMMA WokeTasks ==
  ASSUME NEW c, NEW d, NEW f \in Futures, NEW v \in Outcomes \ {"pending"}, Typed(c), TaskInv(c), Pending(c, f),
         Woke(c, d, f, v)
  PROVE  TaskInv(d)
<1>1. f # NoFuture /\ v # "pending"
  BY FuturesNumbered
<1>2. \A t \in Tasks : Queued(d, t) <=> Queued(c, t) \/ c.tasks[t].wait = f
  BY DEF Woke, Queued, Waiting
<1>3. \A t \in Tasks : c.tasks[t].wait \in Futures \cup {NoFuture}
  BY DEF Typed, TaskRecord
<1>4. \A t \in Tasks : Asleep(d, t) <=> Asleep(c, t) /\ c.tasks[t].wait # f
  BY <1>1, <1>3 DEF Woke, Asleep, Pending, Typed
<1>5. \A t \in Tasks : c.tasks[t].wait = f => Asleep(c, t)
  BY <1>1 DEF Asleep
<1>6. \A t \in Tasks : Thrown(c, t) => Thrown(d, t)
  BY <1>3 DEF Woke, Thrown, Typed, Pending
<1>7. ASSUME NEW t \in Tasks PROVE TaskOk(d, t)
  <2>1. TaskOk(c, t)
    BY DEF TaskInv
  <2>2. QED
    BY <1>1, <1>2, <1>4, <1>5, <1>6, <2>1 DEF TaskOk, Woke, Coming
<1>8. Early(d)
  <2>1. \A t \in Tasks : c.tasks[t].at = "start" => c.tasks[t].wait # f
    BY <1>1 DEF TaskInv, TaskOk
  <2>2. QED
    BY <1>2, <2>1 DEF Early, TaskInv, Woke, Coming
<1>9. OwnFutures(d) /\ IsInjective(d.ready)
  BY DEF TaskInv, OwnFutures, Woke
<1>10. QED
  BY <1>7, <1>8, <1>9 DEF TaskInv

\* Fewer are parked, and none who were on their way are stopped.
LEMMA WokeParked ==
  ASSUME NEW c, NEW d, NEW f \in Futures, NEW v \in Outcomes \ {"pending"}, Typed(c), Pending(c, f), Woke(c, d, f, v)
  PROVE  /\ \A h \in Futures : Pending(d, h) => Pending(c, h)
         /\ \A futs \in Seq(Futures) : ParkedIn(d, futs) \subseteq ParkedIn(c, futs)
         /\ \A at : WokenIn(c, at) \subseteq WokenIn(d, at)
<1>1. \A h \in Futures : Pending(d, h) => Pending(c, h)
  BY DEF Woke, Pending, Typed
<1>2. \A futs \in Seq(Futures) : ParkedIn(d, futs) \subseteq ParkedIn(c, futs)
  <2> TAKE futs \in Seq(Futures)
  <2>1. Range(futs) \subseteq Futures
    BY DEF Range
  <2>2. QED
    BY <1>1, <2>1 DEF ParkedIn
<1>3. \A t \in Tasks : c.tasks[t].wait \in Futures \cup {NoFuture}
  BY DEF Typed, TaskRecord
<1>4. \A at : WokenIn(c, at) \subseteq WokenIn(d, at)
  BY <1>3 DEF WokenIn, Woke, Pending, Typed
<1>5. QED
  BY <1>1, <1>2, <1>4

\* A wake-up keeps the invariant.
LEMMA WokeKeeps ==
  ASSUME NEW c, NEW d, NEW f \in Futures, NEW v \in Outcomes \ {"pending"}, NEW g \in Nat, NEW p \in Nat,
         WaitInv(c, g, p), Pending(c, f), Woke(c, d, f, v)
  PROVE  WaitInv(d, g, p)
<1>1. Typed(c) /\ TaskInv(c) /\ Typed(d)
  BY DEF WaitInv, Woke
<1>2. TaskInv(d)
  BY <1>1, WokeTasks
<1>3. /\ \A h \in Futures : Pending(d, h) => Pending(c, h)
      /\ \A futs \in Seq(Futures) : ParkedIn(d, futs) \subseteq ParkedIn(c, futs)
      /\ \A at : WokenIn(c, at) \subseteq WokenIn(d, at)
  BY <1>1, WokeParked
<1>4. d.q = c.q /\ d.tasks = c.tasks
  BY DEF Woke
<1>5. GettersServed(d, g) /\ PuttersServed(d, p) /\ JoinersServed(d)
  <2>1. GettersServed(c, g) /\ PuttersServed(c, p) /\ JoinersServed(c)
    BY DEF WaitInv
  <2>2. QED
    BY <1>1, <1>3, <1>4, <2>1, ServedStill
<1>6. Backed(d, d.q.getters, "get") /\ Backed(d, d.q.putters, "put")
  <2>1. c.q.getters \in Seq(Futures) /\ c.q.putters \in Seq(Futures)
    BY <1>1 DEF Typed, QueueShape
  <2>2. ToSet(c.q.getters) \subseteq Futures /\ ToSet(c.q.putters) \subseteq Futures
    BY <2>1, Elements
  <2>3. QED
    BY <1>3, <1>4, <2>2 DEF WaitInv, Backed
<1>7. Working(d) = Working(c)
  BY DEF Working, Woke
<1>8. Counted(d) /\ RolesSound(d) /\ ClosedSound(d)
  BY <1>7 DEF WaitInv, Counted, RolesSound, ClosedSound, Woke
<1>9. QED
  BY <1>1, <1>2, <1>5, <1>6, <1>8 DEF WaitInv

\* A future is resolved.
LEMMA ResolveKeeps ==
  ASSUME NEW c, NEW f \in Futures, NEW v \in {"none", "gone"}, NEW g \in Nat, NEW p \in Nat, WaitInv(c, g, p)
  PROVE  WaitInv(Resolve(c, f, v), g, p) /\ (Pending(c, f) => Woke(c, Resolve(c, f, v), f, v))
<1>1. v \in Outcomes \ {"pending"} /\ v \in Outcomes
  BY DEF Outcomes
<1>2. CASE Pending(c, f)
  <2>1. Resolve(c, f, v) = Scheduled([c EXCEPT !.fut[f] = v], f)
    BY <1>2 DEF Resolve
  <2>2. Woke(c, Resolve(c, f, v), f, v)
    BY <1>1, <1>2, <2>1, ScheduledWakes DEF WaitInv
  <2>3. QED
    BY <1>1, <1>2, <2>2, WokeKeeps
<1>3. CASE ~Pending(c, f)
  BY <1>3 DEF Resolve
<1>4. QED
  BY <1>2, <1>3

\* Several are, with nothing else changed that matters later.
LEMMA ResolveAllKeeps ==
  ASSUME NEW c, NEW futs \in Seq(Futures), NEW v \in {"none", "gone"}, NEW g \in Nat, NEW p \in Nat, WaitInv(c, g, p)
  PROVE  WaitInv(ResolveAll(c, futs, v), g, p)
<1> DEFINE n == Len(futs)
<1>1. n \in Nat /\ Listed(futs)
  BY DEF Listed
<1>2. PICK f : Resolves(f, c, futs, v)
  BY <1>1, Resolving
<1> DEFINE A == {k \in 0..n : WaitInv(f[k], g, p)}
<1>3. 0 \in A
  BY <1>1, <1>2 DEF Resolves
<1>4. ASSUME NEW k \in 0..n, k \in A, k < n PROVE k + 1 \in A
  <2>1. k + 1 \in 1..n /\ k + 1 \in 0..n /\ (k + 1) - 1 = k
    BY <1>1, <1>4
  <2>2. f[k + 1] = Resolve(f[k], futs[k + 1], v)
    BY <1>2, <2>1 DEF Resolves
  <2>3. WaitInv(f[k], g, p) /\ futs[k + 1] \in Futures
    BY <1>4, <2>1
  <2>4. WaitInv(f[k + 1], g, p)
    BY <2>2, <2>3, ResolveKeeps
  <2>5. QED
    BY <2>1, <2>4
<1>5. n \in A
  <2> HIDE DEF A, n
  <2>1. \A i \in 0..n : i \in A
    BY <1>1, <1>3, <1>4, UpTo
  <2>2. QED
    BY <1>1, <2>1
<1>6. QED
  BY <1>2, <1>5 DEF Resolves

-----------------------------------------------------------------------------
(* Steps of one task.                                                      *)

\* From c to d task t moves, the others stay where they are.
Moves(c, d, t) ==
  /\ Typed(d) /\ IsInjective(d.ready) /\ d.accepted = c.accepted
  /\ \A u \in Tasks \ {t} :
       /\ d.tasks[u] = c.tasks[u] /\ (Queued(d, u) <=> Queued(c, u)) /\ (d.running = u <=> c.running = u)
       /\ c.tasks[u].wait # NoFuture => d.fut[c.tasks[u].wait] = c.fut[c.tasks[u].wait]
                                        /\ d.tasks[t].wait # c.tasks[u].wait

\* The others are as well as they were.
LEMMA MovesTasks ==
  ASSUME NEW c, NEW d, NEW t \in Tasks, TaskInv(c), Moves(c, d, t), TaskOk(d, t), Coming(c, t), d.tasks[t].at # "start"
  PROVE  TaskInv(d)
<1>1. ASSUME NEW u \in Tasks \ {t} PROVE TaskOk(d, u)
  <2>1. TaskOk(c, u)
    BY DEF TaskInv
  <2>2. d.tasks[u] = c.tasks[u] /\ (Asleep(d, u) <=> Asleep(c, u)) /\ (Thrown(d, u) <=> Thrown(c, u))
    BY DEF Moves, Asleep, Thrown, Pending
  <2>3. QED
    BY <2>1, <2>2 DEF TaskOk, Moves, Coming
<1>2. OwnFutures(d)
  <2>1. ASSUME NEW u \in Tasks, NEW v \in Tasks, u # v, d.tasks[u].wait = d.tasks[v].wait PROVE d.tasks[u].wait = NoFuture
    <3>1. CASE u # t /\ v # t
      BY <2>1, <3>1 DEF TaskInv, OwnFutures, Moves
    <3>2. CASE u = t
      BY <2>1, <3>2 DEF Moves
    <3>3. CASE v = t
      BY <2>1, <3>3 DEF Moves
    <3>4. QED
      BY <3>1, <3>2, <3>3
  <2>2. QED
    BY <2>1 DEF OwnFutures
<1>3. Early(d)
  <2>1. ~c.accepted => t = App
    BY DEF TaskInv, Early
  <2>2. App \in Tasks
    BY SocketAssumption DEF SocketAssumption
  <2>3. d.tasks[App].at # "start"
    BY <2>2 DEF TaskInv, Early, Moves
  <2>4. \A u \in Tasks \ {t} : d.tasks[u] = c.tasks[u] /\ (Coming(d, u) <=> Coming(c, u))
    BY DEF Moves, Coming
  <2>5. QED
    BY <2>1, <2>3, <2>4 DEF TaskInv, Early, Moves
<1>4. QED
  BY <1>1, <1>2, <1>3 DEF TaskInv, Moves

\* What the queue sees of it, if t was not suspended and the futures stay as
\* they are.
LEMMA MovesQueue ==
  ASSUME NEW c, NEW d, NEW t \in Tasks, Typed(c), Moves(c, d, t), ~Asleep(c, t), d.fut = c.fut
  PROVE  /\ \A futs \in Seq(Futures) : ParkedIn(d, futs) = ParkedIn(c, futs)
         /\ \A futs \in Seq(Futures) : \A at : Backed(c, futs, at) => Backed(d, futs, at)
         /\ \A at : WokenIn(c, at) \ {t} \subseteq WokenIn(d, at)
<1>1. \A futs \in Seq(Futures) : ParkedIn(d, futs) = ParkedIn(c, futs)
  BY DEF ParkedIn, Pending
<1>2. ASSUME NEW futs \in Seq(Futures), NEW at, Backed(c, futs, at) PROVE Backed(d, futs, at)
  <2>1. SUFFICES ASSUME NEW f \in ToSet(futs), Pending(d, f)
                 PROVE  \E u \in Tasks : d.tasks[u].wait = f /\ d.tasks[u].at = at
    BY DEF Backed
  <2>2. PICK u \in Tasks : c.tasks[u].wait = f /\ c.tasks[u].at = at
    BY <1>2, <2>1 DEF Backed, Pending
  <2>3. f \in Futures /\ f # NoFuture
    BY <2>1, Elements, FuturesNumbered
  <2>4. u # t
    BY <2>1, <2>2, <2>3 DEF Asleep, Pending
  <2>5. QED
    BY <2>2, <2>4 DEF Moves
<1>3. \A at : WokenIn(c, at) \ {t} \subseteq WokenIn(d, at)
  BY DEF WokenIn, Moves
<1>4. QED
  BY <1>1, <1>2, <1>3

\* A running task that moves on and waits for nothing, or ends.
LEMMA RunningKeeps ==
  ASSUME NEW c, NEW d, NEW t \in Tasks, NEW g \in Nat, NEW p \in Nat, WaitInv(c, g, p), c.running = t,
         Moves(c, d, t), TaskOk(d, t), d.tasks[t].at \notin {"start", "recv"}, d.fut = c.fut, d.q = c.q,
         d.held = c.held, d.taken = c.taken, d.role = c.role, d.open = c.open, d.recv_waiters = c.recv_waiters
  PROVE  WaitInv(d, g, p)
<1>1. Typed(c) /\ TaskInv(c) /\ Typed(d) /\ Coming(c, t)
  BY DEF WaitInv, Moves, Coming
<1>2. TaskInv(d)
  BY <1>1, MovesTasks
<1>3. c.tasks[t].wait = NoFuture /\ ~Asleep(c, t)
  BY <1>1 DEF TaskInv, TaskOk, Asleep
<1>4. /\ \A futs \in Seq(Futures) : ParkedIn(d, futs) = ParkedIn(c, futs)
      /\ \A futs \in Seq(Futures) : \A at : Backed(c, futs, at) => Backed(d, futs, at)
      /\ \A at : WokenIn(c, at) \ {t} \subseteq WokenIn(d, at)
  BY <1>1, <1>3, MovesQueue
<1>5. \A at : WokenIn(c, at) \subseteq WokenIn(d, at)
  BY <1>3, <1>4 DEF WokenIn
<1>6. GettersServed(d, g) /\ PuttersServed(d, p) /\ JoinersServed(d)
  BY <1>1, <1>4, <1>5, ServedStill DEF WaitInv
<1>7. Backed(d, d.q.getters, "get") /\ Backed(d, d.q.putters, "put")
  BY <1>1, <1>4 DEF WaitInv, Typed, QueueShape
<1>8. Working(d) = Working(c)
  BY DEF Working
<1>9. RolesSound(d)
  BY DEF WaitInv, RolesSound, Moves
<1>10. Counted(d) /\ ClosedSound(d)
  BY <1>8 DEF WaitInv, Counted, ClosedSound
<1>11. QED
  BY <1>1, <1>2, <1>6, <1>7, <1>9, <1>10 DEF WaitInv

\* The running task goes on elsewhere.
LEMMA AtKeeps ==
  ASSUME NEW c, NEW t \in Tasks, NEW at \in Awaits, NEW g \in Nat, NEW p \in Nat, WaitInv(c, g, p), c.running = t,
         at \notin {"start", "recv"}
  PROVE  WaitInv([c EXCEPT !.tasks[t].at = at], g, p)
<1>1. PICK d : d = [c EXCEPT !.tasks[t].at = at]
  OBVIOUS
<1>2. PICK r : r = [c.tasks[t] EXCEPT !.at = at]
  OBVIOUS
<1>3. Typed(c) /\ TaskOk(c, t) /\ IsInjective(c.ready)
  BY DEF WaitInv, TaskInv
<1>4. c.tasks[t] \in TaskRecord /\ c.tasks \in [Tasks -> TaskRecord]
  BY <1>3 DEF Typed
<1>5. /\ r \in TaskRecord /\ r.at = at /\ r.wait = c.tasks[t].wait /\ r.done = c.tasks[t].done
      /\ r.owed = c.tasks[t].owed /\ r.must_cancel = c.tasks[t].must_cancel
  BY <1>2, <1>4 DEF TaskRecord
<1>6. d.tasks = [c.tasks EXCEPT ![t] = r]
  BY <1>1, <1>2, <1>3 DEF Typed, Looked
<1>7. /\ Typed(d) /\ d.ready = c.ready /\ d.running = c.running /\ d.fut = c.fut /\ d.q = c.q /\ d.accepted = c.accepted
      /\ d.held = c.held /\ d.taken = c.taken /\ d.role = c.role /\ d.open = c.open /\ d.recv_waiters = c.recv_waiters
  <2>1. [c.tasks EXCEPT ![t] = r] \in [Tasks -> TaskRecord]
    BY <1>4, <1>5
  <2>2. d = [c EXCEPT !.tasks = [c.tasks EXCEPT ![t] = r]]
    BY <1>1, <1>2
  <2>3. QED
    BY <1>3, <2>1, <2>2 DEF Typed, Looked
<1>8. d.tasks[t] = r /\ \A u \in Tasks \ {t} : d.tasks[u] = c.tasks[u]
  BY <1>4, <1>6
<1>9. TaskOk(d, t)
  BY <1>3, <1>5, <1>7, <1>8 DEF TaskOk, Queued, Coming, Asleep, Thrown, Pending
<1>10. Moves(c, d, t)
  BY <1>3, <1>5, <1>7, <1>8 DEF Moves, Queued, TaskOk
<1>11. WaitInv(d, g, p)
  BY <1>5, <1>7, <1>8, <1>9, <1>10, RunningKeeps
<1>12. QED
  BY <1>1, <1>11

\* The running task ends.
LEMMA FinishKeeps ==
  ASSUME NEW c, NEW t \in Tasks, NEW g \in Nat, NEW p \in Nat, WaitInv(c, g, p), c.running = t
  PROVE  WaitInv(Finish(c, t), g, p)
<1>1. PICK r : r = [c.tasks[t] EXCEPT !.done = TRUE, !.at = "end", !.must_cancel = FALSE, !.owed = FALSE]
  OBVIOUS
<1>2. PICK d : d = Finish(c, t)
  OBVIOUS
<1>3. Typed(c) /\ TaskOk(c, t) /\ IsInjective(c.ready)
  BY DEF WaitInv, TaskInv
<1>4. c.tasks[t] \in TaskRecord /\ c.tasks \in [Tasks -> TaskRecord]
  BY <1>3 DEF Typed
<1>5. /\ r \in TaskRecord /\ r.at = "end" /\ r.wait = c.tasks[t].wait /\ r.done /\ ~r.owed
  BY <1>1, <1>4 DEF TaskRecord, Awaits
<1>6. [c.tasks EXCEPT ![t] = r] \in [Tasks -> TaskRecord]
  BY <1>4, <1>5
<1>7. /\ Typed(d) /\ d.ready = c.ready /\ d.running = Nobody /\ d.fut = c.fut /\ d.q = c.q /\ d.accepted = c.accepted
      /\ d.held = c.held /\ d.taken = c.taken /\ d.role = c.role /\ d.open = c.open /\ d.recv_waiters = c.recv_waiters
      /\ d.tasks = [c.tasks EXCEPT ![t] = r]
  <2>1. d.tasks = [c.tasks EXCEPT ![t] = r]
    BY <1>1, <1>2, <1>3, <1>4 DEF Finish, Typed, Looked
  <2>2. QED
    BY <1>2, <1>3, <1>6, <2>1, ZenonT(40) DEF Finish, Typed, Looked
<1>8. d.tasks[t] = r /\ \A u \in Tasks \ {t} : d.tasks[u] = c.tasks[u]
  BY <1>4, <1>7
<1>9. Nobody \notin Tasks
  BY TaskAssumption DEF TaskAssumption
<1>10. TaskOk(d, t)
  BY <1>3, <1>5, <1>7, <1>8, <1>9 DEF TaskOk, Queued, Coming, Asleep
<1>11. Moves(c, d, t)
  BY <1>3, <1>5, <1>7, <1>8, <1>9 DEF Moves, Queued, TaskOk
<1>12. d.tasks[t].at \notin {"start", "recv"}
  BY <1>5, <1>8
<1>13. WaitInv(d, g, p)
  BY <1>7, <1>10, <1>11, <1>12, RunningKeeps
<1>14. QED
  BY <1>2, <1>13

\* The running task yields.
LEMMA YieldKeeps ==
  ASSUME NEW c, NEW t \in Tasks, NEW at \in Awaits, NEW g \in Nat, NEW p \in Nat, WaitInv(c, g, p), c.running = t,
         at \notin {"start", "recv"}
  PROVE  WaitInv(Yield(c, t, at), g, p)
<1>1. PICK r : r = [c.tasks[t] EXCEPT !.at = at, !.wait = NoFuture]
  OBVIOUS
<1>2. PICK q : q = Append(c.ready, t)
  OBVIOUS
<1>3. PICK d : d = [c EXCEPT !.running = Nobody, !.tasks = [c.tasks EXCEPT ![t] = r], !.ready = q]
  OBVIOUS
<1>4. Typed(c) /\ TaskOk(c, t) /\ IsInjective(c.ready)
  BY DEF WaitInv, TaskInv
<1>5. c.tasks[t] \in TaskRecord /\ c.tasks \in [Tasks -> TaskRecord] /\ c.ready \in Seq(Tasks)
  BY <1>4 DEF Typed
<1>6. /\ r \in TaskRecord /\ r.at = at /\ r.wait = NoFuture /\ r.done = c.tasks[t].done
      /\ r.owed = c.tasks[t].owed /\ r.must_cancel = c.tasks[t].must_cancel
  BY <1>1, <1>5 DEF TaskRecord
<1>7. [c.tasks EXCEPT ![t] = r] \in [Tasks -> TaskRecord]
  BY <1>5, <1>6
<1>8. q \in Seq(Tasks) /\ ToSet(q) = ToSet(c.ready) \cup {t} /\ IsInjective(q)
  BY <1>2, <1>4, <1>5, AppendElements DEF TaskOk, Queued
<1>9. /\ Typed(d) /\ d.ready = q /\ d.running = Nobody /\ d.fut = c.fut /\ d.q = c.q /\ d.accepted = c.accepted
      /\ d.held = c.held /\ d.taken = c.taken /\ d.role = c.role /\ d.open = c.open /\ d.recv_waiters = c.recv_waiters
      /\ d.tasks = [c.tasks EXCEPT ![t] = r]
  BY <1>3, <1>4, <1>7, <1>8 DEF Typed, Looked
<1>10. d.tasks[t] = r /\ \A u \in Tasks \ {t} : d.tasks[u] = c.tasks[u]
  BY <1>5, <1>9
<1>11. Nobody \notin Tasks
  BY TaskAssumption DEF TaskAssumption
<1>12. Queued(d, t) /\ \A u \in Tasks \ {t} : Queued(d, u) <=> Queued(c, u)
  BY <1>8, <1>9 DEF Queued
<1>13. TaskOk(d, t)
  BY <1>4, <1>6, <1>9, <1>10, <1>11, <1>12 DEF TaskOk, Coming, Asleep, Thrown
<1>14. Moves(c, d, t)
  BY <1>4, <1>6, <1>8, <1>9, <1>10, <1>11, <1>12 DEF Moves
<1>15. d.tasks[t].at \notin {"start", "recv"}
  BY <1>6, <1>10
<1>16. WaitInv(d, g, p)
  BY <1>9, <1>13, <1>14, <1>15, RunningKeeps
<1>17. Yield(c, t, at) = d
  BY <1>1, <1>2, <1>3, <1>4, ZenonT(40) DEF Yield, Typed, Looked
<1>18. QED
  BY <1>16, <1>17

\* Futures nobody holds are forgotten.
LEMMA CollectKeeps ==
  ASSUME NEW c, NEW g \in Nat, NEW p \in Nat, WaitInv(c, g, p)
  PROVE  WaitInv(Collect(c, Holds(c)), g, p)
<1>1. PICK h : h = Holds(c)
  OBVIOUS
<1>2. PICK n : n = [f \in Futures |-> IF f \in h THEN c.fut[f] ELSE "none"]
  OBVIOUS
<1>3. PICK d : d = [c EXCEPT !.fut = n]
  OBVIOUS
<1>4. Typed(c) /\ c.fut \in [Futures -> Outcomes]
  BY DEF WaitInv, Typed
<1>5. n \in [Futures -> Outcomes]
  BY <1>2, <1>4 DEF Outcomes
<1>6. /\ Typed(d) /\ d.ready = c.ready /\ d.running = c.running /\ d.fut = n /\ d.q = c.q /\ d.accepted = c.accepted
      /\ d.held = c.held /\ d.taken = c.taken /\ d.role = c.role /\ d.open = c.open /\ d.recv_waiters = c.recv_waiters
      /\ d.tasks = c.tasks
  BY <1>3, <1>4, <1>5 DEF Typed, Looked
<1>7. \A t \in Tasks : c.tasks[t].wait \in h /\ c.tasks[t].wait \in Futures \cup {NoFuture}
  BY <1>1, <1>4 DEF Holds, Typed, TaskRecord
<1>8. \A t \in Tasks : c.tasks[t].wait # NoFuture => d.fut[c.tasks[t].wait] = c.fut[c.tasks[t].wait]
  BY <1>2, <1>6, <1>7
<1>9. TaskInv(d)
  <2>1. \A t \in Tasks : (Asleep(d, t) <=> Asleep(c, t)) /\ (Thrown(d, t) <=> Thrown(c, t))
    BY <1>6, <1>8 DEF Asleep, Thrown, Pending
  <2>2. \A t \in Tasks : TaskOk(d, t)
    BY <1>6, <2>1 DEF WaitInv, TaskInv, TaskOk, Coming, Queued
  <2>3. QED
    BY <1>6, <2>2 DEF WaitInv, TaskInv, Early, OwnFutures, Coming, Queued
<1>10. \A f \in Futures : Pending(d, f) => Pending(c, f)
  BY <1>2, <1>6 DEF Pending
<1>11. \A futs \in Seq(Futures) : ParkedIn(d, futs) \subseteq ParkedIn(c, futs)
  <2> TAKE futs \in Seq(Futures)
  <2>1. Range(futs) \subseteq Futures
    BY DEF Range
  <2>2. QED
    BY <1>10, <2>1 DEF ParkedIn
<1>12. \A at : WokenIn(c, at) \subseteq WokenIn(d, at)
  BY <1>6, <1>8 DEF WokenIn
<1>13. GettersServed(d, g) /\ PuttersServed(d, p) /\ JoinersServed(d)
  BY <1>4, <1>6, <1>11, <1>12, ServedStill DEF WaitInv
<1>14. Backed(d, d.q.getters, "get") /\ Backed(d, d.q.putters, "put")
  <2>1. ToSet(c.q.getters) \subseteq Futures /\ ToSet(c.q.putters) \subseteq Futures
    BY <1>4, Elements DEF Typed, QueueShape
  <2>2. QED
    BY <1>6, <1>10, <2>1 DEF WaitInv, Backed
<1>15. Working(d) = Working(c)
  BY <1>6 DEF Working
<1>16. Counted(d) /\ RolesSound(d) /\ ClosedSound(d)
  BY <1>6, <1>15 DEF WaitInv, Counted, RolesSound, ClosedSound
<1>17. WaitInv(d, g, p)
  BY <1>6, <1>9, <1>13, <1>14, <1>16 DEF WaitInv
<1>18. Collect(c, Holds(c)) = d
  BY <1>1, <1>2, <1>3 DEF Collect
<1>19. QED
  BY <1>17, <1>18

\* The wake-up of a task is run: an item or a slot that it was woken for is
\* left to it.
LEMMA StepKeeps ==
  ASSUME NEW c, NEW t, WaitInv(c, 0, 0), c.running = Nobody, c.ready # <<>>, t = Head(c.ready)
  PROVE  LET d == Step(c, t) IN
         /\ t \in Tasks /\ ~Asleep(c, t) /\ d.running = t /\ d.tasks[t].at = "run"
         /\ d.fut = c.fut /\ d.q = c.q /\ d.held = c.held /\ d.taken = c.taken /\ d.role = c.role
         /\ WaitInv(d, IF t \in WokenIn(c, "get") THEN 1 ELSE 0, IF t \in WokenIn(c, "put") THEN 1 ELSE 0)
<1>1. Typed(c) /\ TaskInv(c) /\ IsInjective(c.ready) /\ c.ready \in Seq(Tasks)
  BY DEF WaitInv, TaskInv, Typed
<1>2. t \in Tasks /\ t \in ToSet(c.ready) /\ Tail(c.ready) \in Seq(Tasks) /\ IsInjective(Tail(c.ready))
      /\ t \notin ToSet(Tail(c.ready)) /\ ToSet(c.ready) = ToSet(Tail(c.ready)) \cup {t}
  BY <1>1, TailElements
<1>3. TaskOk(c, t) /\ Queued(c, t) /\ ~Asleep(c, t) /\ ~c.tasks[t].done /\ Coming(c, t)
  BY <1>1, <1>2 DEF TaskInv, TaskOk, Queued, Coming
<1>4. PICK o : o = (c.tasks[t].owed /\ ~Thrown(c, t))
  OBVIOUS
<1>5. o = FALSE
  BY <1>3, <1>4 DEF TaskOk
<1>6. PICK r : r = [c.tasks[t] EXCEPT !.wait = NoFuture, !.must_cancel = FALSE, !.at = "run", !.owed = o]
  OBVIOUS
<1>7. PICK q : q = Tail(c.ready)
  OBVIOUS
<1>8. PICK d : d = [c EXCEPT !.ready = q, !.running = t, !.tasks[t].wait = NoFuture,
                             !.tasks[t].must_cancel = FALSE, !.tasks[t].at = "run", !.tasks[t].owed = o]
  OBVIOUS
<1>9. c.tasks[t] \in TaskRecord /\ c.tasks \in [Tasks -> TaskRecord]
  BY <1>1, <1>2 DEF Typed
<1>10. r \in TaskRecord /\ r.at = "run" /\ r.wait = NoFuture /\ ~r.done /\ ~r.owed
  BY <1>3, <1>5, <1>6, <1>9 DEF TaskRecord, Awaits
<1>11. [c.tasks EXCEPT ![t] = r] \in [Tasks -> TaskRecord]
  BY <1>9, <1>10
<1>12. d.tasks = [c.tasks EXCEPT ![t] = r]
  BY <1>1, <1>2, <1>6, <1>8, <1>9 DEF Typed, Looked
<1>13. /\ Typed(d) /\ d.ready = q /\ d.running = t /\ d.fut = c.fut /\ d.q = c.q /\ d.accepted = c.accepted
       /\ d.held = c.held /\ d.taken = c.taken /\ d.role = c.role /\ d.open = c.open /\ d.recv_waiters = c.recv_waiters
  <2>1. /\ d.ready = q /\ d.running = t /\ d.fut = c.fut /\ d.q = c.q /\ d.accepted = c.accepted
        /\ d.held = c.held /\ d.taken = c.taken /\ d.role = c.role /\ d.open = c.open /\ d.recv_waiters = c.recv_waiters
        /\ d.drain_waiters = c.drain_waiters /\ d.events = c.events /\ DOMAIN d = DOMAIN c
    BY <1>1, <1>8 DEF Typed, Looked
  <2>2. d.tasks \in [Tasks -> TaskRecord] /\ q \in Seq(Tasks)
    BY <1>2, <1>7, <1>11, <1>12
  <2>3. QED
    BY <1>1, <1>2, <2>1, <2>2 DEF Typed
<1>14. d.tasks[t] = r /\ \A u \in Tasks \ {t} : d.tasks[u] = c.tasks[u]
  BY <1>2, <1>9, <1>12
<1>15. ~Queued(d, t) /\ \A u \in Tasks \ {t} : Queued(d, u) <=> Queued(c, u)
  BY <1>2, <1>7, <1>13 DEF Queued
<1>16. Nobody \notin Tasks
  BY TaskAssumption DEF TaskAssumption
<1>17. TaskOk(d, t)
  BY <1>10, <1>13, <1>14, <1>15 DEF TaskOk, Coming, Asleep
<1>18. Moves(c, d, t)
  BY <1>2, <1>7, <1>10, <1>13, <1>14, <1>15, <1>16 DEF Moves
<1>19. TaskInv(d)
  BY <1>1, <1>2, <1>3, <1>10, <1>14, <1>17, <1>18, MovesTasks
<1>20. /\ \A futs \in Seq(Futures) : ParkedIn(d, futs) = ParkedIn(c, futs)
       /\ \A futs \in Seq(Futures) : \A at : Backed(c, futs, at) => Backed(d, futs, at)
       /\ \A at : WokenIn(c, at) \ {t} \subseteq WokenIn(d, at)
  BY <1>1, <1>2, <1>3, <1>13, <1>18, MovesQueue
<1>21. c.q.getters \in Seq(Futures) /\ c.q.putters \in Seq(Futures) /\ c.q.joiners \in Seq(Futures)
       /\ Len(c.q.items) \in Nat /\ MaxSize \in Nat
  BY <1>1, QueueAssumption DEF Typed, QueueShape, Listed, QueueAssumption
<1>22. ASSUME NEW at
       PROVE /\ Cardinality(WokenIn(c, at)) \in Nat /\ Cardinality(WokenIn(d, at)) \in Nat
             /\ Cardinality(WokenIn(c, at)) <= Cardinality(WokenIn(d, at)) + (IF t \in WokenIn(c, at) THEN 1 ELSE 0)
  <2>1. WokenIn(c, at) \subseteq Tasks /\ WokenIn(d, at) \subseteq Tasks
    BY WokenAreTasks
  <2>2. Cardinality(WokenIn(c, at)) \in Nat /\ Cardinality(WokenIn(d, at)) \in Nat
    BY <2>1, TasksCounted
  <2>3. CASE t \in WokenIn(c, at)
    <3>1. WokenIn(c, at) \subseteq WokenIn(d, at) \cup {t}
      BY <1>20
    <3>2. Cardinality(WokenIn(c, at)) <= Cardinality(WokenIn(d, at)) + 1
      BY <2>1, <3>1, TasksCompared
    <3>3. QED
      BY <2>2, <2>3, <3>2
  <2>4. CASE t \notin WokenIn(c, at)
    <3>1. WokenIn(c, at) \subseteq WokenIn(d, at)
      BY <1>20, <2>4
    <3>2. Cardinality(WokenIn(c, at)) <= Cardinality(WokenIn(d, at))
      BY <2>1, <3>1, TasksCompared
    <3>3. QED
      BY <2>2, <2>4, <3>2
  <2>5. QED
    BY <2>3, <2>4
<1>23. GettersServed(d, IF t \in WokenIn(c, "get") THEN 1 ELSE 0)
  BY <1>13, <1>20, <1>21, <1>22 DEF WaitInv, GettersServed
<1>24. PuttersServed(d, IF t \in WokenIn(c, "put") THEN 1 ELSE 0)
  BY <1>13, <1>20, <1>21, <1>22 DEF WaitInv, PuttersServed
<1>25. JoinersServed(d)
  BY <1>13, <1>20, <1>21 DEF WaitInv, JoinersServed
<1>26. Backed(d, d.q.getters, "get") /\ Backed(d, d.q.putters, "put")
  BY <1>13, <1>20, <1>21 DEF WaitInv
<1>27. Working(d) = Working(c)
  BY <1>13 DEF Working
<1>28. RolesSound(d)
  BY <1>10, <1>13, <1>14 DEF WaitInv, RolesSound
<1>29. Counted(d) /\ ClosedSound(d)
  BY <1>13, <1>27 DEF WaitInv, Counted, ClosedSound
<1>30. WaitInv(d, IF t \in WokenIn(c, "get") THEN 1 ELSE 0, IF t \in WokenIn(c, "put") THEN 1 ELSE 0)
  BY <1>13, <1>19, <1>23, <1>24, <1>25, <1>26, <1>28, <1>29 DEF WaitInv
<1>31. d = Step(c, t)
  BY <1>4, <1>7, <1>8 DEF Step
<1>32. QED
  BY <1>2, <1>3, <1>10, <1>13, <1>14, <1>30, <1>31

\* What a task is owed, or has latched, changes.
LEMMA MarkedKeeps ==
  ASSUME NEW c, NEW t \in Tasks, NEW o \in BOOLEAN, NEW m \in BOOLEAN, NEW g \in Nat, NEW p \in Nat, WaitInv(c, g, p),
         o => ~c.tasks[t].done /\ Coming(c, t)
              /\ (m \/ (c.tasks[t].wait # NoFuture /\ c.fut[c.tasks[t].wait] = "cancelled"))
  PROVE  WaitInv([c EXCEPT !.tasks[t].owed = o, !.tasks[t].must_cancel = m], g, p)
<1>1. PICK d : d = [c EXCEPT !.tasks[t].owed = o, !.tasks[t].must_cancel = m]
  OBVIOUS
<1>2. PICK r : r = [c.tasks[t] EXCEPT !.owed = o, !.must_cancel = m]
  OBVIOUS
<1>3. Typed(c) /\ TaskInv(c)
  BY DEF WaitInv
<1>4. c.tasks[t] \in TaskRecord /\ c.tasks \in [Tasks -> TaskRecord]
  BY <1>3 DEF Typed
<1>5. /\ r \in TaskRecord /\ r.at = c.tasks[t].at /\ r.wait = c.tasks[t].wait /\ r.done = c.tasks[t].done
      /\ r.owed = o /\ r.must_cancel = m
  BY <1>2, <1>4 DEF TaskRecord
<1>6. [c.tasks EXCEPT ![t] = r] \in [Tasks -> TaskRecord]
  BY <1>4, <1>5
<1>7. d.tasks = [c.tasks EXCEPT ![t] = r]
  BY <1>1, <1>2, <1>3, <1>4 DEF Typed, Looked
<1>8. /\ Typed(d) /\ d.ready = c.ready /\ d.running = c.running /\ d.fut = c.fut /\ d.q = c.q /\ d.accepted = c.accepted
      /\ d.held = c.held /\ d.taken = c.taken /\ d.role = c.role /\ d.open = c.open /\ d.recv_waiters = c.recv_waiters
  BY <1>1, <1>3, <1>6, <1>7 DEF Typed, Looked
<1>9. /\ d.tasks[t] = r /\ \A u \in Tasks \ {t} : d.tasks[u] = c.tasks[u]
      /\ \A u \in Tasks : d.tasks[u].at = c.tasks[u].at /\ d.tasks[u].wait = c.tasks[u].wait /\ d.tasks[u].done = c.tasks[u].done
  BY <1>4, <1>5, <1>7
<1>10. \A u \in Tasks : (Asleep(d, u) <=> Asleep(c, u)) /\ (Coming(d, u) <=> Coming(c, u)) /\ (Queued(d, u) <=> Queued(c, u))
  BY <1>8, <1>9 DEF Asleep, Coming, Queued, Pending
<1>11. ASSUME NEW u \in Tasks PROVE TaskOk(d, u)
  <2>1. TaskOk(c, u)
    BY <1>3 DEF TaskInv
  <2>2. d.tasks[u].owed => ~c.tasks[u].done /\ Thrown(d, u) /\ Coming(c, u)
    <3>1. CASE u = t
      BY <1>5, <1>8, <1>9, <3>1 DEF Thrown
    <3>2. CASE u # t
      BY <1>8, <1>9, <2>1, <3>2 DEF Thrown, TaskOk
    <3>3. QED
      BY <3>1, <3>2
  <2>3. QED
    BY <1>8, <1>9, <1>10, <2>1, <2>2 DEF TaskOk
<1>12. App \in Tasks
  BY SocketAssumption DEF SocketAssumption
<1>13. TaskInv(d)
  BY <1>3, <1>8, <1>9, <1>10, <1>11, <1>12 DEF TaskInv, OwnFutures, Early
<1>14. Backed(d, d.q.getters, "get") /\ Backed(d, d.q.putters, "put")
  BY <1>8, <1>9 DEF WaitInv, Backed, Pending
<1>15. (\A futs : ParkedIn(d, futs) = ParkedIn(c, futs)) /\ (\A at : WokenIn(d, at) = WokenIn(c, at))
  BY <1>8, <1>9 DEF ParkedIn, WokenIn, Pending
<1>16. GettersServed(d, g) /\ PuttersServed(d, p) /\ JoinersServed(d)
  BY <1>8, <1>15 DEF WaitInv, GettersServed, PuttersServed, JoinersServed
<1>17. Working(d) = Working(c)
  BY <1>8 DEF Working
<1>18. Counted(d) /\ RolesSound(d) /\ ClosedSound(d)
  BY <1>8, <1>9, <1>17 DEF WaitInv, Counted, RolesSound, ClosedSound
<1>19. QED
  BY <1>1, <1>8, <1>13, <1>14, <1>16, <1>18 DEF WaitInv

\* A task that has started, or is about to, is cancelled.
LEMMA CancelTaskKeeps ==
  ASSUME NEW c, NEW t \in Tasks, NEW g \in Nat, NEW p \in Nat, WaitInv(c, g, p), c.tasks[t].at = "start" => Queued(c, t)
  PROVE  WaitInv(CancelTask(c, t), g, p)
<1>1. Typed(c) /\ TaskInv(c) /\ TaskOk(c, t)
  BY DEF WaitInv, TaskInv
<1>2. c.tasks[t] \in TaskRecord /\ c.tasks \in [Tasks -> TaskRecord]
  BY <1>1 DEF Typed
<1>3. CASE c.tasks[t].done
  BY <1>3 DEF CancelTask
<1>4. CASE ~c.tasks[t].done /\ Asleep(c, t)
  <2>1. PICK f, m : f = c.tasks[t].wait /\ m = c.tasks[t].must_cancel
    OBVIOUS
  <2>2. f \in Futures /\ f # NoFuture /\ Pending(c, f) /\ m \in BOOLEAN
    BY <1>2, <1>4, <2>1 DEF TaskRecord, Asleep
  <2>3. PICK w : w = SetToSeq(Waiting(c, f))
    OBVIOUS
  <2>4. PICK b : b = Scheduled([c EXCEPT !.fut[f] = "cancelled"], f)
    OBVIOUS
  <2>5. "cancelled" \in Outcomes \ {"pending"} /\ "cancelled" \in Outcomes
    BY DEF Outcomes
  <2>6. Woke(c, b, f, "cancelled")
    BY <1>1, <2>2, <2>4, <2>5, ScheduledWakes
  <2>7. WaitInv(b, g, p)
    BY <2>2, <2>5, <2>6, WokeKeeps
  <2>8. b.tasks = c.tasks /\ b.fut[f] = "cancelled" /\ Coming(b, t)
    BY <1>1, <2>1, <2>2, <2>6 DEF Woke, Coming, Queued, Waiting, Typed
  <2>9. PICK e : e = [b EXCEPT !.tasks[t].owed = TRUE, !.tasks[t].must_cancel = m]
    OBVIOUS
  <2>10. WaitInv(e, g, p)
    BY <1>4, <2>1, <2>2, <2>7, <2>8, <2>9, MarkedKeeps
  <2>11. PICK a : a = [c EXCEPT !.tasks[t].owed = TRUE]
    OBVIOUS
  <2>12. PICK d : d = [a EXCEPT !.fut[f] = "cancelled", !.ready = @ \o w]
    OBVIOUS
  <2>13. a.tasks = [c.tasks EXCEPT ![t].owed = TRUE]
    BY <1>1, <2>11 DEF Typed, Looked
  <2>14. \A u \in Tasks : a.tasks[u].wait = c.tasks[u].wait
    BY <1>2, <2>13 DEF TaskRecord
  <2>15. SetToSeq({u \in Tasks : a.tasks[u].wait = f}) = w
    <3>1. {u \in Tasks : a.tasks[u].wait = f} = Waiting(c, f)
      BY <2>14 DEF Waiting
    <3>2. QED
      BY <2>3, <3>1
  <2>16. CancelTask(c, t) = Scheduled([a EXCEPT !.fut[f] = "cancelled"], f)
    BY <1>4, <2>1, <2>2, <2>11 DEF CancelTask
  <2>17. [a EXCEPT !.fut[f] = "cancelled"].tasks = a.tasks
    BY <1>1, <2>11 DEF Typed, Looked
  <2>18. CancelTask(c, t) = [[a EXCEPT !.fut[f] = "cancelled"] EXCEPT !.ready = @ \o w]
    BY <2>15, <2>16, <2>17 DEF Scheduled
  <2>19. CancelTask(c, t) = d
    BY <2>12, <2>18
  <2>20. b = [c EXCEPT !.fut[f] = "cancelled", !.ready = @ \o w]
    <3>1. [c EXCEPT !.fut[f] = "cancelled"].tasks = c.tasks
      BY <1>1 DEF Typed, Looked
    <3>2. QED
      BY <2>3, <2>4, <3>1 DEF Scheduled, Waiting
  <2>21. Typed(e)
    BY <2>10 DEF WaitInv
  <2>22. e.tasks = [c.tasks EXCEPT ![t].owed = TRUE, ![t].must_cancel = m]
    BY <2>7, <2>8, <2>9 DEF WaitInv, Typed, Looked
  <2>23. d.tasks = e.tasks
    <3>1. d.tasks = a.tasks
      BY <1>1, <2>11, <2>12 DEF Typed, Looked
    <3>2. [c.tasks[t] EXCEPT !.owed = TRUE] = [c.tasks[t] EXCEPT !.owed = TRUE, !.must_cancel = m]
      BY <1>2, <2>1 DEF TaskRecord
    <3>3. QED
      BY <1>2, <2>13, <2>22, <3>1, <3>2
  <2>24. Looked \subseteq DOMAIN d /\ \A k \in Looked \ {"tasks"} : d[k] = e[k]
    BY <1>1, <2>9, <2>11, <2>12, <2>20 DEF Typed, Looked
  <2>25. Beside(e, d)
    BY <2>21, <2>23, <2>24 DEF Beside, Typed, Looked, ClosedSound
  <2>26. QED
    BY <2>10, <2>19, <2>25, BesideKeeps
<1>5. CASE ~c.tasks[t].done /\ ~Asleep(c, t)
  <2>1. Coming(c, t)
    BY <1>1, <1>5 DEF TaskOk, Coming
  <2>2. PICK m \in BOOLEAN : m = TRUE
    OBVIOUS
  <2>3. PICK e : e = [c EXCEPT !.tasks[t].owed = TRUE, !.tasks[t].must_cancel = m]
    OBVIOUS
  <2>4. WaitInv(e, g, p)
    <3>1. TRUE \in BOOLEAN /\ m \in BOOLEAN /\ m
      BY <2>2
    <3>2. TRUE => ~c.tasks[t].done /\ Coming(c, t)
                 /\ (m \/ (c.tasks[t].wait # NoFuture /\ c.fut[c.tasks[t].wait] = "cancelled"))
      BY <1>5, <2>1, <3>1, Zenon
    <3>3. QED
      BY <2>3, <3>1, <3>2, MarkedKeeps, Zenon
  <2>5. CancelTask(c, t) = [[c EXCEPT !.tasks[t].owed = TRUE] EXCEPT !.tasks[t].must_cancel = m]
    BY <1>5, <2>2 DEF CancelTask, Asleep
  <2>6. QED
    BY <2>3, <2>4, <2>5
<1>6. QED
  BY <1>3, <1>4, <1>5

-----------------------------------------------------------------------------
(* Suspending.                                                             *)

\* From c to d the running task t suspends on future f, or is cancelled as it
\* does.
Suspends(c, d, t, at, f) ==
  /\ Typed(d) /\ d.running = Nobody /\ IsInjective(d.ready)
  /\ \A u \in Tasks \ {t} : d.tasks[u] = c.tasks[u]
  /\ d.tasks[t].at = at /\ d.tasks[t].wait = f
  /\ d.tasks[t].done = c.tasks[t].done /\ d.tasks[t].owed = c.tasks[t].owed
  /\ \A h \in Futures \ {f} : d.fut[h] = c.fut[h]
  /\ \/ d.fut[f] = "pending" /\ ToSet(d.ready) = ToSet(c.ready) /\ ~c.tasks[t].must_cancel
     \/ d.fut[f] = "cancelled" /\ ToSet(d.ready) = ToSet(c.ready) \cup {t}
  /\ d.held = c.held /\ d.taken = c.taken /\ d.role = c.role /\ d.accepted = c.accepted /\ d.open = c.open

\* That is what Await does, on a future that is new.
LEMMA AwaitSuspends ==
  ASSUME NEW c, NEW b, NEW t \in Tasks, NEW at \in Awaits, NEW f \in Futures, Typed(c), TaskInv(c), c.running = t,
         \A u \in Tasks : c.tasks[u].wait # f,
         Typed(b), b.fut = [c.fut EXCEPT ![f] = "pending"], b.tasks = c.tasks, b.ready = c.ready,
         b.held = c.held, b.taken = c.taken, b.role = c.role, b.accepted = c.accepted, b.open = c.open
  PROVE  LET d == Await(b, t, at, f)
         IN Suspends(c, d, t, at, f) /\ d.q = b.q /\ d.recv_waiters = b.recv_waiters
<1>1. TaskOk(c, t) /\ IsInjective(c.ready) /\ c.ready \in Seq(Tasks)
  BY DEF TaskInv, Typed
<1>2. c.tasks[t] \in TaskRecord /\ c.tasks \in [Tasks -> TaskRecord] /\ c.fut \in [Futures -> Outcomes]
  BY DEF Typed
<1>3. Pending(b, f) /\ t \notin ToSet(c.ready)
  BY <1>1, <1>2 DEF Pending, TaskOk, Queued
<1>4. PICK k : k = [b EXCEPT !.tasks[t].at = at, !.tasks[t].wait = f, !.running = Nobody]
  OBVIOUS
<1>5. PICK r : r = [c.tasks[t] EXCEPT !.at = at, !.wait = f]
  OBVIOUS
<1>6. /\ r \in TaskRecord /\ r.at = at /\ r.wait = f /\ r.done = c.tasks[t].done
      /\ r.owed = c.tasks[t].owed /\ r.must_cancel = c.tasks[t].must_cancel
  BY <1>2, <1>5 DEF TaskRecord
<1>7. k.tasks = [c.tasks EXCEPT ![t] = r]
  BY <1>2, <1>4, <1>5 DEF Typed, Looked
<1>8. [c.tasks EXCEPT ![t] = r] \in [Tasks -> TaskRecord]
  BY <1>2, <1>6
<1>9. /\ Typed(k) /\ k.ready = c.ready /\ k.running = Nobody /\ k.fut = b.fut /\ k.q = b.q /\ k.accepted = c.accepted
      /\ k.held = c.held /\ k.taken = c.taken /\ k.role = c.role /\ k.open = c.open /\ k.recv_waiters = b.recv_waiters
  BY <1>4, <1>7, <1>8 DEF Typed, Looked
<1>10. \A h \in Futures \ {f} : b.fut[h] = c.fut[h]
  BY <1>2
<1>11. CASE ~b.tasks[t].must_cancel
  <2>1. Await(b, t, at, f) = k
    BY <1>3, <1>4, <1>11 DEF Await
  <2>2. Suspends(c, k, t, at, f)
    BY <1>1, <1>2, <1>3, <1>6, <1>7, <1>9, <1>10, <1>11 DEF Suspends, Pending
  <2>3. QED
    BY <1>9, <2>1, <2>2
<1>12. CASE b.tasks[t].must_cancel
  <2>1. PICK x : x = [r EXCEPT !.must_cancel = FALSE]
    OBVIOUS
  <2>2. /\ x \in TaskRecord /\ x.at = at /\ x.wait = f /\ x.done = c.tasks[t].done /\ x.owed = c.tasks[t].owed
    BY <1>6, <2>1 DEF TaskRecord
  <2>3. PICK l : l = [k EXCEPT !.fut[f] = "cancelled", !.tasks[t].must_cancel = FALSE]
    OBVIOUS
  <2>4. l.tasks = [c.tasks EXCEPT ![t] = x]
    <3>1. l.tasks = [k.tasks EXCEPT ![t].must_cancel = FALSE]
      BY <1>9, <2>3 DEF Typed, Looked
    <3>2. QED
      BY <1>2, <1>7, <2>1, <3>1
  <2>5. PICK n : n = [b.fut EXCEPT ![f] = "cancelled"]
    OBVIOUS
  <2>6. n \in [Futures -> Outcomes] /\ n[f] = "cancelled" /\ \A h \in Futures \ {f} : n[h] = c.fut[h]
    BY <1>10, <2>5 DEF Typed, Outcomes
  <2>7. {u \in Tasks : l.tasks[u].wait = f} = {t}
    BY <1>2, <2>2, <2>4
  <2>8. PICK w : w = SetToSeq({u \in Tasks : l.tasks[u].wait = f})
    OBVIOUS
  <2>9. w \in Seq(Tasks) /\ IsInjective(w) /\ ToSet(w) = {t}
    BY <2>7, <2>8, AllLinedUp
  <2>10. PICK q : q = c.ready \o w
    OBVIOUS
  <2>11. q \in Seq(Tasks) /\ IsInjective(q) /\ ToSet(q) = ToSet(c.ready) \cup {t}
    BY <1>1, <1>3, <2>9, <2>10, ConcatElements
  <2>12. l.ready = c.ready
    BY <1>9, <2>3 DEF Typed, Looked
  <2>13. Scheduled(l, f) = [l EXCEPT !.ready = q]
    BY <2>8, <2>10, <2>12 DEF Scheduled
  <2>14. PICK d : d = [l EXCEPT !.ready = q]
    OBVIOUS
  <2>15. [c.tasks EXCEPT ![t] = x] \in [Tasks -> TaskRecord]
    BY <1>2, <2>2
  <2>16. /\ Looked \subseteq DOMAIN d /\ d.tasks = l.tasks /\ d.ready = q /\ d.fut = n /\ d.running = Nobody
         /\ d.q = b.q /\ d.accepted = c.accepted /\ d.held = c.held /\ d.taken = c.taken /\ d.role = c.role
         /\ d.open = c.open /\ d.recv_waiters = b.recv_waiters /\ d.drain_waiters = k.drain_waiters /\ d.events = k.events
    BY <1>9, <2>3, <2>5, <2>14 DEF Typed, Looked
  <2>17. Typed(d)
    BY <1>9, <2>4, <2>6, <2>11, <2>15, <2>16 DEF Typed
  <2>18. Suspends(c, d, t, at, f)
    BY <1>2, <2>2, <2>4, <2>6, <2>11, <2>16, <2>17 DEF Suspends
  <2>19. Await(b, t, at, f) = Scheduled(l, f)
    BY <1>3, <1>4, <1>12, <2>3 DEF Await
  <2>20. QED
    BY <2>13, <2>14, <2>16, <2>18, <2>19
<1>13. QED
  BY <1>11, <1>12

\* It keeps the tasks in order.
LEMMA SuspendsTasks ==
  ASSUME NEW c, NEW d, NEW t \in Tasks, NEW at \in Awaits, at # "start", NEW f \in Futures, Typed(c), TaskInv(c),
         c.running = t, \A u \in Tasks : c.tasks[u].wait # f, Suspends(c, d, t, at, f)
  PROVE  TaskInv(d)
<1>1. TaskOk(c, t) /\ ~Queued(c, t) /\ c.tasks[t].wait = NoFuture /\ ~c.tasks[t].done /\ Coming(c, t)
  BY DEF TaskInv, TaskOk, Coming
<1>2. \A u \in Tasks : c.tasks[u].wait \in Futures \cup {NoFuture}
  BY DEF Typed, TaskRecord
<1>3. f # NoFuture /\ Nobody \notin Tasks
  BY FuturesNumbered, TaskAssumption DEF TaskAssumption
<1>4. Moves(c, d, t)
  <2>1. \A u \in Tasks \ {t} : Queued(d, u) <=> Queued(c, u)
    BY DEF Suspends, Queued
  <2>2. \A u \in Tasks \ {t} : c.tasks[u].wait # NoFuture => d.fut[c.tasks[u].wait] = c.fut[c.tasks[u].wait]
    BY <1>2 DEF Suspends
  <2>3. QED
    BY <1>3, <2>1, <2>2 DEF Moves, Suspends
<1>5. TaskOk(d, t)
  <2>1. CASE d.fut[f] = "pending" /\ ToSet(d.ready) = ToSet(c.ready) /\ ~c.tasks[t].must_cancel
    <3>1. ~c.tasks[t].owed
      BY <1>1, <2>1 DEF TaskOk, Thrown
    <3>2. ~Queued(d, t) /\ Asleep(d, t)
      BY <1>1, <1>3, <2>1 DEF Queued, Asleep, Pending, Suspends
    <3>3. QED
      BY <1>1, <1>3, <3>1, <3>2 DEF TaskOk, Suspends
  <2>2. CASE d.fut[f] = "cancelled" /\ ToSet(d.ready) = ToSet(c.ready) \cup {t}
    <3>1. Queued(d, t) /\ ~Asleep(d, t) /\ Thrown(d, t) /\ Coming(d, t)
      BY <1>3, <2>2 DEF Queued, Asleep, Pending, Suspends, Thrown, Coming
    <3>2. QED
      BY <1>1, <1>3, <3>1 DEF TaskOk, Suspends
  <2>3. QED
    BY <2>1, <2>2 DEF Suspends
<1>6. QED
  BY <1>1, <1>4, <1>5, MovesTasks DEF Suspends

\* The queue sees the futures it has as they were.
LEMMA SuspendsQueue ==
  ASSUME NEW c, NEW d, NEW t \in Tasks, NEW at \in Awaits, NEW f \in Futures, Typed(c), TaskInv(c),
         c.running = t, Suspends(c, d, t, at, f), \A u \in Tasks : c.tasks[u].wait # f
  PROVE  /\ \A x : WokenIn(d, x) = WokenIn(c, x)
         /\ \A futs \in Seq(Futures) : f \notin ToSet(futs) => ParkedIn(d, futs) = ParkedIn(c, futs)
         /\ \A futs \in Seq(Futures) : \A x : f \notin ToSet(futs) /\ Backed(c, futs, x) => Backed(d, futs, x)
<1>1. c.tasks[t].wait = NoFuture
  BY DEF TaskInv, TaskOk
<1>2. \A u \in Tasks : c.tasks[u].wait \in Futures \cup {NoFuture}
  BY DEF Typed, TaskRecord
<1>3. ASSUME NEW x PROVE WokenIn(d, x) = WokenIn(c, x)
  <2>1. t \notin WokenIn(d, x) /\ t \notin WokenIn(c, x)
    BY <1>1 DEF WokenIn, Suspends
  <2>2. \A u \in Tasks \ {t} : u \in WokenIn(d, x) <=> u \in WokenIn(c, x)
    BY <1>2 DEF WokenIn, Suspends
  <2>3. WokenIn(d, x) \subseteq Tasks /\ WokenIn(c, x) \subseteq Tasks
    BY WokenAreTasks
  <2>4. QED
    BY <2>1, <2>2, <2>3
<1>4. ASSUME NEW futs \in Seq(Futures), f \notin ToSet(futs) PROVE \A h \in ToSet(futs) : h \in Futures /\ d.fut[h] = c.fut[h]
  BY <1>4, Elements DEF Suspends
<1>5. ASSUME NEW futs \in Seq(Futures), f \notin ToSet(futs) PROVE ParkedIn(d, futs) = ParkedIn(c, futs)
  <2>1. Range(futs) = ToSet(futs)
    BY DEF Range, ToSet
  <2>2. QED
    BY <1>4, <1>5, <2>1 DEF ParkedIn, Pending
<1>6. ASSUME NEW futs \in Seq(Futures), NEW x, f \notin ToSet(futs), Backed(c, futs, x) PROVE Backed(d, futs, x)
  <2>1. SUFFICES ASSUME NEW h \in ToSet(futs), Pending(d, h)
                 PROVE  \E u \in Tasks : d.tasks[u].wait = h /\ d.tasks[u].at = x
    BY DEF Backed
  <2>2. h \in Futures /\ Pending(c, h) /\ h # NoFuture
    BY <1>4, <1>6, <2>1, FuturesNumbered DEF Pending
  <2>3. PICK u \in Tasks : c.tasks[u].wait = h /\ c.tasks[u].at = x
    BY <1>6, <2>1, <2>2 DEF Backed
  <2>4. u # t
    BY <1>1, <2>2, <2>3
  <2>5. QED
    BY <2>3, <2>4 DEF Suspends
<1>7. QED
  BY <1>3, <1>5, <1>6

\* What the queue counts.
LEMMA QueueNumbers ==
  ASSUME NEW c, Typed(c)
  PROVE  Len(c.q.items) \in Nat /\ MaxSize \in Nat /\ \A x : Cardinality(WokenIn(c, x)) \in Nat
<1>1. Len(c.q.items) \in Nat /\ MaxSize \in Nat
  BY QueueAssumption DEF Typed, QueueShape, Listed, QueueAssumption
<1>2. ASSUME NEW x PROVE Cardinality(WokenIn(c, x)) \in Nat
  <2>1. WokenIn(c, x) \subseteq Tasks
    BY WokenAreTasks
  <2>2. QED
    BY <2>1, TasksCounted
<1>3. QED
  BY <1>1, <1>2

\* A future that nobody holds.
Unheld(c, f) == f \in Futures /\ f \notin Holds(c)

\* Neither a task nor the queue does.
LEMMA UnheldEverywhere ==
  ASSUME NEW c, NEW f, Unheld(c, f)
  PROVE  /\ \A u \in Tasks : c.tasks[u].wait # f
         /\ f \notin ToSet(c.q.getters) /\ f \notin ToSet(c.q.putters) /\ f \notin ToSet(c.q.joiners)
<1>1. \A w : Range(w) = ToSet(w)
  BY DEF Range, ToSet
<1>2. QED
  BY <1>1 DEF Unheld, Holds, QueueHolds

\* The running task suspends, wherever it is parked: beside an empty queue
\* in get(), beside a full one in put(), beside unfinished items in join().
LEMMA ParkKeeps ==
  ASSUME NEW c, NEW d, NEW t \in Tasks, NEW at \in Awaits, at # "start", NEW f \in Futures,
         NEW g \in Nat, NEW p \in Nat, NEW h \in Nat, NEW k \in Nat,
         WaitInv(c, g, p), c.running = t, Unheld(c, f), Suspends(c, d, t, at, f),
         d.q.items = c.q.items, d.q.unfinished = c.q.unfinished,
         d.q.getters = c.q.getters \/ (at = "get" /\ c.q.items = <<>> /\ d.q.getters = Append(c.q.getters, f)),
         d.q.putters = c.q.putters \/ (at = "put" /\ IsFull(c) /\ d.q.putters = Append(c.q.putters, f)),
         d.q.joiners = c.q.joiners \/ c.q.unfinished > 0,
         h = g \/ c.q.items = <<>>, k = p \/ IsFull(c),
         at = "recv" => c.role[t] # "writer", d.recv_waiters = c.recv_waiters \/ c.open
  PROVE  WaitInv(d, h, k)
<1>1. Typed(c) /\ TaskInv(c) /\ Typed(d) /\ \A u \in Tasks : c.tasks[u].wait # f
  BY UnheldEverywhere DEF WaitInv, Suspends
<1>2. TaskInv(d)
  BY <1>1, SuspendsTasks
<1>3. /\ \A x : WokenIn(d, x) = WokenIn(c, x)
      /\ \A futs \in Seq(Futures) : f \notin ToSet(futs) => ParkedIn(d, futs) = ParkedIn(c, futs)
      /\ \A futs \in Seq(Futures) : \A x : f \notin ToSet(futs) /\ Backed(c, futs, x) => Backed(d, futs, x)
  BY <1>1, SuspendsQueue
<1>4. /\ c.q.getters \in Seq(Futures) /\ c.q.putters \in Seq(Futures) /\ c.q.joiners \in Seq(Futures)
      /\ f \notin ToSet(c.q.getters) /\ f \notin ToSet(c.q.putters) /\ f \notin ToSet(c.q.joiners)
  BY <1>1, UnheldEverywhere DEF Typed, QueueShape
<1>5. Len(c.q.items) \in Nat /\ MaxSize \in Nat /\ \A x : Cardinality(WokenIn(c, x)) \in Nat
  BY <1>1, QueueNumbers
<1>6. c.q.items = <<>> => Len(c.q.items) = 0
  OBVIOUS
<1>7. GettersServed(d, h)
  BY <1>3, <1>4, <1>5, <1>6 DEF WaitInv, GettersServed
<1>8. PuttersServed(d, k)
  BY <1>3, <1>4, <1>5 DEF WaitInv, PuttersServed, IsFull
<1>9. JoinersServed(d)
  BY <1>3, <1>4 DEF WaitInv, JoinersServed
<1>10. ASSUME NEW futs \in Seq(Futures), f \notin ToSet(futs), Backed(c, futs, at) PROVE Backed(d, Append(futs, f), at)
  <2>1. ToSet(Append(futs, f)) = ToSet(futs) \cup {f}
    BY AppendElements
  <2>2. Backed(d, futs, at)
    BY <1>3, <1>10
  <2>3. d.tasks[t].wait = f /\ d.tasks[t].at = at
    BY DEF Suspends
  <2>4. QED
    BY <2>1, <2>2, <2>3 DEF Backed
<1>11. Backed(d, d.q.getters, "get")
  <2>1. CASE d.q.getters = c.q.getters
    BY <1>3, <1>4, <2>1 DEF WaitInv
  <2>2. CASE at = "get" /\ d.q.getters = Append(c.q.getters, f)
    BY <1>4, <1>10, <2>2 DEF WaitInv
  <2>3. QED
    BY <2>1, <2>2
<1>12. Backed(d, d.q.putters, "put")
  <2>1. CASE d.q.putters = c.q.putters
    BY <1>3, <1>4, <2>1 DEF WaitInv
  <2>2. CASE at = "put" /\ d.q.putters = Append(c.q.putters, f)
    BY <1>4, <1>10, <2>2 DEF WaitInv
  <2>3. QED
    BY <2>1, <2>2
<1>13. Working(d) = Working(c)
  BY DEF Suspends, Working
<1>14. Counted(d)
  BY <1>13 DEF WaitInv, Counted
<1>15. RolesSound(d) /\ ClosedSound(d)
  BY DEF WaitInv, RolesSound, ClosedSound, Suspends
<1>16. QED
  BY <1>1, <1>2, <1>7, <1>8, <1>9, <1>11, <1>12, <1>14, <1>15 DEF WaitInv

\* A receive() parks.
LEMMA ParkReceiverSuspends ==
  ASSUME NEW c, NEW t \in Tasks, NEW f, Typed(c), TaskInv(c), c.running = t, Unheld(c, f)
  PROVE  Suspends(c, ParkReceiver(c, t, f), t, "recv", f) /\ ParkReceiver(c, t, f).q = c.q
<1>1. Typed(c) /\ TaskInv(c) /\ f \in Futures /\ \A u \in Tasks : c.tasks[u].wait # f
  BY UnheldEverywhere DEF Unheld
<1>2. PICK w : w = Append(Only(c.recv_waiters, PendingOnes(c)), f)
  OBVIOUS
<1>3. w \in Seq(Futures)
  BY <1>1, <1>2, OnlyType DEF Typed
<1>4. PICK b : b = [c EXCEPT !.fut[f] = "pending", !.recv_waiters = w]
  OBVIOUS
<1>5. /\ b.fut = [c.fut EXCEPT ![f] = "pending"] /\ b.tasks = c.tasks /\ b.ready = c.ready /\ b.q = c.q
      /\ b.held = c.held /\ b.taken = c.taken /\ b.role = c.role /\ b.accepted = c.accepted /\ b.open = c.open
      /\ b.recv_waiters = w /\ b.running = c.running /\ b.drain_waiters = c.drain_waiters
      /\ b.events = c.events /\ DOMAIN b = DOMAIN c
  BY <1>1, <1>4 DEF Typed, Looked
<1>6. Typed(b)
  <2>1. b.fut \in [Futures -> Outcomes]
    BY <1>1, <1>5 DEF Typed, Outcomes
  <2>2. QED
    BY <1>1, <1>3, <1>5, <2>1 DEF Typed
<1>7. PICK at \in Awaits : at = "recv"
  BY DEF Awaits
<1>8. PICK d : d = Await(b, t, at, f)
  OBVIOUS
<1>9. Suspends(c, d, t, at, f) /\ d.q = c.q
  BY <1>1, <1>5, <1>6, <1>8, AwaitSuspends
<1>10. QED
  BY <1>2, <1>4, <1>7, <1>8, <1>9 DEF ParkReceiver

\* It does on a connection that is open.
LEMMA ParkReceiverWaits ==
  ASSUME NEW c, NEW t \in Tasks, NEW f, WaitInv(c, 0, 0), c.running = t, Unheld(c, f), c.open, c.role[t] # "writer"
  PROVE  WaitInv(ParkReceiver(c, t, f), 0, 0)
<1>1. PICK d : d = ParkReceiver(c, t, f)
  OBVIOUS
<1>2. "recv" \in Awaits /\ f \in Futures
  BY DEF Awaits, Unheld
<1>3. Suspends(c, d, t, "recv", f) /\ d.q = c.q
  BY <1>1, ParkReceiverSuspends DEF WaitInv
<1>4. WaitInv(d, 0, 0)
  BY <1>2, <1>3, ParkKeeps
<1>5. QED
  BY <1>1, <1>4

\* A send() parks.
LEMMA ParkDrainWaits ==
  ASSUME NEW c, NEW t \in Tasks, NEW f, WaitInv(c, 0, 0), c.running = t, Unheld(c, f)
  PROVE  WaitInv(ParkDrain(c, t, f), 0, 0)
<1>1. Typed(c) /\ TaskInv(c) /\ f \in Futures /\ \A u \in Tasks : c.tasks[u].wait # f
  BY UnheldEverywhere DEF WaitInv, Unheld
<1>2. PICK w : w = Append(Only(c.drain_waiters, PendingOnes(c)), f)
  OBVIOUS
<1>3. w \in Seq(Futures)
  BY <1>1, <1>2, OnlyType DEF Typed
<1>4. PICK b : b = [c EXCEPT !.fut[f] = "pending", !.drain_waiters = w]
  OBVIOUS
<1>5. /\ b.fut = [c.fut EXCEPT ![f] = "pending"] /\ b.tasks = c.tasks /\ b.ready = c.ready /\ b.q = c.q
      /\ b.held = c.held /\ b.taken = c.taken /\ b.role = c.role /\ b.accepted = c.accepted /\ b.open = c.open
      /\ b.drain_waiters = w /\ b.running = c.running /\ b.recv_waiters = c.recv_waiters
      /\ b.events = c.events /\ DOMAIN b = DOMAIN c
  BY <1>1, <1>4 DEF Typed, Looked
<1>6. Typed(b)
  <2>1. b.fut \in [Futures -> Outcomes]
    BY <1>1, <1>5 DEF Typed, Outcomes
  <2>2. QED
    BY <1>1, <1>3, <1>5, <2>1 DEF Typed
<1>7. PICK d : d = Await(b, t, "drain", f)
  OBVIOUS
<1>8. "drain" \in Awaits
  BY DEF Awaits
<1>9. Suspends(c, d, t, "drain", f) /\ d.q = b.q /\ d.recv_waiters = b.recv_waiters
  BY <1>1, <1>5, <1>6, <1>7, <1>8, AwaitSuspends
<1>10. WaitInv(d, 0, 0)
  BY <1>1, <1>5, <1>8, <1>9, ParkKeeps
<1>11. QED
  BY <1>2, <1>4, <1>7, <1>10 DEF ParkDrain

\* A get() parks beside an empty queue.
LEMMA ParkGetterWaits ==
  ASSUME NEW c, NEW t \in Tasks, NEW f, NEW g \in Nat, WaitInv(c, g, 0), c.running = t,
         Unheld(c, f), c.q.items = <<>>
  PROVE  WaitInv(ParkGetter(c, t, f), 0, 0)
<1>1. Typed(c) /\ TaskInv(c) /\ f \in Futures /\ \A u \in Tasks : c.tasks[u].wait # f
  BY UnheldEverywhere DEF WaitInv, Unheld
<1>2. PICK w : w = Append(c.q.getters, f)
  OBVIOUS
<1>3. w \in Seq(Futures)
  BY <1>1, <1>2 DEF Typed, QueueShape
<1>4. PICK b : b = [c EXCEPT !.fut[f] = "pending", !.q.getters = w]
  OBVIOUS
<1>5. PICK r : r = [c.q EXCEPT !.getters = w]
  OBVIOUS
<1>6. QueueShape(r) /\ r.getters = w /\ r.items = c.q.items /\ r.putters = c.q.putters /\ r.unfinished = c.q.unfinished /\ r.joiners = c.q.joiners
  BY <1>1, <1>3, <1>5 DEF Typed, QueueShape
<1>7. /\ b.fut = [c.fut EXCEPT ![f] = "pending"] /\ b.tasks = c.tasks /\ b.ready = c.ready /\ b.q = r
      /\ b.held = c.held /\ b.taken = c.taken /\ b.role = c.role /\ b.accepted = c.accepted /\ b.open = c.open
      /\ b.recv_waiters = c.recv_waiters /\ b.running = c.running /\ b.drain_waiters = c.drain_waiters
      /\ b.events = c.events /\ DOMAIN b = DOMAIN c
  BY <1>1, <1>4, <1>5 DEF Typed, Looked
<1>8. Typed(b)
  <2>1. b.fut \in [Futures -> Outcomes]
    BY <1>1, <1>7 DEF Typed, Outcomes
  <2>2. QED
    BY <1>1, <1>6, <1>7, <2>1 DEF Typed
<1>9. PICK d : d = Await(b, t, "get", f)
  OBVIOUS
<1>10. "get" \in Awaits
  BY DEF Awaits
<1>11. Suspends(c, d, t, "get", f) /\ d.q = b.q /\ d.recv_waiters = b.recv_waiters
  BY <1>1, <1>7, <1>8, <1>9, <1>10, AwaitSuspends
<1>12. WaitInv(d, 0, 0)
  <2>1. d.q = r /\ d.recv_waiters = c.recv_waiters
    BY <1>7, <1>11
  <2>2. QED
    BY <1>1, <1>2, <1>6, <1>10, <1>11, <2>1, ParkKeeps
<1>13. QED
  BY <1>2, <1>4, <1>9, <1>12 DEF ParkGetter

\* A put() parks beside a full one.
LEMMA ParkPutterWaits ==
  ASSUME NEW c, NEW t \in Tasks, NEW f, NEW p \in Nat, WaitInv(c, 0, p), c.running = t,
         Unheld(c, f), IsFull(c)
  PROVE  WaitInv(ParkPutter(c, t, f), 0, 0)
<1>1. Typed(c) /\ TaskInv(c) /\ f \in Futures /\ \A u \in Tasks : c.tasks[u].wait # f
  BY UnheldEverywhere DEF WaitInv, Unheld
<1>2. PICK w : w = Append(c.q.putters, f)
  OBVIOUS
<1>3. w \in Seq(Futures)
  BY <1>1, <1>2 DEF Typed, QueueShape
<1>4. PICK b : b = [c EXCEPT !.fut[f] = "pending", !.q.putters = w]
  OBVIOUS
<1>5. PICK r : r = [c.q EXCEPT !.putters = w]
  OBVIOUS
<1>6. QueueShape(r) /\ r.putters = w /\ r.items = c.q.items /\ r.getters = c.q.getters /\ r.unfinished = c.q.unfinished /\ r.joiners = c.q.joiners
  BY <1>1, <1>3, <1>5 DEF Typed, QueueShape
<1>7. /\ b.fut = [c.fut EXCEPT ![f] = "pending"] /\ b.tasks = c.tasks /\ b.ready = c.ready /\ b.q = r
      /\ b.held = c.held /\ b.taken = c.taken /\ b.role = c.role /\ b.accepted = c.accepted /\ b.open = c.open
      /\ b.recv_waiters = c.recv_waiters /\ b.running = c.running /\ b.drain_waiters = c.drain_waiters
      /\ b.events = c.events /\ DOMAIN b = DOMAIN c
  BY <1>1, <1>4, <1>5 DEF Typed, Looked
<1>8. Typed(b)
  <2>1. b.fut \in [Futures -> Outcomes]
    BY <1>1, <1>7 DEF Typed, Outcomes
  <2>2. QED
    BY <1>1, <1>6, <1>7, <2>1 DEF Typed
<1>9. PICK d : d = Await(b, t, "put", f)
  OBVIOUS
<1>10. "put" \in Awaits
  BY DEF Awaits
<1>11. Suspends(c, d, t, "put", f) /\ d.q = b.q /\ d.recv_waiters = b.recv_waiters
  BY <1>1, <1>7, <1>8, <1>9, <1>10, AwaitSuspends
<1>12. WaitInv(d, 0, 0)
  <2>1. d.q = r /\ d.recv_waiters = c.recv_waiters
    BY <1>7, <1>11
  <2>2. QED
    BY <1>1, <1>2, <1>6, <1>10, <1>11, <2>1, ParkKeeps
<1>13. QED
  BY <1>2, <1>4, <1>9, <1>12 DEF ParkPutter

\* A join() parks beside unfinished items.
LEMMA ParkJoinerWaits ==
  ASSUME NEW c, NEW t \in Tasks, NEW f, WaitInv(c, 0, 0), c.running = t,
         Unheld(c, f), c.q.unfinished > 0
  PROVE  WaitInv(ParkJoiner(c, t, f), 0, 0)
<1>1. Typed(c) /\ TaskInv(c) /\ f \in Futures /\ \A u \in Tasks : c.tasks[u].wait # f
  BY UnheldEverywhere DEF WaitInv, Unheld
<1>2. PICK w : w = Append(c.q.joiners, f)
  OBVIOUS
<1>3. w \in Seq(Futures)
  BY <1>1, <1>2 DEF Typed, QueueShape
<1>4. PICK b : b = [c EXCEPT !.fut[f] = "pending", !.q.joiners = w]
  OBVIOUS
<1>5. PICK r : r = [c.q EXCEPT !.joiners = w]
  OBVIOUS
<1>6. QueueShape(r) /\ r.joiners = w /\ r.items = c.q.items /\ r.getters = c.q.getters /\ r.putters = c.q.putters /\ r.unfinished = c.q.unfinished
  BY <1>1, <1>3, <1>5 DEF Typed, QueueShape
<1>7. /\ b.fut = [c.fut EXCEPT ![f] = "pending"] /\ b.tasks = c.tasks /\ b.ready = c.ready /\ b.q = r
      /\ b.held = c.held /\ b.taken = c.taken /\ b.role = c.role /\ b.accepted = c.accepted /\ b.open = c.open
      /\ b.recv_waiters = c.recv_waiters /\ b.running = c.running /\ b.drain_waiters = c.drain_waiters
      /\ b.events = c.events /\ DOMAIN b = DOMAIN c
  BY <1>1, <1>4, <1>5 DEF Typed, Looked
<1>8. Typed(b)
  <2>1. b.fut \in [Futures -> Outcomes]
    BY <1>1, <1>7 DEF Typed, Outcomes
  <2>2. QED
    BY <1>1, <1>6, <1>7, <2>1 DEF Typed
<1>9. PICK d : d = Await(b, t, "join", f)
  OBVIOUS
<1>10. "join" \in Awaits
  BY DEF Awaits
<1>11. Suspends(c, d, t, "join", f) /\ d.q = b.q /\ d.recv_waiters = b.recv_waiters
  BY <1>1, <1>7, <1>8, <1>9, <1>10, AwaitSuspends
<1>12. WaitInv(d, 0, 0)
  <2>1. d.q = r /\ d.recv_waiters = c.recv_waiters
    BY <1>7, <1>11
  <2>2. QED
    BY <1>1, <1>2, <1>6, <1>10, <1>11, <2>1, ParkKeeps
<1>13. QED
  BY <1>2, <1>4, <1>9, <1>12 DEF ParkJoiner

\* There is a future left to park on.
Roomy(c) == Futures \ Holds(c) # {}

\* It is the next one.
LEMMA NextFutureUnheld == ASSUME NEW c, Roomy(c) PROVE Unheld(c, NextFuture(c))
<1>1. PICK T : T = Futures \ Holds(c)
  OBVIOUS
<1>2. T \subseteq Nat /\ T # {}
  BY <1>1, FuturesNumbered DEF Roomy
<1>3. PICK x \in T : \A y \in T : x <= y
  BY <1>2, LeastNumber
<1>4. NewFuture(Holds(c)) \in T
  BY <1>1, <1>3 DEF NewFuture
<1>5. QED
  BY <1>1, <1>4 DEF NextFuture, Unheld

\* It stays when no more are held.
LEMMA RoomLeft == ASSUME NEW c, NEW d, Roomy(c), Holds(d) \subseteq Holds(c) \cup {NoFuture} PROVE Roomy(d)
  BY FuturesNumbered DEF Roomy

-----------------------------------------------------------------------------
(* The queue.                                                              *)

\* More slack is left.
LEMMA MoreSlack ==
  ASSUME NEW c, NEW g \in Nat, NEW p \in Nat, NEW h \in Nat, NEW k \in Nat, WaitInv(c, g, p), g <= h, p <= k
  PROVE  WaitInv(c, h, k)
<1>1. Len(c.q.items) \in Nat /\ MaxSize \in Nat /\ \A x : Cardinality(WokenIn(c, x)) \in Nat
  BY QueueNumbers DEF WaitInv
<1>2. GettersServed(c, h) /\ PuttersServed(c, k)
  <2>1. GettersServed(c, g) /\ PuttersServed(c, p)
    BY DEF WaitInv
  <2>2. GettersServed(c, h)
    BY <1>1, <2>1 DEF GettersServed
  <2>3. PuttersServed(c, k)
    BY <1>1, <2>1 DEF PuttersServed
  <2>4. QED
    BY <2>2, <2>3
<1>3. QED
  BY <1>2 DEF WaitInv

\* From c to d only the queue changes, and what tasks hold; nobody is parked
\* anew.
Requeued(c, d) ==
  /\ Typed(d) /\ d.tasks = c.tasks /\ d.ready = c.ready /\ d.running = c.running /\ d.fut = c.fut
  /\ d.taken = c.taken /\ d.role = c.role /\ d.accepted = c.accepted /\ d.open = c.open
  /\ d.recv_waiters = c.recv_waiters
  /\ ToSet(d.q.getters) \subseteq ToSet(c.q.getters) /\ ToSet(d.q.putters) \subseteq ToSet(c.q.putters)
  /\ ToSet(d.q.joiners) \subseteq ToSet(c.q.joiners)

\* As many are woken, as few parked.
LEMMA RequeuedSees ==
  ASSUME NEW c, NEW d, Requeued(c, d)
  PROVE  /\ \A x : WokenIn(d, x) = WokenIn(c, x)
         /\ ParkedIn(d, d.q.getters) \subseteq ParkedIn(c, c.q.getters)
         /\ ParkedIn(d, d.q.putters) \subseteq ParkedIn(c, c.q.putters)
         /\ ParkedIn(d, d.q.joiners) \subseteq ParkedIn(c, c.q.joiners)
<1>1. \A w : Range(w) = ToSet(w)
  BY DEF Range, ToSet
<1>2. \A x : WokenIn(d, x) = WokenIn(c, x)
  BY DEF WokenIn, Requeued
<1>3. QED
  BY <1>1, <1>2 DEF ParkedIn, Pending, Requeued

\* What is left to show then.
LEMMA RequeuedKeeps ==
  ASSUME NEW c, NEW d, NEW g, NEW p, NEW h, NEW k, WaitInv(c, g, p), Requeued(c, d),
         GettersServed(d, h), PuttersServed(d, k), JoinersServed(d), Counted(d)
  PROVE  WaitInv(d, h, k)
<1>1. TaskInv(d)
  BY DEF WaitInv, Requeued, TaskInv, OwnFutures, Early, TaskOk, Queued, Coming, Asleep, Thrown, Pending
<1>2. Backed(d, d.q.getters, "get") /\ Backed(d, d.q.putters, "put")
  BY DEF WaitInv, Requeued, Backed, Pending
<1>3. RolesSound(d) /\ ClosedSound(d)
  BY DEF WaitInv, Requeued, RolesSound, ClosedSound
<1>4. QED
  BY <1>1, <1>2, <1>3 DEF WaitInv, Requeued

\* Waiters leave the queue.
LEMMA FewerKeeps ==
  ASSUME NEW c, NEW d, NEW g, NEW p, WaitInv(c, g, p), Requeued(c, d), d.held = c.held,
         d.q.items = c.q.items, d.q.unfinished = c.q.unfinished
  PROVE  WaitInv(d, g, p)
<1>1. /\ \A x : WokenIn(d, x) = WokenIn(c, x)
      /\ ParkedIn(d, d.q.getters) \subseteq ParkedIn(c, c.q.getters)
      /\ ParkedIn(d, d.q.putters) \subseteq ParkedIn(c, c.q.putters)
      /\ ParkedIn(d, d.q.joiners) \subseteq ParkedIn(c, c.q.joiners)
  BY RequeuedSees
<1>2. GettersServed(d, g) /\ PuttersServed(d, p) /\ JoinersServed(d)
  BY <1>1 DEF WaitInv, GettersServed, PuttersServed, JoinersServed
<1>3. Working(d) = Working(c)
  BY DEF Working, Requeued
<1>4. Counted(d)
  BY <1>3 DEF WaitInv, Counted
<1>5. QED
  BY <1>2, <1>4, RequeuedKeeps

\* One list of waiters is replaced by another.
LEMMA ListReplaced ==
  ASSUME NEW c, NEW w \in Seq(Futures), Typed(c)
  PROVE  /\ LET d == [c EXCEPT !.q.getters = w] IN
            /\ ToSet(w) \subseteq ToSet(c.q.getters) => Requeued(c, d)
            /\ d.held = c.held /\ d.q.items = c.q.items /\ d.q.unfinished = c.q.unfinished /\ d.q.getters = w
         /\ LET d == [c EXCEPT !.q.putters = w] IN
            /\ ToSet(w) \subseteq ToSet(c.q.putters) => Requeued(c, d)
            /\ d.held = c.held /\ d.q.items = c.q.items /\ d.q.unfinished = c.q.unfinished /\ d.q.putters = w
         /\ LET d == [c EXCEPT !.q.joiners = w] IN
            /\ ToSet(w) \subseteq ToSet(c.q.joiners) => Requeued(c, d)
            /\ d.held = c.held /\ d.q.items = c.q.items /\ d.q.unfinished = c.q.unfinished /\ d.q.joiners = w
<1>1. PICK r : r = [c.q EXCEPT !.getters = w]
  OBVIOUS
<1>2. PICK d : d = [c EXCEPT !.q = r]
  OBVIOUS
<1>3. QueueShape(r) /\ r.items = c.q.items /\ r.unfinished = c.q.unfinished /\ r.getters = w /\ r.putters = c.q.putters /\ r.joiners = c.q.joiners
  BY <1>1 DEF Typed, QueueShape
<1>4. d.q = r /\ d.held = c.held /\ (ToSet(w) \subseteq ToSet(c.q.getters) => Requeued(c, d))
  BY <1>2, <1>3 DEF Typed, Looked, Requeued
<1>5. d = [c EXCEPT !.q.getters = w]
  BY <1>1, <1>2
<1>6. PICK x : x = [c.q EXCEPT !.putters = w]
  OBVIOUS
<1>7. PICK e : e = [c EXCEPT !.q = x]
  OBVIOUS
<1>8. QueueShape(x) /\ x.items = c.q.items /\ x.unfinished = c.q.unfinished /\ x.putters = w /\ x.getters = c.q.getters /\ x.joiners = c.q.joiners
  BY <1>6 DEF Typed, QueueShape
<1>9. e.q = x /\ e.held = c.held /\ (ToSet(w) \subseteq ToSet(c.q.putters) => Requeued(c, e))
  BY <1>7, <1>8 DEF Typed, Looked, Requeued
<1>10. e = [c EXCEPT !.q.putters = w]
  BY <1>6, <1>7
<1>11. PICK y : y = [c.q EXCEPT !.joiners = w]
  OBVIOUS
<1>12. PICK f : f = [c EXCEPT !.q = y]
  OBVIOUS
<1>13. QueueShape(y) /\ y.items = c.q.items /\ y.unfinished = c.q.unfinished /\ y.joiners = w /\ y.getters = c.q.getters /\ y.putters = c.q.putters
  BY <1>11 DEF Typed, QueueShape
<1>14. f.q = y /\ f.held = c.held /\ (ToSet(w) \subseteq ToSet(c.q.joiners) => Requeued(c, f))
  BY <1>12, <1>13 DEF Typed, Looked, Requeued
<1>15. f = [c EXCEPT !.q.joiners = w]
  BY <1>11, <1>12
<1>16. QED
  BY <1>3, <1>4, <1>5, <1>8, <1>9, <1>10, <1>13, <1>14, <1>15

\* wake_next finds the first that is pending, if there is one.
LEMMA BehindFirst ==
  ASSUME NEW c, NEW futs \in Seq(Futures)
  PROVE  LET w == Behind(c, futs) IN
         /\ w = <<>> => \A f \in ToSet(futs) : ~Pending(c, f)
         /\ w # <<>> => /\ Head(w) \in ToSet(futs) /\ Head(w) \in Futures /\ Pending(c, Head(w))
                        /\ Tail(w) \in Seq(Futures) /\ ToSet(Tail(w)) \subseteq ToSet(futs)
<1>1. PICK live : live = {k \in 1..Len(futs) : Pending(c, futs[k])}
  OBVIOUS
<1>2. CASE live = {}
  <2>1. Behind(c, futs) = <<>>
    BY <1>1, <1>2 DEF Behind
  <2>2. \A f \in ToSet(futs) : ~Pending(c, f)
    BY <1>1, <1>2, Elements
  <2>3. QED
    BY <2>1, <2>2
<1>3. CASE live # {}
  <2>1. live \subseteq Nat
    BY <1>1
  <2>2. PICK x \in live : \A y \in live : x <= y
    BY <1>3, <2>1, LeastNumber
  <2>3. PICK k : k = CHOOSE i \in live : \A j \in live : i <= j
    OBVIOUS
  <2>4. k \in live
    BY <2>2, <2>3
  <2>5. k \in 1..Len(futs) /\ Pending(c, futs[k]) /\ Len(futs) \in Nat
    BY <1>1, <2>4
  <2>6. PICK w : w = SubSeq(futs, k, Len(futs))
    OBVIOUS
  <2>7. Behind(c, futs) = w
    BY <1>1, <1>3, <2>3, <2>6 DEF Behind
  <2>8. w \in Seq(Futures) /\ Len(w) = Len(futs) - k + 1 /\ \A i \in 1..Len(w) : w[i] = futs[i + k - 1]
    BY <2>5, <2>6
  <2>9. w # <<>> /\ Head(w) = futs[k]
    BY <2>5, <2>8
  <2>10. Head(w) \in ToSet(futs) /\ Head(w) \in Futures
    BY <2>5, <2>9, Elements
  <2>11. Tail(w) \in Seq(Futures) /\ ToSet(Tail(w)) \subseteq ToSet(w)
    BY <2>8, <2>9, TailElements
  <2>12. ToSet(w) \subseteq ToSet(futs)
    <3>1. SUFFICES ASSUME NEW f \in ToSet(w) PROVE f \in ToSet(futs)
      OBVIOUS
    <3>2. PICK i \in 1..Len(w) : w[i] = f
      BY <2>8, Elements
    <3>3. i + k - 1 \in 1..Len(futs) /\ futs[i + k - 1] = f
      BY <2>5, <2>8, <3>2
    <3>4. QED
      BY <3>3, Elements
  <2>13. QED
    BY <2>5, <2>7, <2>9, <2>10, <2>11, <2>12
<1>4. QED
  BY <1>2, <1>3

\* A getter is woken for an item that nobody was on its way for.
LEMMA WakeGetterKeeps ==
  ASSUME NEW c, NEW g \in Nat, NEW p \in Nat, g = 1, WaitInv(c, g, p)
  PROVE  WaitInv(WakeGetter(c), 0, p)
<1>1. Typed(c) /\ c.q.getters \in Seq(Futures)
  BY DEF WaitInv, Typed, QueueShape
<1>2. PICK w : w = Behind(c, c.q.getters)
  OBVIOUS
<1>3. CASE w = <<>>
  <2>1. PICK d : d = [c EXCEPT !.q.getters = <<>>]
    OBVIOUS
  <2>2. <<>> \in Seq(Futures) /\ ToSet(<<>>) \subseteq ToSet(c.q.getters)
    BY DEF ToSet
  <2>3. Requeued(c, d) /\ d.held = c.held /\ d.q.items = c.q.items /\ d.q.unfinished = c.q.unfinished /\ d.q.getters = <<>>
    BY <1>1, <2>1, <2>2, ListReplaced
  <2>4. WaitInv(d, g, p)
    BY <2>3, FewerKeeps
  <2>5. ParkedIn(d, d.q.getters) = {}
    BY <2>3 DEF ParkedIn, Range
  <2>6. WaitInv(d, 0, p)
    BY <2>4, <2>5 DEF WaitInv, GettersServed
  <2>7. QED
    BY <1>2, <1>3, <2>1, <2>6 DEF WakeGetter
<1>4. CASE w # <<>>
  <2>1. PICK f, r : f = Head(w) /\ r = Tail(w)
    OBVIOUS
  <2>2. f \in ToSet(c.q.getters) /\ f \in Futures /\ Pending(c, f) /\ r \in Seq(Futures) /\ ToSet(r) \subseteq ToSet(c.q.getters)
    BY <1>1, <1>2, <1>4, <2>1, BehindFirst
  <2>3. PICK b : b = [c EXCEPT !.q.getters = r]
    OBVIOUS
  <2>4. Requeued(c, b) /\ b.held = c.held /\ b.q.items = c.q.items /\ b.q.unfinished = c.q.unfinished /\ b.q.getters = r
    BY <1>1, <2>2, <2>3, ListReplaced
  <2>5. WaitInv(b, g, p)
    BY <2>4, FewerKeeps
  <2>6. Pending(b, f)
    BY <2>2, <2>4 DEF Pending, Requeued
  <2>7. PICK d : d = Resolve(b, f, "none")
    OBVIOUS
  <2>8. WaitInv(d, g, p) /\ Woke(b, d, f, "none")
    BY <2>2, <2>5, <2>6, <2>7, ResolveKeeps
  <2>9. PICK u \in Tasks : c.tasks[u].wait = f /\ c.tasks[u].at = "get"
    BY <2>2 DEF WaitInv, Backed
  <2>10. WokenIn(b, "get") \subseteq WokenIn(d, "get") \ {u} /\ u \in WokenIn(d, "get")
    <3>1. "none" \in Outcomes \ {"pending"} /\ f # NoFuture
      BY <2>2, FuturesNumbered DEF Outcomes
    <3>2. WokenIn(b, "get") \subseteq WokenIn(d, "get")
      BY <2>2, <2>5, <2>6, <2>8, <3>1, WokeParked DEF WaitInv
    <3>3. u \notin WokenIn(b, "get")
      BY <2>4, <2>6, <2>9 DEF WokenIn, Pending, Requeued
    <3>4. d.fut[f] = "none" /\ d.tasks = c.tasks
      BY <2>2, <2>4, <2>5, <2>8 DEF Woke, Requeued, WaitInv, Typed
    <3>5. u \in WokenIn(d, "get")
      BY <2>9, <3>1, <3>4 DEF WokenIn
    <3>6. QED
      BY <3>2, <3>3, <3>5
  <2>11. Cardinality(WokenIn(b, "get")) <= Cardinality(WokenIn(d, "get")) - 1
    <3>1. WokenIn(b, "get") \subseteq Tasks /\ WokenIn(d, "get") \subseteq Tasks
      BY WokenAreTasks
    <3>2. QED
      BY <2>10, <3>1, TasksCompared
  <2>12. ParkedIn(d, d.q.getters) \subseteq ParkedIn(b, b.q.getters) /\ d.q = b.q
    <3>1. "none" \in Outcomes \ {"pending"}
      BY DEF Outcomes
    <3>2. d.q = b.q /\ b.q.getters \in Seq(Futures)
      BY <2>2, <2>4, <2>8 DEF Woke
    <3>3. QED
      BY <2>2, <2>5, <2>6, <2>8, <3>1, <3>2, WokeParked DEF WaitInv
  <2>13. /\ Len(b.q.items) \in Nat /\ MaxSize \in Nat
         /\ Cardinality(WokenIn(b, "get")) \in Nat /\ Cardinality(WokenIn(d, "get")) \in Nat
    BY <2>5, <2>8, QueueNumbers DEF WaitInv
  <2>14. GettersServed(d, 0)
    BY <2>5, <2>11, <2>12, <2>13 DEF WaitInv, GettersServed
  <2>15. WaitInv(d, 0, p)
    BY <2>8, <2>14 DEF WaitInv
  <2>16. QED
    BY <1>2, <1>4, <2>1, <2>3, <2>7, <2>15 DEF WakeGetter
<1>5. QED
  BY <1>3, <1>4

\* A putter is woken for a slot that nobody was on its way for.
LEMMA WakePutterKeeps ==
  ASSUME NEW c, NEW g \in Nat, NEW p \in Nat, p = 1, WaitInv(c, g, p)
  PROVE  WaitInv(WakePutter(c), g, 0)
<1>1. Typed(c) /\ c.q.putters \in Seq(Futures)
  BY DEF WaitInv, Typed, QueueShape
<1>2. PICK w : w = Behind(c, c.q.putters)
  OBVIOUS
<1>3. CASE w = <<>>
  <2>1. PICK d : d = [c EXCEPT !.q.putters = <<>>]
    OBVIOUS
  <2>2. <<>> \in Seq(Futures) /\ ToSet(<<>>) \subseteq ToSet(c.q.putters)
    BY DEF ToSet
  <2>3. Requeued(c, d) /\ d.held = c.held /\ d.q.items = c.q.items /\ d.q.unfinished = c.q.unfinished /\ d.q.putters = <<>>
    BY <1>1, <2>1, <2>2, ListReplaced
  <2>4. WaitInv(d, g, p)
    BY <2>3, FewerKeeps
  <2>5. ParkedIn(d, d.q.putters) = {}
    BY <2>3 DEF ParkedIn, Range
  <2>6. WaitInv(d, g, 0)
    BY <2>4, <2>5 DEF WaitInv, PuttersServed
  <2>7. QED
    BY <1>2, <1>3, <2>1, <2>6 DEF WakePutter
<1>4. CASE w # <<>>
  <2>1. PICK f, r : f = Head(w) /\ r = Tail(w)
    OBVIOUS
  <2>2. f \in ToSet(c.q.putters) /\ f \in Futures /\ Pending(c, f) /\ r \in Seq(Futures) /\ ToSet(r) \subseteq ToSet(c.q.putters)
    BY <1>1, <1>2, <1>4, <2>1, BehindFirst
  <2>3. PICK b : b = [c EXCEPT !.q.putters = r]
    OBVIOUS
  <2>4. Requeued(c, b) /\ b.held = c.held /\ b.q.items = c.q.items /\ b.q.unfinished = c.q.unfinished /\ b.q.putters = r
    BY <1>1, <2>2, <2>3, ListReplaced
  <2>5. WaitInv(b, g, p)
    BY <2>4, FewerKeeps
  <2>6. Pending(b, f)
    BY <2>2, <2>4 DEF Pending, Requeued
  <2>7. PICK d : d = Resolve(b, f, "none")
    OBVIOUS
  <2>8. WaitInv(d, g, p) /\ Woke(b, d, f, "none")
    BY <2>2, <2>5, <2>6, <2>7, ResolveKeeps
  <2>9. PICK u \in Tasks : c.tasks[u].wait = f /\ c.tasks[u].at = "put"
    BY <2>2 DEF WaitInv, Backed
  <2>10. WokenIn(b, "put") \subseteq WokenIn(d, "put") \ {u} /\ u \in WokenIn(d, "put")
    <3>1. "none" \in Outcomes \ {"pending"} /\ f # NoFuture
      BY <2>2, FuturesNumbered DEF Outcomes
    <3>2. WokenIn(b, "put") \subseteq WokenIn(d, "put")
      BY <2>2, <2>5, <2>6, <2>8, <3>1, WokeParked DEF WaitInv
    <3>3. u \notin WokenIn(b, "put")
      BY <2>4, <2>6, <2>9 DEF WokenIn, Pending, Requeued
    <3>4. d.fut[f] = "none" /\ d.tasks = c.tasks
      BY <2>2, <2>4, <2>5, <2>8 DEF Woke, Requeued, WaitInv, Typed
    <3>5. u \in WokenIn(d, "put")
      BY <2>9, <3>1, <3>4 DEF WokenIn
    <3>6. QED
      BY <3>2, <3>3, <3>5
  <2>11. Cardinality(WokenIn(b, "put")) <= Cardinality(WokenIn(d, "put")) - 1
    <3>1. WokenIn(b, "put") \subseteq Tasks /\ WokenIn(d, "put") \subseteq Tasks
      BY WokenAreTasks
    <3>2. QED
      BY <2>10, <3>1, TasksCompared
  <2>12. ParkedIn(d, d.q.putters) \subseteq ParkedIn(b, b.q.putters) /\ d.q = b.q
    <3>1. "none" \in Outcomes \ {"pending"}
      BY DEF Outcomes
    <3>2. d.q = b.q /\ b.q.putters \in Seq(Futures)
      BY <2>2, <2>4, <2>8 DEF Woke
    <3>3. QED
      BY <2>2, <2>5, <2>6, <2>8, <3>1, <3>2, WokeParked, ZenonT(40) DEF WaitInv
  <2>13. /\ Len(b.q.items) \in Nat /\ MaxSize \in Nat
         /\ Cardinality(WokenIn(b, "put")) \in Nat /\ Cardinality(WokenIn(d, "put")) \in Nat
    BY <2>5, <2>8, QueueNumbers DEF WaitInv
  <2>14. PuttersServed(d, 0)
    BY <2>5, <2>11, <2>12, <2>13 DEF WaitInv, PuttersServed
  <2>15. WaitInv(d, g, 0)
    BY <2>8, <2>14 DEF WaitInv
  <2>16. QED
    BY <1>2, <1>4, <2>1, <2>3, <2>7, <2>15 DEF WakePutter
<1>5. QED
  BY <1>3, <1>4

\* Items come and go: task t holds x, the queue has items i and counts u.
Holding(c, t, x, i, u) == [c EXCEPT !.held[t] = x, !.q.items = i, !.q.unfinished = u]

\* Nobody is parked anew, and whoever else works still does.
LEMMA ItemsChanged ==
  ASSUME NEW c, NEW t \in Tasks, NEW x, NEW i, NEW u \in Int, Typed(c), Listed(i)
  PROVE  LET d == Holding(c, t, x, i, u) IN
         /\ Requeued(c, d) /\ d.q.items = i /\ d.q.unfinished = u
         /\ d.q.getters = c.q.getters /\ d.q.putters = c.q.putters /\ d.q.joiners = c.q.joiners
         /\ x = Nothing => Working(d) = Working(c) \ {t}
         /\ Working(d) \subseteq Working(c) \cup {t}
<1>0. PICK d : d = Holding(c, t, x, i, u)
  OBVIOUS
<1>1. PICK r : r = [c.q EXCEPT !.items = i, !.unfinished = u]
  OBVIOUS
<1>2. /\ QueueShape(r) /\ r.items = i /\ r.unfinished = u /\ r.getters = c.q.getters
      /\ r.putters = c.q.putters /\ r.joiners = c.q.joiners
  BY <1>1 DEF Typed, QueueShape
<1>3. d.q = r /\ d.held = [c.held EXCEPT ![t] = x] /\ DOMAIN d = DOMAIN c
  BY <1>0, <1>1 DEF Typed, Looked, Holding
<1>4. /\ d.tasks = c.tasks /\ d.ready = c.ready /\ d.running = c.running /\ d.fut = c.fut
      /\ d.taken = c.taken /\ d.role = c.role /\ d.accepted = c.accepted /\ d.open = c.open
      /\ d.recv_waiters = c.recv_waiters /\ d.drain_waiters = c.drain_waiters /\ d.events = c.events
  BY <1>0 DEF Typed, Looked, Holding
<1>5. Requeued(c, d)
  BY <1>2, <1>3, <1>4 DEF Typed, Requeued
<1>6. (x = Nothing => Working(d) = Working(c) \ {t}) /\ Working(d) \subseteq Working(c) \cup {t}
  BY <1>3, <1>4 DEF Working, Typed
<1>7. QED
  BY <1>0, <1>2, <1>3, <1>5, <1>6

\* put_now, from a task that a slot was left to or that found one.
LEMMA PutNowServes ==
  ASSUME NEW c, NEW t \in Tasks, NEW m, WaitInv(c, 0, 1)
  PROVE  WaitInv(PutNow([c EXCEPT !.held[t] = Nothing], m), 0, 0)
<1>1. Typed(c) /\ Listed(c.q.items) /\ c.q.unfinished \in Int
  BY DEF WaitInv, Typed, QueueShape
<1>2. PICK i, u : i = Append(c.q.items, m) /\ u = c.q.unfinished + 1
  OBVIOUS
<1>3. Listed(i) /\ Len(i) = Len(c.q.items) + 1 /\ Len(i) \in Nat /\ u \in Int
  <2>1. Listed(i)
    BY <1>1, <1>2, ListedAppend
  <2>2. QED
    BY <1>1, <1>2, <2>1 DEF Listed
<1>4. PICK d : d = Holding(c, t, Nothing, i, u)
  OBVIOUS
<1>5. /\ Requeued(c, d) /\ d.q.items = i /\ d.q.unfinished = u /\ Working(d) = Working(c) \ {t}
      /\ d.q.getters = c.q.getters /\ d.q.putters = c.q.putters /\ d.q.joiners = c.q.joiners
  BY <1>1, <1>3, <1>4, ItemsChanged
<1>6. /\ \A x : WokenIn(d, x) = WokenIn(c, x)
      /\ ParkedIn(d, d.q.getters) \subseteq ParkedIn(c, c.q.getters)
      /\ ParkedIn(d, d.q.putters) \subseteq ParkedIn(c, c.q.putters)
  BY <1>5, RequeuedSees
<1>7. Len(c.q.items) \in Nat /\ MaxSize \in Nat /\ \A x : Cardinality(WokenIn(c, x)) \in Nat
  BY <1>1, QueueNumbers
<1>8. Cardinality(Working(d)) <= Cardinality(Working(c)) /\ Cardinality(Working(d)) \in Nat /\ Cardinality(Working(c)) \in Nat
  BY <1>5, WokenAreTasks, TasksCounted, TasksCompared
<1>9. GettersServed(d, 1)
  BY <1>3, <1>5, <1>6, <1>7 DEF WaitInv, GettersServed
<1>10. PuttersServed(d, 0)
  BY <1>3, <1>5, <1>6, <1>7 DEF WaitInv, PuttersServed
<1>11. Counted(d) /\ JoinersServed(d)
  BY <1>1, <1>2, <1>3, <1>5, <1>7, <1>8 DEF WaitInv, Counted, JoinersServed
<1>12. WaitInv(d, 1, 0)
  BY <1>5, <1>9, <1>10, <1>11, RequeuedKeeps
<1>13. WaitInv(WakeGetter(d), 0, 0)
  BY <1>12, WakeGetterKeeps
<1>14. PICK b : b = [c EXCEPT !.held[t] = Nothing]
  OBVIOUS
<1>15. b.q = c.q
  BY <1>1, <1>14 DEF Typed, Looked
<1>16. [b EXCEPT !.q.items = Append(@, m), !.q.unfinished = @ + 1] = d
  BY <1>1, <1>2, <1>4, <1>14, <1>15 DEF Typed, Looked, Holding
<1>17. PutNow(b, m) = WakeGetter(d)
  BY <1>16 DEF PutNow, Then
<1>18. QED
  BY <1>13, <1>14, <1>17

\* get_now, from a task that an item was left to or that found one.
LEMMA GetNowServes ==
  ASSUME NEW c, NEW t \in Tasks, NEW x, WaitInv(c, 1, 0), c.q.items # <<>>
  PROVE  WaitInv(GetNow([c EXCEPT !.held[t] = x]), 0, 0)
<1>1. Typed(c) /\ Listed(c.q.items) /\ c.q.unfinished \in Int
  BY DEF WaitInv, Typed, QueueShape
<1>2. PICK i, u : i = Tail(c.q.items) /\ u = c.q.unfinished
  OBVIOUS
<1>3. Listed(i) /\ Len(i) = Len(c.q.items) - 1 /\ Len(i) \in Nat /\ u \in Int
  <2>1. Listed(i)
    BY <1>1, <1>2, OnlyLess
  <2>2. QED
    BY <1>1, <1>2, <2>1 DEF Listed
<1>4. PICK d : d = Holding(c, t, x, i, u)
  OBVIOUS
<1>5. /\ Requeued(c, d) /\ d.q.items = i /\ d.q.unfinished = u /\ Working(d) \subseteq Working(c) \cup {t}
      /\ d.q.getters = c.q.getters /\ d.q.putters = c.q.putters /\ d.q.joiners = c.q.joiners
  BY <1>1, <1>3, <1>4, ItemsChanged
<1>6. /\ \A y : WokenIn(d, y) = WokenIn(c, y)
      /\ ParkedIn(d, d.q.getters) \subseteq ParkedIn(c, c.q.getters)
      /\ ParkedIn(d, d.q.putters) \subseteq ParkedIn(c, c.q.putters)
      /\ ParkedIn(d, d.q.joiners) \subseteq ParkedIn(c, c.q.joiners)
  BY <1>5, RequeuedSees
<1>7. Len(c.q.items) \in Nat /\ MaxSize \in Nat /\ \A y : Cardinality(WokenIn(c, y)) \in Nat
  BY <1>1, QueueNumbers
<1>8. Cardinality(Working(d)) <= Cardinality(Working(c)) + 1 /\ Cardinality(Working(d)) \in Nat /\ Cardinality(Working(c)) \in Nat
  BY <1>5, WokenAreTasks, TasksCounted, TasksCompared
<1>9. GettersServed(d, 0)
  BY <1>3, <1>5, <1>6, <1>7 DEF WaitInv, GettersServed
<1>10. PuttersServed(d, 1)
  BY <1>3, <1>5, <1>6, <1>7 DEF WaitInv, PuttersServed
<1>11. Counted(d)
  BY <1>1, <1>2, <1>3, <1>5, <1>7, <1>8 DEF WaitInv, Counted
<1>12. JoinersServed(d)
  BY <1>2, <1>5, <1>6 DEF WaitInv, JoinersServed
<1>13. WaitInv(d, 0, 1)
  BY <1>5, <1>9, <1>10, <1>11, <1>12, RequeuedKeeps
<1>14. WaitInv(WakePutter(d), 0, 0)
  BY <1>13, WakePutterKeeps
<1>15. PICK b : b = [c EXCEPT !.held[t] = x]
  OBVIOUS
<1>16. b.q = c.q
  BY <1>1, <1>15 DEF Typed, Looked
<1>17. [b EXCEPT !.q.items = Tail(@)] = d
  <2>1. [c.q EXCEPT !.items = i] = [c.q EXCEPT !.items = i, !.unfinished = u]
    BY <1>1, <1>2 DEF Typed, QueueShape
  <2>2. [b EXCEPT !.q.items = Tail(@)] = [b EXCEPT !.q = [c.q EXCEPT !.items = i]]
    BY <1>2, <1>16
  <2>3. d = [b EXCEPT !.q = [c.q EXCEPT !.items = i, !.unfinished = u]]
    BY <1>4, <1>15, <1>16 DEF Holding
  <2>4. QED
    BY <2>1, <2>2, <2>3
<1>18. GetNow(b) = WakePutter(d)
  BY <1>17 DEF GetNow, Then
<1>19. QED
  BY <1>14, <1>15, <1>18

\* One turn of put() and of get().
LEMMA QueuePutServes ==
  ASSUME NEW c, NEW t \in Tasks, NEW p \in {0, 1}, WaitInv(c, 0, p), c.running = t, Roomy(c)
  PROVE  WaitInv(QueuePut(c, t), 0, 0)
<1>1. WaitInv(c, 0, 1)
  BY MoreSlack
<1>2. QED
  BY <1>1, PutNowServes, ParkPutterWaits, NextFutureUnheld DEF QueuePut

\* get() of the Queue: an item, or the task parks.
LEMMA QueueGetServes ==
  ASSUME NEW c, NEW t \in Tasks, NEW g \in {0, 1}, WaitInv(c, g, 0), c.running = t, Roomy(c)
  PROVE  WaitInv(QueueGet(c, t), 0, 0)
<1>1. WaitInv(c, 1, 0)
  BY MoreSlack
<1>2. QED
  BY <1>1, GetNowServes, ParkGetterWaits, NextFutureUnheld DEF QueueGet

\* A get() that is cancelled passes on the item that was left to it.
LEMMA GetterRecoveryServes ==
  ASSUME NEW c, NEW f, NEW g \in {0, 1}, WaitInv(c, g, 0), g = 1 => c.fut[f] # "cancelled"
  PROVE  WaitInv(GetterRecovery(c, f), 0, 0)
<1>1. Typed(c) /\ c.q.getters \in Seq(Futures)
  BY DEF WaitInv, Typed, QueueShape
<1>2. PICK w : w = Only(c.q.getters, Futures \ {f})
  OBVIOUS
<1>3. w \in Seq(Futures) /\ ToSet(w) \subseteq ToSet(c.q.getters)
  BY <1>1, <1>2, OnlyType, OnlyElements
<1>4. PICK d : d = [c EXCEPT !.q.getters = w]
  OBVIOUS
<1>5. Requeued(c, d) /\ d.held = c.held /\ d.q.items = c.q.items /\ d.q.unfinished = c.q.unfinished
  BY <1>1, <1>3, <1>4, ListReplaced
<1>6. WaitInv(d, g, 0) /\ d.fut = c.fut
  BY <1>5, FewerKeeps DEF Requeued
<1>7. WaitInv(d, 1, 0)
  BY <1>6, MoreSlack
<1>8. WaitInv(WakeGetter(d), 0, 0)
  BY <1>7, WakeGetterKeeps
<1>9. d.q.items = <<>> => WaitInv(d, 0, 0)
  <2>1. /\ Len(d.q.items) \in Nat /\ MaxSize \in Nat /\ Cardinality(WokenIn(d, "get")) \in Nat
    BY <1>6, QueueNumbers DEF WaitInv
  <2>2. d.q.items = <<>> => GettersServed(d, 0)
    BY <2>1 DEF GettersServed, IsFull
  <2>3. QED
    BY <1>6, <2>2 DEF WaitInv
<1>10. d.fut[f] = "cancelled" => WaitInv(d, 0, 0)
  BY <1>6
<1>11. d = [c EXCEPT !.q.getters = Only(@, Futures \ {f})]
  BY <1>2, <1>4
<1>12. CASE d.q.items # <<>> /\ d.fut[f] # "cancelled"
  <2>1. GetterRecovery(c, f) = WakeGetter(d)
    BY <1>11, <1>12 DEF GetterRecovery, Then
  <2>2. QED
    BY <1>8, <2>1
<1>13. CASE ~(d.q.items # <<>> /\ d.fut[f] # "cancelled")
  <2>1. GetterRecovery(c, f) = d
    BY <1>11, <1>13 DEF GetterRecovery, Then
  <2>2. QED
    BY <1>9, <1>10, <1>13, <2>1
<1>14. QED
  BY <1>12, <1>13

\* A put() that is cancelled passes on the slot.
LEMMA PutterRecoveryServes ==
  ASSUME NEW c, NEW f, NEW g \in {0, 1}, WaitInv(c, 0, g), g = 1 => c.fut[f] # "cancelled"
  PROVE  WaitInv(PutterRecovery(c, f), 0, 0)
<1>1. Typed(c) /\ c.q.putters \in Seq(Futures)
  BY DEF WaitInv, Typed, QueueShape
<1>2. PICK w : w = Only(c.q.putters, Futures \ {f})
  OBVIOUS
<1>3. w \in Seq(Futures) /\ ToSet(w) \subseteq ToSet(c.q.putters)
  BY <1>1, <1>2, OnlyType, OnlyElements
<1>4. PICK d : d = [c EXCEPT !.q.putters = w]
  OBVIOUS
<1>5. Requeued(c, d) /\ d.held = c.held /\ d.q.items = c.q.items /\ d.q.unfinished = c.q.unfinished
  BY <1>1, <1>3, <1>4, ListReplaced
<1>6. WaitInv(d, 0, g) /\ d.fut = c.fut
  BY <1>5, FewerKeeps DEF Requeued
<1>7. WaitInv(d, 0, 1)
  BY <1>6, MoreSlack
<1>8. WaitInv(WakePutter(d), 0, 0)
  BY <1>7, WakePutterKeeps
<1>9. IsFull(d) => WaitInv(d, 0, 0)
  <2>1. /\ Len(d.q.items) \in Nat /\ MaxSize \in Nat /\ Cardinality(WokenIn(d, "put")) \in Nat
    BY <1>6, QueueNumbers DEF WaitInv
  <2>2. IsFull(d) => PuttersServed(d, 0)
    BY <2>1 DEF PuttersServed, IsFull
  <2>3. QED
    BY <1>6, <2>2 DEF WaitInv
<1>10. d.fut[f] = "cancelled" => WaitInv(d, 0, 0)
  BY <1>6
<1>11. d = [c EXCEPT !.q.putters = Only(@, Futures \ {f})]
  BY <1>2, <1>4
<1>12. CASE ~IsFull(d) /\ d.fut[f] # "cancelled"
  <2>1. PutterRecovery(c, f) = WakePutter(d)
    BY <1>11, <1>12 DEF PutterRecovery, Then
  <2>2. QED
    BY <1>8, <2>1
<1>13. CASE ~(~IsFull(d) /\ d.fut[f] # "cancelled")
  <2>1. PutterRecovery(c, f) = d
    BY <1>11, <1>13 DEF PutterRecovery, Then
  <2>2. QED
    BY <1>9, <1>10, <1>13, <2>1
<1>14. QED
  BY <1>12, <1>13

\* A join() that is cancelled leaves.
LEMMA UnjoinServes == ASSUME NEW c, NEW f, WaitInv(c, 0, 0) PROVE WaitInv(Unjoin(c, f), 0, 0)
<1>1. Typed(c) /\ c.q.joiners \in Seq(Futures)
  BY DEF WaitInv, Typed, QueueShape
<1>2. PICK w : w = Only(c.q.joiners, Futures \ {f})
  OBVIOUS
<1>3. w \in Seq(Futures) /\ ToSet(w) \subseteq ToSet(c.q.joiners)
  BY <1>1, <1>2, OnlyType, OnlyElements
<1>4. PICK d : d = [c EXCEPT !.q.joiners = w]
  OBVIOUS
<1>5. Requeued(c, d) /\ d.held = c.held /\ d.q.items = c.q.items /\ d.q.unfinished = c.q.unfinished
  BY <1>1, <1>3, <1>4, ListReplaced
<1>6. WaitInv(d, 0, 0)
  BY <1>5, FewerKeeps
<1>7. QED
  BY <1>2, <1>4, <1>6 DEF Unjoin

\* task_done, by a task that holds an item.
LEMMA TaskDoneServes ==
  ASSUME NEW c, NEW t \in Tasks, WaitInv(c, 0, 0), t \in Working(c)
  PROVE  WaitInv(TaskDone([c EXCEPT !.held[t] = Nothing]), 0, 0)
<1>1. Typed(c) /\ Listed(c.q.items) /\ c.q.unfinished \in Int /\ c.q.joiners \in Seq(Futures)
  BY DEF WaitInv, Typed, QueueShape
<1>2. PICK i, u : i = c.q.items /\ u = c.q.unfinished - 1
  OBVIOUS
<1>3. u \in Int /\ Listed(i)
  BY <1>1, <1>2
<1>4. PICK d : d = Holding(c, t, Nothing, i, u)
  OBVIOUS
<1>5. /\ Requeued(c, d) /\ d.q.items = i /\ d.q.unfinished = u /\ Working(d) = Working(c) \ {t}
      /\ d.q.getters = c.q.getters /\ d.q.putters = c.q.putters /\ d.q.joiners = c.q.joiners
  BY <1>1, <1>3, <1>4, ItemsChanged
<1>6. /\ \A x : WokenIn(d, x) = WokenIn(c, x)
      /\ ParkedIn(d, d.q.getters) \subseteq ParkedIn(c, c.q.getters)
      /\ ParkedIn(d, d.q.putters) \subseteq ParkedIn(c, c.q.putters)
  BY <1>5, RequeuedSees
<1>7. Len(c.q.items) \in Nat
  BY <1>1, QueueNumbers
<1>8. /\ Cardinality(Working(d)) <= Cardinality(Working(c)) - 1
      /\ Cardinality(Working(d)) \in Nat /\ Cardinality(Working(c)) \in Nat
  BY <1>5, WokenAreTasks, TasksCounted, TasksCompared
<1>9. GettersServed(d, 0) /\ PuttersServed(d, 0)
  BY <1>2, <1>5, <1>6 DEF WaitInv, GettersServed, PuttersServed
<1>10. Counted(d) /\ u >= 0
  BY <1>1, <1>2, <1>5, <1>7, <1>8 DEF WaitInv, Counted
<1>11. PICK b : b = [c EXCEPT !.held[t] = Nothing]
  OBVIOUS
<1>12. b.q = c.q /\ [b EXCEPT !.q.unfinished = u] = d
  <2>1. b.q = c.q
    BY <1>1, <1>11 DEF Typed, Looked
  <2>2. [c.q EXCEPT !.unfinished = u] = [c.q EXCEPT !.items = i, !.unfinished = u]
    BY <1>1, <1>2 DEF Typed, QueueShape
  <2>3. [b EXCEPT !.q.unfinished = u] = [b EXCEPT !.q = [c.q EXCEPT !.unfinished = u]]
    BY <2>1
  <2>4. d = [b EXCEPT !.q = [c.q EXCEPT !.items = i, !.unfinished = u]]
    BY <1>4, <1>11, <2>1 DEF Holding
  <2>5. QED
    BY <2>1, <2>2, <2>3, <2>4
<1>13. CASE c.q.unfinished # 1
  <2>1. JoinersServed(d)
    BY <1>1, <1>2, <1>5, <1>10, <1>13 DEF JoinersServed
  <2>2. WaitInv(d, 0, 0)
    BY <1>5, <1>9, <1>10, <2>1, RequeuedKeeps
  <2>3. TaskDone(b) = [b EXCEPT !.q.unfinished = u]
    BY <1>2, <1>12, <1>13 DEF TaskDone
  <2>4. QED
    BY <1>11, <1>12, <2>2, <2>3
<1>14. CASE c.q.unfinished = 1
  <2>1. PICK e : e = [d EXCEPT !.q.joiners = <<>>]
    OBVIOUS
  <2>2. Typed(d)
    BY <1>5 DEF Requeued
  <2>3. <<>> \in Seq(Futures) /\ ToSet(<<>>) \subseteq ToSet(d.q.joiners)
    BY DEF ToSet
  <2>4. Requeued(d, e) /\ e.held = d.held /\ e.q.items = d.q.items /\ e.q.unfinished = d.q.unfinished /\ e.q.joiners = <<>>
    BY <2>1, <2>2, <2>3, ListReplaced
  <2>5. Requeued(c, e)
    BY <1>5, <2>4 DEF Requeued
  <2>6. /\ \A x : WokenIn(e, x) = WokenIn(d, x)
        /\ ParkedIn(e, e.q.getters) \subseteq ParkedIn(d, d.q.getters)
        /\ ParkedIn(e, e.q.putters) \subseteq ParkedIn(d, d.q.putters)
    BY <2>4, RequeuedSees
  <2>7. GettersServed(e, 0) /\ PuttersServed(e, 0)
    BY <1>9, <2>4, <2>6 DEF GettersServed, PuttersServed
  <2>8. JoinersServed(e)
    BY <2>4 DEF JoinersServed, ParkedIn, Range
  <2>9. Working(e) = Working(d)
    BY <2>4 DEF Working, Requeued
  <2>10. Counted(e)
    BY <1>10, <2>4, <2>9 DEF Counted
  <2>11. WaitInv(e, 0, 0)
    BY <2>5, <2>7, <2>8, <2>10, RequeuedKeeps
  <2>12. WaitInv(ResolveAll(e, c.q.joiners, "none"), 0, 0)
    BY <1>1, <2>11, ResolveAllKeeps
  <2>13. [b EXCEPT !.q.unfinished = 0, !.q.joiners = <<>>] = e
    <3>1. u = 0
      BY <1>2, <1>14
    <3>2. e = [[b EXCEPT !.q.unfinished = 0] EXCEPT !.q.joiners = <<>>]
      BY <1>12, <2>1, <3>1
    <3>3. QED
      BY <3>2
  <2>14. TaskDone(b) = ResolveAll(e, c.q.joiners, "none")
    BY <1>12, <1>14, <2>13 DEF TaskDone
  <2>15. QED
    BY <1>11, <2>12, <2>14
<1>15. QED
  BY <1>13, <1>14

-----------------------------------------------------------------------------
(* What tasks hold, and the ends of a session.                             *)

\* From c to d only what tasks hold and have taken changes; no writer begins
\* to work or to read.
Handed(c, d) ==
  /\ Typed(d) /\ d.tasks = c.tasks /\ d.ready = c.ready /\ d.running = c.running /\ d.fut = c.fut /\ d.q = c.q
  /\ d.role = c.role /\ d.accepted = c.accepted /\ d.open = c.open /\ d.recv_waiters = c.recv_waiters
  /\ \A t \in Tasks : c.role[t] = "writer" =>
       (d.held[t] # Nothing => c.held[t] # Nothing) /\ (d.taken[t] # Nothing => c.taken[t] # Nothing)

\* What tasks hold changes hands; who waits does not.
LEMMA HandedKeeps == ASSUME NEW c, NEW d, WaitInv(c, 0, 0), Handed(c, d) PROVE WaitInv(d, 0, 0)
<1>1. TaskInv(d)
  BY DEF WaitInv, Handed, TaskInv, OwnFutures, Early, TaskOk, Queued, Coming, Asleep, Thrown, Pending
<1>2. Backed(d, d.q.getters, "get") /\ Backed(d, d.q.putters, "put")
  BY DEF WaitInv, Handed, Backed, Pending
<1>3. WokenIn(d, "get") = WokenIn(c, "get") /\ WokenIn(d, "put") = WokenIn(c, "put")
  BY DEF Handed, WokenIn
<1>4. \A q : ParkedIn(d, q) = ParkedIn(c, q)
  BY DEF Handed, ParkedIn, Pending
<1>5. GettersServed(d, 0) /\ PuttersServed(d, 0) /\ JoinersServed(d)
  BY <1>3, <1>4 DEF WaitInv, Handed, GettersServed, PuttersServed, JoinersServed
<1>6. Working(d) \subseteq Working(c)
  BY DEF Handed, Working
<1>7. /\ Cardinality(Working(d)) <= Cardinality(Working(c)) /\ Cardinality(Working(d)) \in Nat
      /\ Cardinality(Working(c)) \in Nat
  BY <1>6, WokenAreTasks, TasksCounted, TasksCompared
<1>8. Len(c.q.items) \in Nat /\ c.q.unfinished \in Int /\ d.q = c.q
  BY DEF WaitInv, Typed, QueueShape, Listed, Handed
<1>9. Counted(d)
  BY <1>7, <1>8 DEF WaitInv, Counted
<1>10. RolesSound(d) /\ ClosedSound(d)
  BY DEF WaitInv, Handed, RolesSound, ClosedSound
<1>11. QED
  BY <1>1, <1>2, <1>5, <1>9, <1>10 DEF WaitInv, Handed

\* A task holds something, or has taken it.
LEMMA HandKeepsWaits ==
  ASSUME NEW c, NEW t \in Tasks, NEW x, WaitInv(c, 0, 0)
  PROVE  /\ x = Nothing \/ c.role[t] # "writer" \/ c.held[t] # Nothing => WaitInv([c EXCEPT !.held[t] = x], 0, 0)
         /\ x = Nothing \/ c.role[t] # "writer" => WaitInv([c EXCEPT !.taken[t] = x], 0, 0)
<1>1. Typed(c)
  BY DEF WaitInv
<1>2. PICK d : d = [c EXCEPT !.held[t] = x]
  OBVIOUS
<1>3. x = Nothing \/ c.role[t] # "writer" \/ c.held[t] # Nothing => Handed(c, d)
  BY <1>1, <1>2 DEF Typed, Looked, Handed
<1>4. PICK e : e = [c EXCEPT !.taken[t] = x]
  OBVIOUS
<1>5. x = Nothing \/ c.role[t] # "writer" => Handed(c, e)
  BY <1>1, <1>4 DEF Typed, Looked, Handed
<1>6. QED
  BY <1>2, <1>3, <1>4, <1>5, HandedKeeps

\* Taken.put_back
LEMMA PutBackWaits ==
  ASSUME NEW c, NEW t \in Tasks, WaitInv(c, 0, 0)
  PROVE  LET d == PutBack(c, t) IN WaitInv(d, 0, 0) /\ d.running = c.running /\ d.taken[t] = Nothing /\ d.tasks = c.tasks
<1>1. PICK m : m = c.taken[t]
  OBVIOUS
<1>2. PICK x, y : x = c.returned \cup Numbers(<<m>>) /\ y = SelectSeq(c.got, LAMBDA g : g # m)
  OBVIOUS
<1>3. PICK b : b = [c EXCEPT !.taken[t] = Nothing]
  OBVIOUS
<1>4. WaitInv(b, 0, 0) /\ b.running = c.running /\ b.taken[t] = Nothing /\ b.tasks = c.tasks
  BY <1>3, HandKeepsWaits DEF WaitInv, Typed, Looked
<1>5. PICK e : e = [b EXCEPT !.returned = x, !.got = y]
  OBVIOUS
<1>6. Beside(b, e)
  BY <1>4, <1>5, BesideUnseen DEF WaitInv
<1>7. e = [c EXCEPT !.taken[t] = Nothing, !.returned = x, !.got = y]
  BY <1>3, <1>5
<1>8. PICK n : n = e.gone \cup Numbers(<<m>>)
  OBVIOUS
<1>9. PICK e1 : e1 = [e EXCEPT !.gone = n]
  OBVIOUS
<1>10. PICK e2 : e2 = [e EXCEPT !.connect_sent = FALSE]
  OBVIOUS
<1>11. PICK i, j : i = <<m>> \o e.inbox /\ j = e.inbox_bytes + 1
  OBVIOUS
<1>12. PICK e3 : e3 = [e EXCEPT !.inbox = i, !.inbox_bytes = j]
  OBVIOUS
<1>13. Typed(e)
  BY <1>6 DEF Beside
<1>14. Beside(e, e1) /\ Beside(e, e2) /\ Beside(e, e3)
  BY <1>9, <1>10, <1>12, <1>13, BesideUnseen
<1>15. Beside(b, e1) /\ Beside(b, e2) /\ Beside(b, e3)
  BY <1>6, <1>14, BesideTwice
<1>16. Beside(b, SyncReadPause(WakeReceivers(e3)))
  <2>1. Beside(b, WakeReceivers(e3))
    BY <1>15, BesideWakeReceivers, BesideTwice DEF Beside
  <2>2. QED
    BY <2>1, BesideSyncReadPause, BesideTwice DEF Beside
<1>17. m # Nothing => PutBack(c, t) \in {e1, e2, SyncReadPause(WakeReceivers(e3))}
  BY <1>1, <1>2, <1>7, <1>8, <1>9, <1>10, <1>11, <1>12 DEF PutBack
<1>18. m = Nothing => PutBack(c, t) = c
  BY <1>1 DEF PutBack
<1>19. \A d : Beside(b, d) => WaitInv(d, 0, 0) /\ d.running = c.running /\ d.taken[t] = Nothing /\ d.tasks = c.tasks
  BY <1>4, BesideKeeps DEF Beside
<1>20. QED
  BY <1>1, <1>15, <1>16, <1>17, <1>18, <1>19

\* finish_request
LEMMA FinishRequestWaits == ASSUME NEW c, WaitInv(c, 0, 0) PROVE WaitInv(FinishRequest(c), 0, 0)
<1>1. Typed(c) /\ c.recv_waiters \in Seq(Futures)
  BY DEF WaitInv, Typed
<1>2. PICK d : d = [c EXCEPT !.active = FALSE, !.recv_waiters = <<>>]
  OBVIOUS
<1>3. Beside(c, d)
  BY <1>1, <1>2 DEF Typed, Looked, Beside, ClosedSound
<1>4. WaitInv(d, 0, 0)
  BY <1>3, BesideKeeps
<1>5. WaitInv(ResolveAll(d, c.recv_waiters, "gone"), 0, 0)
  BY <1>1, <1>4, ResolveAllKeeps
<1>6. QED
  BY <1>2, <1>5 DEF FinishRequest

\* The session counts as accepted.
LEMMA AcceptedWaits ==
  ASSUME NEW c, NEW g, NEW p, WaitInv(c, g, p) PROVE WaitInv([c EXCEPT !.accepted = TRUE], g, p)
<1>1. PICK d : d = [c EXCEPT !.accepted = TRUE]
  OBVIOUS
<1>2. /\ Typed(d) /\ d.tasks = c.tasks /\ d.ready = c.ready /\ d.running = c.running /\ d.fut = c.fut /\ d.q = c.q
      /\ d.held = c.held /\ d.taken = c.taken /\ d.role = c.role /\ d.open = c.open
      /\ d.recv_waiters = c.recv_waiters /\ d.accepted
  BY <1>1 DEF WaitInv, Typed, Looked
<1>3. TaskInv(d)
  BY <1>2 DEF WaitInv, TaskInv, OwnFutures, Early, TaskOk, Queued, Coming, Asleep, Thrown, Pending
<1>4. Backed(d, d.q.getters, "get") /\ Backed(d, d.q.putters, "put")
  BY <1>2 DEF WaitInv, Backed, Pending
<1>5. WokenIn(d, "get") = WokenIn(c, "get") /\ WokenIn(d, "put") = WokenIn(c, "put") /\ Working(d) = Working(c)
  BY <1>2 DEF WokenIn, Working
<1>6. \A q : ParkedIn(d, q) = ParkedIn(c, q)
  BY <1>2 DEF ParkedIn, Pending
<1>7. GettersServed(d, g) /\ PuttersServed(d, p) /\ JoinersServed(d) /\ Counted(d)
  BY <1>2, <1>5, <1>6 DEF WaitInv, GettersServed, PuttersServed, JoinersServed, Counted
<1>8. RolesSound(d) /\ ClosedSound(d)
  BY <1>2 DEF WaitInv, RolesSound, ClosedSound
<1>9. QED
  BY <1>1, <1>2, <1>3, <1>4, <1>7, <1>8 DEF WaitInv

\* ws_app_done and fail_request
LEMMA EndSessionWaits == ASSUME NEW c, WaitInv(c, 0, 0) PROVE WaitInv(EndSession(c), 0, 0)
<1>1. PICK b : b = [c EXCEPT !.accepted = TRUE]
  OBVIOUS
<1>2. WaitInv(b, 0, 0)
  BY <1>1, AcceptedWaits
<1>3. PICK a : a = [b EXCEPT !.ws_closing = TRUE]
  OBVIOUS
<1>4. WaitInv(a, 0, 0)
  BY <1>2, <1>3, BesideUnseen, BesideKeeps DEF WaitInv
<1>5. a = [c EXCEPT !.accepted = TRUE, !.ws_closing = TRUE]
  BY <1>1, <1>3
<1>6. PICK d : d = IF ~c.accepted THEN Enqueue(a, "error") ELSE IF ~c.ws_closing THEN Enqueue(a, "close") ELSE c
  OBVIOUS
<1>7. WaitInv(d, 0, 0)
  <2>1. Beside(a, Enqueue(a, "error")) /\ Beside(a, Enqueue(a, "close"))
    BY <1>4, BesideEnqueue DEF WaitInv
  <2>2. QED
    BY <1>4, <1>6, <2>1, BesideKeeps
<1>8. WaitInv(CloseAfterWrite(d), 0, 0)
  BY <1>7, BesideCloseAfterWrite, BesideKeeps DEF WaitInv
<1>9. WaitInv(FinishRequest(CloseAfterWrite(d)), 0, 0)
  BY <1>8, FinishRequestWaits
<1>10. WaitInv([c EXCEPT !.active = FALSE], 0, 0)
  BY BesideUnseen, BesideKeeps DEF WaitInv
<1>11. EndSession(c) \in {[c EXCEPT !.active = FALSE], FinishRequest(CloseAfterWrite(d))}
  BY <1>5, <1>6 DEF EndSession, Then
<1>12. QED
  BY <1>9, <1>10, <1>11

\* The coroutine of the running task ends.
LEMMA TaskEndsWaits ==
  ASSUME NEW c, NEW t \in Tasks, WaitInv(c, 0, 0), c.running = t PROVE WaitInv(TaskEnds(c, t), 0, 0)
<1>1. PICK d : d = PutBack(c, t)
  OBVIOUS
<1>2. WaitInv(d, 0, 0) /\ d.running = t
  BY <1>1, PutBackWaits
<1>3. PICK f : f = Finish(d, t)
  OBVIOUS
<1>4. WaitInv(f, 0, 0)
  BY <1>2, <1>3, FinishKeeps
<1>5. PICK h : h = [f EXCEPT !.held[t] = Nothing]
  OBVIOUS
<1>6. WaitInv(h, 0, 0)
  BY <1>4, <1>5, HandKeepsWaits
<1>7. PICK x : x = f.gone \cup Numbers(<<d.held[t]>>)
  OBVIOUS
<1>8. PICK e : e = [h EXCEPT !.gone = x]
  OBVIOUS
<1>9. WaitInv(e, 0, 0)
  BY <1>6, <1>8, BesideUnseen, BesideKeeps DEF WaitInv
<1>10. e = [f EXCEPT !.gone = x, !.held[t] = Nothing]
  BY <1>5, <1>8
<1>11. WaitInv(EndSession(e), 0, 0)
  BY <1>9, EndSessionWaits
<1>12. TaskEnds(c, t) \in {e, EndSession(e)}
  BY <1>1, <1>3, <1>7, <1>10 DEF TaskEnds, Then
<1>13. QED
  BY <1>9, <1>11, <1>12

\* HttpReceive.__call__, by a task that is no writer.
LEMMA ReceiveWaits ==
  ASSUME NEW c, NEW t \in Tasks, WaitInv(c, 0, 0), c.running = t, Roomy(c), c.role[t] # "writer"
  PROVE  WaitInv(Receive(c, t), 0, 0)
<1>1. WaitInv([c EXCEPT !.held[t] = Gone], 0, 0)
  BY HandKeepsWaits
<1>2. WaitInv([c EXCEPT !.connect_sent = TRUE, !.taken[t] = Connect], 0, 0)
  <2>1. PICK b : b = [c EXCEPT !.taken[t] = Connect]
    OBVIOUS
  <2>2. WaitInv(b, 0, 0)
    BY <2>1, HandKeepsWaits
  <2>3. WaitInv([b EXCEPT !.connect_sent = TRUE], 0, 0)
    BY <2>2, BesideUnseen, BesideKeeps DEF WaitInv
  <2>4. [b EXCEPT !.connect_sent = TRUE] = [c EXCEPT !.connect_sent = TRUE, !.taken[t] = Connect]
    BY <2>1
  <2>5. QED
    BY <2>3, <2>4
<1>3. WaitInv(PopInbox([c EXCEPT !.taken[t] = Head(c.inbox)]), 0, 0)
  <2>1. PICK b : b = [c EXCEPT !.taken[t] = Head(c.inbox)]
    OBVIOUS
  <2>2. WaitInv(b, 0, 0)
    BY <2>1, HandKeepsWaits
  <2>3. Beside(b, PopInbox(b))
    BY <2>2, BesidePopInbox DEF WaitInv
  <2>4. WaitInv(PopInbox(b), 0, 0)
    BY <2>2, <2>3, BesideKeeps
  <2>5. QED
    BY <2>1, <2>4
<1>4. c.open => WaitInv(ParkReceiver(c, t, NextFuture(c)), 0, 0)
  BY NextFutureUnheld, ParkReceiverWaits
<1>5. QED
  BY <1>1, <1>2, <1>3, <1>4 DEF Receive

\* WsRecv.resume
LEMMA ResumeReceiveWaits ==
  ASSUME NEW c, NEW t \in Tasks, NEW result, WaitInv(c, 0, 0), c.running = t, Roomy(c), c.role[t] # "writer"
  PROVE  WaitInv(ResumeReceive(c, t, result), 0, 0)
<1>1. WaitInv([c EXCEPT !.held[t] = Gone], 0, 0)
  BY HandKeepsWaits
<1>2. WaitInv(PopInbox([c EXCEPT !.held[t] = Head(c.inbox)]), 0, 0)
  <2>1. PICK b : b = [c EXCEPT !.held[t] = Head(c.inbox)]
    OBVIOUS
  <2>2. WaitInv(b, 0, 0)
    BY <2>1, HandKeepsWaits
  <2>3. Beside(b, PopInbox(b))
    BY <2>2, BesidePopInbox DEF WaitInv
  <2>4. WaitInv(PopInbox(b), 0, 0)
    BY <2>2, <2>3, BesideKeeps
  <2>5. QED
    BY <2>1, <2>4
<1>3. c.open => WaitInv(ParkReceiver(c, t, NextFuture(c)), 0, 0)
  BY NextFutureUnheld, ParkReceiverWaits
<1>4. QED
  BY <1>1, <1>2, <1>3 DEF ResumeReceive

\* The handler's other tasks are started.
LEMMA StartWaits ==
  ASSUME NEW c, NEW S, WaitInv(c, 0, 0), c.accepted, S \subseteq Tasks \ {App},
         \A u \in S : c.tasks[u].at = "start" /\ ~Coming(c, u)
  PROVE  WaitInv([c EXCEPT !.ready = @ \o SetToSeq(S)], 0, 0)
<1>1. PICK w : w = SetToSeq(S)
  OBVIOUS
<1>2. w \in Seq(Tasks) /\ IsInjective(w) /\ ToSet(w) = S
  BY <1>1, AllLinedUp
<1>3. Typed(c) /\ TaskInv(c) /\ c.ready \in Seq(Tasks) /\ IsInjective(c.ready)
  BY DEF WaitInv, Typed, TaskInv
<1>4. PICK r : r = c.ready \o w
  OBVIOUS
<1>5. ToSet(c.ready) \cap ToSet(w) = {}
  BY <1>2 DEF Coming, Queued
<1>6. r \in Seq(Tasks) /\ IsInjective(r) /\ ToSet(r) = ToSet(c.ready) \cup S
  BY <1>2, <1>3, <1>4, <1>5, ConcatElements
<1>7. PICK d : d = [c EXCEPT !.ready = r]
  OBVIOUS
<1>8. /\ Typed(d) /\ d.tasks = c.tasks /\ d.ready = r /\ d.running = c.running /\ d.fut = c.fut /\ d.q = c.q
      /\ d.held = c.held /\ d.taken = c.taken /\ d.role = c.role /\ d.open = c.open /\ d.accepted = c.accepted
      /\ d.recv_waiters = c.recv_waiters
  BY <1>3, <1>6, <1>7 DEF Typed, Looked
<1>9. ASSUME NEW u \in Tasks PROVE TaskOk(d, u)
  <2>1. TaskOk(c, u)
    BY <1>3 DEF TaskInv
  <2>2. (Queued(d, u) <=> Queued(c, u) \/ u \in S) /\ (Asleep(d, u) <=> Asleep(c, u)) /\ (Thrown(d, u) <=> Thrown(c, u))
    BY <1>6, <1>8 DEF Queued, Asleep, Thrown, Pending
  <2>3. CASE u \in S
    BY <1>8, <2>1, <2>2, <2>3 DEF TaskOk, Coming, Asleep
  <2>4. CASE u \notin S
    BY <1>8, <2>1, <2>2, <2>4 DEF TaskOk, Coming
  <2>5. QED
    BY <2>3, <2>4
<1>10. TaskInv(d)
  BY <1>3, <1>6, <1>8, <1>9 DEF TaskInv, OwnFutures, Early
<1>11. Backed(d, d.q.getters, "get") /\ Backed(d, d.q.putters, "put")
  BY <1>8 DEF WaitInv, Backed, Pending
<1>12. WokenIn(d, "get") = WokenIn(c, "get") /\ WokenIn(d, "put") = WokenIn(c, "put") /\ Working(d) = Working(c)
  BY <1>8 DEF WokenIn, Working
<1>13. \A q : ParkedIn(d, q) = ParkedIn(c, q)
  BY <1>8 DEF ParkedIn, Pending
<1>14. GettersServed(d, 0) /\ PuttersServed(d, 0) /\ JoinersServed(d) /\ Counted(d)
  BY <1>8, <1>12, <1>13 DEF WaitInv, GettersServed, PuttersServed, JoinersServed, Counted
<1>15. RolesSound(d) /\ ClosedSound(d)
  BY <1>8 DEF WaitInv, RolesSound, ClosedSound
<1>16. WaitInv(d, 0, 0)
  BY <1>8, <1>10, <1>11, <1>14, <1>15 DEF WaitInv
<1>17. QED
  BY <1>1, <1>4, <1>7, <1>16

-----------------------------------------------------------------------------
(* The actions.                                                            *)

\* Collecting the futures that were let go of keeps the invariant.
LEMMA BecomesWaits == ASSUME NEW c, WaitInv(c, 0, 0), Becomes(c) PROVE WaitInv(s', 0, 0)
<1>1. s' = Collect(c, Holds(c))
  BY DEF Becomes, Then
<1>2. QED
  BY <1>1, CollectKeeps

\* The calls of a task that runs.
LEMMA CallReceiveWaits ==
  ASSUME WaitInv(s, 0, 0), Roomy(s), NEW t \in Tasks, CallReceive(t) PROVE WaitInv(s', 0, 0)
<1>1. s.running = t /\ s.role[t] # "writer" /\ Becomes(Receive(s, t))
  BY DEF CallReceive, Free, Running, Role
<1>2. QED
  BY <1>1, ReceiveWaits, BecomesWaits

\* The awaitable of a receive() that was given its message is awaited.
LEMMA AwaitTakenWaits ==
  ASSUME WaitInv(s, 0, 0), NEW t \in Tasks, AwaitTaken(t) PROVE WaitInv(s', 0, 0)
<1>1. s.running = t /\ s.taken[t] # Nothing
  BY DEF AwaitTaken, Running
<1>2. s.role[t] # "writer"
  BY <1>1 DEF WaitInv, RolesSound
<1>3. PICK x : x = s.taken[t]
  OBVIOUS
<1>4. PICK b : b = [s EXCEPT !.held[t] = x]
  OBVIOUS
<1>5. WaitInv(b, 0, 0) /\ b.running = t
  BY <1>1, <1>2, <1>4, HandKeepsWaits DEF WaitInv, Typed, Looked
<1>6. PICK d : d = [b EXCEPT !.taken[t] = Nothing]
  OBVIOUS
<1>7. WaitInv(d, 0, 0) /\ d.running = t
  BY <1>5, <1>6, HandKeepsWaits DEF WaitInv, Typed, Looked
<1>8. "run" \in Awaits
  BY DEF Awaits
<1>9. WaitInv([d EXCEPT !.tasks[t].at = "run"], 0, 0)
  BY <1>7, <1>8, AtKeeps
<1>10. Becomes([d EXCEPT !.tasks[t].at = "run"])
  BY <1>3, <1>4, <1>6 DEF AwaitTaken
<1>11. QED
  BY <1>9, <1>10, BecomesWaits

\* It is kept across another await, or dropped and its message put back.
LEMMA KeepTakenWaits ==
  ASSUME WaitInv(s, 0, 0), NEW t \in Tasks, KeepTaken(t) \/ DropTaken(t) PROVE WaitInv(s', 0, 0)
<1>1. "kept" \in Awaits /\ "run" \in Awaits
  BY DEF Awaits
<1>2. CASE KeepTaken(t)
  <2>1. s.running = t /\ Becomes(Yield(s, t, "kept"))
    BY <1>2 DEF KeepTaken, Running
  <2>2. WaitInv(Yield(s, t, "kept"), 0, 0)
    BY <1>1, <2>1, YieldKeeps
  <2>3. QED
    BY <2>1, <2>2, BecomesWaits
<1>3. CASE DropTaken(t)
  <2>1. s.running = t /\ Becomes([PutBack(s, t) EXCEPT !.tasks[t].at = "run"])
    BY <1>3 DEF DropTaken, Running
  <2>2. PICK d : d = PutBack(s, t)
    OBVIOUS
  <2>3. WaitInv(d, 0, 0) /\ d.running = t
    BY <2>1, <2>2, PutBackWaits
  <2>4. WaitInv([d EXCEPT !.tasks[t].at = "run"], 0, 0)
    BY <1>1, <2>3, AtKeeps
  <2>5. QED
    BY <2>1, <2>2, <2>4, BecomesWaits
<1>4. QED
  BY <1>2, <1>3

\* websocket.accept
LEMMA AcceptWaits ==
  ASSUME WaitInv(s, 0, 0), SessionSound, NEW t \in Tasks, Accept(t) PROVE WaitInv(s', 0, 0)
<1>1. s.running = t
  BY DEF Accept, Free, Running
<1>2. CASE ~s.open \/ s.accepted
  <2>1. Becomes(TaskEnds(s, t))
    BY <1>2 DEF Accept
  <2>2. QED
    BY <1>1, <2>1, TaskEndsWaits, BecomesWaits
<1>3. CASE ~(~s.open \/ s.accepted)
  <2>1. PICK a : a = [s EXCEPT !.accepted = TRUE]
    OBVIOUS
  <2>2. WaitInv(a, 0, 0) /\ a.accepted /\ a.tasks = s.tasks /\ a.ready = s.ready /\ a.running = s.running
    BY <2>1, AcceptedWaits DEF WaitInv, Typed, Looked
  <2>3. PICK b : b = [a EXCEPT !.held[t] = Nothing]
    OBVIOUS
  <2>4. WaitInv(b, 0, 0) /\ b.accepted /\ b.tasks = s.tasks /\ b.ready = s.ready /\ b.running = s.running
    <3>1. WaitInv(b, 0, 0)
      BY <2>2, <2>3, HandKeepsWaits
    <3>2. QED
      BY <2>2, <2>3, <3>1 DEF WaitInv, Typed, Looked
  <2>5. PICK e : e = [b EXCEPT !.trailing = <<>>]
    OBVIOUS
  <2>6. e = [s EXCEPT !.accepted = TRUE, !.held[t] = Nothing, !.trailing = <<>>]
    BY <2>1, <2>3, <2>5
  <2>7. Beside(b, e)
    BY <2>4, <2>5, BesideUnseen DEF WaitInv
  <2>8. Beside(b, Enqueue(e, "accept"))
    BY <2>7, BesideEnqueue, BesideTwice DEF Beside
  <2>9. Listed(s.trailing)
    BY DEF SessionSound, SessionInv, Shape
  <2>10. PICK d : d = Ingest(Enqueue(e, "accept"), s.trailing)
    OBVIOUS
  <2>11. Beside(b, d)
    BY <2>8, <2>9, <2>10, BesideIngest, BesideTwice DEF Beside
  <2>12. WaitInv(d, 0, 0) /\ d.accepted /\ d.tasks = s.tasks /\ d.ready = s.ready /\ d.running = s.running
    BY <2>4, <2>11, BesideKeeps DEF Beside
  <2>13. PICK S : S = {u \in Tasks \ {App} : Role(u) # "none"}
    OBVIOUS
  <2>14. S \subseteq Tasks \ {App} /\ \A u \in S : d.tasks[u].at = "start" /\ ~Coming(d, u)
    BY <1>3, <2>12, <2>13 DEF WaitInv, TaskInv, Early, Coming, Queued
  <2>15. WaitInv([d EXCEPT !.ready = @ \o SetToSeq(S)], 0, 0)
    BY <2>12, <2>14, StartWaits
  <2>16. Becomes([d EXCEPT !.ready = @ \o SetToSeq(S)])
    <3>1. Becomes(Then(Ingest(Enqueue(e, "accept"), s.trailing), LAMBDA x : [x EXCEPT !.ready = @ \o SetToSeq(S)]))
      BY <1>3, <2>6, <2>13 DEF Accept
    <3>2. Then(d, LAMBDA x : [x EXCEPT !.ready = @ \o SetToSeq(S)]) = [d EXCEPT !.ready = @ \o SetToSeq(S)]
      BY DEF Then
    <3>3. QED
      BY <2>10, <3>1, <3>2
  <2>17. QED
    BY <2>15, <2>16, BecomesWaits
<1>4. QED
  BY <1>2, <1>3

\* websocket.close
LEMMA CloseWaits ==
  ASSUME WaitInv(s, 0, 0), NEW t \in Tasks, Close(t) PROVE WaitInv(s', 0, 0)
<1>1. PICK x : x = IF s.held[t] = Connect THEN Nothing ELSE s.held[t]
  OBVIOUS
<1>2. PICK a : a = [s EXCEPT !.accepted = TRUE]
  OBVIOUS
<1>3. WaitInv(a, 0, 0) /\ a.held = s.held
  BY <1>2, AcceptedWaits DEF WaitInv, Typed, Looked
<1>4. PICK b : b = [a EXCEPT !.held[t] = x]
  OBVIOUS
<1>5. x = Nothing \/ a.held[t] # Nothing
  BY <1>1, <1>3
<1>6. WaitInv(b, 0, 0)
  BY <1>3, <1>4, <1>5, HandKeepsWaits
<1>7. PICK d : d = [b EXCEPT !.app_closed = TRUE, !.ws_closing = TRUE]
  OBVIOUS
<1>8. Beside(b, d)
  BY <1>6, <1>7 DEF WaitInv, Typed, Looked, Beside, ClosedSound
<1>9. d = [s EXCEPT !.app_closed = TRUE, !.accepted = TRUE, !.ws_closing = TRUE,
                    !.held[t] = IF @ = Connect THEN Nothing ELSE @]
  BY <1>1, <1>2, <1>4, <1>7
<1>10. PICK e : e = IF ~s.accepted THEN Enqueue(d, "error") ELSE IF ~s.ws_closing THEN Enqueue(d, "close") ELSE d
  OBVIOUS
<1>11. Beside(b, e)
  BY <1>8, <1>10, BesideEnqueue, BesideTwice DEF Beside
<1>12. Beside(b, CloseAfterWrite(e))
  BY <1>11, BesideCloseAfterWrite, BesideTwice DEF Beside
<1>13. WaitInv(CloseAfterWrite(e), 0, 0)
  BY <1>6, <1>12, BesideKeeps
<1>14. Becomes(CloseAfterWrite(e))
  BY <1>9, <1>10 DEF Close
<1>15. QED
  BY <1>13, <1>14, BecomesWaits

\* The queue's calls.
LEMMA QueueCallsWait ==
  ASSUME WaitInv(s, 0, 0), Roomy(s), NEW t \in Tasks, Put(t) \/ Get(t) \/ Join(t) PROVE WaitInv(s', 0, 0)
<1>1. s.running = t
  BY DEF Put, Get, Join, Free, Running
<1>2. CASE Put(t)
  BY <1>1, <1>2, QueuePutServes, BecomesWaits DEF Put
<1>3. CASE Get(t)
  BY <1>1, <1>3, QueueGetServes, BecomesWaits DEF Get
<1>4. CASE Join(t)
  <2>1. CASE s.q.unfinished = 0
    <3>1. Becomes(TaskEnds(s, t))
      BY <1>4, <2>1 DEF Join
    <3>2. QED
      BY <1>1, <3>1, TaskEndsWaits, BecomesWaits
  <2>2. CASE s.q.unfinished # 0
    <3>1. Becomes(ParkJoiner(s, t, NextFuture(s)))
      BY <1>4, <2>2 DEF Join
    <3>2. s.q.unfinished \in Int /\ Len(s.q.items) \in Nat
      BY QueueNumbers DEF WaitInv, Typed, QueueShape
    <3>3. Cardinality(Working(s)) \in Nat
      BY WokenAreTasks, TasksCounted
    <3>4. s.q.unfinished > 0
      BY <2>2, <3>2, <3>3 DEF WaitInv, Counted
    <3>5. WaitInv(ParkJoiner(s, t, NextFuture(s)), 0, 0)
      BY <1>1, <3>4, NextFutureUnheld, ParkJoinerWaits
    <3>6. QED
      BY <3>1, <3>5, BecomesWaits
  <2>3. QED
    BY <2>1, <2>2
<1>5. QED
  BY <1>2, <1>3, <1>4

\* websocket.send
LEMMA SendWaits ==
  ASSUME WaitInv(s, 0, 0), Roomy(s), NEW t \in Tasks, Send(t) PROVE WaitInv(s', 0, 0)
<1>1. s.running = t /\ s.held[t] # Nothing
  BY DEF Send, Free, Running, Nothing
<1>2. PICK b : b = EnqueueFrame(s, Frame("message", s.held[t]))
  OBVIOUS
<1>3. Beside(s, b)
  BY <1>2, BesideEnqueueFrame DEF WaitInv
<1>4. WaitInv(b, 0, 0) /\ b.held = s.held /\ b.running = t
  BY <1>1, <1>3, BesideKeeps DEF Beside
<1>5. PICK d : d = [b EXCEPT !.held[t] = Echoed]
  OBVIOUS
<1>6. WaitInv(d, 0, 0) /\ d.running = t
  <2>1. WaitInv(d, 0, 0)
    BY <1>1, <1>4, <1>5, HandKeepsWaits
  <2>2. QED
    BY <1>4, <1>5, <2>1 DEF WaitInv, Typed, Looked
<1>7. Roomy(d)
  <2>1. b \in {s, [s EXCEPT !.out = Append(@, Frame("message", s.held[t]))]}
    BY <1>2 DEF EnqueueFrame
  <2>2. /\ b.tasks = s.tasks /\ b.recv_waiters = s.recv_waiters /\ b.drain_waiters = s.drain_waiters
        /\ b.events = s.events /\ b.q = s.q
    BY <2>1 DEF WaitInv, Typed, Looked
  <2>3. /\ d.tasks = s.tasks /\ d.recv_waiters = s.recv_waiters /\ d.drain_waiters = s.drain_waiters
        /\ d.events = s.events /\ d.q = s.q
    BY <1>4, <1>5, <2>2 DEF WaitInv, Typed, Looked
  <2>4. Holds(d) = Holds(s)
    BY <2>3 DEF Holds, QueueHolds
  <2>5. QED
    BY <2>4 DEF Roomy
<1>8. WaitInv(ParkDrain(d, t, NextFuture(d)), 0, 0)
  BY <1>6, <1>7, NextFutureUnheld, ParkDrainWaits
<1>9. WaitInv(TaskEnds(s, t), 0, 0)
  BY <1>1, TaskEndsWaits
<1>10. Becomes(TaskEnds(s, t)) \/ Becomes(ParkDrain(d, t, NextFuture(d))) \/ Becomes(d)
  BY <1>2, <1>5 DEF Send
<1>11. QED
  BY <1>6, <1>8, <1>9, <1>10, BecomesWaits

\* task_done, and the ends of a task.
LEMMA EndWaits ==
  ASSUME WaitInv(s, 0, 0), NEW t \in Tasks, MarkDone(t) \/ End(t) \/ GoOn(t) PROVE WaitInv(s', 0, 0)
<1>1. s.running = t
  BY DEF MarkDone, End, GoOn, Free, Running
<1>2. WaitInv(TaskEnds(s, t), 0, 0)
  BY <1>1, TaskEndsWaits
<1>3. CASE MarkDone(t)
  <2>1. t \in Working(s)
    BY <1>3 DEF MarkDone, Working, Role, Echoed, Nothing
  <2>2. WaitInv(TaskDone([s EXCEPT !.held[t] = Nothing]), 0, 0)
    BY <2>1, TaskDoneServes
  <2>3. QED
    BY <1>3, <2>2, BecomesWaits DEF MarkDone
<1>4. CASE End(t)
  BY <1>2, <1>4, BecomesWaits DEF End
<1>5. CASE GoOn(t)
  <2>1. "run" \in Awaits
    BY DEF Awaits
  <2>2. WaitInv([s EXCEPT !.tasks[t].at = "run"], 0, 0)
    BY <1>1, <2>1, AtKeeps
  <2>3. QED
    BY <1>2, <1>5, <2>2, BecomesWaits DEF GoOn
<1>6. QED
  BY <1>3, <1>4, <1>5

\* Waking the queue's waiters does not run them.
LEMMA WakeRuns ==
  ASSUME NEW c, Typed(c)
  PROVE  /\ \A f, v : Resolve(c, f, v).running = c.running
         /\ WakeGetter(c).running = c.running /\ WakePutter(c).running = c.running
<1>1. ASSUME NEW d, NEW f, NEW v, Looked \subseteq DOMAIN d PROVE Resolve(d, f, v).running = d.running
  <2>1. PICK e : e = [d EXCEPT !.fut[f] = v]
    OBVIOUS
  <2>2. DOMAIN e = DOMAIN d /\ e.running = d.running
    BY <1>1, <2>1 DEF Looked
  <2>3. PICK w : w = SetToSeq({t \in Tasks : e.tasks[t].wait = f})
    OBVIOUS
  <2>4. Scheduled(e, f) = [e EXCEPT !.ready = @ \o w]
    BY <2>3 DEF Scheduled
  <2>5. Scheduled(e, f).running = d.running
    BY <1>1, <2>2, <2>4 DEF Looked
  <2>6. QED
    BY <2>1, <2>5 DEF Resolve
<1>2. Looked \subseteq DOMAIN c
  BY DEF Typed
<1>3. ASSUME NEW w
      PROVE  /\ LET e == [c EXCEPT !.q.getters = w] IN Looked \subseteq DOMAIN e /\ e.running = c.running
             /\ LET e == [c EXCEPT !.q.putters = w] IN Looked \subseteq DOMAIN e /\ e.running = c.running
  BY <1>2 DEF Looked
<1>4. WakeGetter(c).running = c.running
  <2>1. PICK w : w = Behind(c, c.q.getters)
    OBVIOUS
  <2>2. PICK v : v = Tail(w)
    OBVIOUS
  <2>3. PICK e : e = [c EXCEPT !.q.getters = v]
    OBVIOUS
  <2>4. Looked \subseteq DOMAIN e /\ e.running = c.running
    BY <1>3, <2>3
  <2>5. Resolve(e, Head(w), "none").running = c.running
    BY <1>1, <2>4
  <2>6. WakeGetter(c) \in {[c EXCEPT !.q.getters = <<>>], Resolve(e, Head(w), "none")}
    BY <2>1, <2>2, <2>3 DEF WakeGetter
  <2>7. [c EXCEPT !.q.getters = <<>>].running = c.running
    BY <1>3
  <2>8. QED
    BY <2>5, <2>6, <2>7
<1>5. WakePutter(c).running = c.running
  <2>1. PICK w : w = Behind(c, c.q.putters)
    OBVIOUS
  <2>2. PICK v : v = Tail(w)
    OBVIOUS
  <2>3. PICK e : e = [c EXCEPT !.q.putters = v]
    OBVIOUS
  <2>4. Looked \subseteq DOMAIN e /\ e.running = c.running
    BY <1>3, <2>3
  <2>5. Resolve(e, Head(w), "none").running = c.running
    BY <1>1, <2>4
  <2>6. WakePutter(c) \in {[c EXCEPT !.q.putters = <<>>], Resolve(e, Head(w), "none")}
    BY <2>1, <2>2, <2>3 DEF WakePutter
  <2>7. [c EXCEPT !.q.putters = <<>>].running = c.running
    BY <1>3
  <2>8. QED
    BY <2>5, <2>6, <2>7
<1>6. QED
  BY <1>1, <1>2, <1>4, <1>5

\* Nor does recovering from a cancellation.
LEMMA RecoveryRuns ==
  ASSUME NEW c, NEW f, Typed(c)
  PROVE  /\ GetterRecovery(c, f).running = c.running /\ PutterRecovery(c, f).running = c.running
         /\ Unjoin(c, f).running = c.running
<1>1. PICK d : d = [c EXCEPT !.q.getters = Only(@, Futures \ {f})]
  OBVIOUS
<1>2. PICK e : e = [c EXCEPT !.q.putters = Only(@, Futures \ {f})]
  OBVIOUS
<1>3. c.q.getters \in Seq(Futures) /\ c.q.putters \in Seq(Futures)
  BY DEF Typed, QueueShape
<1>4. /\ Only(c.q.getters, Futures \ {f}) \in Seq(Futures) /\ Only(c.q.putters, Futures \ {f}) \in Seq(Futures)
      /\ ToSet(Only(c.q.getters, Futures \ {f})) \subseteq ToSet(c.q.getters)
      /\ ToSet(Only(c.q.putters, Futures \ {f})) \subseteq ToSet(c.q.putters)
  BY <1>3, OnlyType, OnlyElements
<1>5. Requeued(c, d) /\ Requeued(c, e)
  BY <1>1, <1>2, <1>4, ListReplaced
<1>6. GetterRecovery(c, f) \in {d, WakeGetter(d)} /\ PutterRecovery(c, f) \in {e, WakePutter(e)}
  BY <1>1, <1>2 DEF GetterRecovery, PutterRecovery, Then
<1>7. WakeGetter(d).running = c.running /\ WakePutter(e).running = c.running
  BY <1>5, WakeRuns DEF Requeued
<1>8. Unjoin(c, f).running = c.running
  BY DEF Unjoin, Typed, Looked
<1>9. QED
  BY <1>5, <1>6, <1>7, <1>8 DEF Requeued

\* A step lets go of a future and takes none.
LEMMA StepRoomy ==
  ASSUME NEW c, NEW t \in Tasks, Typed(c), Roomy(c) PROVE Roomy(Step(c, t))
<1>1. PICK d : d = Step(c, t)
  OBVIOUS
<1>2. /\ d.recv_waiters = c.recv_waiters /\ d.drain_waiters = c.drain_waiters /\ d.events = c.events /\ d.q = c.q
  BY <1>1 DEF Step, Typed, Looked
<1>3. \A u \in Tasks : d.tasks[u].wait \in {c.tasks[u].wait, NoFuture}
  <2>1. PICK o : o = (c.tasks[t].owed /\ ~Thrown(c, t))
    OBVIOUS
  <2>2. d.tasks = [c.tasks EXCEPT ![t] = [c.tasks[t] EXCEPT !.wait = NoFuture, !.must_cancel = FALSE, !.at = "run", !.owed = o]]
    BY <1>1, <2>1 DEF Step, Typed, Looked
  <2>3. c.tasks[t] \in TaskRecord /\ c.tasks \in [Tasks -> TaskRecord]
    BY DEF Typed
  <2>4. QED
    BY <2>2, <2>3 DEF TaskRecord
<1>4. {d.tasks[u].wait : u \in Tasks} \subseteq {c.tasks[u].wait : u \in Tasks} \cup {NoFuture}
  BY <1>3
<1>5. Holds(d) \subseteq Holds(c) \cup {NoFuture}
  BY <1>2, <1>4 DEF Holds, QueueHolds
<1>6. QED
  BY <1>1, <1>5, RoomLeft

\* A cancellation reaches the running task in the await it came from.
LEMMA CaughtWaits ==
  ASSUME NEW c, NEW t \in Tasks, NEW at, NEW f, NEW result, NEW g \in {0, 1}, NEW p \in {0, 1},
         WaitInv(c, g, p), c.running = t,
         g = 1 => at = "get" /\ c.fut[f] # "cancelled", p = 1 => at = "put" /\ c.fut[f] # "cancelled"
  PROVE  WaitInv(Caught(c, t, at, f, result), 0, 0)
<1>1. PICK d : d = CASE at = "recv" -> Abandon(c, result)
                     [] at = "get" -> GetterRecovery(c, f)
                     [] at = "put" -> PutterRecovery(c, f)
                     [] at = "join" -> Unjoin(c, f)
                     [] at = "kept" -> PutBack(c, t)
                     [] OTHER -> c
  OBVIOUS
<1>2. Typed(c)
  BY DEF WaitInv
<1>3. WaitInv(d, 0, 0) /\ d.running = t
  <2>1. CASE at = "recv"
    <3>1. Beside(c, Abandon(c, result)) /\ g = 0 /\ p = 0 /\ d = Abandon(c, result)
      BY <1>1, <1>2, <2>1, BesideAbandon
    <3>2. QED
      BY <3>1, BesideKeeps DEF Beside
  <2>2. CASE at = "get"
    <3>1. p = 0 /\ d = GetterRecovery(c, f)
      BY <1>1, <2>2
    <3>2. QED
      BY <1>2, <3>1, GetterRecoveryServes, RecoveryRuns
  <2>3. CASE at = "put"
    <3>1. g = 0 /\ d = PutterRecovery(c, f)
      BY <1>1, <2>3
    <3>2. QED
      BY <1>2, <3>1, PutterRecoveryServes, RecoveryRuns
  <2>4. CASE at = "join"
    <3>1. g = 0 /\ p = 0 /\ d = Unjoin(c, f)
      BY <1>1, <2>4
    <3>2. QED
      BY <1>2, <3>1, UnjoinServes, RecoveryRuns
  <2>5. CASE at = "kept"
    <3>1. g = 0 /\ p = 0 /\ d = PutBack(c, t)
      BY <1>1, <2>5
    <3>2. QED
      BY <3>1, PutBackWaits
  <2>6. CASE at \notin {"recv", "get", "put", "join", "kept"}
    <3>1. g = 0 /\ p = 0 /\ d = c
      BY <1>1, <2>6
    <3>2. QED
      BY <3>1
  <2>7. QED
    BY <2>1, <2>2, <2>3, <2>4, <2>5, <2>6
<1>4. "caught" \in Awaits
  BY DEF Awaits
<1>5. WaitInv(Finish(d, t), 0, 0) /\ WaitInv([d EXCEPT !.tasks[t].at = "caught"], 0, 0)
  BY <1>3, <1>4, FinishKeeps, AtKeeps
<1>6. Caught(c, t, at, f, result) \in {Finish(d, t), [d EXCEPT !.tasks[t].at = "caught"]}
  <2>1. Caught(c, t, at, f, result) =
          CHOOSE x \in {IF at = "start" THEN Finish(e, t) ELSE [e EXCEPT !.tasks[t].at = "caught"] : e \in {d}} : TRUE
    BY <1>1, Zenon DEF Caught, Then
  <2>2. QED
    BY <2>1
<1>7. QED
  BY <1>5, <1>6

\* The await of the running task returns.
LEMMA ResumedWaits ==
  ASSUME NEW c, NEW t \in Tasks, NEW at, NEW result, NEW g \in {0, 1}, NEW p \in {0, 1},
         WaitInv(c, g, p), c.running = t, Roomy(c), g = 1 => at = "get", p = 1 => at = "put",
         at = "recv" => c.role[t] # "writer"
  PROVE  WaitInv(Resumed(c, t, at, result), 0, 0)
<1>1. CASE at = "recv"
  <2>1. g = 0 /\ p = 0 /\ Resumed(c, t, at, result) = ResumeReceive(c, t, result)
    BY <1>1 DEF Resumed
  <2>2. QED
    BY <1>1, <2>1, ResumeReceiveWaits
<1>2. CASE at = "get"
  <2>1. p = 0 /\ Resumed(c, t, at, result) = QueueGet(c, t)
    BY <1>2 DEF Resumed
  <2>2. QED
    BY <2>1, QueueGetServes
<1>3. CASE at = "put"
  <2>1. g = 0 /\ Resumed(c, t, at, result) = QueuePut(c, t)
    BY <1>3 DEF Resumed
  <2>2. QED
    BY <2>1, QueuePutServes
<1>4. CASE at = "join"
  <2>1. g = 0 /\ p = 0 /\ Resumed(c, t, at, result) = TaskEnds(c, t)
    BY <1>4 DEF Resumed
  <2>2. QED
    BY <2>1, TaskEndsWaits
<1>5. CASE at = "kept"
  <2>1. g = 0 /\ p = 0 /\ Resumed(c, t, at, result) = [c EXCEPT !.tasks[t].at = "kept"]
    BY <1>5 DEF Resumed
  <2>2. "kept" \in Awaits
    BY DEF Awaits
  <2>3. QED
    BY <2>1, <2>2, AtKeeps
<1>6. CASE at \notin {"recv", "get", "put", "join", "kept"}
  <2>1. g = 0 /\ p = 0 /\ Resumed(c, t, at, result) = c
    BY <1>6 DEF Resumed
  <2>2. QED
    BY <2>1
<1>7. QED
  BY <1>1, <1>2, <1>3, <1>4, <1>5, <1>6

\* A wake-up is run.
LEMMA RunReadyWaits == ASSUME WaitInv(s, 0, 0), Roomy(s), RunReady PROVE WaitInv(s', 0, 0)
<1>1. PICK t : t = Head(s.ready)
  OBVIOUS
<1>2. PICK at, f : at = s.tasks[t].at /\ f = s.tasks[t].wait
  OBVIOUS
<1>3. PICK result : result = IF f = NoFuture THEN "none" ELSE s.fut[f]
  OBVIOUS
<1>4. PICK g, p : g = (IF t \in WokenIn(s, "get") THEN 1 ELSE 0) /\ p = IF t \in WokenIn(s, "put") THEN 1 ELSE 0
  OBVIOUS
<1>5. PICK d : d = Step(s, t)
  OBVIOUS
<1>6. /\ t \in Tasks /\ d.running = t /\ d.fut = s.fut /\ d.role = s.role /\ WaitInv(d, g, p)
  <2>1. s.running = Nobody /\ s.ready # <<>>
    BY DEF RunReady
  <2>2. QED
    BY <1>1, <1>4, <1>5, <2>1, StepKeeps
<1>7. g \in {0, 1} /\ p \in {0, 1} /\ (g = 1 => t \in WokenIn(s, "get")) /\ (p = 1 => t \in WokenIn(s, "put"))
  BY <1>4
<1>8. (g = 1 => at = "get" /\ d.fut[f] # "cancelled") /\ (p = 1 => at = "put" /\ d.fut[f] # "cancelled")
  BY <1>2, <1>6, <1>7 DEF WokenIn
<1>9. at = "recv" => d.role[t] # "writer"
  BY <1>2, <1>6 DEF WaitInv, RolesSound
<1>10. Roomy(d)
  BY <1>5, <1>6, StepRoomy DEF WaitInv
<1>11. WaitInv(Caught(d, t, at, f, result), 0, 0)
  BY <1>6, <1>7, <1>8, CaughtWaits
<1>12. WaitInv(Resumed(d, t, at, result), 0, 0)
  BY <1>6, <1>7, <1>8, <1>9, <1>10, ResumedWaits
<1>13. Becomes(Caught(d, t, at, f, result)) \/ Becomes(Resumed(d, t, at, result))
  BY <1>1, <1>2, <1>3, <1>5 DEF RunReady
<1>14. QED
  BY <1>11, <1>12, <1>13, BecomesWaits

\* An event is dispatched.
LEMMA DispatchWaits == ASSUME WaitInv(s, 0, 0), Dispatch PROVE WaitInv(s', 0, 0)
<1>1. Typed(s) /\ s.events \in Seq(EventRecord) /\ s.events # <<>>
  BY DEF WaitInv, Typed, Dispatch
<1>2. PICK e, w : e = Head(s.events) /\ w = Tail(s.events)
  OBVIOUS
<1>3. e \in EventRecord /\ w \in Seq(EventRecord)
  BY <1>1, <1>2
<1>4. PICK f : f = e.fut
  OBVIOUS
<1>5. f \in Futures
  BY <1>3, <1>4 DEF EventRecord
<1>6. PICK c : c = [s EXCEPT !.events = w]
  OBVIOUS
<1>7. Beside(s, c)
  BY <1>1, <1>3, <1>6 DEF Typed, Looked, Beside, ClosedSound
<1>8. WaitInv(c, 0, 0)
  BY <1>7, BesideKeeps
<1>9. WaitInv(Resolve(c, f, "none"), 0, 0) /\ WaitInv(Resolve(c, f, "gone"), 0, 0)
  BY <1>5, <1>8, ResolveKeeps
<1>10. WaitInv(WsWake(c, f), 0, 0)
  <2>1. PICK r : r = Append(c.recv_waiters, f)
    OBVIOUS
  <2>2. PICK d : d = [c EXCEPT !.recv_waiters = r]
    OBVIOUS
  <2>3. r \in Seq(Futures)
    BY <1>5, <1>8, <2>1 DEF WaitInv, Typed
  <2>4. c.open => Beside(c, d)
    BY <1>8, <2>2, <2>3 DEF WaitInv, Typed, Looked, Beside, ClosedSound
  <2>5. c.open => WaitInv(d, 0, 0)
    BY <1>8, <2>4, BesideKeeps
  <2>6. QED
    BY <1>9, <2>1, <2>2, <2>5 DEF WsWake
<1>11. Becomes(c) \/ Becomes(WsWake(c, f)) \/ Becomes(Resolve(c, f, "none")) \/ Becomes(Resolve(c, f, "gone"))
  BY <1>2, <1>4, <1>6 DEF Dispatch
<1>12. QED
  BY <1>8, <1>9, <1>10, <1>11, BecomesWaits

\* What the network and the server do is beside the tasks.
LEMMA BesideBecomes == ASSUME WaitInv(s, 0, 0), NEW c, Beside(s, c), Becomes(c) PROVE WaitInv(s', 0, 0)
  BY BesideKeeps, BecomesWaits

\* on_recv_done: frames arrive.
LEMMA ReadWaits == ASSUME WaitInv(s, 0, 0), SessionSound, Read PROVE WaitInv(s', 0, 0)
<1>1. PICK k \in 1..Batch :
        /\ k <= Len(s.input)
        /\ LET rest == [s EXCEPT !.input = SubSeq(@, k + 1, Len(@)), !.reading = FALSE]
               batch == SubSeq(s.input, 1, k)
           IN Becomes(Then(IF s.lingering THEN rest ELSE Ingest(rest, batch), PostRecv))
  BY DEF Read
<1>2. PICK x, y : x = SubSeq(s.input, k + 1, Len(s.input)) /\ y = SubSeq(s.input, 1, k)
  OBVIOUS
<1>3. Batch \in Nat /\ Listed(s.input)
  BY SocketAssumption DEF SocketAssumption, SessionSound, SessionInv, Shape
<1>4. Listed(y)
  <2>1. PICK S : s.input \in Seq(S)
    BY <1>3 DEF Listed
  <2>2. k \in Nat /\ 1 <= k /\ k <= Len(s.input)
    BY <1>1, <1>3
  <2>3. y \in Seq(S)
    BY <1>2, <2>1, <2>2
  <2>4. QED
    BY <2>3 DEF Listed
<1>5. PICK c : c = [s EXCEPT !.input = x, !.reading = FALSE]
  OBVIOUS
<1>6. Beside(s, c)
  BY <1>5, BesideUnseen DEF WaitInv
<1>7. PICK d : d = IF s.lingering THEN c ELSE Ingest(c, y)
  OBVIOUS
<1>8. Beside(s, d)
  BY <1>4, <1>6, <1>7, BesideIngest, BesideTwice DEF Beside
<1>9. Beside(s, PostRecv(d))
  BY <1>8, BesidePostRecv, BesideTwice DEF Beside
<1>10. Becomes(PostRecv(d))
  <2>1. Becomes(Then(d, PostRecv))
    BY <1>1, <1>2, <1>5, <1>7
  <2>2. Then(d, PostRecv) = PostRecv(d)
    BY DEF Then
  <2>3. QED
    BY <2>1, <2>2
<1>11. QED
  BY <1>9, <1>10, BesideBecomes

\* on_recv_done: the peer has closed, or is gone.
LEMMA EofWaits == ASSUME WaitInv(s, 0, 0), Eof \/ Reset PROVE WaitInv(s', 0, 0)
<1>1. Typed(s) /\ s.recv_waiters \in Seq(Futures)
  BY DEF WaitInv, Typed
<1>2. Beside(s, Teardown(s))
  BY <1>1, BesideTeardown
<1>3. PICK c : c = [s EXCEPT !.reading = FALSE, !.disconnected = TRUE, !.recv_waiters = <<>>]
  OBVIOUS
<1>4. Beside(s, c)
  BY <1>1, <1>3 DEF Typed, Looked, Beside, ClosedSound
<1>5. PICK d : d = PushAll(c, "disconnect", s.recv_waiters)
  OBVIOUS
<1>6. Beside(s, d)
  <2>1. Typed(c) /\ "disconnect" \in EventKinds
    BY <1>4 DEF Beside, EventKinds
  <2>2. Beside(c, d)
    BY <1>1, <1>5, <2>1, BesidePushAll
  <2>3. QED
    BY <1>4, <2>2, BesideTwice
<1>7. Beside(s, Teardown(d))
  BY <1>6, BesideTeardown, BesideTwice DEF Beside
<1>8. PICK b : b = [s EXCEPT !.reading = FALSE, !.lingering = FALSE]
  OBVIOUS
<1>9. Beside(s, b)
  BY <1>1, <1>8 DEF Typed, Looked, Beside, ClosedSound
<1>10. Beside(s, MaybeFinishShutdown(b))
  <2>1. Beside(b, MaybeFinishShutdown(b))
    BY <1>9, BesideFinishShutdown DEF Beside
  <2>2. QED
    BY <1>9, <2>1, BesideTwice
<1>11. Becomes(MaybeFinishShutdown(b)) \/ Becomes(Teardown(s)) \/ Becomes(d) \/ Becomes(Teardown(d))
  <2>1. CASE Reset
    BY <2>1 DEF Reset
  <2>2. CASE Eof /\ s.lingering
    BY <1>8, <2>2 DEF Eof
  <2>3. CASE Eof /\ ~s.lingering
    BY <1>3, <1>5, <2>3 DEF Eof, Then
  <2>4. QED
    BY <2>1, <2>2, <2>3
<1>12. QED
  BY <1>2, <1>6, <1>7, <1>10, <1>11, BesideBecomes

\* on_send_done: those who wait in send() are told.
LEMMA SentWaits == ASSUME WaitInv(s, 0, 0), Sent PROVE WaitInv(s', 0, 0)
<1>1. PICK n : Becomes(SendDone([s EXCEPT !.sent = n]))
  BY DEF Sent
<1>2. PICK c : c = [s EXCEPT !.sent = n]
  OBVIOUS
<1>3. Beside(s, c) /\ Typed(c) /\ c.drain_waiters \in Seq(Futures)
  <2>1. Beside(s, c)
    BY <1>2, BesideUnseen DEF WaitInv
  <2>2. QED
    BY <2>1 DEF Beside, Typed
<1>4. PICK b : b = [c EXCEPT !.drain_waiters = <<>>]
  OBVIOUS
<1>5. Beside(c, b)
  BY <1>3, <1>4 DEF Typed, Looked, Beside, ClosedSound
<1>6. PICK d : d = PushAll(b, "drained", c.drain_waiters)
  OBVIOUS
<1>7. Beside(c, d)
  <2>1. "drained" \in EventKinds /\ Typed(b)
    BY <1>5 DEF Beside, EventKinds
  <2>2. Beside(b, d)
    BY <1>3, <1>6, <2>1, BesidePushAll
  <2>3. QED
    BY <1>5, <2>2, BesideTwice
<1>8. PICK e : e = IF Unsent(c) > Low THEN c ELSE d
  OBVIOUS
<1>9. Beside(s, e)
  BY <1>3, <1>7, <1>8, BesideTwice
<1>10. Beside(s, MaybeFinishShutdown(e))
  BY <1>9, BesideFinishShutdown, BesideTwice DEF Beside
<1>11. Beside(s, SyncReadPause(MaybeFinishShutdown(e)))
  BY <1>10, BesideSyncReadPause, BesideTwice DEF Beside
<1>12. SendDone(c) = SyncReadPause(MaybeFinishShutdown(e))
  BY <1>4, <1>6, <1>8 DEF SendDone, Then
<1>13. QED
  BY <1>1, <1>2, <1>11, <1>12, BesideBecomes

\* http_sweep ends a session; a task is cancelled.
LEMMA SweepWaits == ASSUME WaitInv(s, 0, 0), Sweep \/ \E t \in Tasks : Cancel(t) PROVE WaitInv(s', 0, 0)
<1>1. PICK c : c = Teardown(s)
  OBVIOUS
<1>2. Beside(s, c)
  BY <1>1, BesideTeardown DEF WaitInv
<1>3. CASE Sweep
  <2>1. App \in Tasks
    BY SocketAssumption DEF SocketAssumption
  <2>2. WaitInv(c, 0, 0)
    BY <1>2, BesideKeeps
  <2>3. c.tasks[App].at # "start"
    BY <2>2 DEF WaitInv, TaskInv, Early
  <2>4. WaitInv(CancelTask(c, App), 0, 0)
    BY <2>1, <2>2, <2>3, CancelTaskKeeps
  <2>5. Becomes(c) \/ Becomes(CancelTask(c, App))
    BY <1>1, <1>3 DEF Sweep
  <2>6. QED
    BY <2>2, <2>4, <2>5, BecomesWaits
<1>4. CASE \E t \in Tasks : Cancel(t)
  <2>1. PICK t \in Tasks : Cancel(t)
    BY <1>4
  <2>2. s.tasks[t].at = "start" => Queued(s, t)
    BY <2>1 DEF Cancel, Queued, Range, ToSet
  <2>3. PICK d : d = CancelTask(s, t)
    OBVIOUS
  <2>4. WaitInv(d, 0, 0)
    BY <2>2, <2>3, CancelTaskKeeps
  <2>5. PICK n : n = d.cancels - 1
    OBVIOUS
  <2>6. WaitInv([d EXCEPT !.cancels = n], 0, 0)
    BY <2>4, BesideUnseen, BesideKeeps DEF WaitInv
  <2>7. Becomes([d EXCEPT !.cancels = n])
    BY <2>1, <2>3, <2>5 DEF Cancel
  <2>8. QED
    BY <2>6, <2>7, BecomesWaits
<1>5. QED
  BY <1>3, <1>4

\* http_begin_shutdown: a close frame, or a refusal.
LEMMA ShutdownWaits == ASSUME WaitInv(s, 0, 0), Shutdown PROVE WaitInv(s', 0, 0)
<1>1. PICK c : c = [s EXCEPT !.stopping = TRUE]
  OBVIOUS
<1>2. Beside(s, c)
  BY <1>1, BesideUnseen DEF WaitInv
<1>3. PICK b : b = Enqueue(c, "close")
  OBVIOUS
<1>4. Beside(s, b) /\ Typed(b)
  BY <1>2, <1>3, BesideEnqueue, BesideTwice DEF Beside
<1>5. PICK x, y : x = Append(b.inbox, Gone) /\ y = b.inbox_bytes + 1
  OBVIOUS
<1>6. PICK d : d = [b EXCEPT !.ws_closing = TRUE, !.inbox = x, !.inbox_bytes = y]
  OBVIOUS
<1>7. Beside(b, d)
  BY <1>4, <1>6 DEF Typed, Looked, Beside, ClosedSound
<1>8. Beside(s, d)
  BY <1>4, <1>7, BesideTwice
<1>9. Beside(s, CloseAfterWrite(d)) /\ Beside(s, WakeReceivers(d))
  BY <1>8, BesideCloseAfterWrite, BesideWakeReceivers, BesideTwice DEF Beside
<1>10. Becomes(c) \/ Becomes(CloseAfterWrite(d)) \/ Becomes(WakeReceivers(d))
  BY <1>1, <1>3, <1>5, <1>6 DEF Shutdown
<1>11. QED
  BY <1>2, <1>9, <1>10, BesideBecomes

-----------------------------------------------------------------------------
(* The theorems.                                                           *)

\* The inductive invariant of the waits of a session.
WaitSound == WaitInv(s, 0, 0)

\* A fresh session: the handler runs, and nobody waits.
LEMMA WaitInit == Init => WaitSound
<1> SUFFICES ASSUME NEW sc \in Scenarios, s = Upgraded(sc) PROVE WaitInv(s, 0, 0)
  BY DEF Init, WaitSound
<1>1. /\ s.open = TRUE /\ s.accepted = FALSE /\ s.ready = <<>> /\ s.running = App /\ s.events = <<>>
      /\ s.held = [t \in Tasks |-> Nothing] /\ s.taken = [t \in Tasks |-> Nothing] /\ s.q = EmptyQueue
      /\ s.recv_waiters = <<>> /\ s.drain_waiters = <<>> /\ s.fut = [f \in Futures |-> "none"]
      /\ Looked \subseteq DOMAIN s
      /\ s.tasks = [t \in Tasks |-> IF t = App THEN [Fresh EXCEPT !.at = "run"] ELSE Fresh]
  BY DEF Upgraded, Looked
<1>2. App \in Tasks /\ Nobody \notin Tasks
  BY SocketAssumption, TaskAssumption DEF SocketAssumption, TaskAssumption
<1>3. /\ s.q.items = <<>> /\ s.q.getters = <<>> /\ s.q.putters = <<>> /\ s.q.joiners = <<>> /\ s.q.unfinished = 0
      /\ {"items", "getters", "putters", "unfinished", "joiners"} \subseteq DOMAIN s.q
  BY <1>1 DEF EmptyQueue
<1>4. \A t \in Tasks : /\ s.tasks[t].wait = NoFuture /\ ~s.tasks[t].done /\ ~s.tasks[t].owed
                       /\ s.tasks[t].at = IF t = App THEN "run" ELSE "start"
  BY <1>1 DEF Fresh
<1>5. \A t \in Tasks : s.held[t] = Nothing /\ s.taken[t] = Nothing
  BY <1>1
<1>6. s.tasks \in [Tasks -> TaskRecord]
  <2>1. "run" \in Awaits /\ "start" \in Awaits
    BY DEF Awaits
  <2>2. Fresh \in TaskRecord
    BY <2>1 DEF Fresh, TaskRecord
  <2>3. [Fresh EXCEPT !.at = "run"] \in TaskRecord
    BY <2>1 DEF Fresh, TaskRecord
  <2>4. QED
    BY <1>1, <2>2, <2>3
<1>7. s.fut \in [Futures -> Outcomes]
  BY <1>1 DEF Outcomes
<1>8. QueueShape(s.q)
  BY <1>3, ListedEmpty DEF QueueShape
<1>9. Typed(s)
  BY <1>1, <1>2, <1>6, <1>7, <1>8 DEF Typed
<1>10. ToSet(s.ready) = {} /\ IsInjective(s.ready)
  BY <1>1 DEF ToSet, IsInjective
<1>11. TaskInv(s)
  BY <1>1, <1>2, <1>4, <1>10 DEF TaskInv, OwnFutures, Early, TaskOk, Queued, Coming, Asleep
<1>12. ToSet(s.q.getters) = {} /\ ToSet(s.q.putters) = {}
  BY <1>3 DEF ToSet
<1>13. ParkedIn(s, s.q.getters) = {} /\ ParkedIn(s, s.q.putters) = {} /\ ParkedIn(s, s.q.joiners) = {}
  BY <1>3 DEF ParkedIn, Range
<1>14. Working(s) = {} /\ Len(s.q.items) = 0
  BY <1>3, <1>5 DEF Working
<1>15. Counted(s)
  BY <1>3, <1>14, FS_EmptySet DEF Counted
<1>16. RolesSound(s) /\ ClosedSound(s)
  BY <1>1, <1>4, <1>5 DEF RolesSound, ClosedSound
<1>17. QED
  BY <1>9, <1>11, <1>12, <1>13, <1>15, <1>16 DEF WaitInv, Backed, GettersServed, PuttersServed, JoinersServed

\* Every step of the loop, the handler and the peer keeps it.
LEMMA WaitNext == WaitSound /\ SessionSound /\ [Next]_vars => WaitSound'
<1> SUFFICES ASSUME WaitInv(s, 0, 0), SessionSound, [Next]_vars PROVE WaitInv(s', 0, 0)
  BY DEF WaitSound
<1>1. ASSUME NEW t \in Tasks, HandlerCode(t) PROVE WaitInv(s', 0, 0)
  <2>1. Roomy(s)
    BY <1>1 DEF HandlerCode, FutureLeft, Roomy
  <2>2. QED
    BY <1>1, <2>1, CallReceiveWaits, AwaitTakenWaits, KeepTakenWaits, AcceptWaits, CloseWaits, QueueCallsWait,
       SendWaits, EndWaits DEF HandlerCode
<1>2. CASE Progress
  <2>1. RunReady => Roomy(s)
    BY DEF RunReady, FutureLeft, Roomy
  <2>2. QED
    BY <1>1, <1>2, <2>1, RunReadyWaits, DispatchWaits, ReadWaits, SentWaits, SweepWaits DEF Progress
<1>3. CASE Eof \/ Reset \/ Shutdown \/ (\E t \in Tasks : Cancel(t))
  BY <1>3, EofWaits, ShutdownWaits, SweepWaits
<1>4. CASE UNCHANGED vars
  BY <1>4 DEF vars
<1>5. QED
  BY <1>2, <1>3, <1>4 DEF Next

\* The inductive invariant holds always.
THEOREM WaitsAreSound == Spec => []WaitSound
  BY WaitInit, WaitNext, SessionIsSound, PTL DEF Spec

\* AppTask::cancel races the wake-up of receive(), send(), get(), put() and
\* join() (ws_wake, FastQueue's wake_next): whichever comes first, what was
\* asked for is on its way until step_body throws it, and no task is in the
\* ready queue twice.
THEOREM CancelsAreNotLost == Spec => []CancelNotLost
<1>1. WaitSound => CancelNotLost
  <2> SUFFICES ASSUME WaitInv(s, 0, 0) PROVE CancelNotLost
    BY DEF WaitSound
  <2>1. TaskInv(s) /\ IsInjective(s.ready)
    BY DEF WaitInv, TaskInv
  <2>2. ToSet(s.ready) = Range(s.ready)
    BY DEF WaitInv, Typed, ToSet, Range
  <2>3. QED
    BY <2>1, <2>2 DEF TaskInv, TaskOk, Coming, Queued, CancelNotLost
<1>2. QED
  BY <1>1, WaitsAreSound, PTL

\* Nobody waits for what is there, whoever is cancelled between a wake-up and
\* the await it wakes: a receive() is parked beside an empty inbox only, a
\* getter (putter) of the queue only while every item (slot) has a woken one
\* on its way to it, a join() only while something is unfinished (ws_wake and
\* WsRecv::abandon; FastQueue's put_now, get_now, task_done and recoveries).
THEOREM NobodyIsStranded == Spec => []NoStrandedWaiter
<1>1. WaitSound /\ SessionSound => NoStrandedWaiter
  <2> SUFFICES ASSUME WaitInv(s, 0, 0), SessionInv(s) PROVE NoStrandedWaiter
    BY DEF WaitSound, SessionSound
  <2>1. s.inbox = <<>> \/ s.recv_waiters = <<>>
    BY DEF WaitInv, SessionInv, ClosedSound, MailSound
  <2>2. s.recv_waiters = <<>> => ParkedIn(s, s.recv_waiters) = {}
    BY DEF ParkedIn, Range
  <2>3. Len(s.q.items) \in Nat /\ Cardinality(WokenIn(s, "get")) \in Nat /\ Cardinality(WokenIn(s, "put")) \in Nat
    BY QueueNumbers DEF WaitInv
  <2>4. QueueServed(s)
    BY <2>3 DEF WaitInv, GettersServed, PuttersServed, JoinersServed, QueueServed
  <2>5. QED
    BY <2>1, <2>2, <2>4 DEF NoStrandedWaiter
<1>2. QED
  BY <1>1, WaitsAreSound, SessionIsSound, PTL

=============================================================================
