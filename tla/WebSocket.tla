------------------------------ MODULE WebSocket ------------------------------
(***************************************************************************)
(* A WebSocket session of the native engine (pyshim/src/http.rs, core's    *)
(* ws.rs, the WebSocket parts of net.rs) with the handler that serves it.  *)
(* The upgrade has been dispatched: the engine has parsed the request and  *)
(* runs the handler's coroutine.  The handler and the tasks it starts read *)
(* messages with receive() and put them on a cadeloop.Queue; others get    *)
(* them from it and send them back, or join it.  Any task may be cancelled *)
(* at any time; the peer may close, vanish or stop, the server shut down.  *)
(*                                                                         *)
(* `s' is the connection's part of NetState, the tasks, the queue and the  *)
(* wire.  Functions of the code are operators from s to the s they leave.  *)
(* Message n is the n-th the frame parser assembled; a frame that is       *)
(* sent is its kind and the message it carries.                            *)
(***************************************************************************)
EXTENDS FastQueue

CONSTANTS
  Scenarios,    \* what may happen: see below
  App,          \* the handler's own task
  MaxInbox,     \* WS_MAX_INBOX, in messages
  MaxTrailing,  \* WS_MAX_MESSAGE for what comes before accept, in frames
  High, Low,    \* water marks, in frames
  Batch         \* bound on the frames of one read

\* What the peer sends: a message, the first and the last fragment of one, a
\* ping, a pong, a close frame, a frame that breaks the protocol.
Frames == {"text", "part", "cont", "ping", "pong", "close", "bad"}
Roles == {"reader", "writer", "joiner", "none"}
Calls == {"keep", "close", "return", "raise", "reject", "eof", "reset", "shutdown"}

\* A behaviour keeps to one scenario: the peer's frames, the part each task
\* plays, whether the timeout sweep runs, how many cancellations there may be
\* and the calls that are made.
Scenario == [input : Seq(Frames), role : [Tasks -> Roles], timeouts : BOOLEAN, cancels : Nat,
             may : SUBSET Calls]

ASSUME SocketAssumption ==
  /\ Scenarios \subseteq Scenario /\ App \in Tasks
  /\ {MaxInbox, Batch} \subseteq Nat \ {0} /\ {MaxTrailing, High, Low} \subseteq Nat
  /\ Low <= High

VARIABLE s
vars == <<s>>

\* What a task can hold besides a message.
Nothing == 0
Gone == -1      \* websocket.disconnect
Connect == -2   \* websocket.connect
Echoed == -3    \* a message that is sent and not yet marked done

\* The connection as the pump leaves it when the handler's first step
\* begins: an upgrade was parsed, ws set, nothing answered.
Upgraded(sc) ==
  [may |-> sc.may, role |-> sc.role, timeouts |-> sc.timeouts, input |-> sc.input,
   open |-> TRUE, closing |-> FALSE, lingering |-> FALSE, fin |-> FALSE, reading |-> TRUE, \* TransportEntry
   active |-> TRUE, disconnected |-> FALSE, recv_waiters |-> <<>>, drain_waiters |-> <<>>, \* HttpConn
   trailing |-> <<>>,
   connect_sent |-> FALSE, accepted |-> FALSE, ws_closing |-> FALSE, app_closed |-> FALSE, \* WsConn
   inbox |-> <<>>, inbox_bytes |-> 0, inbox_paused |-> FALSE,
   frag |-> FALSE, ended |-> FALSE,                                                        \* WsRx
   events |-> <<>>, out |-> <<>>, sent |-> 0,
   fut |-> [f \in Futures |-> "none"], ready |-> <<>>, running |-> App,
   tasks |-> [t \in Tasks |-> IF t = App THEN [Fresh EXCEPT !.at = "run"] ELSE Fresh],
   held |-> [t \in Tasks |-> Nothing], taken |-> [t \in Tasks |-> Nothing], q |-> EmptyQueue,
   assembled |-> 0, got |-> <<>>, returned |-> {}, gone |-> {}, cancels |-> sc.cancels, stopping |-> FALSE]  \* history

Init == \E sc \in Scenarios : s = Upgraded(sc)

May(call) == call \in s.may
Push(c, e) == [c EXCEPT !.events = Append(@, e)]
PushAll(c, kind, futs) ==
  [c EXCEPT !.events = @ \o [k \in 1..Len(futs) |-> [kind |-> kind, fut |-> futs[k]]]]

Unsent(c) == Len(c.out) - c.sent
Numbers(seq) == {m \in Range(seq) : m > 0}

\* The futures somebody holds.
Holds(c) ==
  {c.tasks[t].wait : t \in Tasks} \cup Range(c.recv_waiters) \cup Range(c.drain_waiters)
  \cup {e.fut : e \in Range(c.events)} \cup QueueHolds(c)
NextFuture(c) == NewFuture(Holds(c))

\* The bound Futures sets: a task runs while one is left for it to park on.
FutureLeft == Futures \ Holds(s) # {}

-----------------------------------------------------------------------------
(* The transport.                                                          *)

\* teardown_lost: parked waiters are released by events; unread messages
\* go with the connection.
Teardown(c) ==
  IF ~c.open THEN c
  ELSE Then([c EXCEPT !.open = FALSE, !.reading = FALSE, !.disconnected = TRUE,
                      !.recv_waiters = <<>>, !.drain_waiters = <<>>,
                      !.inbox = <<>>, !.gone = @ \cup Numbers(c.inbox)],
            LAMBDA d : PushAll(PushAll(d, "drained", c.drain_waiters), "disconnect", c.recv_waiters))

\* post_recv: a paused connection does not read, nor a closing one that
\* does not linger.
PostRecv(c) ==
  IF ~c.open \/ c.inbox_paused \/ (c.closing /\ ~c.lingering) THEN c ELSE [c EXCEPT !.reading = TRUE]

\* maybe_finish_shutdown
MaybeFinishShutdown(c) ==
  IF ~c.open \/ ~c.closing \/ Unsent(c) > 0 THEN c
  ELSE IF ~c.lingering THEN Teardown(c)
  ELSE IF c.fin THEN c
  ELSE PostRecv([c EXCEPT !.fin = TRUE])

\* http_enqueue_raw: nothing follows a close.
Frame(kind, m) == [kind |-> kind, msg |-> m]
EnqueueFrame(c, frame) == IF ~c.open \/ c.closing THEN c ELSE [c EXCEPT !.out = Append(@, frame)]
Enqueue(c, kind) == EnqueueFrame(c, Frame(kind, Nothing))

\* http_close_after_write
CloseAfterWrite(c) ==
  LET linger == c.timeouts /\ ~c.disconnected
  IN IF ~c.open \/ c.closing THEN c
     ELSE Then([c EXCEPT !.closing = TRUE, !.lingering = linger, !.reading = @ /\ linger],
               MaybeFinishShutdown)

\* ws_sync_read_pause: the one place that decides whether the session
\* reads, from what the application has not taken and what the peer has
\* not read.
SyncReadPause(c) ==
  LET pause == IF c.inbox_paused THEN c.inbox_bytes * 2 >= MaxInbox \/ Unsent(c) > Low
               ELSE c.inbox_bytes >= MaxInbox \/ Unsent(c) > High
  IN IF ~c.open \/ pause = c.inbox_paused THEN c
     ELSE Then([c EXCEPT !.inbox_paused = pause], LAMBDA d : IF pause THEN d ELSE PostRecv(d))

\* Every parked receive() is woken by an event of its own.
WakeReceivers(c) ==
  IF ~c.open THEN c ELSE PushAll([c EXCEPT !.recv_waiters = <<>>], "ws_wake", c.recv_waiters)

-----------------------------------------------------------------------------
(* Frames that arrive.                                                     *)

\* A message joins the inbox, charged to its budget.
Assembled(c) ==
  [c EXCEPT !.assembled = @ + 1, !.inbox = Append(@, c.assembled + 1), !.inbox_bytes = @ + 1]

\* The peer closed or broke the protocol: answered with a close frame
\* unless one is out already; nothing after it is parsed.
PeerEnds(c) ==
  Then(IF c.ws_closing THEN c ELSE Enqueue([c EXCEPT !.ws_closing = TRUE], "close"),
       LAMBDA d : [d EXCEPT !.ended = TRUE, !.inbox = Append(@, Gone)])

\* WsRx::parse_one and the arm of ws_ingest for what it yields: a fragment
\* out of its place breaks the protocol.
Parse(c, frame) ==
  CASE frame = "pong" -> c
    [] frame = "ping" -> Enqueue(c, "pong")
    [] frame = "text" /\ ~c.frag -> Assembled(c)
    [] frame = "cont" /\ c.frag -> Assembled([c EXCEPT !.frag = FALSE])
    [] frame = "part" /\ ~c.frag -> [c EXCEPT !.frag = TRUE]
    [] OTHER -> PeerEnds(c)

\* WsRx::push: nothing behind the peer's close, or its error, is parsed.
ParseAll(c, batch) ==
  LET after[i \in 0..Len(batch)] ==
        IF i = 0 THEN c
        ELSE Then(after[i - 1], LAMBDA d : IF d.ended THEN d ELSE Parse(d, batch[i]))
  IN after[Len(batch)]

\* ws_ingest: frames ahead of the accept wait for it, up to a limit.
Ingest(c, batch) ==
  IF ~c.open THEN c
  ELSE IF ~c.accepted
  THEN IF Len(c.trailing) + Len(batch) > MaxTrailing
       THEN CloseAfterWrite(Enqueue([c EXCEPT !.trailing = <<>>], "error"))
       ELSE [c EXCEPT !.trailing = @ \o batch]
  ELSE Then(ParseAll(c, batch), LAMBDA d :
         Then(IF d.ended /\ ~c.ended THEN CloseAfterWrite(d) ELSE d, LAMBDA e :
           Then(IF Len(d.inbox) > Len(c.inbox) THEN WakeReceivers(e) ELSE e, SyncReadPause)))

-----------------------------------------------------------------------------
(* receive().                                                              *)

\* The front message leaves the inbox.
PopInbox(c) ==
  SyncReadPause([c EXCEPT !.inbox = Tail(@), !.inbox_bytes = IF @ > 0 THEN @ - 1 ELSE 0,
                          !.got = IF Head(c.inbox) > 0 THEN Append(@, Head(c.inbox)) ELSE @])

\* park_recv_waiter_pending, and WsRecv yielding the waiter to its task.
ParkReceiver(c, t, f) ==
  Await([c EXCEPT !.fut[f] = "pending",
                  !.recv_waiters = Append(Only(@, PendingOnes(c)), f)], t, "recv", f)

\* HttpReceive.__call__: what it takes off the connection can be put back
\* until it is awaited.
Receive(c, t) ==
  IF ~c.open THEN [c EXCEPT !.held[t] = Gone]
  ELSE IF ~c.connect_sent THEN [c EXCEPT !.connect_sent = TRUE, !.taken[t] = Connect]
  ELSE IF c.inbox # <<>> THEN PopInbox([c EXCEPT !.taken[t] = Head(c.inbox)])
  ELSE IF c.disconnected THEN [c EXCEPT !.held[t] = Gone]
  ELSE ParkReceiver(c, t, NextFuture(c))

\* WsRecv.resume: a woken receive() takes the front message itself, and
\* waits again when another was faster.
ResumeReceive(c, t, result) ==
  IF result = "gone" \/ ~c.open THEN [c EXCEPT !.held[t] = Gone]
  ELSE IF c.inbox # <<>> THEN PopInbox([c EXCEPT !.held[t] = Head(c.inbox)])
  ELSE IF c.disconnected THEN [c EXCEPT !.held[t] = Gone]
  ELSE ParkReceiver(c, t, NextFuture(c))

\* WsRecv.abandon: a wake-up that will not be used goes to the others.
Abandon(c, result) ==
  IF result = "none" /\ c.open /\ c.inbox # <<>> THEN WakeReceivers(c) ELSE c

\* Mutant: a message nobody awaited is dropped with its awaitable.
Mut_PutBackLoses(c, t) == [c EXCEPT !.taken[t] = Nothing, !.returned = @ \cup Numbers(<<c.taken[t]>>)]

\* Taken.put_back: a message nobody awaited returns to the front.
PutBack(c, t) ==
  LET m == c.taken[t]
      dropped == [c EXCEPT !.taken[t] = Nothing, !.returned = @ \cup Numbers(<<m>>),
                           !.got = SelectSeq(@, LAMBDA g : g # m)]
  IN IF m = Nothing THEN c
     ELSE IF ~c.open THEN [dropped EXCEPT !.gone = @ \cup Numbers(<<m>>)]
     ELSE IF m = Connect THEN [dropped EXCEPT !.connect_sent = FALSE]   \* nobody waits yet
     ELSE SyncReadPause(WakeReceivers([dropped EXCEPT !.inbox = <<m>> \o @, !.inbox_bytes = @ + 1]))

-----------------------------------------------------------------------------
(* The handler's end of the session.                                       *)

\* finish_request: whoever still waits in receive() is told.
FinishRequest(c) ==
  IF ~c.open THEN c
  ELSE ResolveAll([c EXCEPT !.active = FALSE, !.recv_waiters = <<>>], c.recv_waiters, "gone")

\* Mutant: a session that is closing already is left to the peer.
Mut_EndSessionOpen(c) ==
  LET answered == [c EXCEPT !.accepted = TRUE, !.ws_closing = TRUE]
  IN IF ~c.open THEN [c EXCEPT !.active = FALSE]
     ELSE IF ~c.accepted THEN FinishRequest(CloseAfterWrite(Enqueue(answered, "error")))
     ELSE IF c.ws_closing THEN FinishRequest(c)
     ELSE FinishRequest(CloseAfterWrite(Enqueue(answered, "close")))

\* ws_app_done and the WebSocket arm of fail_request: a session that was
\* never accepted is refused, one still open gets its close frame.
EndSession(c) ==
  LET answered == [c EXCEPT !.accepted = TRUE, !.ws_closing = TRUE]
  IN IF ~c.open THEN [c EXCEPT !.active = FALSE]
     ELSE Then(IF ~c.accepted THEN Enqueue(answered, "error")
               ELSE IF ~c.ws_closing THEN Enqueue(answered, "close") ELSE c,
               LAMBDA d : FinishRequest(CloseAfterWrite(d)))

\* The coroutine of task t ends: what it took and did not await returns,
\* what it held is dropped with it.
TaskEnds(c, t) ==
  Then(PutBack(c, t), LAMBDA d :
    Then([Finish(d, t) EXCEPT !.gone = @ \cup Numbers(<<d.held[t]>>), !.held[t] = Nothing], LAMBDA e :
      IF t = App THEN EndSession(e) ELSE e))

-----------------------------------------------------------------------------
(* Actions.  Collect forgets the futures that a step let go of.            *)

Becomes(c) == s' = Then(c, LAMBDA d : Collect(d, Holds(d)))

\* The handler's own code runs in the step of one task at a time.
Running(t) == s.running = t
Role(t) == s.role[t]
Free(t) == Running(t) /\ s.tasks[t].at = "run" /\ s.taken[t] = Nothing

\* A reader calls receive(), then awaits what it was given at once, or
\* yields first and then awaits or forgets it.
CallReceive(t) ==
  /\ Free(t) /\ Role(t) = "reader" /\ s.held[t] = Nothing
  /\ Becomes(Receive(s, t))

AwaitTaken(t) ==
  /\ Running(t) /\ s.tasks[t].at # "caught" /\ s.taken[t] # Nothing
  /\ Becomes([s EXCEPT !.held[t] = s.taken[t], !.taken[t] = Nothing, !.tasks[t].at = "run"])

KeepTaken(t) ==
  /\ May("keep") /\ Running(t) /\ s.tasks[t].at = "run"
  /\ s.taken[t] # Nothing /\ s.taken[t] \notin s.returned
  /\ Becomes(Yield(s, t, "kept"))

DropTaken(t) ==
  /\ Running(t) /\ s.tasks[t].at = "kept"
  /\ Becomes([PutBack(s, t) EXCEPT !.tasks[t].at = "run"])

\* ws_send, websocket.accept: frames that came before it are read now; the
\* handler then starts its other tasks.  A second one raises.
Accept(t) ==
  /\ Free(t) /\ s.held[t] = Connect
  /\ LET accepted == [s EXCEPT !.accepted = TRUE, !.held[t] = Nothing, !.trailing = <<>>]
         others == SetToSeq({u \in Tasks \ {App} : Role(u) # "none"})
     IN Becomes(IF ~s.open \/ s.accepted THEN TaskEnds(s, t)
                ELSE Then(Ingest(Enqueue(accepted, "accept"), s.trailing), LAMBDA d :
                            [d EXCEPT !.ready = @ \o others]))

\* ws_send, websocket.close: before the accept it is a refusal.
Close(t) ==
  /\ Free(t) /\ t = App /\ s.open /\ ~s.app_closed
  /\ IF s.held[t] = Connect THEN May("reject") ELSE May("close") /\ s.accepted
  /\ LET closed == [s EXCEPT !.app_closed = TRUE, !.accepted = TRUE, !.ws_closing = TRUE,
                             !.held[t] = IF @ = Connect THEN Nothing ELSE @]
     IN Becomes(CloseAfterWrite(IF ~s.accepted THEN Enqueue(closed, "error")
                                ELSE IF ~s.ws_closing THEN Enqueue(closed, "close") ELSE closed))

\* Queue.put and Queue.get, one turn of their loops; Queue.join.
QueuePut(c, t) ==
  IF IsFull(c) THEN ParkPutter(c, t, NextFuture(c))
  ELSE PutNow([c EXCEPT !.held[t] = Nothing], c.held[t])

QueueGet(c, t) ==
  IF c.q.items = <<>> THEN ParkGetter(c, t, NextFuture(c))
  ELSE GetNow([c EXCEPT !.held[t] = Head(c.q.items)])

Put(t) ==
  /\ Free(t) /\ Role(t) = "reader" /\ s.held[t] > 0
  /\ Becomes(QueuePut(s, t))

Get(t) ==
  /\ Free(t) /\ Role(t) = "writer" /\ s.held[t] = Nothing
  /\ Becomes(QueueGet(s, t))

Join(t) ==
  /\ Free(t) /\ Role(t) = "joiner"
  /\ Becomes(IF s.q.unfinished = 0 THEN TaskEnds(s, t) ELSE ParkJoiner(s, t, NextFuture(s)))

\* Mutant: the close frame of a shutdown does not keep messages back.
Mut_SendableWhileClosing(c) == c.open /\ c.accepted

\* HttpSend.__call__ and ws_send, websocket.send: an OSError once the
\* session closes; past the high water mark the sender waits.
Sendable(c) == c.open /\ c.accepted /\ ~c.ws_closing

ParkDrain(c, t, f) ==
  Await([c EXCEPT !.fut[f] = "pending",
                  !.drain_waiters = Append(Only(@, PendingOnes(c)), f)], t, "drain", f)

Send(t) ==
  /\ Free(t) /\ Role(t) = "writer" /\ s.held[t] > 0
  /\ LET sent == [EnqueueFrame(s, Frame("message", s.held[t])) EXCEPT !.held[t] = Echoed]
     IN Becomes(IF ~Sendable(s) THEN TaskEnds(s, t)
                ELSE IF Unsent(sent) > High THEN ParkDrain(sent, t, NextFuture(sent)) ELSE sent)

MarkDone(t) ==
  /\ Free(t) /\ Role(t) = "writer" /\ s.held[t] = Echoed
  /\ Becomes(TaskDone([s EXCEPT !.held[t] = Nothing]))

\* A reader ends when it is told that the peer is gone; the handler may
\* also return or raise at any time.
End(t) ==
  /\ Free(t)
  /\ \/ Role(t) = "reader" /\ s.held[t] = Gone
     \/ t = App /\ (May("return") \/ May("raise"))
  /\ Becomes(TaskEnds(s, t))

\* A task that caught its cancellation goes on, or ends with it.
GoOn(t) ==
  /\ Running(t) /\ s.tasks[t].at = "caught"
  /\ \/ Becomes([s EXCEPT !.tasks[t].at = "run"])
     \/ Becomes(TaskEnds(s, t))

HandlerCode(t) ==
  /\ FutureLeft
  /\ \/ CallReceive(t) \/ AwaitTaken(t) \/ KeepTaken(t) \/ DropTaken(t) \/ Accept(t) \/ Close(t)
     \/ Put(t) \/ Get(t) \/ Join(t) \/ Send(t) \/ MarkDone(t) \/ End(t) \/ GoOn(t)

\* What an await does with the CancelledError thrown into it.
Caught(c, t, at, f, result) ==
  Then(CASE at = "recv" -> Abandon(c, result)
         [] at = "get" -> GetterRecovery(c, f)
         [] at = "put" -> PutterRecovery(c, f)
         [] at = "join" -> Unjoin(c, f)
         [] at = "kept" -> PutBack(c, t)
         [] OTHER -> c,
       LAMBDA d : IF at = "start" THEN Finish(d, t) ELSE [d EXCEPT !.tasks[t].at = "caught"])

\* What an await does when its future was resolved.
Resumed(c, t, at, result) ==
  CASE at = "recv" -> ResumeReceive(c, t, result)
    [] at = "get" -> QueueGet(c, t)
    [] at = "put" -> QueuePut(c, t)
    [] at = "join" -> TaskEnds(c, t)
    [] at = "kept" -> [c EXCEPT !.tasks[t].at = "kept"]
    [] OTHER -> c

\* The loop runs the wake-up at the head of its ready queue.
RunReady ==
  /\ FutureLeft /\ s.running = Nobody /\ s.ready # <<>>
  /\ LET t == Head(s.ready)
         at == s.tasks[t].at
         f == s.tasks[t].wait
         result == IF f = NoFuture THEN "none" ELSE s.fut[f]
     IN Becomes(IF Thrown(s, t) THEN Caught(Step(s, t), t, at, f, result)
                ELSE Resumed(Step(s, t), t, at, result))

\* Mutant: a receive() whose connection went away in the meantime is parked
\* on it all the same.
Mut_WakeParksOnGone(c, f) ==
  IF c.open /\ c.inbox # <<>> THEN Resolve(c, f, "none")
  ELSE IF ~c.open \/ ~c.disconnected THEN [c EXCEPT !.recv_waiters = Append(@, f)]
  ELSE Resolve(c, f, "gone")

\* ws_wake
WsWake(c, f) ==
  IF c.open /\ c.inbox # <<>> THEN Resolve(c, f, "none")
  ELSE IF c.open /\ ~c.disconnected THEN [c EXCEPT !.recv_waiters = Append(@, f)]
  ELSE Resolve(c, f, "gone")

\* dispatch_events, one event.
Dispatch ==
  /\ s.running = Nobody /\ s.events # <<>>
  /\ LET e == Head(s.events)
         rest == [s EXCEPT !.events = Tail(@)]
     IN Becomes(IF ~Pending(s, e.fut) THEN rest
                ELSE IF e.kind = "ws_wake" THEN WsWake(rest, e.fut)
                ELSE Resolve(rest, e.fut, IF e.kind = "disconnect" THEN "gone" ELSE "none"))

-----------------------------------------------------------------------------
(* The network, the timer and the server.                                  *)

\* on_recv_done: what a lingering connection reads is discarded.
Read ==
  /\ s.running = Nobody /\ s.open /\ s.reading /\ s.input # <<>>
  /\ \E k \in 1..Batch :
       /\ k <= Len(s.input)
       /\ LET rest == [s EXCEPT !.input = SubSeq(@, k + 1, Len(@)), !.reading = FALSE]
              batch == SubSeq(s.input, 1, k)
          IN Becomes(Then(IF s.lingering THEN rest ELSE Ingest(rest, batch), PostRecv))

\* on_recv_done, the peer's end of stream or an error.
Eof ==
  /\ May("eof") /\ s.running = Nobody /\ s.open /\ s.reading /\ s.input = <<>>
  /\ Becomes(IF s.lingering THEN MaybeFinishShutdown([s EXCEPT !.reading = FALSE, !.lingering = FALSE])
             ELSE LET told == [s EXCEPT !.reading = FALSE, !.disconnected = TRUE, !.recv_waiters = <<>>]
                  IN Then(PushAll(told, "disconnect", s.recv_waiters), LAMBDA d :
                       IF d.active THEN d ELSE Teardown(d)))

Reset ==
  /\ May("reset") /\ s.running = Nobody /\ s.open
  /\ Becomes(Teardown(s))

\* Mutant: only receive() looks whether reading may go on.
Mut_SendDoneNoSync(c) ==
  Then(IF Unsent(c) > Low THEN c
       ELSE PushAll([c EXCEPT !.drain_waiters = <<>>], "drained", c.drain_waiters),
       MaybeFinishShutdown)

\* on_send_done, behind the bytes it accounts for.
SendDone(c) ==
  Then(Then(IF Unsent(c) > Low THEN c
            ELSE PushAll([c EXCEPT !.drain_waiters = <<>>], "drained", c.drain_waiters),
            MaybeFinishShutdown), SyncReadPause)

Sent ==
  /\ s.running = Nobody /\ s.open /\ Unsent(s) > 0
  /\ \E n \in {s.sent + 1, Len(s.out)} : Becomes(SendDone([s EXCEPT !.sent = n]))

\* http_sweep: a lingering connection's time is up, or the handler of a
\* peer that is gone is reclaimed.
Sweep ==
  /\ s.timeouts /\ s.running = Nobody /\ s.open
  /\ \/ s.lingering /\ s.fin /\ Becomes(Teardown(s))
     \/ ~s.closing /\ s.disconnected /\ Unsent(s) = 0 /\ Becomes(CancelTask(Teardown(s), App))

\* http_begin_shutdown: a session is told, and closed at once when nobody
\* waits to hear of it.
Shutdown ==
  /\ May("shutdown") /\ s.running = Nobody /\ ~s.stopping /\ s.open /\ ~s.closing
  /\ LET told == [Enqueue([s EXCEPT !.stopping = TRUE], "close") EXCEPT
                     !.ws_closing = TRUE, !.inbox = Append(@, Gone), !.inbox_bytes = @ + 1]
     IN Becomes(IF ~s.accepted \/ s.ws_closing THEN [s EXCEPT !.stopping = TRUE]
                ELSE IF s.recv_waiters = <<>> THEN CloseAfterWrite(told) ELSE WakeReceivers(told))

\* A task is cancelled, by a timeout or another task, or by itself.
Cancel(t) ==
  /\ s.cancels > 0 /\ ~s.tasks[t].done
  /\ s.tasks[t].at = "start" => t \in Range(s.ready)
  /\ Becomes([CancelTask(s, t) EXCEPT !.cancels = @ - 1])

Progress == (\E t \in Tasks : HandlerCode(t)) \/ RunReady \/ Dispatch \/ Read \/ Sent \/ Sweep
Next == Progress \/ Eof \/ Reset \/ Shutdown \/ (\E t \in Tasks : Cancel(t))

Spec == Init /\ [][Next]_vars

\* The loop keeps running, the peer keeps reading and the sweep comes
\* round; the handler runs on.  Every behaviour ends, so this is all.
FairSpec == Spec /\ WF_vars(Progress)

-----------------------------------------------------------------------------
(* Properties.                                                             *)

\* How often message m is somewhere between the frame parser and the wire.
Places(m) ==
  LET in(seq) == Len(SelectSeq(seq, LAMBDA x : x = m))
      by(f) == Cardinality({t \in Tasks : f[t] = m})
      echoed == Len(SelectSeq(s.out, LAMBDA x : x.msg = m))
  IN in(s.inbox) + by(s.taken) + by(s.held) + in(s.q.items) + echoed + Cardinality(s.gone \cap {m})

\* Every message the peer completed is in one place and one only, whoever
\* was cancelled where: in the inbox, with a task, in the queue, echoed, or
\* gone with the task that held it or the connection.  Messages that were
\* not put back are taken in the order they came.
MessagesSound ==
  /\ \A m \in 1..s.assembled : Places(m) = 1
  /\ \A i, j \in 1..Len(s.got) : i < j => s.got[i] < s.got[j] \/ s.got[i] \in s.returned
                                            \/ s.got[j] \in s.returned

\* Nobody waits for what is already there: a receive() is parked only
\* beside an empty inbox; a parked getter (putter) of the queue only while
\* every item (free slot) has a woken one on its way to it.
NoStrandedWaiter ==
  /\ ParkedIn(s, s.recv_waiters) # {} => s.inbox = <<>>
  /\ QueueServed(s)

\* A cancellation that was asked for is on its way until it is delivered,
\* and no task is woken twice for one await.
CancelNotLost ==
  /\ \A t \in Tasks : s.tasks[t].owed => Thrown(s, t) /\ (s.running = t \/ t \in Range(s.ready))
  /\ IsInjective(s.ready)

\* The wire: one answer to the upgrade; no message and no second close frame
\* behind a close frame.
WireSound ==
  /\ s.out # <<>> => s.out[1].kind \in {"accept", "error"}
  /\ \A i, j \in 1..Len(s.out) : i < j =>
       s.out[i].kind # "error" /\ (s.out[i].kind = "close" => s.out[j].kind = "pong")
                               /\ s.out[j].kind # "accept"

\* A healthy session that does not read has a reason to: messages nobody
\* took or frames the peer did not read.
ReadsUnlessPressed ==
  s.open /\ ~s.closing /\ ~s.disconnected /\ ~s.reading =>
    s.inbox_bytes * 2 >= MaxInbox \/ Unsent(s) > Low

\* Whoever waits in receive() or send() when the connection is gone is told.
Waits(t) == s.tasks[t].at \in {"recv", "drain"}
EveryoneTold == \A t \in Tasks : (~s.open /\ Waits(t)) ~> ~Waits(t)

\* When the handler has ended, so does the connection.
SessionEnds == ~s.active ~> ~s.open
=============================================================================
