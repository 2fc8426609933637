---------------------------- MODULE HttpConnection ----------------------------
(***************************************************************************)
(* One native HTTP connection (pyshim/src/http.rs and the HTTP parts of    *)
(* net.rs): bytes are parsed into pipelined requests, a pump runs the      *)
(* application's coroutine for one request at a time, receive() and send() *)
(* act on the connection while it is still theirs, and the connection is   *)
(* closed by its last response, its peer, the timeout sweep or a shutdown. *)
(*                                                                         *)
(* `s' is the connection's part of NetState, the coroutines of its         *)
(* requests and the wire.  Functions of the code are operators from s to   *)
(* the s they leave.  Request n is the n-th the parser completed; requests *)
(* are dispatched in that order, so n is also its epoch.  What is sent is  *)
(* a sequence of items, one per buffer.                                    *)
(***************************************************************************)
EXTENDS Integers, Sequences, FiniteSets, SequencesExt

CONSTANTS
  Scenarios,   \* what may happen: see below
  Requests,    \* bound on requests, as an interval from 1
  Depth,       \* MAX_PIPELINE_DEPTH (64)
  Quantum,     \* PUMP_QUANTUM (16)
  High, Low,   \* water marks, in items
  MaxItems,    \* bound on the items of one response
  MaxWaits     \* bound on the suspensions of one coroutine

\* What the peer sends: the start of a head; a head that expects 100
\* Continue; the rest of a request that keeps the connection or closes it;
\* an upgrade that is refused; bytes that do not parse; under TLS, the end of
\* the handshake, a record without data and the close_notify.
Tokens == {"start", "expect", "keep", "close", "upgrade", "bad", "hello", "record", "bye"}
Calls == {"receive", "beside", "drop", "chunks", "trailers", "say_close", "other", "raise", "cancel",
          "eof", "reset", "sweep", "shutdown"}

\* A behaviour keeps to one scenario: what the peer sends, the configuration
\* (eager tasks, TLS, timeouts) and the calls that are made.
Scenario == [input : Seq(Tokens), eager : BOOLEAN, tls : BOOLEAN, timeouts : BOOLEAN,
             may : SUBSET Calls]

ASSUME HttpAssumption ==
  /\ Scenarios \subseteq Scenario
  /\ IsFiniteSet(Requests) /\ Requests = 1..Cardinality(Requests)
  /\ Depth \in Nat \ {0} /\ Quantum \in Nat \ {0} /\ {High, Low, MaxItems, MaxWaits} \subseteq Nat
  /\ Low <= High

VARIABLE s
vars == <<s>>

Nobody == 0
Idle == [app |-> Nobody, from |-> "loop", ran |-> 0]

\* HttpConn::new on a fresh transport with its first receive posted.
Wired(c) ==
  [may |-> c.may, eager |-> c.eager, tls |-> c.tls, timeouts |-> c.timeouts,
   input |-> c.input,                                     \* not yet read
   open |-> TRUE, closing |-> FALSE, lingering |-> FALSE, \* TransportEntry
   fin |-> FALSE, reading |-> TRUE, ended |-> "no",
   in_head |-> FALSE, expecting |-> FALSE, owes |-> FALSE, \* the parser
   saw_bytes |-> FALSE, parsed |-> 0, dead |-> FALSE,
   pending |-> <<>>, pipeline_paused |-> FALSE,           \* HttpConn
   active |-> FALSE, epoch |-> 0, keep_alive |-> TRUE,
   resp |-> "Idle", promised |-> FALSE, req_body |-> FALSE,
   continue_deferred |-> FALSE, deferred_error |-> FALSE, disconnected |-> FALSE,
   recv_waiters |-> <<>>, drain_waiters |-> <<>>,
   driver |-> Nobody, task |-> Nobody,
   sweep_phase |-> "idle", anchored |-> FALSE, moved |-> FALSE, swept |-> FALSE,
   handshaking |-> c.tls, staged |-> <<>>,                \* TlsState
   close_after |-> FALSE, shutdown_sent |-> FALSE,
   events |-> <<>>, detached |-> {},                      \* NetState
   out |-> <<>>, sent |-> 0,                              \* the wire
   apps |-> [n \in Requests |-> [st |-> "none", waits |-> 0, held |-> 0, got |-> <<>>, beside |-> "no"]],
   step |-> Idle, stopping |-> FALSE, closed_by |-> Nobody]   \* history

Init == \E c \in Scenarios : s = Wired(c)

Push(c, e) == [c EXCEPT !.events = Append(@, e)]
PushAll(c, kind, futs) ==
  [c EXCEPT !.events = @ \o [k \in 1..Len(futs) |-> [kind |-> kind, fut |-> futs[k]]]]
Event(kind) == [kind |-> kind]

\* Evaluated once, then used: the operators below are applied in a row.
Then(c, Op(_)) == CHOOSE d \in {Op(e) : e \in {c}} : TRUE

Unsent(c) == Len(c.out) - c.sent

-----------------------------------------------------------------------------
(* Waiters: the futures receive() and send() park.                         *)

\* Wait number k of request n's coroutine, or of a task beside it.
Fut(n, k) == [app |-> n, wait |-> k]
BesideFut(n) == [app |-> n, wait |-> 0]

\* Is the future pending?
Pending(c, f) ==
  IF f.wait = 0 THEN c.apps[f.app].beside = "parked"
  ELSE c.apps[f.app].st \in {"receive", "drain"} /\ c.apps[f.app].waits = f.wait

\* set_result, unless it is done: whoever awaits it is scheduled.
Resolved(c, f) ==
  IF ~Pending(c, f) THEN c
  ELSE IF f.wait = 0 THEN [c EXCEPT !.apps[f.app].beside = "told"]
  ELSE [c EXCEPT !.apps[f.app].st = "ready"]

ResolvedAll(c, futs) == FoldLeft(LAMBDA d, f : Then(d, LAMBDA e : Resolved(e, f)), c, futs)

\* A receive() or a send() parks behind the waiters still pending.
Parked(c, futs, f) ==
  LET live(g) == Pending(c, g) IN Append(SelectSeq(futs, live), f)

-----------------------------------------------------------------------------
(* The transport.                                                          *)

\* Mutant: the request of a connection that is torn down is let go.
Mut_TeardownLosesDriver(c, why) ==
  IF ~c.open THEN c
  ELSE Then([c EXCEPT !.open = FALSE, !.reading = FALSE, !.disconnected = TRUE, !.ended = why,
                      !.recv_waiters = <<>>, !.drain_waiters = <<>>,
                      !.driver = Nobody, !.task = Nobody],
            LAMBDA d : PushAll(PushAll(d, "drained", c.drain_waiters), "disconnect", c.recv_waiters))

\* teardown_lost: every waiter is released by an event, and the request
\* that runs on is kept as a detached one, an eager one to be reclaimed.
Teardown(c, why) ==
  IF ~c.open THEN c
  ELSE Then([c EXCEPT !.open = FALSE, !.reading = FALSE, !.disconnected = TRUE, !.ended = why,
                      !.recv_waiters = <<>>, !.drain_waiters = <<>>,
                      !.driver = Nobody, !.task = Nobody,
                      !.detached = @ \cup
                        {[app |-> n, reclaim |-> n = c.driver, anchored |-> FALSE] :
                           n \in {c.driver, c.task} \ {Nobody}}],
            LAMBDA d : PushAll(PushAll(d, "drained", c.drain_waiters), "disconnect", c.recv_waiters))

\* post_recv: a spent pipeline budget holds it back, except for a lingering
\* connection, which discards what it reads.
PostRecv(c) ==
  IF ~c.open \/ (c.closing /\ ~c.lingering) \/ (c.pipeline_paused /\ ~c.lingering) THEN c
  ELSE [c EXCEPT !.reading = TRUE]

\* maybe_finish_shutdown: with nothing left to send a closing connection
\* ends, or half-closes and reads until the peer is done.
MaybeFinishShutdown(c) ==
  IF ~c.open \/ ~c.closing \/ Unsent(c) > 0 THEN c
  ELSE IF ~c.lingering THEN Teardown(c, "closed")
  ELSE IF c.fin THEN c
  ELSE PostRecv([c EXCEPT !.fin = TRUE])

\* http_enqueue_raw: nothing follows a close.
EnqueueRaw(c, items) ==
  IF ~c.open \/ c.closing THEN c ELSE [c EXCEPT !.out = @ \o items]

\* http_enqueue: under TLS plaintext is staged for a flush event.
Enqueue(c, items) ==
  IF ~c.open THEN c
  ELSE IF ~c.tls THEN EnqueueRaw(c, items)
  ELSE LET staged == [c EXCEPT !.staged = @ \o items]
       IN IF c.staged = <<>> THEN Push(staged, Event("tls_flush")) ELSE staged

\* http_close_after_write: TLS first flushes what is staged and its
\* close_notify.  A connection whose peer still sends lingers, if a sweep
\* runs to bound that; else its receive is cancelled.
CloseAfterWrite(c) ==
  LET linger == c.timeouts /\ ~c.disconnected
      closing == [c EXCEPT !.closing = TRUE, !.lingering = linger, !.reading = @ /\ linger]
  IN IF ~c.open THEN c
     ELSE IF c.tls /\ c.staged # <<>> THEN [c EXCEPT !.close_after = TRUE]
     ELSE IF c.tls /\ ~c.closing /\ ~c.shutdown_sent
     THEN Push([c EXCEPT !.close_after = TRUE], Event("tls_flush"))
     ELSE IF c.closing THEN c
     ELSE Then(closing, MaybeFinishShutdown)

Reply(n, kind) == [req |-> n, kind |-> kind, last |-> kind = "error"]

\* error_response, which closes the connection behind it.
Refuse(c, n) == Then(Enqueue(c, <<Reply(n, "error")>>), CloseAfterWrite)

-----------------------------------------------------------------------------
(* Parsing.                                                                *)

\* on_headers_complete, of a head that expects 100 Continue: it is owed one
\* while its body is awaited.
HeadersComplete(c) == [c EXCEPT !.in_head = FALSE, !.owes = TRUE, !.expecting = TRUE]

\* on_message_complete: a request joins the queue and the parser starts anew.
MessageComplete(c, token) ==
  [c EXCEPT !.in_head = FALSE, !.owes = FALSE, !.expecting = FALSE, !.parsed = @ + 1,
            !.pending = Append(@, [keep |-> token = "keep", upgrade |-> token = "upgrade"])]

\* The callbacks of llhttp, each of which may fail the message.
Parse(c, token) ==
  CASE token = "start" -> [c EXCEPT !.in_head = TRUE]
    [] token = "expect" -> HeadersComplete(c)
    [] token = "bad" -> [c EXCEPT !.dead = TRUE]
    [] OTHER -> MessageComplete(c, token)

\* HttpParser::feed: a parser that failed stays dead.
Feed(c, batch) == FoldLeft(LAMBDA d, token : IF d.dead THEN d ELSE Parse(d, token), c, batch)

\* conn_feed: completed requests join the pipeline even ahead of an error.
ConnFeed(c, batch) ==
  LET fed == Feed([c EXCEPT !.saw_bytes = TRUE], batch)
  IN [fed EXCEPT !.continue_deferred = @ /\ fed.expecting]

\* continue_now_or_later: in its place in the pipeline.
ContinueNowOrLater(c) ==
  LET asked == [c EXCEPT !.owes = FALSE]
  IN IF ~c.owes THEN c
     ELSE IF ~c.active /\ c.pending = <<>>
     THEN Enqueue(asked, <<Reply(c.parsed + 1, "continue")>>)
     ELSE [asked EXCEPT !.continue_deferred = TRUE]

\* conn_parse_failed: the error, too, is answered in its place.
ConnParseFailed(c) ==
  IF c.active \/ c.pending # <<>> THEN [c EXCEPT !.deferred_error = TRUE]
  ELSE Refuse(c, c.parsed + 1)

\* Bytes handed to the engine, from the socket or decrypted.
Ingest(c, batch) ==
  IF c.deferred_error THEN c
  ELSE Then(ConnFeed(c, batch), LAMBDA fed :
              IF fed.dead THEN ConnParseFailed(fed)
              ELSE ContinueNowOrLater(
                     [fed EXCEPT !.pipeline_paused = @ \/ Len(fed.pending) >= Depth]))

WantsPump(c) == c.open /\ ~c.active /\ c.pending # <<>>
PushPump(c) == IF WantsPump(c) THEN Push(c, Event("pump")) ELSE c

-----------------------------------------------------------------------------
(* The request cycle.                                                      *)

\* Does the connection still run request n?
Owns(c, n) == c.active /\ c.epoch = n

\* Mutant: the receive is posted again only by an empty pipeline.
Mut_ResumeNever(c) ==
  IF c.pipeline_paused /\ Len(c.pending) * 2 < Depth THEN [c EXCEPT !.pipeline_paused = FALSE] ELSE c

\* http_resume_reading
ResumeReading(c) ==
  IF c.pipeline_paused /\ Len(c.pending) * 2 < Depth
  THEN PostRecv([c EXCEPT !.pipeline_paused = FALSE]) ELSE c

\* The 100 Continue that waited for the responses ahead of it.
DeferredContinue(c) ==
  LET now == c.continue_deferred /\ c.pending = <<>> /\ c.expecting
      settled == [c EXCEPT !.continue_deferred = @ /\ c.pending # <<>>]
  IN IF now THEN Enqueue(settled, <<Reply(c.parsed + 1, "continue")>>) ELSE settled

\* finish_request: close behind a response that says so, or answer a
\* parked parse error, or go on with the connection; then tell whoever
\* still waits in receive().
FinishRequest(c) ==
  LET close == ~c.keep_alive \/ c.disconnected
      refuse == c.pending = <<>> /\ c.deferred_error
      ended == [c EXCEPT !.active = FALSE, !.req_body = FALSE, !.moved = TRUE, !.driver = Nobody,
                         !.deferred_error = @ /\ ~refuse,
                         !.pending = IF close THEN <<>> ELSE @, !.recv_waiters = <<>>,
                         !.closed_by = IF close /\ @ = Nobody THEN c.epoch ELSE @]
  IN IF ~c.open THEN c
     ELSE Then(IF close THEN CloseAfterWrite(ended)
               ELSE IF refuse THEN Refuse(ended, c.parsed + 1)
               ELSE Then(DeferredContinue(ended), ResumeReading),
               LAMBDA d : ResolvedAll(d, c.recv_waiters))

\* release_after_response: receive() waiters beside a complete response.
ReleaseAfterResponse(c) ==
  IF c.open /\ c.resp = "Done"
  THEN PushAll([c EXCEPT !.recv_waiters = <<>>], "disconnect", c.recv_waiters) ELSE c

\* fail_request: 500 if no response has started, a hard close in the
\* middle of one, nothing if the connection has moved on.
FailRequest(c, n) ==
  CASE ~c.open \/ ~Owns(c, n) -> c
    [] c.open /\ Owns(c, n) /\ c.resp = "Done" -> FinishRequest(c)
    [] c.open /\ Owns(c, n) /\ c.resp = "Idle" ->
         Then(Enqueue([c EXCEPT !.resp = "Done", !.keep_alive = FALSE], <<Reply(n, "error")>>),
              LAMBDA d : CloseAfterWrite(ReleaseAfterResponse(d)))
    [] OTHER -> Teardown(c, "failed")

\* on_coro_finished: a response left incomplete is a failure, unless the
\* peer is gone.
OnCoroFinished(c, n) ==
  IF ~c.open \/ ~Owns(c, n) THEN c
  ELSE IF c.resp = "Done" \/ c.disconnected THEN FinishRequest(c)
  ELSE FailRequest(c, n)

\* pump_requests, popping a request: the per-request state starts anew.
NextRequest(c) ==
  [c EXCEPT !.pending = Tail(@), !.active = TRUE, !.epoch = @ + 1,
            !.keep_alive = Head(c.pending).keep, !.resp = "Idle", !.promised = FALSE,
            !.req_body = TRUE]

\* pump_requests: one turn of its loop.  An eager coroutine is stepped at
\* once; another becomes a Task.  Past the quantum the rest is left to a
\* pump of its own.
Pump(c, ran) ==
  LET n == c.epoch + 1 IN
  IF ran = Quantum THEN PushPump([c EXCEPT !.step = Idle])
  ELSE IF ~WantsPump(c) THEN [c EXCEPT !.step = Idle]
  ELSE Then(NextRequest(c), LAMBDA d :
         IF Head(c.pending).upgrade
         THEN Refuse([d EXCEPT !.active = FALSE, !.keep_alive = FALSE, !.step = Idle], n)
         ELSE IF d.eager THEN [d EXCEPT !.apps[n].st = "run",
                                        !.step = [app |-> n, from |-> "pump", ran |-> ran + 1]]
         ELSE [d EXCEPT !.apps[n].st = "ready", !.task = n, !.step = Idle])

-----------------------------------------------------------------------------
(* The coroutine of a request: what happens when it suspends or ends.      *)

\* NetState::detach and forget_detached.
Detached(c) == {d.app : d \in c.detached}
Detach(c, n, reclaim) ==
  IF n \in Detached(c) THEN c
  ELSE [c EXCEPT !.detached = @ \cup {[app |-> n, reclaim |-> reclaim, anchored |-> FALSE]}]
Forget(c, n) == [c EXCEPT !.detached = {d \in @ : d.app # n}]

\* Back to whoever stepped the coroutine: the pump goes on, a wake-up
\* leaves the pipeline to an event of its own context.
StepEnds(c) ==
  IF c.step.from = "pump" THEN Pump(c, c.step.ran) ELSE PushPump([c EXCEPT !.step = Idle])

\* park_driver, for an eager coroutine that suspended: kept detached when
\* the connection is no longer its own, released when its response is
\* complete, else kept by the connection.
ParkDriver(c, n) ==
  IF ~c.open \/ ~Owns(c, n)
  THEN [Detach(c, n, ~c.open) EXCEPT !.step = Idle]
  ELSE IF c.resp = "Done"
  THEN Then(Detach([c EXCEPT !.driver = Nobody], n, FALSE),
            LAMBDA d : StepEnds(FinishRequest(d)))
  ELSE [c EXCEPT !.driver = n, !.step = Idle]

\* The coroutine awaits something.
Suspend(c, n, why) ==
  LET parked == [c EXCEPT !.apps[n].st = why, !.apps[n].waits = @ + 1]
  IN IF c.eager THEN ParkDriver(parked, n) ELSE [parked EXCEPT !.step = Idle]

\* drop_driver: on its connection or detached, never another's.
DropDriver(c, n) == IF c.open /\ c.driver = n THEN [c EXCEPT !.driver = Nobody] ELSE Forget(c, n)

\* An eager coroutine ended: step_body's failure, or on_coro_finished;
\* after_step then drops the driver a wake-up left behind.
Finish(c, n, raised) ==
  Then(IF raised THEN FailRequest([c EXCEPT !.apps[n].st = "done"], n)
       ELSE OnCoroFinished([c EXCEPT !.apps[n].st = "done"], n),
       LAMBDA d : StepEnds(IF c.step.from = "wake" THEN DropDriver(d, n) ELSE d))

\* HttpTaskDone::__call__, some time after the Task of request n ended.
TaskDone(c, n, raised) ==
  LET ended == [c EXCEPT !.apps[n].st = "done"]
      let_go == IF c.open /\ c.task = n THEN [ended EXCEPT !.task = Nobody] ELSE Forget(ended, n)
  IN Then(IF raised THEN FailRequest(let_go, n) ELSE OnCoroFinished(let_go, n),
          LAMBDA d : Pump(d, 0))

\* release_request, from the event a Task's last send() left.
ReleaseRequest(c, n) ==
  IF ~c.open \/ ~Owns(c, n) \/ c.resp # "Done" THEN c
  ELSE LET off == [c EXCEPT !.task = Nobody]
       IN Then(IF c.task = Nobody THEN off ELSE Detach(off, c.task, FALSE),
               LAMBDA d : Pump(FinishRequest(d), 0))

-----------------------------------------------------------------------------
(* receive() and send().                                                   *)

Running(n) == s.step.app = n
LoopIdle == s.step = Idle
Suspended(n) == s.apps[n].st \in {"receive", "drain", "other"}
MayWait(n) == s.apps[n].waits < MaxWaits

\* HttpReceive::__call__: the body first, even from a peer that is gone.
ReceiveOutcome(c, n) ==
  CASE ~c.open \/ c.epoch # n -> "gone"
    [] c.open /\ c.epoch = n /\ c.req_body -> "body"
    [] OTHER -> IF c.disconnected \/ c.resp = "Done" THEN "gone" ELSE "wait"

\* The coroutine calls receive() and awaits what it returns; the body is
\* taken as it is called and may be put back until it is awaited.
Receive(n) ==
  /\ Running(n) /\ "receive" \in s.may /\ s.apps[n].held = Nobody
  /\ \/ /\ ReceiveOutcome(s, n) = "body"
        /\ s' = [s EXCEPT !.req_body = FALSE, !.apps[n].held = s.epoch]
     \/ /\ ReceiveOutcome(s, n) = "wait" /\ MayWait(n)
        /\ LET f == Fut(n, s.apps[n].waits + 1)
           IN s' = Suspend([s EXCEPT !.recv_waiters = Parked(s, @, f)], n, "receive")

\* A task the request started (a disconnect listener) calls receive().
ReceiveBeside(n) ==
  /\ LoopIdle /\ "beside" \in s.may /\ Suspended(n) /\ s.apps[n].beside = "no"
  /\ s' = CASE ReceiveOutcome(s, n) = "gone" -> [s EXCEPT !.apps[n].beside = "told"]
            [] ReceiveOutcome(s, n) = "body" ->
                 [s EXCEPT !.apps[n].beside = "told", !.req_body = FALSE,
                           !.apps[n].got = Append(@, s.epoch)]
            [] ReceiveOutcome(s, n) = "wait" ->
                 [s EXCEPT !.apps[n].beside = "parked",
                           !.recv_waiters = Parked(s, @, BesideFut(n))]

AwaitBody(n) ==
  /\ Running(n) /\ s.apps[n].held # Nobody
  /\ s' = [s EXCEPT !.apps[n].held = Nobody, !.apps[n].got = Append(@, s.apps[n].held)]

\* Taken::put_back: to the first receive() still parked, else where it
\* was taken from, unless the connection has moved on.
PutBack(c, n) ==
  LET live == SelectSeq(c.recv_waiters, LAMBDA f : Pending(c, f))
  IN IF ~c.open \/ c.epoch # n THEN c
     ELSE IF live = <<>> THEN [c EXCEPT !.recv_waiters = <<>>, !.req_body = TRUE]
     ELSE Resolved([c EXCEPT !.recv_waiters = SubSeq(@, SelectInSeq(@, LAMBDA f : Pending(c, f)) + 1,
                                                     Len(@)),
                             !.apps[Head(live).app].got = Append(@, c.apps[n].held)], Head(live))

\* The awaitable receive() returned is dropped before it was awaited.
DropBody(n) ==
  /\ "drop" \in s.may /\ s.apps[n].held # Nobody /\ (Running(n) \/ LoopIdle)
  /\ s' = [PutBack(s, n) EXCEPT !.apps[n].held = Nobody]

\* Mutant: a request sends whoever the connection is running.
Mut_SendStaleAnyway(c, n) == ~c.open

\* HttpSend::__call__ refuses a request the connection has left behind.
Stale(c, n) == ~c.open \/ c.epoch # n

\* http.response.start only stores the head.
SendStart(n, trailers, close) ==
  /\ Running(n) /\ ~Stale(s, n) /\ s.resp = "Idle"
  /\ trailers => "trailers" \in s.may
  /\ close => "say_close" \in s.may
  /\ s' = [s EXCEPT !.resp = "Started", !.promised = trailers, !.keep_alive = @ /\ ~close]

\* process_send: the phase a body, or trailers, leave the response in.
AfterBody(c, more) ==
  IF more THEN "Streaming" ELSE IF c.promised THEN "AwaitingTrailers" ELSE "Done"
AfterTrailers(more) == IF more THEN "AwaitingTrailers" ELSE "Done"

\* What goes out: the head with the first part, and then the parts.
SendPart(c, n, more) ==
  LET next == IF c.resp = "AwaitingTrailers" THEN AfterTrailers(more) ELSE AfterBody(c, more)
      kind == IF c.resp = "Started" THEN "head" ELSE "more"
  IN Then(Enqueue([c EXCEPT !.resp = next],
                  <<[req |-> n, kind |-> kind, last |-> next = "Done"]>>),
          ReleaseAfterResponse)

\* What follows in HttpSend::__call__: a Task is released from the event
\* phase, and a producer above the high mark waits.
AfterSend(c, n) ==
  LET freed == IF ~c.eager /\ c.task # Nobody /\ c.resp = "Done" /\ Owns(c, n)
               THEN Push(c, [kind |-> "release", req |-> n]) ELSE c
      over == c.open /\ Unsent(c) + Len(c.staged) > High
      f == Fut(n, c.apps[n].waits + 1)
  IN IF over THEN Suspend([freed EXCEPT !.drain_waiters = Parked(freed, @, f)], n, "drain")
     ELSE freed

Items(n) == Cardinality({k \in DOMAIN s.out : s.out[k].req = n})

\* The coroutine sends while its response is open.
Send(n, more) ==
  /\ Running(n) /\ ~Stale(s, n) /\ MayWait(n)
  /\ s.resp \in {"Started", "Streaming", "AwaitingTrailers"}
  /\ more => "chunks" \in s.may /\ Items(n) + 1 < MaxItems
  /\ s' = Then(SendPart(s, n, more), LAMBDA d : AfterSend(d, n))

-----------------------------------------------------------------------------
(* The coroutine's other steps.                                            *)

AwaitOther(n) ==
  /\ Running(n) /\ "other" \in s.may /\ MayWait(n)
  /\ s' = Suspend(s, n, "other")

OtherDone(n) ==
  /\ LoopIdle /\ s.apps[n].st = "other"
  /\ s' = [s EXCEPT !.apps[n].st = "ready"]

\* A timeout, a cancel scope, the sweep: the awaited future is cancelled
\* and the coroutine finds out when it is stepped.
Cancelled(c, who) ==
  [c EXCEPT !.apps = [n \in Requests |->
     IF n \in who /\ @[n].st \in {"receive", "drain", "other"} THEN [@[n] EXCEPT !.st = "ready"] ELSE @[n]]]

Cancel(n) ==
  /\ LoopIdle /\ "cancel" \in s.may /\ Suspended(n)
  /\ s' = Cancelled(s, {n})

\* AppTask::_wake, or a Task's step.
Wake(n) ==
  /\ LoopIdle /\ s.apps[n].st = "ready"
  /\ s' = [s EXCEPT !.apps[n].st = "run", !.step = [app |-> n, from |-> "wake", ran |-> 0]]

\* The coroutine ends.  A Task's done callback runs some time later.
AppReturn(n) ==
  /\ Running(n) /\ s.apps[n].held = Nobody
  /\ s' = IF s.eager THEN Finish(s, n, FALSE) ELSE [s EXCEPT !.apps[n].st = "returned", !.step = Idle]
AppRaise(n) ==
  /\ Running(n) /\ s.apps[n].held = Nobody /\ "raise" \in s.may
  /\ s' = IF s.eager THEN Finish(s, n, TRUE) ELSE [s EXCEPT !.apps[n].st = "raised", !.step = Idle]
TaskEnded(n) ==
  /\ LoopIdle /\ s.apps[n].st \in {"returned", "raised"}
  /\ s' = TaskDone(s, n, s.apps[n].st = "raised")

-----------------------------------------------------------------------------
(* TLS.  Flushing may stop where the session wants a record of the peer.   *)

\* tls_send_close_notify, once.
CloseNotify(c) ==
  IF c.shutdown_sent THEN c
  ELSE EnqueueRaw([c EXCEPT !.shutdown_sent = TRUE], <<[req |-> Nobody, kind |-> "notify", last |-> TRUE]>>)

\* tls_flush_conn: what is left is staged again and holds off the close.
TlsFlush(c) ==
  IF ~c.open \/ c.handshaking THEN {c}
  ELSE {Then(EnqueueRaw([c EXCEPT !.staged = SubSeq(@, k + 1, Len(@))], SubSeq(c.staged, 1, k)),
             LAMBDA d : IF d.staged # <<>> \/ ~c.close_after THEN d
                        ELSE CloseAfterWrite([CloseNotify(d) EXCEPT !.close_after = FALSE])) :
        k \in {Len(c.staged)} \cup (IF Contains(c.input, "record") THEN 0..Len(c.staged) ELSE {})}

\* tls_ingest: the handshake, a close_notify, a retry of what was staged
\* again, and the decrypted bytes, which pump at once.
TlsIngest(c, batch) ==
  LET secure == ~c.handshaking \/ Contains(batch, "hello")
      ready == [c EXCEPT !.handshaking = ~secure]
      told == IF Contains(batch, "bye") THEN CloseAfterWrite(ready) ELSE ready
      data == SelectSeq(batch, LAMBDA t : t \notin {"hello", "record", "bye"})
      fed(d) == IF data = <<>> \/ ~d.open THEN d ELSE Then(Ingest(d, data), LAMBDA e : Pump(e, 0))
  IN IF ~c.open \/ ~secure THEN {c}
     ELSE {fed(d) : d \in IF told.staged # <<>> THEN TlsFlush(told) ELSE {told}}

-----------------------------------------------------------------------------
(* The tick: completions are translated, events dispatched, callbacks run. *)

\* dispatch_one_event.
Dispatched(c, e) ==
  CASE e.kind = "pump" -> {Pump(c, 0)}
    [] e.kind = "release" -> {ReleaseRequest(c, e.req)}
    [] e.kind \in {"disconnect", "drained"} -> {Resolved(c, e.fut)}
    [] e.kind = "tls_data" -> TlsIngest(c, e.batch)
    [] e.kind = "tls_flush" -> TlsFlush(c)

Dispatch ==
  /\ LoopIdle /\ s.events # <<>>
  /\ s' \in Dispatched([s EXCEPT !.events = Tail(@), !.swept = FALSE], Head(s.events))

\* A strict client holds the body of an expecting head back until it has
\* the 100 Continue.
Arrivals(c) ==
  LET told == \E k \in 1..c.sent : c.out[k].kind = "continue" /\ c.out[k].req = c.parsed + 1
      stop == IF Contains(c.input, "expect") THEN SelectInSeq(c.input, LAMBDA t : t = "expect")
              ELSE Len(c.input)
  IN IF c.expecting /\ ~told THEN {} ELSE {SubSeq(c.input, 1, k) : k \in 1..stop}

\* on_recv_done with bytes.  The pump event is queued before the interim
\* response or the parse error is written, which order nothing observes.
ReadPlain(c, batch) == Then(Ingest(c, batch), LAMBDA d : PostRecv(PushPump(d)))

Read ==
  /\ LoopIdle /\ s.open /\ s.reading
  /\ \E batch \in Arrivals(s) :
       LET got == [s EXCEPT !.reading = FALSE, !.input = SubSeq(@, Len(batch) + 1, Len(@))]
       IN s' = IF s.lingering THEN PostRecv(got)
               ELSE IF s.tls THEN PostRecv(Push(got, [kind |-> "tls_data", batch |-> batch]))
               ELSE ReadPlain(got, batch)

\* on_recv_done with none: an idle connection is torn down, another keeps
\* writing and is closed by finish_request.
Eof(c) ==
  IF c.lingering THEN MaybeFinishShutdown([c EXCEPT !.lingering = FALSE])
  ELSE Then(PushAll([c EXCEPT !.disconnected = TRUE, !.recv_waiters = <<>>],
                    "disconnect", c.recv_waiters),
            LAMBDA d : IF ~c.active /\ c.pending = <<>> THEN Teardown(d, "eof") ELSE d)

\* The peer stops sending, wherever it is.
PeerEof ==
  /\ LoopIdle /\ s.open /\ s.reading /\ "eof" \in s.may
  /\ s' = Eof([s EXCEPT !.reading = FALSE, !.input = <<>>])

\* An error completion of a receive or a send.
PeerReset ==
  /\ LoopIdle /\ s.open /\ "reset" \in s.may
  /\ s' = Teardown([s EXCEPT !.input = <<>>], "reset")

\* on_send_done: below the low mark every producer is released.
SendDone(c, k) ==
  LET left == [c EXCEPT !.sent = @ + k]
      low == Unsent(left) + Len(c.staged) <= Low
      freed == IF low THEN PushAll([left EXCEPT !.drain_waiters = <<>>], "drained", c.drain_waiters)
               ELSE left
  IN IF Unsent(left) = 0 THEN MaybeFinishShutdown(freed) ELSE freed

Sent ==
  /\ LoopIdle /\ s.open
  /\ \E k \in 1..Unsent(s) : s' = SendDone(s, k)

-----------------------------------------------------------------------------
(* The timeout sweep and the graceful shutdown.                            *)

\* Mutant: a response whose last message was produced counts as finished.
Mut_BusyForgetsQueue(c) == c.active \/ c.pending # <<>> \/ c.resp \in {"Started", "Streaming"}

\* http_conn_busy
Busy(c) == Unsent(c) > 0 \/ c.active \/ c.pending # <<>> \/ c.resp \in {"Started", "Streaming"}

Phase(c) ==
  CASE c.disconnected /\ Unsent(c) = 0 -> "dead"
    [] ~(c.disconnected /\ Unsent(c) = 0) /\ Busy(c) -> "busy"
    [] OTHER -> IF c.in_head \/ ~c.saw_bytes THEN "head" ELSE "idle"

\* A deadline that has passed.  The request of a dead connection is taken
\* off it first, to be cancelled by the caller.
Expire(c) ==
  CASE Phase(c) = "dead" ->
         Cancelled(Teardown([c EXCEPT !.driver = Nobody], "dead"), {c.driver})
    [] Phase(c) = "head" /\ c.handshaking -> Teardown(c, "head")
    [] Phase(c) = "head" /\ ~c.handshaking -> Refuse(c, c.parsed + 1)
    [] Phase(c) = "idle" -> Teardown(c, "idle")
    [] OTHER -> c

\* Mutant: a closing connection is skipped, lingering or not.
Mut_SweepSkipsLingering(c, late) ==
  LET phase == Phase(c)
      anchor == phase # c.sweep_phase \/ ~c.anchored \/ phase = "busy" \/ (phase = "idle" /\ c.moved)
      seen == [c EXCEPT !.moved = FALSE]
  IN IF ~c.open \/ c.closing THEN c
     ELSE IF anchor THEN [seen EXCEPT !.sweep_phase = phase, !.anchored = TRUE]
     ELSE IF late THEN Expire(seen) ELSE seen

\* http_sweep, one connection: a phase is anchored when it is first seen,
\* a busy one always, an idle one whenever a request ended since.
SweepConn(c, late) ==
  LET phase == Phase(c)
      anchor == phase # c.sweep_phase \/ ~c.anchored \/ phase = "busy" \/ (phase = "idle" /\ c.moved)
      seen == [c EXCEPT !.moved = FALSE]
  IN IF ~c.open THEN c
     ELSE IF c.lingering THEN IF c.fin /\ late THEN Teardown(c, "linger") ELSE c
     ELSE IF c.closing THEN c
     ELSE IF anchor THEN [seen EXCEPT !.sweep_phase = phase, !.anchored = TRUE]
     ELSE IF late THEN Expire(seen) ELSE seen

\* http_sweep, the detached: the abandoned ones are cancelled when late.
SweepDetached(c, late) ==
  LET live == {d \in c.detached : c.apps[d.app].st # "done"}
      expired == {d \in live : d.reclaim /\ d.anchored /\ late}
  IN Cancelled([c EXCEPT !.detached =
                  {[d EXCEPT !.anchored = @ \/ d.reclaim] : d \in live \ expired}],
               {d.app : d \in expired})

\* Ticks lie between two sweeps: events do not wait through both.
Sweep(conn_late, detached_late) ==
  /\ LoopIdle /\ s.timeouts /\ "sweep" \in s.may /\ (s.events # <<>> => ~s.swept)
  /\ LET swept == Then(SweepConn(s, conn_late), LAMBDA d : SweepDetached(d, detached_late))
     IN swept # s /\ s' = [swept EXCEPT !.swept = TRUE]

\* http_begin_shutdown
BeginShutdown ==
  /\ LoopIdle /\ "shutdown" \in s.may /\ ~s.stopping
  /\ LET told == [s EXCEPT !.stopping = TRUE, !.keep_alive = FALSE]
     IN s' = IF ~s.open \/ s.closing THEN [s EXCEPT !.stopping = TRUE]
             ELSE IF Busy(s) THEN told ELSE Teardown(told, "shutdown")

\* The grace period is over: what http_request_drivers finds is cancelled.
CancelAll ==
  /\ LoopIdle /\ s.stopping
  /\ LET held == IF s.driver # Nobody THEN s.driver ELSE s.task
     IN \E n \in Requests : Suspended(n) /\ n \in {held} \cup Detached(s)
  /\ s' = Cancelled(s, {IF s.driver # Nobody THEN s.driver ELSE s.task} \cup Detached(s))

-----------------------------------------------------------------------------
AppStep(n) ==
  \/ Receive(n) \/ AwaitBody(n) \/ DropBody(n) \/ AwaitOther(n)
  \/ AppReturn(n) \/ AppRaise(n)
  \/ \E trailers, close \in BOOLEAN : SendStart(n, trailers, close)
  \/ \E more \in BOOLEAN : Send(n, more)

Next ==
  \/ Dispatch \/ Read \/ PeerEof \/ PeerReset \/ Sent
  \/ \E n \in Requests :
       \/ AppStep(n) \/ Wake(n) \/ OtherDone(n) \/ Cancel(n) \/ TaskEnded(n) \/ ReceiveBeside(n)
  \/ \E c, d \in BOOLEAN : Sweep(c, d)
  \/ BeginShutdown \/ CancelAll

Spec == Init /\ [][Next]_vars

\* The loop runs what is ready, the kernel reports, the peer reads what it
\* is sent, the sweep timer fires, and an application that is resumed again
\* and again returns in the end.
Fairness ==
  /\ WF_vars(Dispatch) /\ WF_vars(Read) /\ WF_vars(Sent) /\ WF_vars(Sweep(TRUE, TRUE))
  /\ \A n \in Requests :
       /\ WF_vars(Wake(n)) /\ WF_vars(OtherDone(n)) /\ WF_vars(TaskEnded(n)) /\ WF_vars(AwaitBody(n))
       /\ SF_vars(AppReturn(n))

FairSpec == Spec /\ Fairness

-----------------------------------------------------------------------------
(* Properties.                                                             *)

\* May item b follow item a on the wire?  A response is its head and then
\* its parts, behind at most one 100 Continue of its own.
Follows(a, b) ==
  IF a.last THEN a.kind # "notify" /\ (b.kind = "notify" \/ (b.req = a.req + 1 /\ b.kind # "more"))
  ELSE b.kind = "notify" \/ (b.req = a.req /\ ((b.kind = "more") <=> (a.kind \in {"head", "more"})))

\* The responses on the connection are those of its requests, in request
\* order, none missing before another, each in one piece: no interim
\* response, error or send() of a request the connection left behind lands
\* in or ahead of another's (continue_now_or_later, conn_parse_failed, the
\* epoch of HttpSend).
ResponsesInOrder ==
  LET wire == s.out \o (IF s.closing THEN <<>> ELSE s.staged)
  IN /\ wire # <<>> => (Head(wire).req = 1 /\ Head(wire).kind # "more") \/ Head(wire).kind = "notify"
     /\ \A k \in 1..(Len(wire) - 1) : Follows(wire[k], wire[k + 1])

\* No request is dispatched behind a response that closes the connection
\* (finish_request empties the pipeline).  Under TLS the close waits for a
\* flush, and what is read meanwhile is still fed to the parser.
NothingAfterClose == ~s.tls /\ s.closed_by # Nobody => s.epoch = s.closed_by

\* A receive() that waits can still be told: its request is the
\* connection's, the peer is there and the response is open; a send() that
\* waits has bytes ahead of it; or an event on its way resolves it.
NoOrphanWaiter ==
  LET queued == {s.events[k].fut : k \in {j \in DOMAIN s.events :
                                            s.events[j].kind \in {"disconnect", "drained"}}}
      waits(n) == (IF s.apps[n].st \in {"receive", "drain"} THEN {Fut(n, s.apps[n].waits)} ELSE {})
                    \cup (IF s.apps[n].beside = "parked" THEN {BesideFut(n)} ELSE {})
  IN LoopIdle =>
     \A n \in Requests : \A f \in waits(n) \ queued :
       \/ Contains(s.recv_waiters, f) /\ s.open /\ Owns(s, n) /\ ~s.disconnected /\ s.resp # "Done"
       \/ Contains(s.drain_waiters, f) /\ s.open /\ Unsent(s) + Len(s.staged) > Low

\* A suspended request is held in exactly one place a shutdown or the sweep
\* finds it in: its connection, or the detached requests; a finished one in
\* none (park_driver, teardown, release_request, drop_driver).
DriverHeldOnce ==
  \A n \in Requests :
    LET places == (IF s.driver = n THEN {"driver"} ELSE {}) \cup (IF s.task = n THEN {"task"} ELSE {})
                    \cup (IF n \in Detached(s) THEN {"detached"} ELSE {})
    IN /\ Suspended(n) => Cardinality(places) = 1
       /\ LoopIdle /\ s.apps[n].st \in {"none", "done"} => places = {}

\* A connection this end closes has sent all that was queued for the wire,
\* whoever closed it: no close, sweep or shutdown drops it.  Behind an
\* orderly close what TLS has staged is out, too, up to the response that
\* closes, with the close_notify last.  (An idle sweep and a shutdown ask
\* http_conn_busy, which does not look at what is staged: about that nothing
\* is said.)
NotCutShort ==
  /\ s.ended \in {"closed", "idle", "linger", "shutdown"} => Unsent(s) = 0
  /\ s.ended \in {"closed", "linger"} =>
       \A k \in DOMAIN s.staged : s.closed_by # Nobody /\ s.staged[k].req > s.closed_by
  /\ s.tls /\ s.ended = "closed" => Last(s.out).kind = "notify"

\* The body of the running request is in one place: waiting, in the hands
\* of a receive(), or delivered, to its own request and once
\* (Taken::put_back, the epoch of HttpReceive).
BodyOnce ==
  \A n \in Requests :
    /\ s.apps[n].got \in {<<>>, <<n>>}
    /\ s.open /\ Owns(s, n) => Cardinality({p \in {"waiting", "taken", "got"} :
                        CASE p = "waiting" -> s.req_body
                          [] p = "taken" -> s.apps[n].held = n
                          [] p = "got" -> s.apps[n].got # <<>>}) = 1

\* Pipelined exchanges never mix: each request gets its own body once and
\* its response in its place, and nothing follows a closing response.
ExchangesKeptApart == ResponsesInOrder /\ NothingAfterClose /\ BodyOnce

\* No coroutine is forgotten in the middle of a request: what it waits for
\* can still come, and a shutdown or the sweep finds it.
NobodyForgotten == NoOrphanWaiter /\ DriverHeldOnce

\* What the peer sent is read and dispatched while the connection lasts:
\* neither the pipeline budget, the quantum nor a 100 Continue that waits
\* for its turn strands it.  An application that waits in receive() for the
\* peer to leave is left out.
EveryRequestServed ==
  ("receive" \notin s.may /\ (s.input # <<>> \/ s.pending # <<>>))
     ~> (s.input = <<>> /\ s.pending = <<>>) \/ s.closing \/ ~s.open

\* A connection that is closing, or whose peer has left, is gone in the end.
ClosesInTheEnd == (s.closing \/ s.disconnected) ~> ~s.open

\* The peer's half-close ends a connection only once its responses are out:
\* as the sweep's comment has it, a response whose last message has been
\* produced is not finished while its bytes are queued or in flight.
HalfCloseKeepsResponse == s.ended = "eof" => Unsent(s) = 0

=============================================================================
