--------------------------- MODULE StreamTransport ---------------------------
(***************************************************************************)
(* One stream transport with a Python protocol (pyshim/src/net.rs): its    *)
(* receive and send operations, the corked write queue, flow control,      *)
(* pausing, half-close, close and abort, the completions that arrive for   *)
(* it, and the two-phase dispatch of a tick: completions are translated    *)
(* into events inside the state cell, the events run protocol callbacks    *)
(* later, and other callbacks run in between.                              *)
(*                                                                         *)
(* `net' is the part of NetState, the buffer slab, the backend and the     *)
(* socket that belongs to the transport.  The functions of net.rs that     *)
(* run in the cell are operators from a net to the set of nets they may    *)
(* leave (the backend may complete an operation inline, park it or refuse  *)
(* it).  Bytes are numbered; the peer's chunk k is one receive's worth.    *)
(* The transport has at most one receive and one send outstanding, so      *)
(* operations need no identity.  Native HTTP connections are not modelled. *)
(***************************************************************************)
EXTENDS Integers, FiniteSets, SequencesExt, Filtering

CONSTANTS
  Scenarios,    \* what may happen: see below
  High, Low,    \* water marks, in bytes
  Cork,         \* CORK_FLUSH_BYTES
  Gather,       \* bytes one send may carry
  Rounds,       \* settle_inline's loop bound (8)
  Slots,        \* receive buffers
  MaxProtocols, \* bound on set_protocol
  MaxPauses,    \* bound on pause_reading
  MaxInterrupts \* bound on KeyboardInterrupts

NoSlot == "none"
AllCalls == {"write_eof", "pause", "limits", "set_protocol", "close", "abort", "reset", "eof",
             "raise", "interrupt", "buffered"}

\* A behaviour keeps to one scenario: bounds on the chunks the peer sends and
\* the bytes the application writes, the calls the two make, and whether
\* the backend may refuse a receive or a send.
Scenario == [maxIn : Nat, maxOut : Nat, calls : SUBSET AllCalls, mayFail : BOOLEAN]

ASSUME TransportAssumption ==
  /\ Scenarios \subseteq Scenario
  /\ {High, Low, Rounds, MaxProtocols, MaxPauses, MaxInterrupts} \subseteq Nat
  /\ Low <= High /\ Cork \in Nat \ {0} /\ Gather \in Nat \ {0}
  /\ IsFiniteSet(Slots) /\ NoSlot \notin Slots

\* What a receive may return besides a chunk, which is a positive number.
Eof == 0
Reset == -1
Cancelled == -2

VARIABLES
  net,        \* see Init
  events,     \* the events the tick is dispatching
  pass,       \* 0: the ready batch; 1: the tick's events; 2: those its final
              \* flush produced
  delivered,  \* chunks the protocol received, in order
  told,       \* what the protocol was last told: "resumed" or "paused"
  lostCalls   \* calls of connection_lost

app == <<delivered, told, lostCalls>>
vars == <<net, events, pass, app>>

\* wire_stream, up to connection_made.
Wired(scenario) ==
  [may |-> scenario,
   open |-> TRUE, closing |-> FALSE,      \* the TransportEntry
   reading_paused |-> FALSE, proto_paused |-> FALSE, buffered |-> FALSE,
   protocol |-> 1, eof_wanted |-> FALSE, eof_sent |-> FALSE,
   recv_op |-> FALSE, send_op |-> FALSE, recv_slot |-> NoSlot,
   wq |-> <<>>, inflight |-> 0, high |-> High, low |-> Low,
   paused_recv |-> <<>>, paused_eof |-> FALSE,
   events |-> <<>>, guard |-> <<>>,       \* the rest of NetState
   flush_list |-> FALSE,                  \* names it
   inline_close |-> FALSE,
   soon |-> 0, batch |-> 0,               \* connection_lost scheduled, and due
   refs |-> [s \in Slots |-> 0],          \* the buffer slab
   mem |-> [s \in Slots |-> 0],
   recv |-> NoSlot, send |-> 0,           \* operations the kernel has
   staged |-> <<>>, port |-> <<>>,        \* completions: inline, queued
   rx |-> <<>>, tx |-> <<>>,              \* the socket
   peer |-> 0, written |-> 0, pauses |-> 0, interrupts |-> 0, ended |-> "no"]  \* history

Least(a, b) == IF a < b THEN a ELSE b
Each(Op(_), nets) == UNION {Op(n) : n \in nets}

Retain(n, s) == [n EXCEPT !.refs[s] = @ + 1]
Release(n, s) == [n EXCEPT !.refs[s] = @ - 1]
Push(n, e) == [n EXCEPT !.events = Append(@, e)]

DataEvent(chunks) == [kind |-> "data", chunks |-> chunks]
BufEvent(s) == [kind |-> "buf", slot |-> s]
LostEvent(immediate) == [kind |-> "lost", immediate |-> immediate]
ResumeEvent(p) == [kind |-> "resume", protocol |-> p]

-----------------------------------------------------------------------------
(* Teardown.                                                               *)

\* cancel_transport_ops: the buffers of a send in flight wait in a guard.
\* The kernel completes what it was asked to cancel later.
CancelTransportOps(n) ==
  [n EXCEPT !.recv_op = FALSE, !.send_op = FALSE, !.inflight = 0, !.wq = <<>>,
            !.guard = IF n.send_op THEN n.wq ELSE @]

\* teardown_lost: the entry goes, its slot reference with it.
TeardownLost(n, why, immediate) ==
  IF ~n.open THEN n
  ELSE LET cut == CancelTransportOps(n)
           freed == IF n.recv_slot = NoSlot THEN cut ELSE Release(cut, n.recv_slot)
       IN Push([freed EXCEPT !.open = FALSE, !.recv_slot = NoSlot, !.ended = why,
                             !.paused_recv = <<>>, !.paused_eof = FALSE],
               LostEvent(immediate))

\* maybe_finish_shutdown: the FIN of a half-close, then the end of a close.
MaybeFinishShutdown(n, drained) ==
  IF ~n.open \/ n.send_op \/ n.wq # <<>> THEN n
  ELSE LET fin == [n EXCEPT !.eof_sent = @ \/ n.eof_wanted]
       IN IF n.closing THEN TeardownLost(fin, "closed", drained /\ ~n.inline_close) ELSE fin

-----------------------------------------------------------------------------
(* Posting.                                                                *)

\* What a receive into slot s takes off the socket.
Taken(n, s) ==
  LET r == Head(n.rx)
  IN [n EXCEPT !.rx = IF r = Eof THEN @ ELSE Tail(@),
               !.mem[s] = IF r \in {Eof, Reset} THEN @ ELSE r]
Received(n, s) == [op |-> "recv", slot |-> s, result |-> Head(n.rx)]

\* post_recv: parked, completed inline, or refused (RecvFailed, behind the
\* data already queued).
PostRecv(n) ==
  IF ~n.open \/ n.recv_op \/ n.reading_paused \/ n.closing THEN {n}
  ELSE LET s == IF n.recv_slot # NoSlot THEN n.recv_slot
                ELSE CHOOSE f \in Slots : n.refs[f] = 0
           own == IF n.recv_slot # NoSlot THEN n ELSE Retain([n EXCEPT !.recv_slot = s], s)
           posted == Retain([own EXCEPT !.recv_op = TRUE], s)
       IN {[posted EXCEPT !.recv = s]}
            \cup (IF n.rx = <<>> THEN {}
                  ELSE {[Taken(posted, s) EXCEPT !.staged = Append(@, Received(n, s))]})
            \cup (IF n.may.mayFail THEN {Push(own, [kind |-> "recv_failed"])} ELSE {})

\* post_send of the first g bytes of the queue.
PostSend(n) ==
  LET g == Least(Len(n.wq), Gather)
      posted == [n EXCEPT !.send_op = TRUE, !.inflight = g]
  IN {[posted EXCEPT !.send = g]}
       \cup {[posted EXCEPT !.tx = @ \o SubSeq(n.wq, 1, k),
                            !.staged = Append(@, [op |-> "send", sent |-> k])] : k \in 1..g}
       \cup (IF n.may.mayFail THEN {TeardownLost(n, "failed", FALSE)} ELSE {})

FlushPending(n) ==
  IF ~n.open \/ n.send_op THEN {n}
  ELSE IF n.wq = <<>> THEN {MaybeFinishShutdown(n, TRUE)}
  ELSE PostSend(n)

\* The transports on the flush list, which a direct flush does not leave.
FlushList(n) == IF n.flush_list THEN FlushPending([n EXCEPT !.flush_list = FALSE]) ELSE {n}

Init ==
  /\ \E scenario \in Scenarios : net \in PostRecv(Wired(scenario))
  /\ events = <<>> /\ pass = 1
  /\ delivered = <<>> /\ told = "resumed" /\ lostCalls = 0

-----------------------------------------------------------------------------
(* Completions.                                                            *)

\* The next receive's buffer may be of another class: the transport lets
\* go of this one, unless a receive was posted into it again.
Resized(n, s) ==
  {n} \cup (IF n.recv_slot = s /\ ~n.recv_op
            THEN {Release([n EXCEPT !.recv_slot = NoSlot], s)} ELSE {})

\* Mutant: what is held replaces what was held.
Mut_OnRecvDataReplaces(n, s, chunk) ==
  IF n.reading_paused
  THEN {Release([n EXCEPT !.paused_recv = <<chunk>>, !.recv_slot = NoSlot], s)}
  ELSE LET heard == IF n.buffered
                    THEN Push([n EXCEPT !.recv_slot = NoSlot], BufEvent(s))
                    ELSE Push(n, DataEvent(<<chunk>>))
       IN Each(PostRecv, Resized(heard, s))

OnRecvData(n, s, chunk) ==
  IF n.reading_paused
  THEN {Release([n EXCEPT !.paused_recv = Append(@, chunk), !.recv_slot = NoSlot], s)}
  ELSE LET heard == IF n.buffered
                    THEN Push([n EXCEPT !.recv_slot = NoSlot], BufEvent(s))
                    ELSE Push(n, DataEvent(<<chunk>>))
       IN Each(PostRecv, Resized(heard, s))

OnRecvDone(n, c) ==
  LET done == [n EXCEPT !.recv_op = FALSE]
  IN IF ~n.open \/ n.closing THEN {done}
     ELSE IF c.result \in {Reset, Cancelled} THEN {TeardownLost(done, "failed", FALSE)}
     ELSE IF c.result = Eof
     THEN {IF n.reading_paused THEN [done EXCEPT !.paused_eof = TRUE]
           ELSE Push(done, [kind |-> "eof"])}
     ELSE OnRecvData(done, c.slot, c.result)

\* Mutant: the protocol is resumed only below the low mark.
Mut_OnSendDoneBelowLow(n, c) ==
  LET done == [n EXCEPT !.send_op = FALSE, !.inflight = 0]
      rest == SubSeq(n.wq, c.sent + 1, Len(n.wq))
      retired == [done EXCEPT !.wq = rest]
      resuming == n.proto_paused /\ Len(rest) < n.low
      resumed == IF resuming THEN Push([retired EXCEPT !.proto_paused = FALSE],
                                       ResumeEvent(n.protocol))
                 ELSE retired
  IN IF ~n.open THEN {n}
     ELSE IF c.sent = 0 THEN {TeardownLost(done, "failed", FALSE)}
     ELSE IF rest # <<>> THEN FlushPending(resumed)
     ELSE IF resuming THEN {resumed}
     ELSE {MaybeFinishShutdown(resumed, TRUE)}

\* Mutant: a send that took a part of the queue is taken for all of it.
Mut_OnSendDonePartial(n, c) ==
  LET done == [n EXCEPT !.send_op = FALSE, !.inflight = 0, !.wq = <<>>]
  IN IF ~n.open THEN {n}
     ELSE IF c.sent = 0 THEN {TeardownLost(done, "failed", FALSE)}
     ELSE {MaybeFinishShutdown(done, TRUE)}

\* on_send_done: retire what was taken, resume the protocol below the low
\* mark, then post the rest -- or finish a shutdown, which resume_writing
\* (and what it writes) goes before.
OnSendDone(n, c) ==
  LET done == [n EXCEPT !.send_op = FALSE, !.inflight = 0]
      rest == SubSeq(n.wq, c.sent + 1, Len(n.wq))
      retired == [done EXCEPT !.wq = rest]
      resuming == n.proto_paused /\ Len(rest) <= n.low
      resumed == IF resuming THEN Push([retired EXCEPT !.proto_paused = FALSE],
                                       ResumeEvent(n.protocol))
                 ELSE retired
  IN IF ~n.open THEN {n}
     ELSE IF c.sent = 0 THEN {TeardownLost(done, "failed", FALSE)}
     ELSE IF rest # <<>> THEN FlushPending(resumed)
     ELSE IF resuming THEN {resumed}
     ELSE {MaybeFinishShutdown(resumed, TRUE)}

\* Mutant: a receive of a transport that is gone keeps its reference.
Mut_TranslateForgetsTheLost(n, c) ==
  IF c.op = "recv" THEN IF n.open THEN {Release(m, c.slot) : m \in OnRecvDone(n, c)} ELSE {n}
  ELSE OnSendDone([n EXCEPT !.guard = <<>>], c)

\* translate, of one completion: a reap guard and the operation's slot
\* reference end with it.
TranslateOne(n, c) ==
  IF c.op = "recv" THEN {Release(m, c.slot) : m \in OnRecvDone(n, c)}
  ELSE OnSendDone([n EXCEPT !.guard = <<>>], c)

Translate(n, comps) ==
  LET after[i \in 0..Len(comps)] ==
        IF i = 0 THEN {n} ELSE UNION {TranslateOne(m, comps[i]) : m \in after[i - 1]}
  IN after[Len(comps)]

\* settle_inline: apply what completed inline, and what that completes.
SettleInline(n) ==
  LET after[i \in 0..Rounds] ==
        IF i = 0 THEN {n}
        ELSE UNION {Translate([m EXCEPT !.staged = <<>>], m.staged) : m \in after[i - 1]}
  IN after[Rounds]

-----------------------------------------------------------------------------
(* The application's calls, from callbacks of any kind.                    *)

\* maybe_pause: push the queue out before deciding; `told' then hears of it.
MaybePause(n) ==
  LET over(m) == m.open /\ ~m.proto_paused /\ Len(m.wq) > m.high
      settled == Each(SettleInline, IF n.send_op THEN {n} ELSE FlushPending(n))
  IN IF ~over(n) THEN {n}
     ELSE {IF over(m) THEN [m EXCEPT !.proto_paused = TRUE] ELSE m : m \in settled}

\* schedule_pending_lost: deferred connection_lost goes to call_soon now.
SchedulePendingLost(n) ==
  LET deferred == {LostEvent(FALSE)}
  IN [n EXCEPT !.soon = @ + Len(Only(n.events, deferred)),
               !.events = Only(@, ToSet(@) \ deferred)]

\* write: queued; flushed at once when big, else corked.
Written(n) ==
  LET w == [n EXCEPT !.wq = Append(@, n.written + 1), !.written = @ + 1]
      pushed == IF w.send_op THEN {w}
                ELSE IF Len(w.wq) >= Cork THEN FlushPending(w)
                ELSE {[w EXCEPT !.flush_list = TRUE]}
  IN IF ~n.open THEN {n, SchedulePendingLost(n)}
     ELSE {SchedulePendingLost(m) : m \in Each(MaybePause, pushed)}

\* Mutant: only a send's completion ends the close.
Mut_ClosedOnSendOnly(n) ==
  IF ~n.open \/ n.closing THEN {n} ELSE {[n EXCEPT !.closing = TRUE, !.recv_op = FALSE]}

\* close: stop reading, offer the kernel what is corked, and finish if
\* nothing is left to send.
Closed(n) ==
  LET stopped == [n EXCEPT !.closing = TRUE, !.recv_op = FALSE]
      offered == IF n.send_op \/ n.wq = <<>> THEN {stopped}
                 ELSE {[m EXCEPT !.inline_close = FALSE] :
                         m \in Each(SettleInline, FlushPending([stopped EXCEPT !.inline_close = TRUE]))}
  IN IF ~n.open \/ n.closing THEN {n}
     ELSE {SchedulePendingLost(MaybeFinishShutdown(m, FALSE)) : m \in offered}

\* _force_close: offer the kernel what is corked, then tear down.
Aborted(n) ==
  LET offered == IF ~n.open \/ n.send_op \/ n.wq = <<>> THEN {n} ELSE FlushPending(n)
  IN {SchedulePendingLost(TeardownLost(m, "aborted", FALSE)) : m \in offered}

\* Mutant: the receive is not posted again.
Mut_ResumedOnly(n) ==
  IF ~n.open \/ n.closing \/ ~n.reading_paused THEN {n}
  ELSE LET resumed == [n EXCEPT !.reading_paused = FALSE, !.paused_recv = <<>>,
                                !.paused_eof = FALSE]
           data == IF n.paused_recv = <<>> THEN resumed ELSE Push(resumed, DataEvent(n.paused_recv))
       IN {IF n.paused_eof THEN Push(data, [kind |-> "eof"]) ELSE data}

\* resume_reading: what was held goes out first (flush_paused_recv), then
\* the next receive is posted -- unless an EOF was held.
Resumed(n) ==
  IF ~n.open \/ n.closing \/ ~n.reading_paused THEN {n}
  ELSE LET resumed == [n EXCEPT !.reading_paused = FALSE, !.paused_recv = <<>>,
                                !.paused_eof = FALSE]
           data == IF n.paused_recv = <<>> THEN resumed ELSE Push(resumed, DataEvent(n.paused_recv))
       IN IF n.paused_eof THEN {Push(data, [kind |-> "eof"])} ELSE PostRecv(data)

\* The protocol hears pause_writing when a call left it newly paused.
Hears(before, after) ==
  told' = IF after.proto_paused /\ ~before.proto_paused THEN "paused" ELSE told

Call(nets) ==
  /\ net' \in nets
  /\ Hears(net, net')
  /\ UNCHANGED <<events, pass, delivered, lostCalls>>

Write == net.written < net.may.maxOut /\ ~net.eof_wanted /\ Call(Written(net))
Close == "close" \in net.may.calls /\ net.open /\ ~net.closing /\ Call(Closed(net))
Abort == "abort" \in net.may.calls /\ net.open /\ Call(Aborted(net))
ResumeReading == net.reading_paused /\ Call({SchedulePendingLost(m) : m \in Resumed(net)})

PauseReading ==
  /\ "pause" \in net.may.calls /\ net.open /\ ~net.closing /\ net.pauses < MaxPauses
  /\ Call({[net EXCEPT !.reading_paused = TRUE, !.pauses = @ + 1]})

WriteEof ==
  /\ "write_eof" \in net.may.calls /\ net.open /\ ~net.closing
  /\ Call({SchedulePendingLost(MaybeFinishShutdown([net EXCEPT !.eof_wanted = TRUE], FALSE))})

\* set_write_buffer_limits(0).
SetWriteBufferLimits ==
  /\ "limits" \in net.may.calls /\ net.open /\ net.high # 0
  /\ Call({SchedulePendingLost(m) : m \in MaybePause([net EXCEPT !.high = 0, !.low = 0])})

\* set_protocol: a new protocol starts unpaused.
SetProtocol(buffered) ==
  /\ "set_protocol" \in net.may.calls /\ net.open /\ net.protocol < MaxProtocols
  /\ buffered => "buffered" \in net.may.calls
  /\ net' = [net EXCEPT !.protocol = @ + 1, !.proto_paused = FALSE, !.buffered = buffered]
  /\ told' = "resumed"
  /\ UNCHANGED <<events, pass, delivered, lostCalls>>

\* Another transport's write settles this one's inline completions.
SettledByAnother == net.staged # <<>> /\ Call(SettleInline(net))

-----------------------------------------------------------------------------
(* Dispatch: the protocol's callbacks.                                     *)

Event == Head(events)
TakeEvent(kind) ==
  /\ pass > 0 /\ events # <<>> /\ Event.kind = kind
  /\ events' = Tail(events) /\ UNCHANGED pass

\* A failing callback is fatal to the transport (fatal_protocol_error).
Failing(n) == IF "raise" \in n.may.calls THEN {TeardownLost(n, "failed", FALSE)} ELSE {}

\* Mutant: what arrived is delivered whatever became of the transport.
Mut_InboundToTheLost(n, chunks) ==
  /\ delivered' = delivered \o chunks
  /\ net' = n

\* route_inbound and deliver_inbound.
Inbound(n, chunks) ==
  \/ /\ ~n.open \/ n.closing
     /\ net' = n /\ UNCHANGED delivered
  \/ /\ n.open /\ ~n.closing /\ n.reading_paused
     /\ net' = [n EXCEPT !.paused_recv = @ \o chunks] /\ UNCHANGED delivered
  \/ /\ n.open /\ ~n.closing /\ ~n.reading_paused
     /\ delivered' = delivered \o chunks
     /\ net' \in {n} \cup Failing(n)

DispatchData ==
  /\ TakeEvent("data")
  /\ Inbound(net, Event.chunks)
  /\ UNCHANGED <<told, lostCalls>>

\* The event's slot reference ends with it.
DispatchBufData ==
  /\ TakeEvent("buf")
  /\ Inbound(Release(net, Event.slot), <<net.mem[Event.slot]>>)
  /\ UNCHANGED <<told, lostCalls>>

\* eof_received: keep the transport open, close it, or raise.
DispatchEof ==
  /\ TakeEvent("eof")
  /\ net' \in IF ~net.open \/ net.closing THEN {net}
              ELSE IF net.reading_paused THEN {[net EXCEPT !.paused_eof = TRUE]}
              ELSE {net} \cup Closed(net) \cup Failing(net)
  /\ Hears(net, net')
  /\ UNCHANGED <<delivered, lostCalls>>

DispatchRecvFailed ==
  /\ TakeEvent("recv_failed")
  /\ net' = TeardownLost(net, "failed", FALSE)
  /\ UNCHANGED app

DispatchLost ==
  /\ TakeEvent("lost")
  /\ \/ Event.immediate /\ lostCalls' = lostCalls + 1 /\ UNCHANGED net
     \/ ~Event.immediate /\ net' = [net EXCEPT !.soon = @ + 1] /\ UNCHANGED lostCalls
  /\ UNCHANGED <<delivered, told>>

\* finish_after_resume: the close that resume_writing went before.
FinishAfterResume(n) ==
  IF n.open /\ n.wq = <<>> /\ ~n.send_op THEN MaybeFinishShutdown(n, TRUE) ELSE n

\* resume_writing, owed to the protocol that was paused; it may write.
DispatchResume ==
  /\ TakeEvent("resume")
  /\ LET owed == net.open /\ net.protocol = Event.protocol
         mayWrite == owed /\ net.written < net.may.maxOut /\ ~net.eof_wanted
     IN \E m \in {net} \cup (IF mayWrite THEN Written(net) ELSE {}) :
          LET paused == m.proto_paused /\ ~net.proto_paused
          IN /\ net' = FinishAfterResume(m)
             /\ told' = IF paused THEN "paused" ELSE IF owed THEN "resumed" ELSE told
  /\ UNCHANGED <<delivered, lostCalls>>

Dispatch ==
  \/ DispatchData \/ DispatchBufData \/ DispatchEof \/ DispatchRecvFailed \/ DispatchLost
  \/ DispatchResume

-----------------------------------------------------------------------------
(* The tick.                                                               *)

\* The writes corked during dispatch are flushed and the events so far
\* dispatched too (flush_corked).
FlushCorked ==
  /\ events = <<>> /\ pass = 1
  /\ \E m \in FlushList(net) :
       /\ net' = [m EXCEPT !.events = <<>>]
       /\ events' = m.events
  /\ pass' = 2
  /\ UNCHANGED app

\* The next tick: flush, poll, translate, take the events and the batch.
Poll ==
  /\ events = <<>> /\ pass = 2
  /\ \E f \in FlushList(net) :
       \E m \in Translate([f EXCEPT !.staged = <<>>, !.port = <<>>], f.staged \o f.port) :
         /\ net' = [m EXCEPT !.events = <<>>, !.batch = net.soon, !.soon = @ - net.soon]
         /\ events' = m.events
  /\ pass' = 0
  /\ UNCHANGED app

\* A deferred connection_lost runs, in the batch.
LostCall ==
  /\ pass = 0 /\ net.batch > 0
  /\ net' = [net EXCEPT !.batch = @ - 1]
  /\ lostCalls' = lostCalls + 1
  /\ UNCHANGED <<events, pass, delivered, told>>

\* The events come after the batch.  A tick without events has no second
\* flush.
BatchDone ==
  /\ pass = 0 /\ net.batch = 0
  /\ pass' = IF events = <<>> THEN 2 ELSE 1
  /\ UNCHANGED <<net, events, app>>

\* A KeyboardInterrupt: the rest goes back, the events to the front
\* (hand_back, requeue_events).
Interrupt ==
  /\ "interrupt" \in net.may.calls /\ net.interrupts < MaxInterrupts /\ (pass = 0 \/ events # <<>>)
  /\ net' = [net EXCEPT !.events = events \o @, !.soon = @ + net.batch, !.batch = 0,
                        !.interrupts = @ + 1]
  /\ events' = <<>> /\ pass' = 2
  /\ UNCHANGED app

Tick == Dispatch \/ LostCall \/ BatchDone \/ FlushCorked \/ Poll

-----------------------------------------------------------------------------
(* The peer and the kernel.                                                *)

Chunks == {net.rx[i] : i \in DOMAIN net.rx}

PeerSends(k) ==
  /\ k = net.peer + 1 /\ k <= net.may.maxIn
  /\ Chunks \cap {Eof, Reset} = {}
  /\ net' = [net EXCEPT !.peer = k, !.rx = Append(@, k)]
  /\ UNCHANGED <<events, pass, app>>

PeerEnds(how) ==
  /\ IF how = Eof THEN "eof" \in net.may.calls ELSE "reset" \in net.may.calls
  /\ Chunks \cap {Eof, Reset} = {}
  /\ net' = [net EXCEPT !.rx = Append(@, how)]
  /\ UNCHANGED <<events, pass, app>>

Done(n, c) == [n EXCEPT !.port = Append(@, c)]

\* A parked receive completes -- cancelled, once the entry let go of it.
KernelReceives ==
  /\ net.recv # NoSlot
  /\ \/ /\ net.rx # <<>>
        /\ net' = Done([Taken(net, net.recv) EXCEPT !.recv = NoSlot], Received(net, net.recv))
     \/ /\ ~net.recv_op
        /\ net' = Done([net EXCEPT !.recv = NoSlot],
                       [op |-> "recv", slot |-> net.recv, result |-> Cancelled])
  /\ UNCHANGED <<events, pass, app>>

\* The bytes a send reads: from the queue, or the guard of a torn-down
\* transport; anything from memory that was freed.
SentBytes(n, k) ==
  LET at == IF n.open THEN n.wq ELSE n.guard
  IN [i \in 1..k |-> IF i <= Len(at) THEN at[i] ELSE 0]

\* A parked send takes some of its bytes, or fails.
KernelSends(k) ==
  /\ net.send > 0 /\ k <= net.send
  /\ k = 0 => ~net.send_op \/ "reset" \in net.may.calls
  /\ net' = Done([net EXCEPT !.send = 0, !.tx = @ \o SentBytes(net, k)], [op |-> "send", sent |-> k])
  /\ UNCHANGED <<events, pass, app>>

Peer == (\E k \in 1..net.may.maxIn : PeerSends(k)) \/ (\E how \in {Eof, Reset} : PeerEnds(how))
Kernel == KernelReceives \/ \E k \in 0..Gather : KernelSends(k)

Application ==
  \/ Write \/ WriteEof \/ Close \/ Abort \/ PauseReading \/ ResumeReading
  \/ SetWriteBufferLimits \/ SettledByAnother
  \/ \E buffered \in BOOLEAN : SetProtocol(buffered)

Next == Application \/ Tick \/ Interrupt \/ Peer \/ Kernel

Spec == Init /\ [][Next]_vars

\* The loop runs and the peer reads.
FairSpec == Spec /\ WF_vars(Tick) /\ WF_vars(KernelReceives)
                 /\ WF_vars(\E k \in 1..Gather : KernelSends(k))

-----------------------------------------------------------------------------
(* Properties.                                                             *)

Completions == net.staged \o net.port
Count(seq, Test(_)) == Len(SelectSeq(seq, Test))
Pending == events \o net.events

TypeOK ==
  /\ net.refs \in [Slots -> Nat]
  /\ net.recv_slot \in Slots \cup {NoSlot} /\ net.recv \in Slots \cup {NoSlot}
  /\ net.inflight \in 0..Gather /\ net.send \in 0..Gather
  /\ Len(net.wq) <= net.may.maxOut /\ net.soon \in Nat
  /\ told \in {"resumed", "paused"} /\ lostCalls \in Nat /\ pass \in 0..2

\* The protocol receives the peer's chunks in order, none lost and none
\* twice, up to the point where the connection ends (net.rs: "or the
\* stream would be reordered").
ReceivedInOrder == \A i \in DOMAIN delivered : delivered[i] = i

\* The same of a transport whose reading is never paused: interrupts,
\* inline completions, settles from other transports and changes of
\* protocol keep the order.
UnpausedInOrder == net.pauses = 0 => ReceivedInOrder

\* The chunks an event carries.
Carried(e) ==
  CASE e.kind = "data" -> e.chunks [] e.kind = "buf" -> <<net.mem[e.slot]>> [] OTHER -> <<>>

\* While the connection is up, every chunk the peer sent is in one place:
\* the socket, a completion, an event, the bytes held for a paused
\* protocol, or the protocol.  Pausing, resuming, interrupts and changes
\* of protocol neither lose nor repeat one ("never silent loss").
InboundConserved ==
  LET arrived == FlattenSeq([i \in DOMAIN Completions |->
                    IF Completions[i].op = "recv" THEN <<Completions[i].result>> ELSE <<>>])
      queued == FlattenSeq([i \in DOMAIN Pending |-> Carried(Pending[i])])
      all == SelectSeq(delivered \o net.paused_recv \o queued \o arrived \o net.rx, LAMBDA k : k > 0)
  IN net.open /\ ~net.closing => Len(all) = net.peer /\ ToSet(all) = 1..net.peer

\* The peer receives the bytes in the order they were written, none twice
\* and none from a buffer that was let go while a send still pointed at it.
SentInOrder == \A i \in DOMAIN net.tx : net.tx[i] = i

\* A receive buffer is referenced by the transport, by the operation that
\* may write into it and by the events that will read it, by nothing else
\* and for no longer: it is neither recycled under the kernel nor leaked
\* (R-073).
RefsExact ==
  \A s \in Slots :
    net.refs[s] = (IF net.recv_slot = s THEN 1 ELSE 0) + (IF net.recv = s THEN 1 ELSE 0)
                    + Count(Completions, LAMBDA c : c.op = "recv" /\ c.slot = s)
                    + Count(Pending, LAMBDA e : e.kind = "buf" /\ e.slot = s)

\* connection_lost is called once, whichever way the connection ends: for
\* a torn-down transport it is queued, scheduled or done, in one place.
LostOnce ==
  lostCalls + net.soon + net.batch + Len(Only(Pending, {LostEvent(TRUE), LostEvent(FALSE)}))
    = IF net.open THEN 0 ELSE 1

\* A transport that closed in order sent everything it accepted, what was
\* written while it drained and from resume_writing included.
CloseSendsAll == net.ended = "closed" => Len(net.tx) = net.written

\* A transport's entry keeps its accounts across teardown: buffers are
\* neither recycled under the kernel nor leaked, and connection_lost is owed
\* once (net.rs, teardown and translate).
EntrySound == TypeOK /\ RefsExact /\ LostOnce

\* What the peer sent arrives whole, and in order unless reading is paused.
InboundSound == UnpausedInOrder /\ InboundConserved

\* What was written is sent in order, and all of it before an orderly close.
OutboundSound == SentInOrder /\ CloseSendsAll

\* Nothing reaches the protocol once connection_lost has been called.
SilentAfterLost == [][lostCalls = 1 => UNCHANGED <<delivered, told, lostCalls>>]_vars

\* close() ends in connection_lost.
CloseCompletes == net.closing ~> lostCalls = 1

\* A protocol told to pause is told to resume once its output drains, or
\* loses its connection.
PausedIsResumed == told = "paused" ~> told = "resumed" \/ ~net.open

\* A transport that goes on reading delivers everything the peer sent.
KeepsReading ==
  <>[](net.open /\ ~net.closing /\ ~net.reading_paused) => <>[](Len(delivered) = net.peer)

=============================================================================
