------------------------------ MODULE Datagram ------------------------------
(***************************************************************************)
(* A datagram endpoint (pyshim/src/net.rs): one receive outstanding, sends *)
(* one at a time with a bounded queue behind them, errors per packet, a    *)
(* close that drains and an abort that does not, connection_lost once.     *)
(*                                                                         *)
(* The operators act on the record n of Listener, which composes them: dg  *)
(* is the endpoint with its share of backend and kernel; events, staged,   *)
(* any_starved and trouble are shared with the listeners.  A function of   *)
(* net.rs is an operator from n to the set of n it may leave.  Datagrams   *)
(* are numbered in the order they arrive, or are given to sendto.          *)
(***************************************************************************)
EXTENDS Integers, Sequences, FiniteSets, SequencesExt

CONSTANT QueueMax   \* DGRAM_SEND_QUEUE_MAX, in datagrams

ASSUME DatagramAssumption == QueueMax \in Nat

NoEndpoint ==
  [state |-> "new", closing |-> FALSE, starved |-> FALSE,  \* DatagramEntry
   recv_op |-> FALSE, slot |-> FALSE, guard |-> FALSE,     \* guard: the slot is the reap guard's
   send_op |-> 0, queue |-> <<>>, lost |-> "no",
   recv_parked |-> FALSE, send_parked |-> FALSE,           \* the backend
   inbox |-> <<>>, buffer |-> "free",                      \* the kernel; its send buffer
   arrived |-> 0, asked |-> 0, got |-> <<>>, wire |-> <<>>, dropped |-> {}]  \* history

Up(n) == n.dg.state = "open"

\* An operation's completion: for a listener, or for "recv" or "send".
Completion(target, result) == [target |-> target, result |-> result]

\* Results that are no connection and no datagram.
Cancelled == 0
Failed == -1

Fed(Op(_, _), nets, seq) == FoldLeft(LAMBDA acc, x : UNION {Op(n, x) : n \in acc}, nets, seq)

\* DgramData, DgramError and DgramLost, for the dispatch.
Push(n, kind, item) == [n EXCEPT !.events = Append(@, [kind |-> kind, item |-> item])]

-----------------------------------------------------------------------------
(* The backend: a post completes inline, parks, or is refused while        *)
(* something is exhausted, as WSARecvFrom and WSASendTo may be.            *)

Posted(n, ok) == [net |-> n, ok |-> ok]
Refused(n) == IF n.trouble = "none" THEN {} ELSE {Posted(n, FALSE)}

Inline(n, target, result) == [n EXCEPT !.staged = Append(@, Completion(target, result))]

PostRecvFrom(n) ==
  Refused(n) \cup
    {Posted(IF n.dg.inbox = <<>> THEN [n EXCEPT !.dg.recv_parked = TRUE]
            ELSE [Inline(n, "recv", Head(n.dg.inbox)) EXCEPT !.dg.inbox = Tail(@)], TRUE)}

\* A send that was tried: on the wire, or an error of its own.
Tried(n, d) ==
  {[Inline(n, "send", d) EXCEPT !.dg.wire = Append(@, d)],
   [Inline(n, "send", Failed) EXCEPT !.dg.dropped = @ \cup {d}]}

PostSendTo(n, d) ==
  Refused(n) \cup {Posted(m, TRUE) : m \in IF n.dg.buffer = "full" THEN {[n EXCEPT !.dg.send_parked = TRUE]}
                                           ELSE Tried(n, d)}

\* drive_side, of both sides of the descriptor.
DriveDgram(n) ==
  LET received == IF n.dg.recv_parked /\ n.dg.inbox # <<>>
                  THEN [Inline(n, "recv", Head(n.dg.inbox)) EXCEPT !.dg.recv_parked = FALSE, !.dg.inbox = Tail(@)]
                  ELSE n
  IN IF n.dg.send_parked /\ n.dg.buffer # "full"
     THEN Tried([received EXCEPT !.dg.send_parked = FALSE], n.dg.send_op) ELSE {received}

-----------------------------------------------------------------------------
(* Receiving.                                                              *)

\* dgram_post_recv: the slot goes back when the post fails.
DgramPostRecv(n) ==
  IF ~Up(n) \/ n.dg.closing \/ n.dg.recv_op THEN {Posted(n, TRUE)}
  ELSE {Posted([r.net EXCEPT !.dg.recv_op = r.ok, !.dg.slot = r.ok], r.ok) : r \in PostRecvFrom(n)}

\* on_dgram_recv_done, behind the release of the reap guard (translate).
OnDgramRecvDone(n, result) ==
  LET reaped == [n EXCEPT !.dg.guard = FALSE]
      done == [reaped EXCEPT !.dg.recv_op = FALSE]
      told == Push(done, IF result = Failed THEN "dgram_error" ELSE "dgram_data", result)
  IN IF ~Up(n) THEN {reaped}
     ELSE IF n.dg.closing \/ result = Cancelled THEN {done}
     ELSE {IF r.ok THEN r.net ELSE [r.net EXCEPT !.dg.starved = TRUE, !.any_starved = TRUE]
             : r \in DgramPostRecv(told)}

\* The datagrams' half of retry_starved_listeners.
Starving(n) == Up(n) /\ n.dg.starved /\ ~n.dg.closing
RetryDgram(n) ==
  {IF r.ok THEN [r.net EXCEPT !.dg.starved = FALSE] ELSE [r.net EXCEPT !.any_starved = TRUE]
     : r \in DgramPostRecv(n)}

-----------------------------------------------------------------------------
(* Sending and closing.                                                    *)

\* cancel_dgram_ops and detach_socket: what is parked completes as
\* cancelled, and the slot of a receive outstanding waits for that.
Unwired(n) ==
  LET cancelled == (IF n.dg.recv_parked THEN <<Completion("recv", Cancelled)>> ELSE <<>>)
                     \o (IF n.dg.send_parked THEN <<Completion("send", Cancelled)>> ELSE <<>>)
      unsent == ToSet(n.dg.queue) \cup IF n.dg.send_parked THEN {n.dg.send_op} ELSE {}
  IN [n EXCEPT !.staged = @ \o cancelled, !.dg.state = "gone", !.dg.starved = FALSE,
               !.dg.guard = n.dg.recv_op, !.dg.slot = FALSE, !.dg.recv_op = FALSE,
               !.dg.send_op = 0, !.dg.queue = <<>>, !.dg.dropped = @ \cup unsent,
               !.dg.recv_parked = FALSE, !.dg.send_parked = FALSE]

\* dgram_send_now: a refused post is an error of that packet.
DgramSendNow(n, d) ==
  {IF r.ok THEN [r.net EXCEPT !.dg.send_op = d]
   ELSE [Push(r.net, "dgram_error", Failed) EXCEPT !.dg.dropped = @ \cup {d}] : r \in PostSendTo(n, d)}

PumpOne(n, turn) ==
  IF n.dg.send_op # 0 \/ n.dg.queue = <<>> THEN {n}
  ELSE DgramSendNow([n EXCEPT !.dg.queue = Tail(@)], Head(n.dg.queue))

\* A close that waited for the queue: connection_lost from the dispatch.
Drained(n) ==
  IF n.dg.closing /\ n.dg.send_op = 0 /\ n.dg.queue = <<>>
  THEN [Push(Unwired(n), "dgram_lost", 0) EXCEPT !.dg.lost = "event"] ELSE n

\* Mutant: a packet that is refused ends the pump.
Mut_PumpStopsAtRefusal(n) ==
  IF n.dg.queue = <<>> THEN {Drained(n)} ELSE PumpOne(n, 1)

\* dgram_pump_send
DgramPumpSend(n) == {Drained(m) : m \in Fed(PumpOne, {n}, [i \in 1..Len(n.dg.queue) |-> i])}

OnDgramSendDone(n, result) ==
  LET done == [n EXCEPT !.dg.send_op = 0]
  IN IF ~Up(n) THEN {n}
     ELSE DgramPumpSend(IF result = Failed THEN Push(done, "dgram_error", Failed) ELSE done)

\* udp_sendto
UdpSendto(n, d) ==
  LET asked == [n EXCEPT !.dg.asked = d]
  IN IF n.dg.send_op = 0 THEN DgramSendNow(asked, d)
     ELSE IF Len(n.dg.queue) < QueueMax THEN {[asked EXCEPT !.dg.queue = Append(@, d)]}
     ELSE {[Push(asked, "dgram_error", Failed) EXCEPT !.dg.dropped = @ \cup {d}]}

\* udp_close, and schedule_pending_lost behind it: connection_lost is
\* scheduled like any callback.
UdpClose(n, abort) ==
  LET kept == IF abort THEN [n EXCEPT !.dg.dropped = @ \cup ToSet(n.dg.queue), !.dg.queue = <<>>] ELSE n
      closing == [kept EXCEPT !.dg.closing = TRUE]
  IN IF closing.dg.send_op = 0 /\ closing.dg.queue = <<>>
     THEN [Unwired(closing) EXCEPT !.dg.lost = "soon"] ELSE closing

\* udp_wire: undone when the first receive cannot be posted.
UdpWire(n) ==
  {IF r.ok THEN r.net ELSE Unwired(r.net)
     : r \in DgramPostRecv([n EXCEPT !.dg.state = "open"])}

\* The protocol's callbacks: none for data behind a close, none for errors
\* once the endpoint is gone.
DispatchDgram(n, e) ==
  CASE e.kind = "dgram_data" -> IF Up(n) /\ ~n.dg.closing THEN [n EXCEPT !.dg.got = Append(@, e.item)] ELSE n
    [] e.kind = "dgram_error" -> n
    [] e.kind = "dgram_lost" -> [n EXCEPT !.dg.lost = "told"]

-----------------------------------------------------------------------------
(* What makes an endpoint sound.                                           *)

StagedFor(n, target) == SelectSeq(n.staged, LAMBDA c : c.target = target)

\* An open endpoint has its receive outstanding, where a completion can come
\* from, or the tick is bound to post it again.
EndpointHears(n) ==
  Up(n) /\ ~n.dg.closing =>
    IF n.dg.recv_op THEN n.dg.recv_parked \/ StagedFor(n, "recv") # <<>>
    ELSE n.dg.starved /\ n.any_starved

Times(seq, x) == Len(SelectSeq(seq, LAMBDA y : y = x))

\* Every datagram given to sendto is on the wire, in flight, queued, or
\* dropped with an error or an abort, in order; what is queued has a send
\* ahead of it whose completion pumps it.
SendsSound(n) ==
  /\ \A d \in 1..n.dg.asked :
       Times(n.dg.wire \o n.dg.queue, d) + (IF n.dg.send_parked /\ n.dg.send_op = d THEN 1 ELSE 0)
         + (IF d \in n.dg.dropped THEN 1 ELSE 0) = 1
  /\ \A i, j \in 1..Len(n.dg.wire) : i < j => n.dg.wire[i] < n.dg.wire[j]
  /\ n.dg.queue # <<>> => n.dg.send_parked \/ StagedFor(n, "send") # <<>>

\* Every datagram that arrived is on its way to the protocol or was given to
\* it, once and in order, until the endpoint is closed; and the receive's
\* buffer is held for as long as it is written to, and not beyond its reaping.
ReceivesSound(n, events) ==
  LET data == [k \in 1..Len(events) |-> IF events[k].kind = "dgram_data" THEN events[k].item ELSE Failed]
      coming == [k \in 1..Len(StagedFor(n, "recv")) |-> StagedFor(n, "recv")[k].result]
  IN /\ Up(n) /\ ~n.dg.closing =>
          \A d \in 1..n.dg.arrived : Times(n.dg.inbox \o coming \o data \o n.dg.got, d) = 1
     /\ \A i, j \in 1..Len(n.dg.got) : i < j => n.dg.got[i] < n.dg.got[j]
     /\ n.dg.recv_parked \/ coming # <<>> => n.dg.slot \/ n.dg.guard
     /\ n.dg.guard => coming # <<>>
     /\ n.dg.slot => Up(n)
=============================================================================
