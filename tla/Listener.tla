------------------------------ MODULE Listener ------------------------------
(***************************************************************************)
(* Listeners and their accept pools (pyshim/src/net.rs) over the epoll     *)
(* backend (core/src/backend/epoll.rs): posting accepts, inline and parked *)
(* ones, the back-off of a listener that could post none, the tick that    *)
(* re-arms it, the accepted sockets on their way to a protocol, and the    *)
(* teardown of listeners and of the loop; beside a datagram endpoint       *)
(* (Datagram), which shares the tick, its re-arming and the dispatch.      *)
(*                                                                         *)
(* `net' is the listeners' part of NetState, the backend and the kernel;   *)
(* functions of net.rs are operators from a net to the set of nets they    *)
(* may leave, for what is exhausted may fail a call or not.  Accept        *)
(* operations of a listener differ only in where they are, so accept_ops   *)
(* is a count.  retry_at is kept as the time that is left.                 *)
(***************************************************************************)
EXTENDS Datagram

CONSTANTS
  Listeners,     \* listener ids: never reused
  Target,        \* size of an accept pool
  Backoff,       \* ACCEPT_RETRY_DELAY
  Interval,      \* STARVED_RETRY_INTERVAL
  Scenes,        \* who is there: see Scene
  MaxTroubles,   \* bound on exhaustions
  MaxUnwinds,    \* bound on fatal errors from callbacks
  Troubles       \* what may be exhausted: a subset of {"descriptors", "watches"}

\* The listeners that are used, and bounds on connections, on the datagrams
\* that arrive and on those that are sent.
Scene == [listeners : SUBSET Listeners, conns : Nat, arrivals : Nat, sends : Nat]

ASSUME ListenerAssumption ==
  /\ IsFiniteSet(Listeners) /\ Scenes \subseteq Scene
  /\ Target \in Nat \ {0} /\ {MaxTroubles, MaxUnwinds, Backoff, Interval} \subseteq Nat
  /\ 0 < Interval /\ Interval <= Backoff
  /\ Troubles \subseteq {"descriptors", "watches"}

VARIABLES
  net,         \* see Init
  tickEvents,  \* the events the tick is dispatching
  loop         \* "open" or "closed"

vars == <<net, tickEvents, loop>>

Init ==
  /\ \E scene \in Scenes :
     net = [scene |-> scene,
            state |-> [l \in Listeners |-> "new"],       \* "new", "open", "gone"
            started |-> [l \in Listeners |-> FALSE],
            accept_ops |-> [l \in Listeners |-> 0],
            starved |-> [l \in Listeners |-> FALSE],
            wait |-> [l \in Listeners |-> 0],            \* retry_at - now
            any_starved |-> FALSE,
            events |-> <<>>,
            parked |-> [l \in Listeners |-> FALSE],      \* the fd's read_op
            armed |-> [l \in Listeners |-> FALSE],       \* the kernel's mask
            staged |-> <<>>,                             \* inline_completions
            backlog |-> [l \in Listeners |-> <<>>],      \* the kernel
            dg |-> NoEndpoint,
            conns |-> 0, trouble |-> "none", troubles |-> 0, unwinds |-> 0,
            wired |-> {}, ended |-> {},                  \* connections
            calm |-> [l \in Listeners |-> Backoff],      \* history: time since its last
            storm |-> FALSE]                             \* error; two too close together
  /\ tickEvents = <<>>
  /\ loop = "open"

Open(n, l) == n.state[l] = "open"

Accepted(l, c) == [kind |-> "accepted", listener |-> l, conn |-> c]
AcceptError(l) == [kind |-> "error", listener |-> l]

-----------------------------------------------------------------------------
(* The backend.                                                            *)

\* post_accept: refused while one is parked; failed; completed inline; or
\* parked, for which the kernel's mask is brought in line.  An epoll_ctl
\* that fails leaves the operation in the descriptor's slot (park).
Outcome(n, posted) == [net |-> n, posted |-> posted]
PostAccept(n, l) ==
  LET parked == [n EXCEPT !.parked[l] = TRUE]
      taken == [n EXCEPT !.backlog[l] = Tail(@),
                         !.staged = Append(@, Completion(l, Head(n.backlog[l])))]
  IN IF n.parked[l] THEN {Outcome(n, "full")}
     ELSE UNION {IF n.trouble = "descriptors" THEN {Outcome(n, "failed")} ELSE {},
                 IF n.backlog[l] # <<>> THEN {Outcome(taken, "ok")}
                 ELSE {Outcome([parked EXCEPT !.armed[l] = TRUE], "ok")},
                 IF n.backlog[l] = <<>> /\ n.trouble = "watches" /\ ~n.armed[l]
                 THEN {Outcome(parked, "failed")} ELSE {}}

Readable(n, l) == n.armed[l] /\ n.backlog[l] # <<>>

\* drive_side: the parked accept of a readable listener; a mask nobody
\* wants is disarmed.
Drive(n, l) ==
  LET done(result) == [n EXCEPT !.parked[l] = FALSE, !.staged = Append(@, Completion(l, result))]
  IN IF ~Readable(n, l) THEN {n}
     ELSE IF ~n.parked[l] THEN {[n EXCEPT !.armed[l] = FALSE]}
     ELSE {[done(Head(n.backlog[l])) EXCEPT !.backlog[l] = Tail(@)]}
            \cup (IF n.trouble = "descriptors" THEN {done(Failed)} ELSE {})

\* cancel and detach_socket: a parked accept is completed as cancelled, one
\* that completed inline is left to its completion.
Detach(n, l) ==
  [n EXCEPT !.parked[l] = FALSE, !.armed[l] = FALSE,
            !.staged = IF n.parked[l] THEN Append(@, Completion(l, Cancelled)) ELSE @]

-----------------------------------------------------------------------------
(* The accept pool.                                                        *)

\* Accepted, for the listener's protocol factory.
Deliver(n, l, c) == [n EXCEPT !.events = Append(@, Accepted(l, c)), !.calm[l] = Backoff]

\* AcceptError, for the loop's exception handler.
Report(n, l) == [n EXCEPT !.events = Append(@, AcceptError(l)),
                          !.storm = @ \/ n.calm[l] < Backoff, !.calm[l] = 0]

\* Mutant: the listener is retried at once.
Mut_StarveAtOnce(n, l, delay) ==
  IF n.accept_ops[l] # 0 THEN n
  ELSE [n EXCEPT !.starved[l] = TRUE, !.wait[l] = 0, !.any_starved = TRUE]

\* The listener has no operation left to retry for it: the tick will.
Starve(n, l, delay) ==
  IF n.accept_ops[l] # 0 THEN n
  ELSE [n EXCEPT !.starved[l] = TRUE, !.wait[l] = delay, !.any_starved = TRUE]

\* A post that failed: reported if it leaves the listener starved.
PostFailed(n, l, report) ==
  IF report /\ n.accept_ops[l] = 0 THEN Report(Starve(n, l, Backoff), l) ELSE Starve(n, l, Backoff)

\* One turn of post_accepts_inner's loop, and whether there is another.
PostOne(n, l, report) ==
  IF ~Open(n, l) THEN {[net |-> n, more |-> FALSE]}
  ELSE IF n.accept_ops[l] >= Target THEN {[net |-> [n EXCEPT !.starved[l] = FALSE], more |-> FALSE]}
  ELSE {[net |-> CASE r.posted = "ok" -> [r.net EXCEPT !.accept_ops[l] = @ + 1, !.starved[l] = FALSE]
                   [] r.posted = "failed" -> PostFailed(r.net, l, report)
                   [] r.posted = "full" -> Starve(r.net, l, Interval),
         more |-> r.posted = "ok"] : r \in PostAccept(n, l)}

PostAccepts(n, l, report) ==
  LET turn(acc, i) == IF acc.more THEN PostOne(acc.net, l, report) ELSE {acc}
      turns == [i \in 1..(Target + 1) |-> i]
  IN {r.net : r \in Fed(turn, {[net |-> n, more |-> TRUE]}, turns)}

\* on_accept_done, with take_accept_socket.
OnAcceptDone(n, c) ==
  LET l == c.target
      done == [n EXCEPT !.accept_ops[l] = @ - 1]
  IN IF ~Open(n, l)
     THEN {IF c.result \in {Cancelled, Failed} THEN n ELSE [n EXCEPT !.ended = @ \cup {c.result}]}
     ELSE IF c.result = Cancelled THEN PostAccepts(done, l, TRUE)
     ELSE IF c.result = Failed
     THEN {Starve(Report(done, l), l, Backoff)}
     ELSE PostAccepts(Deliver(done, l, c.result), l, TRUE)

OnDone(n, c) ==
  CASE c.target = "recv" -> OnDgramRecvDone(n, c.result)
    [] c.target = "send" -> OnDgramSendDone(n, c.result)
    [] OTHER -> OnAcceptDone(n, c)

Translate(n) == Fed(OnDone, {[n EXCEPT !.staged = <<>>]}, n.staged)

StarvedOnes(n) == {l \in Listeners : Open(n, l) /\ n.starved[l]}

\* Mutant: the flag goes down although a listener is in its back-off.
Mut_RetryDropsFlag(n) ==
  LET due == {l \in StarvedOnes(n) : n.wait[l] = 0}
      retry(m, l) == PostAccepts([m EXCEPT !.starved[l] = FALSE], l, TRUE)
      rearmed == Fed(retry, {[n EXCEPT !.any_starved = FALSE]}, SetToSeq(due))
  IN IF ~n.any_starved THEN {n}
     ELSE IF Starving(n) THEN UNION {RetryDgram(m) : m \in rearmed} ELSE rearmed

\* retry_starved_listeners: listeners in their back-off keep the flag up.
RetryStarved(n) ==
  LET due == {l \in StarvedOnes(n) : n.wait[l] = 0}
      retry(m, l) == PostAccepts([m EXCEPT !.starved[l] = FALSE], l, TRUE)
      rearmed == Fed(retry, {[n EXCEPT !.any_starved = StarvedOnes(n) # due]}, SetToSeq(due))
  IN IF ~n.any_starved THEN {n}
     ELSE IF Starving(n) THEN UNION {RetryDgram(m) : m \in rearmed} ELSE rearmed

\* listener_remove: the kernel resets what the listening socket holds.
Removed(n, l) ==
  [Detach(n, l) EXCEPT !.state[l] = "gone", !.accept_ops[l] = 0, !.starved[l] = FALSE,
                       !.wait[l] = 0, !.calm[l] = Backoff,
                       !.ended = @ \cup ToSet(n.backlog[l]), !.backlog[l] = <<>>]

-----------------------------------------------------------------------------
(* Calls.                                                                  *)

Call(nets) == loop = "open" /\ net' \in nets /\ UNCHANGED <<tickEvents, loop>>

Created(n, l) == [n EXCEPT !.state[l] = "open"]
Started(n, l) == PostAccepts([n EXCEPT !.started[l] = TRUE], l, FALSE)

\* create_listener(start=False), and Server.start_serving's one call of
\* listener_start: a start that fails leaves the listener to the tick.
Create(l) == net.state[l] = "new" /\ l \in net.scene.listeners /\ Call({Created(net, l)})
Start(l) == Open(net, l) /\ ~net.started[l] /\ Call(Started(net, l))

\* create_listener(start=True): undone when not a single accept was posted.
CreateStarted(l) ==
  /\ net.state[l] = "new" /\ l \in net.scene.listeners
  /\ Call({IF n.accept_ops[l] = 0 THEN Removed(n, l) ELSE n : n \in Started(Created(net, l), l)})

\* listener_close
ListenerClose(l) == Open(net, l) /\ Call({Removed(net, l)})

\* The datagram transport's calls.
OpenEndpoint == net.dg.state = "new" /\ net.scene.arrivals + net.scene.sends > 0 /\ Call(UdpWire(net))
Sendto ==
  /\ Up(net) /\ ~net.dg.closing /\ net.dg.asked < net.scene.sends
  /\ Call(UdpSendto(net, net.dg.asked + 1))
CloseEndpoint(abort) == Up(net) /\ (net.dg.closing => abort) /\ Call({UdpClose(net, abort)})

-----------------------------------------------------------------------------
(* The tick.                                                               *)

\* What ends the park: something to report, events of its own, or the
\* retry of a starved listener (starved_retry_in).
Due ==
  \/ net.staged # <<>> \/ net.events # <<>>
  \/ \E l \in Listeners : Readable(net, l)
  \/ net.dg.recv_parked /\ net.dg.inbox # <<>>
  \/ net.dg.send_parked /\ net.dg.buffer # "full"
  \/ net.any_starved /\ (Starving(net) \/ StarvedOnes(net) = {} \/ \E l \in StarvedOnes(net) : net.wait[l] = 0)

Polled == UNION {DriveDgram(n) : n \in Fed(Drive, {net}, SetToSeq(Listeners))}

\* The poll, translate, the retry of starved listeners, and the events.  The
\* ready batch with a deferred connection_lost, which the tick runs ahead of
\* the events, is taken ahead of the poll.
Poll ==
  /\ loop = "open" /\ tickEvents = <<>> /\ net.dg.lost # "soon"
  /\ \E p \in Polled : \E t \in Translate(p) : \E n \in RetryStarved(t) :
       net' = [n EXCEPT !.events = <<>>] /\ tickEvents' = n.events
  /\ UNCHANGED loop

Event == Head(tickEvents)

\* A fatal error puts the rest back (dispatch_events).
Rest(n) ==
  \/ net' = n /\ tickEvents' = Tail(tickEvents)
  \/ /\ n.unwinds < MaxUnwinds
     /\ net' = [n EXCEPT !.events = Tail(tickEvents) \o @, !.unwinds = @ + 1]
     /\ tickEvents' = <<>>

\* An accepted socket is wired to a new protocol; it is closed when the
\* listener is gone or the protocol cannot be made.
DispatchAccepted ==
  /\ tickEvents # <<>> /\ Event.kind = "accepted"
  /\ \/ Open(net, Event.listener) /\ Rest([net EXCEPT !.wired = @ \cup {Event.conn}])
     \/ Rest([net EXCEPT !.ended = @ \cup {Event.conn}])
  /\ UNCHANGED loop

\* The loop's exception handler is told.
DispatchError ==
  /\ tickEvents # <<>> /\ Event.kind = "error"
  /\ Rest(net)
  /\ UNCHANGED loop

\* The endpoint's events, and the callback of its deferred connection_lost.
DispatchEndpoint ==
  /\ tickEvents # <<>> /\ Event.kind \in {"dgram_data", "dgram_error", "dgram_lost"}
  /\ Rest(DispatchDgram(net, Event))
  /\ UNCHANGED loop

LostCall == tickEvents = <<>> /\ net.dg.lost = "soon" /\ Call({[net EXCEPT !.dg.lost = "told"]})

Unwire(n) == IF Up(n) THEN Unwired(n) ELSE n
TornDown == Fed(LAMBDA n, l : {IF Open(n, l) THEN Removed(n, l) ELSE n}, {net},
                SetToSeq(Listeners))
Carried(n) == {e.conn : e \in {x \in ToSet(n.events) : x.kind = "accepted"}}

\* Mutant: the events are dropped with what they carry.
Mut_CloseDropsEvents ==
  /\ loop = "open" /\ tickEvents = <<>>
  /\ \E torn \in TornDown : \E n \in Translate(Unwire(torn)) : net' = [n EXCEPT !.events = <<>>]
  /\ loop' = "closed"
  /\ UNCHANGED tickEvents

\* close: every listener goes, what it cancelled is reaped (reap_at_close),
\* and the sockets in events nobody will dispatch are closed.
Close ==
  /\ loop = "open" /\ tickEvents = <<>>
  /\ \E torn \in TornDown : \E n \in Translate(Unwire(torn)) :
       net' = [n EXCEPT !.events = <<>>, !.ended = @ \cup Carried(n)]
  /\ loop' = "closed"
  /\ UNCHANGED tickEvents

-----------------------------------------------------------------------------
(* The kernel, the peers and time.                                         *)

Environment(n) == loop = "open" /\ net' = n /\ UNCHANGED <<tickEvents, loop>>

Connect(l) ==
  /\ l \in net.scene.listeners /\ net.state[l] # "gone" /\ net.conns < net.scene.conns
  /\ Environment([net EXCEPT !.conns = @ + 1, !.backlog[l] = Append(@, net.conns + 1)])

\* A parked accept ends without a connection, its client gone or the
\* operation aborted: what a failed AcceptEx reports.  The epoll backend
\* never does, for its accept retries; the pool must bear with either.
Abort(l) ==
  /\ net.parked[l] /\ net.accept_ops[l] > 0
  /\ Environment([net EXCEPT !.parked[l] = FALSE,
                             !.staged = Append(@, Completion(l, Cancelled))])

\* A datagram arrives, or the news that one of ours was refused.
Arrive ==
  /\ Up(net) /\ net.dg.arrived < net.scene.arrivals
  /\ Environment([net EXCEPT !.dg.arrived = @ + 1, !.dg.inbox = Append(@, net.dg.arrived + 1)])
Unreachable == Up(net) /\ net.dg.wire # <<>> /\ net.dg.inbox = <<>>
               /\ Environment([net EXCEPT !.dg.inbox = <<Failed>>])

\* The socket's send buffer fills, once, and empties.
Congest == Up(net) /\ net.dg.buffer = "free" /\ net.scene.sends > 0
           /\ Environment([net EXCEPT !.dg.buffer = "full"])
Empties == net.dg.buffer = "full" /\ Environment([net EXCEPT !.dg.buffer = "emptied"])

Exhaust(what) ==
  /\ net.trouble = "none" /\ net.troubles < MaxTroubles
  /\ Environment([net EXCEPT !.trouble = what, !.troubles = @ + 1])

Recover == net.trouble # "none" /\ Environment([net EXCEPT !.trouble = "none"])

TimePasses ==
  /\ \E l \in Listeners : net.wait[l] > 0 \/ net.calm[l] < Backoff
  /\ Environment([net EXCEPT !.wait = [l \in Listeners |-> IF @[l] > 0 THEN @[l] - 1 ELSE 0],
                             !.calm = [l \in Listeners |-> IF @[l] < Backoff THEN @[l] + 1 ELSE @[l]]])

Next ==
  \/ \E l \in Listeners : Create(l) \/ Start(l) \/ CreateStarted(l) \/ ListenerClose(l)
                            \/ Connect(l) \/ Abort(l)
  \/ OpenEndpoint \/ Sendto \/ (\E abort \in BOOLEAN : CloseEndpoint(abort))
  \/ Arrive \/ Unreachable \/ Congest \/ Empties
  \/ Poll \/ DispatchAccepted \/ DispatchError \/ DispatchEndpoint \/ LostCall \/ Close
  \/ \E what \in Troubles : Exhaust(what)
  \/ Recover \/ TimePasses

Spec == Init /\ [][Next]_vars

\* The loop runs whatever is due, without counting on the 100 ms clamp, and
\* time passes; a full send buffer empties.
FairSpec ==
  /\ Spec
  /\ WF_vars((Due /\ Poll) \/ DispatchAccepted \/ DispatchError \/ DispatchEndpoint)
  /\ WF_vars(LostCall) /\ WF_vars(Empties)
  /\ WF_vars(TimePasses)

-----------------------------------------------------------------------------
(* Properties.                                                             *)

TypeOK ==
  /\ net.state \in [Listeners -> {"new", "open", "gone"}]
  /\ net.accept_ops \in [Listeners -> 0..Target]
  /\ net.wait \in [Listeners -> 0..Backoff]
  /\ net.wired \subseteq 1..net.conns /\ net.ended \subseteq 1..net.conns
  /\ net.trouble \in Troubles \cup {"none"} /\ loop \in {"open", "closed"}

\* A started listener and an open endpoint are never deaf: they have an
\* accept or a receive outstanding, one the kernel will complete or one whose
\* completion is staged, or the tick is bound to re-arm them ("the listener
\* would go permanently deaf while still reporting itself as serving",
\* post_accepts_inner; on_dgram_recv_done).
NeverDeaf ==
  /\ EndpointHears(net)
  /\ \A l \in Listeners : Open(net, l) /\ net.started[l] =>
       IF net.accept_ops[l] = 0 THEN net.starved[l] /\ net.any_starved
       ELSE net.accept_ops[l] = Len(StagedFor(net, l)) + IF net.parked[l] /\ net.armed[l] THEN 1 ELSE 0

\* Where a connection is: in the kernel's backlog, in a completion, in an
\* event, with a protocol, or closed.
PlacesOf(c) ==
  LET all == net.events \o tickEvents
  IN Cardinality({l \in Listeners : c \in ToSet(net.backlog[l])})
       + Len(SelectSeq(net.staged, LAMBDA x : x.target \in Listeners /\ x.result = c))
       + Len(SelectSeq(all, LAMBDA e : e.kind = "accepted" /\ e.conn = c))
       + (IF c \in net.wired THEN 1 ELSE 0) + (IF c \in net.ended THEN 1 ELSE 0)

\* No accepted socket is leaked or closed twice, whichever of its listener,
\* the tick and the loop goes first; once the loop is closed, none is left
\* on the way.
EveryConnectionOnce ==
  /\ \A c \in 1..net.conns : PlacesOf(c) = 1
  /\ loop = "closed" => net.staged = <<>> /\ net.events = <<>>

\* The accounts: accepts never exceed the target and every connection is in
\* one place (post_accepts_inner, dispatch, close).
AcceptsAccounted == TypeOK /\ EveryConnectionOnce

\* The same of datagrams: none is lost, doubled or overtaken on its way to
\* the protocol or to the wire, unless it was dropped with an error, an abort
\* or a close; none is stranded in the queue; the buffer of a receive the
\* backend holds is not given back under it (dgram_pump_send, cancel_dgram_ops).
DatagramsAccounted == SendsSound(net) /\ ReceivesSound(net, net.events \o tickEvents)

\* What the listeners and the endpoint were handed is accounted for.
TrafficAccounted == AcceptsAccounted /\ DatagramsAccounted

\* As long as a listener accepts nothing, exhaustion is reported once per
\* back-off, not once per tick: "each tick logged another" is what
\* ACCEPT_RETRY_DELAY ended.
NoErrorStorm == ~net.storm

\* Once the system has recovered for good, a started listener accepts what
\* waits in its backlog: it does not stay "deaf even after whatever
\* exhausted the system has recovered" (tick).
AcceptsAgain ==
  <>[](net.trouble = "none") =>
    \A l \in Listeners :
      Open(net, l) /\ net.started[l] /\ net.backlog[l] # <<>>
        ~> ~Open(net, l) \/ net.backlog[l] = <<>>

\* The endpoint receives again as well; and once it is closed its protocol
\* hears of connection_lost, whatever became of the sends it had to drain
\* (a refused one "skipped the deferred-close check, leaving the endpoint
\* open for good", dgram_pump_send).
EndpointServed ==
  /\ <>[](net.trouble = "none") => (Up(net) /\ net.dg.inbox # <<>> ~> ~Up(net) \/ net.dg.closing \/ net.dg.inbox = <<>>)
  /\ net.dg.closing ~> net.dg.lost = "told" \/ loop = "closed"

\* After an exhaustion everybody is served again.
ServesAgain == AcceptsAgain /\ EndpointServed

=============================================================================
