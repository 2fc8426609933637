----------------------------- MODULE MCListener -----------------------------
(* Two listeners; a listener beside a datagram endpoint; an endpoint alone. *)
EXTENDS Listener

CONSTANTS l1, l2
MCListeners == {l1, l2}

Of(listeners, conns, arrivals, sends) ==
  [listeners |-> listeners, conns |-> conns, arrivals |-> arrivals, sends |-> sends]

MCScenes == {Of({l1, l2}, 2, 0, 0), Of({l1}, 1, 1, 0), Of({}, 0, 2, 1), Of({}, 0, 0, 3)}
OneListener == {Of({l1}, 2, 0, 0)}
=============================================================================
