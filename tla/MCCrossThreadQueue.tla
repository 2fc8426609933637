------------------------ MODULE MCCrossThreadQueue ------------------------
(***************************************************************************)
(* Two producers, two callbacks and one timer: enough for a producer to    *)
(* push behind the bound of a drain that another producer's push set off.  *)
(***************************************************************************)
EXTENDS CrossThreadQueue, TLC

CONSTANTS p1, p2, c1, c2, t1

MCProducers == {p1, p2}
MCCallbacks == {c1, c2}
MCTimers == {t1}

=============================================================================
