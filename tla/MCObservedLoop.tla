--------------------------- MODULE MCObservedLoop ---------------------------
(***************************************************************************)
(* Three callbacks so that order shows: one can run while two wait.        *)
(***************************************************************************)
EXTENDS ObservedLoop

CONSTANTS s1, s2, s3, t1, k1

MCSoon == {s1, s2, s3}
MCTimers == {t1}
MCConns == {k1}
Symmetry == Permutations(MCSoon)

=============================================================================
