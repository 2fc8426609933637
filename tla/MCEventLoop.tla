---------------------------- MODULE MCEventLoop ----------------------------
(***************************************************************************)
(* One callback, one timer, one transport and one watched descriptor with  *)
(* one or two watch handles, so that one displaces or succeeds the other.  *)
(***************************************************************************)
EXTENDS EventLoop

CONSTANTS s1, t1, f1, w1, w2, k1

OneSoon == {s1}
OneTimer == {t1}
OneFd == {f1}
TwoWatches == {w1, w2}
OneConn == {k1}

=============================================================================
