-------------------------- MODULE MCStreamTransport --------------------------
(***************************************************************************)
(* One scenario per direction and concern, so that their state spaces add  *)
(* up instead of multiplying.                                              *)
(***************************************************************************)
EXTENDS StreamTransport

Receiving == [maxIn |-> 3, maxOut |-> 0, mayFail |-> TRUE,
              calls |-> {"set_protocol", "buffered", "close", "abort", "eof", "reset", "raise",
                         "interrupt"}]
Pausing == [maxIn |-> 2, maxOut |-> 0, mayFail |-> FALSE,
            calls |-> {"pause", "set_protocol", "buffered", "eof", "interrupt"}]
Sending == [maxIn |-> 0, maxOut |-> 3, mayFail |-> TRUE,
            calls |-> {"write_eof", "limits", "close", "abort", "reset"}]
Both == [maxIn |-> 1, maxOut |-> 2, mayFail |-> FALSE, calls |-> {"close", "eof", "pause"}]

AllScenarios == {Receiving, Pausing, Sending, Both}
Holding == {[maxIn |-> 2, maxOut |-> 0, mayFail |-> FALSE, calls |-> {"pause"}]}

=============================================================================
