--------------------------- MODULE MCHttpConnection ---------------------------
(***************************************************************************)
(* Small instances of HttpConnection.  Each scenario aims at one hazard:   *)
(* pipelining at its budget, interim responses and errors in their place,  *)
(* disconnects beside waiting coroutines, backpressure, the sweep, the     *)
(* shutdown and TLS, with eager coroutines and with Tasks.                 *)
(***************************************************************************)
EXTENDS HttpConnection

Plain(input, eager, timeouts, may) ==
  [input |-> input, eager |-> eager, tls |-> FALSE, timeouts |-> timeouts, may |-> may]
Secure(input, eager, timeouts, may) ==
  [input |-> input, eager |-> eager, tls |-> TRUE, timeouts |-> timeouts, may |-> may]

MCRequests == 1..3

MCScenarios ==
  {Plain(<<"keep", "keep", "close">>, TRUE, FALSE, {"other"}),
   Plain(<<"keep", "keep", "keep">>, FALSE, FALSE, {}),
   Plain(<<"keep", "keep">>, TRUE, TRUE, {"shutdown", "other", "sweep"}),
   Plain(<<"keep", "keep">>, FALSE, FALSE, {"shutdown", "other"}),
   Plain(<<"keep", "keep">>, TRUE, FALSE, {"receive", "drop", "other"}),
   Plain(<<"start", "keep", "keep">>, TRUE, TRUE, {"sweep", "other", "eof", "raise"}),
   Plain(<<"start", "keep">>, FALSE, TRUE, {"sweep", "other", "eof", "raise"}),
   Secure(<<"hello", "keep", "record", "close">>, TRUE, FALSE, {"other", "chunks"}),
   Secure(<<"hello", "keep", "record", "close">>, FALSE, FALSE, {"other"})}
  \cup UNION {{Plain(<<"keep", "expect", "keep">>, eager, FALSE, {"other"}),
               Plain(<<"keep", "start", "bad">>, eager, FALSE, {"other"}),
               Plain(<<"keep", "upgrade">>, eager, FALSE, {"other", "raise"}),
               Plain(<<"keep", "keep">>, eager, FALSE, {"receive", "beside", "drop", "eof", "cancel"}),
               Plain(<<"keep", "keep">>, eager, FALSE,
                     {"chunks", "trailers", "say_close", "raise", "eof", "reset"}),
               Secure(<<"hello", "keep", "record", "expect", "keep", "bad">>, eager, FALSE, {}),
               Secure(<<"hello", "keep", "keep">>, eager, FALSE, {"shutdown", "other"}),
               Secure(<<"hello", "close", "keep">>, eager, FALSE, {"other"}),
               Secure(<<"hello", "bye">>, eager, TRUE, {"sweep", "eof"})} : eager \in BOOLEAN}

\* A client that sends its request and half-closes.
HalfClose == {Plain(<<"keep">>, TRUE, FALSE, {"eof"})}

=============================================================================
