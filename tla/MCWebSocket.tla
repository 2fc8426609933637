----------------------------- MODULE MCWebSocket -----------------------------
(* A small handler for TLC.                                                *)
EXTENDS WebSocket

MCTasks == {"app", "aux", "third"}
MCFutures == 1..7

Parts(app, aux, third) == [app |-> app, aux |-> aux, third |-> third]
Reads == Parts("reader", "none", "none")
ReadsTwice == Parts("reader", "reader", "none")
Feeds == Parts("reader", "reader", "writer")
Echoes == Parts("reader", "writer", "none")
EchoesTwice == Parts("reader", "writer", "writer")
Joins == Parts("reader", "writer", "joiner")

Of(input, role, timeouts, cancels, may) ==
  [input |-> input, role |-> role, timeouts |-> timeouts, cancels |-> cancels, may |-> may]

MCScenarios ==
  { \* cancellations while reading, put-backs, a lingering close
    Of(<<"text", "part", "cont">>, Reads, TRUE, 2, {"keep", "eof", "raise"}),
    Of(<<"text", "text">>, ReadsTwice, FALSE, 2, {"keep"}),
    Of(<<"text", "text", "close">>, ReadsTwice, TRUE, 0, {"keep", "shutdown", "eof"}),
    \* the queue between readers and writers
    Of(<<"text", "text", "ping">>, Echoes, TRUE, 1, {"close"}),
    Of(<<"text">>, EchoesTwice, FALSE, 2, {"return"}),
    Of(<<"text", "text">>, EchoesTwice, FALSE, 1, {}),
    Of(<<"text", "text">>, Joins, FALSE, 1, {"shutdown"}),
    Of(<<"text", "text", "text">>, Feeds, FALSE, 1, {}),
    \* the handshake and the ends of a session
    Of(<<"text", "pong", "text", "bad", "text">>, Echoes, TRUE, 0, {"reject", "raise", "shutdown"}),
    Of(<<"text", "cont">>, Echoes, FALSE, 1, {"eof", "reset", "shutdown", "close"}),
    \* a peer that sends and does not read
    Of(<<"ping", "ping", "text", "ping">>, Echoes, FALSE, 0, {"shutdown"}) }
=============================================================================
