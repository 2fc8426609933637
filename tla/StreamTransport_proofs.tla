------------------------ MODULE StreamTransport_proofs ------------------------
(***************************************************************************)
(* Proofs about StreamTransport: what was written is sent in order and,    *)
(* before an orderly close, whole; connection_lost comes once, and nothing *)
(* after it.                                                               *)
(***************************************************************************)
EXTENDS StreamTransport, Filtering_proofs

-----------------------------------------------------------------------------
(* What the proofs look at.                                                *)

Watched == {"open", "closing", "reading_paused", "proto_paused", "send_op", "wq", "inflight", "flush_list",
            "inline_close", "events", "guard", "soon", "batch", "send", "staged", "port", "tx", "written",
            "ended", "may", "recv_op", "recv_slot", "refs", "mem", "recv", "rx", "paused_recv",
            "paused_eof", "eof_wanted", "eof_sent", "buffered", "protocol", "high", "low", "peer",
            "pauses", "interrupts"}

\* The completions that report a send, and the events that report the end.
Sends == [op : {"send"}, sent : Nat]
Losts == {LostEvent(TRUE), LostEvent(FALSE)}
Reports(x) == Only(x, Sends)
Losses(x) == Len(Only(x, Losts))

\* A sequence of completions, and one of events.
Finished(x) == Listed(x) /\ \A i \in 1..Len(x) : x[i].op = "recv" \/ x[i] \in Sends
Queued(x) == Listed(x) /\ \A i \in 1..Len(x) : x[i].kind = "lost" => x[i] \in Losts

\* The types of what is watched.
Shape(n) ==
  /\ Watched \subseteq DOMAIN n
  /\ n.open \in BOOLEAN /\ n.send_op \in BOOLEAN /\ n.proto_paused \in BOOLEAN
  /\ n.wq \in Seq(Nat) /\ n.guard \in Seq(Nat) /\ n.tx \in Seq(Nat)
  /\ n.soon \in Nat /\ n.batch \in Nat /\ n.send \in Nat /\ n.written \in Nat
  /\ Finished(n.staged) /\ Finished(n.port) /\ Queued(n.events)

\* The reports of sends that are not translated yet, `rest' being the
\* completions a translation still has before it.
Reported(n, rest) == Reports(rest) \o (Reports(n.staged) \o Reports(n.port))

\* The bytes of q are those behind the first k.
Numbered(q, k) == \A i \in 1..Len(q) : q[i] = k + i

\* Where a send stands: none, with the kernel, or reported.
SendIdle(n, rest) == ~n.send_op /\ n.send = 0 /\ Reported(n, rest) = <<>> /\ n.written = Len(n.tx) + Len(n.wq)
SendParked(n, rest) ==
  /\ n.send_op /\ n.send \in 1..Len(n.wq) /\ Reported(n, rest) = <<>> /\ n.written = Len(n.tx) + Len(n.wq)
SendReported(n, rest) ==
  /\ n.send_op /\ n.send = 0
  /\ \E k \in 0..Len(n.wq) : /\ Reported(n, rest) = <<[op |-> "send", sent |-> k]>>
                             /\ n.written + k = Len(n.tx) + Len(n.wq)

\* An open transport: what is queued follows what was sent.
OpenSound(n, rest) ==
  /\ n.ended # "closed" /\ Numbered(n.wq, n.written - Len(n.wq))
  /\ SendIdle(n, rest) \/ SendParked(n, rest) \/ SendReported(n, rest)

\* One that was torn down: a send the kernel still has reads the guard.
GoneSound(n, rest) ==
  /\ Len(Reported(n, rest)) <= 1
  /\ n.send > 0 => Reported(n, rest) = <<>> /\ n.send <= Len(n.guard) /\ Numbered(n.guard, Len(n.tx))
  /\ n.ended = "closed" => n.send = 0 /\ Len(n.tx) = n.written

Outbound(n, rest) ==
  /\ Numbered(n.tx, 0)
  /\ n.open => OpenSound(n, rest)
  /\ ~n.open => GoneSound(n, rest)

\* The ends that are still to be told of, an open transport's included.
Owed(n) == Losses(n.events) + (IF n.open THEN 1 ELSE 0)

TransportInv ==
  /\ Shape(net) /\ Queued(events) /\ Outbound(net, <<>>) /\ pass \in 0..2 /\ lostCalls \in Nat
  /\ pass # 0 => net.batch = 0
  /\ lostCalls + Losses(events) + net.soon + net.batch + Owed(net) = 1

-----------------------------------------------------------------------------
(* Completions and events.                                                 *)

\* One more completion.
LEMMA FinishedAppend ==
  ASSUME NEW x, NEW c, Finished(x), c.op = "recv" \/ c \in Sends
  PROVE  Finished(Append(x, c))
<1>1. PICK S : x \in Seq(S)
  BY DEF Finished, Listed
<1>2. x \in Seq(S \cup {c}) /\ c \in S \cup {c}
  BY <1>1
<1>3. /\ Len(Append(x, c)) = Len(x) + 1 /\ Append(x, c)[Len(x) + 1] = c
      /\ \A i \in 1..Len(x) : Append(x, c)[i] = x[i]
  BY <1>2, AppendProperties
<1>4. Len(x) \in Nat
  BY <1>1
<1>5. \A i \in 1..(Len(x) + 1) : i = Len(x) + 1 \/ i \in 1..Len(x)
  BY <1>4
<1>6. \A i \in 1..Len(Append(x, c)) : Append(x, c)[i].op = "recv" \/ Append(x, c)[i] \in Sends
  BY <1>3, <1>5 DEF Finished
<1>7. QED
  BY <1>6, ListedAppend DEF Finished

\* One more event.
LEMMA QueuedAppend ==
  ASSUME NEW x, NEW e, Queued(x), e.kind = "lost" => e \in Losts
  PROVE  Queued(Append(x, e))
<1>1. PICK S : x \in Seq(S)
  BY DEF Queued, Listed
<1>2. x \in Seq(S \cup {e}) /\ e \in S \cup {e}
  BY <1>1
<1>3. /\ Len(Append(x, e)) = Len(x) + 1 /\ Append(x, e)[Len(x) + 1] = e
      /\ \A i \in 1..Len(x) : Append(x, e)[i] = x[i]
  BY <1>2, AppendProperties
<1>4. Len(x) \in Nat
  BY <1>1
<1>5. \A i \in 1..(Len(x) + 1) : i = Len(x) + 1 \/ i \in 1..Len(x)
  BY <1>4
<1>6. \A i \in 1..Len(Append(x, e)) : Append(x, e)[i].kind = "lost" => Append(x, e)[i] \in Losts
  BY <1>3, <1>5 DEF Queued
<1>7. QED
  BY <1>6, ListedAppend DEF Queued

\* None.
LEMMA NothingYet == Finished(<<>>) /\ Queued(<<>>) /\ Reports(<<>>) = <<>> /\ Losses(<<>>) = 0
<1>1. Len(<<>>) = 0
  OBVIOUS
<1>2. Reports(<<>>) = <<>> /\ Only(<<>>, Losts) = <<>>
  BY OnlyEmpty DEF Reports
<1>3. QED
  BY <1>1, <1>2, ListedEmpty DEF Finished, Queued, Losses

\* Two sequences of completions, and of events, joined.
LEMMA FinishedConcat ==
  ASSUME NEW x, NEW y, Finished(x), Finished(y)
  PROVE  Finished(x \o y) /\ Reports(x \o y) = Reports(x) \o Reports(y)
<1>1. PICK S : x \in Seq(S)
  BY DEF Finished, Listed
<1>2. PICK T : y \in Seq(T)
  BY DEF Finished, Listed
<1>3. x \in Seq(S \cup T) /\ y \in Seq(S \cup T)
  BY <1>1, <1>2
<1>4. /\ Len(x \o y) = Len(x) + Len(y)
      /\ \A i \in 1..(Len(x) + Len(y)) : (x \o y)[i] = IF i <= Len(x) THEN x[i] ELSE y[i - Len(x)]
  BY <1>3, ConcatProperties
<1>5. Len(x) \in Nat /\ Len(y) \in Nat
  BY <1>1, <1>2
<1>6. ASSUME NEW i \in 1..(Len(x) + Len(y)) PROVE (x \o y)[i].op = "recv" \/ (x \o y)[i] \in Sends
  <2>1. CASE i <= Len(x)
    <3>1. i \in 1..Len(x) /\ (x \o y)[i] = x[i]
      BY <1>4, <1>5, <2>1
    <3>2. QED
      BY <3>1 DEF Finished
  <2>2. CASE ~(i <= Len(x))
    <3>1. i - Len(x) \in 1..Len(y) /\ (x \o y)[i] = y[i - Len(x)]
      BY <1>4, <1>5, <2>2
    <3>2. QED
      BY <3>1 DEF Finished
  <2>3. QED
    BY <2>1, <2>2
<1>7. Listed(x) /\ Listed(y)
  BY DEF Finished
<1>8. Listed(x \o y) /\ Reports(x \o y) = Reports(x) \o Reports(y)
  BY <1>7, OnlyJoined DEF Reports
<1>9. QED
  BY <1>4, <1>6, <1>8 DEF Finished

\* Two sequences of events joined.
LEMMA QueuedConcat ==
  ASSUME NEW x, NEW y, Queued(x), Queued(y)
  PROVE  Queued(x \o y) /\ Losses(x \o y) = Losses(x) + Losses(y)
<1>1. PICK S : x \in Seq(S)
  BY DEF Queued, Listed
<1>2. PICK T : y \in Seq(T)
  BY DEF Queued, Listed
<1>3. x \in Seq(S \cup T) /\ y \in Seq(S \cup T)
  BY <1>1, <1>2
<1>4. /\ Len(x \o y) = Len(x) + Len(y)
      /\ \A i \in 1..(Len(x) + Len(y)) : (x \o y)[i] = IF i <= Len(x) THEN x[i] ELSE y[i - Len(x)]
  BY <1>3, ConcatProperties
<1>5. Len(x) \in Nat /\ Len(y) \in Nat
  BY <1>1, <1>2
<1>6. ASSUME NEW i \in 1..(Len(x) + Len(y)) PROVE (x \o y)[i].kind = "lost" => (x \o y)[i] \in Losts
  <2>1. CASE i <= Len(x)
    <3>1. i \in 1..Len(x) /\ (x \o y)[i] = x[i]
      BY <1>4, <1>5, <2>1
    <3>2. QED
      BY <3>1 DEF Queued
  <2>2. CASE ~(i <= Len(x))
    <3>1. i - Len(x) \in 1..Len(y) /\ (x \o y)[i] = y[i - Len(x)]
      BY <1>4, <1>5, <2>2
    <3>2. QED
      BY <3>1 DEF Queued
  <2>3. QED
    BY <2>1, <2>2
<1>7. Listed(x) /\ Listed(y)
  BY DEF Queued
<1>8. Listed(x \o y) /\ Only(x \o y, Losts) = Only(x, Losts) \o Only(y, Losts)
  BY <1>7, OnlyJoined
<1>9. Only(x, Losts) \in Seq(Losts) /\ Only(y, Losts) \in Seq(Losts)
  BY <1>7, OnlyKept
<1>10. Len(Only(x, Losts) \o Only(y, Losts)) = Len(Only(x, Losts)) + Len(Only(y, Losts))
  BY <1>9
<1>11. QED
  BY <1>4, <1>6, <1>8, <1>10 DEF Queued, Losses

\* A completion or an event of another kind is not one that is counted.
LEMMA Told ==
  /\ \A c : c.op = "recv" => c \notin Sends
  /\ \A e : e.kind # "lost" => e \notin Losts
  /\ \A b \in BOOLEAN : LostEvent(b) \in Losts /\ LostEvent(b).kind = "lost"
  /\ LostEvent(TRUE) # LostEvent(FALSE)
<1>1. \A c : c.op = "recv" => c \notin Sends
  BY DEF Sends
<1>2. \A b \in BOOLEAN : LostEvent(b).kind = "lost" /\ LostEvent(b).immediate = b
  BY DEF LostEvent
<1>3. \A e : e.kind # "lost" => e \notin Losts
  BY <1>2 DEF Losts
<1>4. QED
  BY <1>1, <1>2, <1>3 DEF Losts

\* How many ends an event more tells of.
LEMMA LossesAppend ==
  ASSUME NEW x, NEW e, Queued(x)
  PROVE  /\ Losses(x) \in Nat
         /\ e \in Losts => Losses(Append(x, e)) = Losses(x) + 1
         /\ e.kind # "lost" => Losses(Append(x, e)) = Losses(x)
<1>1. Listed(x)
  BY DEF Queued
<1>2. Only(x, Losts) \in Seq(Losts)
  BY <1>1, OnlyKept
<1>3. Losses(x) \in Nat
  BY <1>2 DEF Losses
<1>4. ASSUME e \in Losts PROVE Losses(Append(x, e)) = Losses(x) + 1
  BY <1>1, <1>2, <1>4, OnlyMore DEF Losses
<1>5. ASSUME e.kind # "lost" PROVE Losses(Append(x, e)) = Losses(x)
  BY <1>1, <1>5, Told, OnlyMore DEF Losses
<1>6. QED
  BY <1>3, <1>4, <1>5

\* The first event goes.
LEMMA QueuedTail ==
  ASSUME NEW x, Queued(x), x # <<>>
  PROVE  /\ Queued(Tail(x))
         /\ Head(x).kind = "lost" => Head(x) \in Losts /\ Losses(x) = Losses(Tail(x)) + 1
         /\ Head(x).kind # "lost" => Losses(x) = Losses(Tail(x))
<1>1. PICK S : x \in Seq(S)
  BY DEF Queued, Listed
<1>2. /\ Len(x) \in Nat \ {0} /\ Len(Tail(x)) = Len(x) - 1 /\ Head(x) = x[1]
      /\ \A i \in 1..Len(Tail(x)) : Tail(x)[i] = x[i + 1]
  BY <1>1
<1>3. \A i \in 1..(Len(x) - 1) : i + 1 \in 1..Len(x)
  BY <1>2
<1>4. \A i \in 1..Len(Tail(x)) : Tail(x)[i].kind = "lost" => Tail(x)[i] \in Losts
  BY <1>2, <1>3 DEF Queued
<1>5. 1 \in 1..Len(x)
  BY <1>2
<1>6. Head(x).kind = "lost" => Head(x) \in Losts
  BY <1>2, <1>5 DEF Queued
<1>7. Listed(x)
  BY DEF Queued
<1>8. /\ Listed(Tail(x))
      /\ Head(x) \in Losts => Only(x, Losts) = <<Head(x)>> \o Only(Tail(x), Losts)
      /\ Head(x) \notin Losts => Only(x, Losts) = Only(Tail(x), Losts)
  BY <1>1, <1>7, OnlyLess
<1>9. Only(Tail(x), Losts) \in Seq(Losts)
  BY <1>8, OnlyKept
<1>10. \A h : h \in Losts => Len(<<h>> \o Only(Tail(x), Losts)) = Len(Only(Tail(x), Losts)) + 1
  BY <1>9
<1>11. Queued(Tail(x))
  BY <1>4, <1>8 DEF Queued
<1>12. Head(x).kind = "lost" => Losses(x) = Losses(Tail(x)) + 1
  BY <1>6, <1>8, <1>10 DEF Losses
<1>13. Head(x).kind # "lost" => Losses(x) = Losses(Tail(x))
  BY <1>8, Told DEF Losses
<1>14. QED
  BY <1>6, <1>11, <1>12, <1>13

\* The first completion goes.
LEMMA FinishedTail ==
  ASSUME NEW x, Finished(x), x # <<>>
  PROVE  /\ Finished(Tail(x))
         /\ Head(x).op = "recv" \/ Head(x) \in Sends
         /\ Head(x).op = "recv" => Reports(x) = Reports(Tail(x))
         /\ Head(x) \in Sends => Reports(x) = <<Head(x)>> \o Reports(Tail(x))
<1>1. PICK S : x \in Seq(S)
  BY DEF Finished, Listed
<1>2. /\ Len(x) \in Nat \ {0} /\ Len(Tail(x)) = Len(x) - 1 /\ Head(x) = x[1]
      /\ \A i \in 1..Len(Tail(x)) : Tail(x)[i] = x[i + 1]
  BY <1>1
<1>3. \A i \in 1..(Len(x) - 1) : i + 1 \in 1..Len(x)
  BY <1>2
<1>4. \A i \in 1..Len(Tail(x)) : Tail(x)[i].op = "recv" \/ Tail(x)[i] \in Sends
  BY <1>2, <1>3 DEF Finished
<1>5. 1 \in 1..Len(x)
  BY <1>2
<1>6. Head(x).op = "recv" \/ Head(x) \in Sends
  BY <1>2, <1>5 DEF Finished
<1>7. Listed(x)
  BY DEF Finished
<1>8. /\ Listed(Tail(x))
      /\ Head(x) \in Sends => Only(x, Sends) = <<Head(x)>> \o Only(Tail(x), Sends)
      /\ Head(x) \notin Sends => Only(x, Sends) = Only(Tail(x), Sends)
  BY <1>1, <1>7, OnlyLess
<1>9. Finished(Tail(x))
  BY <1>4, <1>8 DEF Finished
<1>10. QED
  BY <1>6, <1>8, <1>9, Told DEF Reports

\* The deferred ends of a queue, the immediate ones, and all.
LEMMA LossesSplit ==
  ASSUME NEW x, Listed(x)
  PROVE  Len(Only(x, {LostEvent(TRUE)})) + Len(Only(x, {LostEvent(FALSE)})) = Losses(x)
<1>1. PICK S : x \in Seq(S)
  BY DEF Listed
<1> DEFINE now == LostEvent(TRUE)
           later == LostEvent(FALSE)
           Parts(s) == Len(Only(s, {now})) + Len(Only(s, {later})) = Len(Only(s, Losts))
           A == {s \in Seq(S) : Parts(s)}
<1>2. now # later /\ Losts = {now, later}
  BY Told DEF Losts
<1> HIDE DEF now, later
<1>3. <<>> \in A
  <2>1. Only(<<>>, {now}) = <<>> /\ Only(<<>>, {later}) = <<>> /\ Only(<<>>, Losts) = <<>>
    BY OnlyEmpty
  <2>2. Len(<<>>) = 0 /\ <<>> \in Seq(S)
    OBVIOUS
  <2>3. QED
    BY <2>1, <2>2
<1>4. ASSUME NEW s \in Seq(S), NEW e \in S, s \in A PROVE Append(s, e) \in A
  <2>1. Append(s, e) \in Seq(S) /\ Parts(s) /\ Listed(s)
    BY <1>4 DEF Listed
  <2>2. Only(s, {now}) \in Seq(S) /\ Only(s, {later}) \in Seq(S) /\ Only(s, Losts) \in Seq(S)
    BY OnlyType
  <2>3. PICK a, b, c : a = Only(s, {now}) /\ b = Only(s, {later}) /\ c = Only(s, Losts)
    OBVIOUS
  <2>4. /\ Len(a) \in Nat /\ Len(Append(a, e)) = Len(a) + 1
        /\ Len(b) \in Nat /\ Len(Append(b, e)) = Len(b) + 1
        /\ Len(c) \in Nat /\ Len(Append(c, e)) = Len(c) + 1
    BY <2>2, <2>3
  <2>5. Len(a) + Len(b) = Len(c)
    BY <2>1, <2>3
  <2>6. CASE e = now
    <3>1. e \in {now} /\ e \notin {later} /\ e \in Losts
      BY <1>2, <2>6
    <3>2. /\ Only(Append(s, e), {now}) = Append(Only(s, {now}), e)
          /\ Only(Append(s, e), {later}) = Only(s, {later})
          /\ Only(Append(s, e), Losts) = Append(Only(s, Losts), e)
      BY <2>1, <3>1, OnlyMore, ZenonT(40)
    <3>3. Len(Append(a, e)) + Len(b) = Len(Append(c, e))
      BY <2>4, <2>5
    <3>4. QED
      BY <2>1, <2>3, <3>2, <3>3
  <2>7. CASE e = later
    <3>1. e \notin {now} /\ e \in {later} /\ e \in Losts
      BY <1>2, <2>7
    <3>2. /\ Only(Append(s, e), {now}) = Only(s, {now})
          /\ Only(Append(s, e), {later}) = Append(Only(s, {later}), e)
          /\ Only(Append(s, e), Losts) = Append(Only(s, Losts), e)
      BY <2>1, <3>1, OnlyMore, ZenonT(40)
    <3>3. Len(a) + Len(Append(b, e)) = Len(Append(c, e))
      BY <2>4, <2>5
    <3>4. QED
      BY <2>1, <2>3, <3>2, <3>3
  <2>8. CASE e # now /\ e # later
    <3>1. e \notin {now} /\ e \notin {later} /\ e \notin Losts
      BY <1>2, <2>8
    <3>2. Only(Append(s, e), {now}) = a /\ Only(Append(s, e), {later}) = b
          /\ Only(Append(s, e), Losts) = c
      BY <2>1, <2>3, <3>1, OnlyMore
    <3>3. QED
      BY <2>1, <2>5, <3>2
  <2>9. QED
    BY <2>6, <2>7, <2>8
<1>5. x \in A
  <2> HIDE DEF A
  <2>1. \A s \in Seq(S) : s \in A
    BY <1>3, <1>4, OverSequences
  <2>2. QED
    BY <1>1, <2>1
<1>6. QED
  BY <1>5 DEF now, later, Losses

\* The deferred ends go: what is left still is a queue.
LEMMA LossesDeferred ==
  ASSUME NEW x, Queued(x)
  PROVE  LET kept == Only(x, ToSet(x) \ {LostEvent(FALSE)})
         IN /\ Queued(kept) /\ Len(Only(x, {LostEvent(FALSE)})) \in Nat
            /\ Losses(kept) + Len(Only(x, {LostEvent(FALSE)})) = Losses(x)
<1> DEFINE later == LostEvent(FALSE)
           K == ToSet(x) \ {later}
<1>1. PICK S : x \in Seq(S)
  BY DEF Queued, Listed
<1>2. PICK k : k = Only(x, K)
  OBVIOUS
<1>3. k \in Seq(S) /\ ToSet(k) \subseteq ToSet(x) /\ Only(x, {later}) \in Seq(S)
  BY <1>1, <1>2, OnlyType, OnlyElements
<1>4. ASSUME NEW i \in 1..Len(k) PROVE k[i].kind = "lost" => k[i] \in Losts
  <2>1. k[i] \in ToSet(x)
    BY <1>3, Elements
  <2>2. PICK j \in 1..Len(x) : x[j] = k[i]
    BY <1>1, <2>1, Elements
  <2>3. QED
    BY <2>2 DEF Queued
<1>5. Queued(k)
  BY <1>3, <1>4 DEF Queued, Listed
<1>6. Only(k, Losts) = Only(x, K \cap Losts)
  <2> HIDE DEF K
  <2>1. QED
    BY <1>1, <1>2, OnlyTwice
<1>7. ToSet(x) \cap (K \cap Losts) = ToSet(x) \cap {LostEvent(TRUE)}
  BY Told DEF Losts
<1>8. Only(x, K \cap Losts) = Only(x, {LostEvent(TRUE)})
  BY <1>1, <1>7, OnlySame
<1>9. Losses(k) + Len(Only(x, {later})) = Losses(x)
  BY <1>6, <1>8, LossesSplit DEF Losses, Queued
<1>10. Len(Only(x, {later})) \in Nat
  BY <1>3
<1>11. QED
  BY <1>2, <1>5, <1>9, <1>10

-----------------------------------------------------------------------------
(* What a step in the cell keeps.                                          *)

\* The invariant of a net, with `rest' still to be translated.
Good(n, rest) == Shape(n) /\ Finished(rest) /\ Outbound(n, rest)

\* Neither the end that is owed nor what is scheduled changes, and the
\* protocol is not newly paused.
Kept(n, m) ==
  /\ m.soon = n.soon /\ m.batch = n.batch /\ Owed(m) = Owed(n)
  /\ m.proto_paused => n.proto_paused

\* A step of this kind that keeps the invariant.
Keeps(n, rest, m) == Good(m, rest) /\ Kept(n, m)

\* A step that has nothing to do with sending.
Aside(n, m) ==
  /\ Shape(m)
  /\ m.open = n.open /\ m.send_op = n.send_op /\ m.wq = n.wq /\ m.guard = n.guard /\ m.tx = n.tx
  /\ m.send = n.send /\ m.written = n.written /\ m.ended = n.ended
  /\ m.soon = n.soon /\ m.batch = n.batch
  /\ m.proto_paused => n.proto_paused
  /\ Reports(m.staged) = Reports(n.staged) /\ Reports(m.port) = Reports(n.port)
  /\ Losses(m.events) = Losses(n.events)

\* The reports among completions.
LEMMA ReportsType == ASSUME NEW x, Finished(x) PROVE Reports(x) \in Seq(Sends)
  BY OnlyKept DEF Finished, Reports

\* The reports in all.
LEMMA ReportedParts ==
  ASSUME NEW n, NEW rest, Shape(n), Finished(rest)
  PROVE  /\ Reported(n, rest) \in Seq(Sends)
         /\ Len(Reported(n, rest)) = Len(Reports(rest)) + Len(Reports(n.staged)) + Len(Reports(n.port))
         /\ Reported(n, rest) = <<>> <=>
              Reports(rest) = <<>> /\ Reports(n.staged) = <<>> /\ Reports(n.port) = <<>>
<1>1. PICK a, b, c : a = Reports(rest) /\ b = Reports(n.staged) /\ c = Reports(n.port)
  OBVIOUS
<1>2. Finished(n.staged) /\ Finished(n.port)
  BY DEF Shape
<1>3. a \in Seq(Sends) /\ b \in Seq(Sends) /\ c \in Seq(Sends)
  BY <1>1, <1>2, ReportsType
<1>4. b \o c \in Seq(Sends) /\ Len(b \o c) = Len(b) + Len(c)
  BY <1>3
<1>5. a \o (b \o c) \in Seq(Sends) /\ Len(a \o (b \o c)) = Len(a) + Len(b \o c)
  BY <1>3, <1>4
<1>6. \A s \in Seq(Sends) : Len(s) \in Nat /\ (s = <<>> <=> Len(s) = 0)
  OBVIOUS
<1>7. Len(a) \in Nat /\ Len(b) \in Nat /\ Len(c) \in Nat
  BY <1>3, <1>6
<1>8. Len(a \o (b \o c)) = Len(a) + Len(b) + Len(c)
  BY <1>4, <1>5, <1>7
<1>9. Len(a \o (b \o c)) = 0 <=> Len(a) = 0 /\ Len(b) = 0 /\ Len(c) = 0
  BY <1>7, <1>8
<1>10. a \o (b \o c) = <<>> <=> a = <<>> /\ b = <<>> /\ c = <<>>
  BY <1>3, <1>5, <1>6, <1>9
<1>11. QED
  BY <1>1, <1>5, <1>8, <1>10 DEF Reported

\* The first completion is a receive's, or the only send's.
LEMMA ReportedTail ==
  ASSUME NEW n, NEW rest, Shape(n), Finished(rest), rest # <<>>
  PROVE  /\ Head(rest).op = "recv" => Reported(n, Tail(rest)) = Reported(n, rest)
         /\ Head(rest) \in Sends /\ Len(Reported(n, rest)) <= 1 =>
              Reported(n, rest) = <<Head(rest)>> /\ Reported(n, Tail(rest)) = <<>>
<1>1. PICK h, t : h = Head(rest) /\ t = Tail(rest)
  OBVIOUS
<1>2. h.op = "recv" => Reports(rest) = Reports(t)
  BY <1>1, FinishedTail
<1>3. h.op = "recv" => Reported(n, t) = Reported(n, rest)
  BY <1>1, <1>2 DEF Reported
<1>4. ASSUME h \in Sends, Len(Reported(n, rest)) <= 1
      PROVE  Reported(n, rest) = <<h>> /\ Reported(n, t) = <<>>
  <2>1. PICK a : a = Reports(t)
    OBVIOUS
  <2>2. Finished(t) /\ Reports(rest) = <<h>> \o a
    BY <1>1, <1>4, <2>1, FinishedTail
  <2>3. a \in Seq(Sends) /\ Reports(n.staged) \in Seq(Sends) /\ Reports(n.port) \in Seq(Sends)
    BY <2>1, <2>2, ReportsType DEF Shape
  <2>4. Len(<<h>> \o a) = Len(a) + 1 /\ Len(a) \in Nat
    BY <2>3, <1>4
  <2>5. Len(Reports(n.staged)) \in Nat /\ Len(Reports(n.port)) \in Nat
    BY <2>3
  <2>6. Len(Reported(n, rest)) = Len(a) + 1 + Len(Reports(n.staged)) + Len(Reports(n.port))
    BY <2>2, <2>4, <2>5, ReportedParts
  <2>7. Len(a) = 0 /\ Len(Reports(n.staged)) = 0 /\ Len(Reports(n.port)) = 0
    BY <1>4, <2>4, <2>5, <2>6
  <2>8. a = <<>> /\ Reports(n.staged) = <<>> /\ Reports(n.port) = <<>>
    BY <2>3, <2>7
  <2>9. Reported(n, t) = <<>>
    BY <2>1, <2>2, <2>8, ReportedParts
  <2>10. <<h>> \o <<>> = <<h>> /\ <<>> \o <<>> = <<>>
    BY <1>4
  <2>11. Reported(n, rest) = <<h>>
    BY <2>2, <2>8, <2>10 DEF Reported
  <2>12. QED
    BY <2>9, <2>11
<1>5. QED
  BY <1>1, <1>3, <1>4

\* A send completes inline or through the port, where none is reported.
LEMMA ReportedSend ==
  ASSUME NEW n, NEW rest, NEW m, NEW k \in Nat, Shape(n), Shape(m), Finished(rest), Reported(n, rest) = <<>>,
         \/ m.staged = Append(n.staged, [op |-> "send", sent |-> k]) /\ m.port = n.port
         \/ m.staged = n.staged /\ m.port = Append(n.port, [op |-> "send", sent |-> k])
  PROVE  Reported(m, rest) = <<[op |-> "send", sent |-> k]>>
<1>1. PICK c : c = [op |-> "send", sent |-> k]
  OBVIOUS
<1>2. c \in Sends
  BY <1>1 DEF Sends
<1>3. Reports(rest) = <<>> /\ Reports(n.staged) = <<>> /\ Reports(n.port) = <<>>
  BY ReportedParts
<1>4. Listed(n.staged) /\ Listed(n.port)
  BY DEF Shape, Finished
<1>5. Append(<<>>, c) = <<c>> /\ <<c>> \o <<>> = <<c>> /\ <<>> \o <<c>> = <<c>> /\ <<>> \o <<>> = <<>>
  BY <1>2
<1>6. \A x : Listed(x) => Reports(Append(x, c)) = Append(Reports(x), c)
  BY <1>2, OnlyMore, ZenonT(40) DEF Reports
<1>7. CASE m.staged = Append(n.staged, c) /\ m.port = n.port
  <2>1. Reports(m.staged) = <<c>> /\ Reports(m.port) = <<>>
    BY <1>3, <1>4, <1>5, <1>6, <1>7
  <2>2. Reported(m, rest) = <<c>>
    BY <1>3, <1>5, <2>1 DEF Reported
  <2>3. QED
    BY <1>1, <2>2
<1>8. CASE m.staged = n.staged /\ m.port = Append(n.port, c)
  <2>1. Reports(m.staged) = <<>> /\ Reports(m.port) = <<c>>
    BY <1>3, <1>4, <1>5, <1>6, <1>8
  <2>2. Reported(m, rest) = <<c>>
    BY <1>3, <1>5, <2>1 DEF Reported
  <2>3. QED
    BY <1>1, <2>2
<1>9. QED
  BY <1>1, <1>7, <1>8

\* A receive completes.
LEMMA ReportsRecv ==
  ASSUME NEW x, NEW c, Finished(x), c.op = "recv"
  PROVE  Finished(Append(x, c)) /\ Reports(Append(x, c)) = Reports(x)
  BY FinishedAppend, OnlyMore, Told DEF Finished, Reports

\* A step aside keeps everything.
LEMMA AsideKeeps ==
  ASSUME NEW n, NEW rest, NEW m, Good(n, rest), Aside(n, m) PROVE Keeps(n, rest, m)
<1>1. Reported(m, rest) = Reported(n, rest)
  BY DEF Aside, Reported
<1>2. Outbound(m, rest)
  BY <1>1 DEF Aside, Good, Outbound, OpenSound, GoneSound, SendIdle, SendParked, SendReported
<1>3. Kept(n, m)
  BY DEF Aside, Kept, Owed
<1>4. QED
  BY <1>2, <1>3 DEF Keeps, Good, Aside

\* Nothing happens.
LEMMA AsideSelf == ASSUME NEW n, Shape(n) PROVE Aside(n, n)
  BY DEF Aside

\* The same of a step that keeps the invariant.
LEMMA KeepsSelf == ASSUME NEW n, NEW rest, Good(n, rest) PROVE Keeps(n, rest, n)
  BY DEF Keeps, Kept

\* Two steps are one.
LEMMA AsideTwice ==
  ASSUME NEW a, NEW b, NEW c, Aside(a, b), Aside(b, c) PROVE Aside(a, c)
  BY DEF Aside

\* So are two that keep the invariant.
LEMMA KeepsTwice ==
  ASSUME NEW a, NEW b, NEW c, NEW rest, NEW more, Keeps(a, more, b), Keeps(b, rest, c) PROVE Keeps(a, rest, c)
  BY DEF Keeps, Kept

-----------------------------------------------------------------------------
(* Receiving has nothing to do with sending.                               *)

\* The fields a step aside leaves alone, or only adds to.
Sending == {"open", "send_op", "wq", "guard", "tx", "send", "written", "ended", "soon", "batch",
            "proto_paused", "staged", "port", "events"}

\* Steps that touch none of them.
LEMMA AsideOther ==
  ASSUME NEW n, NEW m, Shape(n), DOMAIN m = DOMAIN n, \A f \in Sending : m[f] = n[f]
  PROVE  Aside(n, m)
<1>1. /\ m.open = n.open /\ m.send_op = n.send_op /\ m.wq = n.wq /\ m.guard = n.guard /\ m.tx = n.tx
      /\ m.send = n.send /\ m.written = n.written /\ m.ended = n.ended
      /\ m.soon = n.soon /\ m.batch = n.batch /\ m.proto_paused = n.proto_paused
      /\ m.staged = n.staged /\ m.port = n.port /\ m.events = n.events
  BY DEF Sending
<1>2. Shape(m)
  BY <1>1 DEF Shape
<1>3. QED
  BY <1>1, <1>2 DEF Aside

\* What is reached by one has its shape.
LEMMA AsideShape == ASSUME NEW n, NEW m, Aside(n, m) PROVE Shape(m)
  BY DEF Aside

\* An event is queued that does not tell of the end.
LEMMA AsidePush ==
  ASSUME NEW n, NEW e, Shape(n), e.kind # "lost" PROVE Aside(n, Push(n, e))
<1>1. PICK x : x = Append(n.events, e)
  OBVIOUS
<1>2. Queued(n.events)
  BY DEF Shape
<1>3. Queued(x) /\ Losses(x) = Losses(n.events)
  BY <1>1, <1>2, QueuedAppend, LossesAppend
<1>4. PICK m : m = [n EXCEPT !.events = x]
  OBVIOUS
<1>5. Shape(m)
  BY <1>3, <1>4 DEF Shape, Watched
<1>6. Aside(n, m)
  BY <1>3, <1>4, <1>5 DEF Shape, Watched, Aside
<1>7. m = Push(n, e)
  BY <1>1, <1>4 DEF Push, Shape, Watched
<1>8. QED
  BY <1>6, <1>7

\* A receive completes inline, or through the port.
LEMMA AsideCompletes ==
  ASSUME NEW n, NEW c, Shape(n), c.op = "recv"
  PROVE  /\ Aside(n, [n EXCEPT !.staged = Append(@, c)])
         /\ Aside(n, [n EXCEPT !.port = Append(@, c)])
<1>1. PICK x, y : x = Append(n.staged, c) /\ y = Append(n.port, c)
  OBVIOUS
<1>2. Finished(n.staged) /\ Finished(n.port)
  BY DEF Shape
<1>3. Finished(x) /\ Reports(x) = Reports(n.staged) /\ Finished(y) /\ Reports(y) = Reports(n.port)
  BY <1>1, <1>2, ReportsRecv
<1>4. PICK m, d : m = [n EXCEPT !.staged = x] /\ d = [n EXCEPT !.port = y]
  OBVIOUS
<1>5. Shape(m) /\ Shape(d)
  BY <1>3, <1>4 DEF Shape, Watched
<1>6. Aside(n, m) /\ Aside(n, d)
  BY <1>3, <1>4, <1>5 DEF Shape, Watched, Aside
<1>7. m = [n EXCEPT !.staged = Append(@, c)] /\ d = [n EXCEPT !.port = Append(@, c)]
  BY <1>1, <1>4 DEF Shape, Watched
<1>8. QED
  BY <1>6, <1>7

\* References, and what a receive reads.
LEMMA AsideRefs ==
  ASSUME NEW n, NEW x, Shape(n)
  PROVE  Aside(n, Retain(n, x)) /\ Aside(n, Release(n, x)) /\ Aside(n, Taken(n, x))
<1>1. PICK a, b, c : a = Retain(n, x) /\ b = Release(n, x) /\ c = Taken(n, x)
  OBVIOUS
<1>2. DOMAIN a = DOMAIN n /\ \A f \in Sending : a[f] = n[f]
  BY <1>1 DEF Retain, Sending, Shape, Watched
<1>3. DOMAIN b = DOMAIN n /\ \A f \in Sending : b[f] = n[f]
  BY <1>1 DEF Release, Sending, Shape, Watched
<1>4. DOMAIN c = DOMAIN n /\ \A f \in Sending : c[f] = n[f]
  BY <1>1 DEF Taken, Sending, Shape, Watched
<1>5. QED
  BY <1>1, <1>2, <1>3, <1>4, AsideOther

\* The receive's own fields.
LEMMA AsideRecv ==
  ASSUME NEW n, NEW v, Shape(n)
  PROVE  /\ Aside(n, [n EXCEPT !.recv_slot = v]) /\ Aside(n, [n EXCEPT !.recv_op = v])
         /\ Aside(n, [n EXCEPT !.recv = v]) /\ Aside(n, [n EXCEPT !.rx = v])
         /\ Aside(n, [n EXCEPT !.paused_recv = v]) /\ Aside(n, [n EXCEPT !.paused_eof = v])
<1>1. PICK a, b, c, d, e, g :
        /\ a = [n EXCEPT !.recv_slot = v] /\ b = [n EXCEPT !.recv_op = v] /\ c = [n EXCEPT !.recv = v]
        /\ d = [n EXCEPT !.rx = v] /\ e = [n EXCEPT !.paused_recv = v] /\ g = [n EXCEPT !.paused_eof = v]
  OBVIOUS
<1>2. \A f \in Sending : a[f] = n[f] /\ b[f] = n[f] /\ c[f] = n[f] /\ d[f] = n[f] /\ e[f] = n[f] /\ g[f] = n[f]
  BY <1>1 DEF Sending, Shape, Watched
<1>3. /\ DOMAIN a = DOMAIN n /\ DOMAIN b = DOMAIN n /\ DOMAIN c = DOMAIN n /\ DOMAIN d = DOMAIN n
      /\ DOMAIN e = DOMAIN n /\ DOMAIN g = DOMAIN n
  BY <1>1
<1>4. QED
  BY <1>1, <1>2, <1>3, AsideOther

\* post_recv.
LEMMA AsidePostRecv == ASSUME NEW n, Shape(n) PROVE \A m \in PostRecv(n) : Aside(n, m)
<1>1. CASE ~n.open \/ n.recv_op \/ n.reading_paused \/ n.closing
  BY <1>1, AsideSelf DEF PostRecv
<1>2. CASE ~(~n.open \/ n.recv_op \/ n.reading_paused \/ n.closing)
  <2>1. PICK x : x = IF n.recv_slot # NoSlot THEN n.recv_slot ELSE CHOOSE f \in Slots : n.refs[f] = 0
    OBVIOUS
  <2>2. PICK own : own = IF n.recv_slot # NoSlot THEN n ELSE Retain([n EXCEPT !.recv_slot = x], x)
    OBVIOUS
  <2>3. Aside(n, own) /\ Shape(own)
    <3>1. PICK a : a = [n EXCEPT !.recv_slot = x]
      OBVIOUS
    <3>2. Aside(n, a)
      BY <3>1, AsideRecv
    <3>3. Aside(a, Retain(a, x))
      BY <3>2, AsideRefs DEF Aside
    <3>4. own = n \/ own = Retain(a, x)
      BY <2>2, <3>1
    <3>5. Aside(n, own)
      BY <3>2, <3>3, <3>4, AsideSelf, AsideTwice
    <3>6. QED
      BY <3>5 DEF Aside
  <2>4. PICK posted : posted = Retain([own EXCEPT !.recv_op = TRUE], x)
    OBVIOUS
  <2>5. Aside(n, posted) /\ Shape(posted)
    <3>1. PICK a : a = [own EXCEPT !.recv_op = TRUE]
      OBVIOUS
    <3>2. Aside(own, a)
      BY <2>3, <3>1, AsideRecv
    <3>3. Aside(a, posted)
      BY <2>4, <3>1, <3>2, AsideShape, AsideRefs
    <3>4. Aside(n, posted)
      BY <2>3, <3>2, <3>3, AsideTwice
    <3>5. QED
      BY <3>4 DEF Aside
  <2>6. PICK c : c = Received(n, x)
    OBVIOUS
  <2>7. PICK t : t = Taken(posted, x)
    OBVIOUS
  <2>8. PICK p, i, r : /\ p = [posted EXCEPT !.recv = x] /\ i = [t EXCEPT !.staged = Append(@, c)]
                       /\ r = Push(own, [kind |-> "recv_failed"])
    OBVIOUS
  <2>9. PostRecv(n) \subseteq {p, i, r}
    <3>1. PostRecv(n) = {p} \cup (IF n.rx = <<>> THEN {} ELSE {i}) \cup (IF n.may.mayFail THEN {r} ELSE {})
      BY <1>2, <2>1, <2>2, <2>4, <2>6, <2>7, <2>8 DEF PostRecv
    <3>2. QED
      BY <3>1
  <2>10. Aside(n, p)
    BY <2>5, <2>8, AsideRecv, AsideTwice
  <2>11. Aside(n, i)
    <3>1. Aside(posted, t) /\ Shape(t)
      BY <2>5, <2>7, AsideRefs DEF Aside
    <3>2. c.op = "recv"
      BY <2>6 DEF Received
    <3>3. Aside(t, i)
      BY <2>8, <3>1, <3>2, AsideCompletes
    <3>4. QED
      BY <2>5, <3>1, <3>3, AsideTwice
  <2>12. Aside(n, r)
    <3>1. [kind |-> "recv_failed"].kind # "lost"
      OBVIOUS
    <3>2. Aside(own, r)
      BY <2>3, <2>8, <3>1, AsidePush
    <3>3. QED
      BY <2>3, <3>2, AsideTwice
  <2>13. QED
    BY <2>9, <2>10, <2>11, <2>12
<1>3. QED
  BY <1>1, <1>2

-----------------------------------------------------------------------------
(* Sending and teardown.                                                   *)

\* The bytes behind those that were sent are sent.
LEMMA SentBehind ==
  ASSUME NEW t \in Seq(Nat), NEW q \in Seq(Nat), Numbered(t, 0), Numbered(q, Len(t))
  PROVE  t \o q \in Seq(Nat) /\ Len(t \o q) = Len(t) + Len(q) /\ Numbered(t \o q, 0)
<1>1. /\ t \o q \in Seq(Nat) /\ Len(t \o q) = Len(t) + Len(q) /\ Len(t) \in Nat /\ Len(q) \in Nat
      /\ \A i \in 1..(Len(t) + Len(q)) : (t \o q)[i] = IF i <= Len(t) THEN t[i] ELSE q[i - Len(t)]
  BY ConcatProperties
<1>2. ASSUME NEW i \in 1..(Len(t) + Len(q)) PROVE (t \o q)[i] = 0 + i
  <2>1. CASE i <= Len(t)
    <3>1. i \in 1..Len(t) /\ (t \o q)[i] = t[i]
      BY <1>1, <2>1
    <3>2. QED
      BY <3>1 DEF Numbered
  <2>2. CASE ~(i <= Len(t))
    <3>1. i - Len(t) \in 1..Len(q) /\ (t \o q)[i] = q[i - Len(t)]
      BY <1>1, <2>2
    <3>2. (t \o q)[i] = Len(t) + (i - Len(t))
      BY <3>1 DEF Numbered
    <3>3. QED
      BY <1>1, <3>2
  <2>3. QED
    BY <2>1, <2>2
<1>3. QED
  BY <1>1, <1>2 DEF Numbered

\* A part of what is queued.
LEMMA QueueParts ==
  ASSUME NEW q \in Seq(Nat), NEW b \in Int, Numbered(q, b), NEW k \in 0..Len(q)
  PROVE  /\ SubSeq(q, 1, k) \in Seq(Nat) /\ Len(SubSeq(q, 1, k)) = k /\ Numbered(SubSeq(q, 1, k), b)
         /\ SubSeq(q, k + 1, Len(q)) \in Seq(Nat) /\ Len(SubSeq(q, k + 1, Len(q))) = Len(q) - k
         /\ Numbered(SubSeq(q, k + 1, Len(q)), b + k)
<1>1. Len(q) \in Nat
  OBVIOUS
<1>2. /\ SubSeq(q, 1, k) \in Seq(Nat) /\ Len(SubSeq(q, 1, k)) = k
      /\ \A i \in 1..k : SubSeq(q, 1, k)[i] = q[i]
  BY <1>1
<1>3. PICK r : r = SubSeq(q, k + 1, Len(q))
  OBVIOUS
<1>4. /\ r \in Seq(Nat) /\ Len(r) = Len(q) - k
      /\ \A i \in 1..(Len(q) - k) : r[i] = q[k + i]
  BY <1>1, <1>3
<1>5. \A i \in 1..k : i \in 1..Len(q)
  BY <1>1
<1>6. Numbered(SubSeq(q, 1, k), b)
  BY <1>2, <1>5 DEF Numbered
<1>7. ASSUME NEW i \in 1..(Len(q) - k) PROVE r[i] = b + k + i
  <2>1. k + i \in 1..Len(q)
    BY <1>1
  <2>2. r[i] = b + (k + i)
    BY <1>4, <2>1 DEF Numbered
  <2>3. QED
    BY <2>2
<1>8. Numbered(r, b + k)
  BY <1>4, <1>7 DEF Numbered
<1>9. QED
  BY <1>2, <1>3, <1>4, <1>6, <1>8

\* What teardown_lost leaves.
TornDown(n, m, why, immediate) ==
  /\ ~m.open /\ m.ended = why /\ ~m.send_op /\ m.wq = <<>>
  /\ m.guard = IF n.send_op THEN n.wq ELSE n.guard
  /\ m.tx = n.tx /\ m.send = n.send /\ m.written = n.written /\ m.soon = n.soon /\ m.batch = n.batch
  /\ m.proto_paused = n.proto_paused /\ m.staged = n.staged /\ m.port = n.port
  /\ m.events = Append(n.events, LostEvent(immediate))

\* teardown_lost of an open transport.
LEMMA TearsDown ==
  ASSUME NEW n, NEW why, NEW immediate \in BOOLEAN, Shape(n), n.open
  PROVE  LET m == TeardownLost(n, why, immediate) IN Shape(m) /\ TornDown(n, m, why, immediate)
<1>1. PICK cut : cut = CancelTransportOps(n)
  OBVIOUS
<1>2. PICK freed : freed = IF n.recv_slot = NoSlot THEN cut ELSE Release(cut, n.recv_slot)
  OBVIOUS
<1>3. PICK x : x = [freed EXCEPT !.open = FALSE, !.recv_slot = NoSlot, !.ended = why,
                                 !.paused_recv = <<>>, !.paused_eof = FALSE]
  OBVIOUS
<1>4. PICK m : m = Push(x, LostEvent(immediate))
  OBVIOUS
<1>5. m = TeardownLost(n, why, immediate)
  BY <1>1, <1>2, <1>3, <1>4, Zenon DEF TeardownLost
<1>6. /\ DOMAIN cut = DOMAIN n /\ ~cut.send_op /\ cut.wq = <<>>
      /\ cut.guard = IF n.send_op THEN n.wq ELSE n.guard
      /\ cut.tx = n.tx /\ cut.send = n.send /\ cut.written = n.written /\ cut.soon = n.soon
      /\ cut.batch = n.batch /\ cut.proto_paused = n.proto_paused /\ cut.staged = n.staged
      /\ cut.port = n.port /\ cut.events = n.events /\ cut.send_op = FALSE
  BY <1>1 DEF CancelTransportOps, Shape, Watched
<1>7. /\ DOMAIN freed = DOMAIN n /\ freed.send_op = cut.send_op /\ freed.wq = cut.wq
      /\ freed.guard = cut.guard
      /\ freed.tx = cut.tx /\ freed.send = cut.send /\ freed.written = cut.written /\ freed.soon = cut.soon
      /\ freed.batch = cut.batch /\ freed.proto_paused = cut.proto_paused /\ freed.staged = cut.staged
      /\ freed.port = cut.port /\ freed.events = cut.events
  BY <1>2, <1>6 DEF Release, Shape, Watched
<1>8. /\ DOMAIN x = DOMAIN n /\ x.open = FALSE /\ x.ended = why /\ x.send_op = freed.send_op
      /\ x.wq = freed.wq /\ x.guard = freed.guard
      /\ x.tx = freed.tx /\ x.send = freed.send /\ x.written = freed.written /\ x.soon = freed.soon
      /\ x.batch = freed.batch /\ x.proto_paused = freed.proto_paused /\ x.staged = freed.staged
      /\ x.port = freed.port /\ x.events = freed.events
  BY <1>3, <1>7 DEF Shape, Watched
<1>9. /\ DOMAIN m = DOMAIN n /\ m.open = x.open /\ m.ended = x.ended /\ m.send_op = x.send_op
      /\ m.wq = x.wq /\ m.guard = x.guard
      /\ m.tx = x.tx /\ m.send = x.send /\ m.written = x.written /\ m.soon = x.soon
      /\ m.batch = x.batch /\ m.proto_paused = x.proto_paused /\ m.staged = x.staged
      /\ m.port = x.port /\ m.events = Append(x.events, LostEvent(immediate))
  BY <1>4, <1>8 DEF Push, Shape, Watched
<1>10. TornDown(n, m, why, immediate)
  BY <1>6, <1>7, <1>8, <1>9 DEF TornDown
<1>11. Queued(m.events)
  BY <1>10, QueuedAppend, Told DEF TornDown, Shape
<1>12. m.guard \in Seq(Nat) /\ m.wq \in Seq(Nat) /\ m.open \in BOOLEAN /\ m.send_op \in BOOLEAN
  <2>1. m.open = FALSE /\ m.send_op = FALSE /\ m.wq = <<>>
    BY <1>6, <1>7, <1>8, <1>9
  <2>2. m.guard = n.wq \/ m.guard = n.guard
    BY <1>6, <1>7, <1>8, <1>9
  <2>3. m.guard \in Seq(Nat)
    BY <2>2 DEF Shape
  <2>4. <<>> \in Seq(Nat)
    OBVIOUS
  <2>5. QED
    BY <2>1, <2>3, <2>4
<1>13. Shape(m)
  BY <1>9, <1>10, <1>11, <1>12 DEF Shape, TornDown
<1>14. QED
  BY <1>5, <1>10, <1>13

\* teardown_lost keeps the invariant: one end is told of, and a send the
\* kernel still has keeps its bytes.  In order, it comes behind the last byte.
LEMMA TeardownKeeps ==
  ASSUME NEW n, NEW rest, NEW why, NEW immediate \in BOOLEAN, Good(n, rest),
         n.open /\ why = "closed" => ~n.send_op /\ n.wq = <<>>
  PROVE  Keeps(n, rest, TeardownLost(n, why, immediate))
<1>1. CASE ~n.open
  BY <1>1, KeepsSelf DEF TeardownLost
<1>2. CASE n.open
  <2>1. PICK m : m = TeardownLost(n, why, immediate)
    OBVIOUS
  <2>2. Shape(n) /\ Finished(rest)
    BY DEF Good
  <2>3. Shape(m) /\ TornDown(n, m, why, immediate)
    BY <1>2, <2>1, <2>2, TearsDown
  <2>4. Reported(m, rest) = Reported(n, rest)
    BY <2>3 DEF TornDown, Reported
  <2>5. Numbered(n.tx, 0) /\ OpenSound(n, rest)
    BY <1>2 DEF Good, Outbound
  <2>6. Len(n.wq) \in Nat /\ Len(n.tx) \in Nat /\ n.written \in Nat /\ n.send \in Nat
    BY <2>2 DEF Shape
  <2>7. GoneSound(m, rest)
    <3>1. Len(<<>>) = 0 /\ \A c : Len(<<c>>) = 1
      OBVIOUS
    <3>2. CASE SendIdle(n, rest)
      <4>1. n.send = 0 /\ Reported(n, rest) = <<>> /\ n.written = Len(n.tx) + Len(n.wq)
        BY <3>2 DEF SendIdle
      <4>2. why = "closed" => Len(n.tx) = n.written
        <5>1. why = "closed" => n.wq = <<>>
          BY <1>2
        <5>2. why = "closed" => Len(n.wq) = 0
          BY <3>1, <5>1
        <5>3. PICK a, b, w : a = Len(n.tx) /\ b = Len(n.wq) /\ w = n.written
          OBVIOUS
        <5>4. a \in Nat /\ b \in Nat /\ w \in Nat /\ w = a + b
          BY <2>6, <4>1, <5>3
        <5>5. b = 0 => w = a
          BY <5>4
        <5>6. QED
          BY <5>2, <5>3, <5>5
      <4>3. m.send = 0 /\ m.tx = n.tx /\ m.ended = why /\ m.written = n.written
        BY <2>3, <4>1 DEF TornDown
      <4>4. Len(Reported(m, rest)) = 0
        BY <2>4, <3>1, <4>1
      <4>5. QED
        BY <4>2, <4>3, <4>4 DEF GoneSound
    <3>3. CASE SendParked(n, rest)
      <4>1. n.send_op /\ n.send \in 1..Len(n.wq) /\ Reported(n, rest) = <<>>
            /\ n.written = Len(n.tx) + Len(n.wq)
        BY <3>3 DEF SendParked
      <4>2. Numbered(n.wq, Len(n.tx))
        <5>1. n.written - Len(n.wq) = Len(n.tx)
          BY <2>6, <4>1
        <5>2. QED
          BY <2>5, <5>1 DEF OpenSound
      <4>3. n.send <= Len(n.wq)
        BY <2>6, <4>1
      <4>4. m.guard = n.wq /\ m.tx = n.tx /\ m.send = n.send /\ m.ended = why /\ why # "closed"
        BY <1>2, <2>3, <4>1 DEF TornDown
      <4>5. QED
        BY <2>4, <3>1, <4>1, <4>2, <4>3, <4>4 DEF GoneSound
    <3>4. CASE SendReported(n, rest)
      <4>1. n.send_op /\ n.send = 0 /\ Len(Reported(n, rest)) = 1
        BY <3>1, <3>4 DEF SendReported
      <4>2. m.send = 0 /\ m.ended = why /\ why # "closed"
        BY <1>2, <2>3, <4>1 DEF TornDown
      <4>3. QED
        BY <2>4, <4>1, <4>2 DEF GoneSound
    <3>5. QED
      BY <2>5, <3>2, <3>3, <3>4 DEF OpenSound
  <2>8. Outbound(m, rest)
    BY <2>3, <2>5, <2>7 DEF Outbound, TornDown
  <2>9. Losses(m.events) = Losses(n.events) + 1 /\ Losses(n.events) \in Nat
    BY <2>2, <2>3, LossesAppend, Told DEF TornDown, Shape
  <2>10. Owed(m) = Owed(n)
    BY <1>2, <2>3, <2>9 DEF Owed, TornDown
  <2>11. Kept(n, m)
    BY <2>3, <2>10 DEF Kept, TornDown
  <2>12. QED
    BY <2>1, <2>2, <2>3, <2>8, <2>11 DEF Keeps, Good
<1>3. QED
  BY <1>1, <1>2 DEF Good, Shape

\* maybe_finish_shutdown.
LEMMA FinishKeeps ==
  ASSUME NEW n, NEW rest, NEW drained \in BOOLEAN, Good(n, rest)
  PROVE  Keeps(n, rest, MaybeFinishShutdown(n, drained))
<1>1. CASE ~n.open \/ n.send_op \/ n.wq # <<>>
  BY <1>1, KeepsSelf DEF MaybeFinishShutdown
<1>2. CASE ~(~n.open \/ n.send_op \/ n.wq # <<>>)
  <2>1. PICK fin : fin = [n EXCEPT !.eof_sent = @ \/ n.eof_wanted]
    OBVIOUS
  <2>2. Shape(n)
    BY DEF Good
  <2>3. DOMAIN fin = DOMAIN n /\ \A f \in Sending : fin[f] = n[f]
    BY <2>1, <2>2 DEF Sending, Shape, Watched
  <2>4. Keeps(n, rest, fin)
    BY <2>2, <2>3, AsideOther, AsideKeeps
  <2>5. Good(fin, rest)
    BY <2>4 DEF Keeps
  <2>6. ~fin.send_op /\ fin.wq = <<>>
    BY <1>2, <2>3 DEF Sending
  <2>7. PICK now : now = (drained /\ ~n.inline_close)
    OBVIOUS
  <2>8. now \in BOOLEAN
    BY <2>7
  <2>9. Keeps(fin, rest, TeardownLost(fin, "closed", now))
    BY <2>5, <2>6, <2>8, TeardownKeeps
  <2>10. MaybeFinishShutdown(n, drained) = fin \/ MaybeFinishShutdown(n, drained) = TeardownLost(fin, "closed", now)
    BY <1>2, <2>1, <2>7 DEF MaybeFinishShutdown
  <2>11. QED
    BY <2>4, <2>9, <2>10, KeepsTwice
<1>3. QED
  BY <1>1, <1>2

\* post_send.
LEMMA PostSendKeeps ==
  ASSUME NEW n, NEW rest, Good(n, rest), n.open, ~n.send_op, n.wq # <<>>
  PROVE  \A m \in PostSend(n) : Keeps(n, rest, m)
<1>1. PICK g : g = Least(Len(n.wq), Gather)
  OBVIOUS
<1>2. PICK posted : posted = [n EXCEPT !.send_op = TRUE, !.inflight = g]
  OBVIOUS
<1> DEFINE Sent(k) == [posted EXCEPT !.tx = @ \o SubSeq(n.wq, 1, k),
                                     !.staged = Append(@, [op |-> "send", sent |-> k])]
<1>3. Shape(n) /\ Finished(rest) /\ Numbered(n.tx, 0) /\ OpenSound(n, rest)
  BY DEF Good, Outbound
<1>4. SendIdle(n, rest) /\ Numbered(n.wq, n.written - Len(n.wq)) /\ n.ended # "closed"
  BY <1>3 DEF OpenSound, SendParked, SendReported
<1>5. /\ n.send = 0 /\ Reported(n, rest) = <<>> /\ n.written = Len(n.tx) + Len(n.wq)
      /\ Len(n.tx) \in Nat /\ Len(n.wq) \in Nat \ {0} /\ n.written \in Nat
      /\ n.wq \in Seq(Nat) /\ n.tx \in Seq(Nat)
  <2>1. n.wq \in Seq(Nat) /\ n.tx \in Seq(Nat) /\ n.written \in Nat
    BY <1>3 DEF Shape
  <2>2. Len(n.tx) \in Nat /\ Len(n.wq) \in Nat \ {0}
    BY <2>1
  <2>3. n.send = 0 /\ Reported(n, rest) = <<>> /\ n.written = Len(n.tx) + Len(n.wq)
    BY <1>4 DEF SendIdle
  <2>4. QED
    BY <2>1, <2>2, <2>3
<1>6. n.written - Len(n.wq) = Len(n.tx)
  BY <1>5
<1>7. g \in 1..Len(n.wq)
  BY <1>1, <1>5, TransportAssumption DEF TransportAssumption, Least
<1>8. /\ DOMAIN posted = DOMAIN n /\ posted.send_op = TRUE /\ posted.open = n.open /\ posted.wq = n.wq
      /\ posted.guard = n.guard /\ posted.tx = n.tx /\ posted.send = n.send /\ posted.written = n.written
      /\ posted.ended = n.ended /\ posted.soon = n.soon /\ posted.batch = n.batch
      /\ posted.proto_paused = n.proto_paused /\ posted.staged = n.staged /\ posted.port = n.port
      /\ posted.events = n.events
  BY <1>2, <1>3 DEF Shape, Watched
<1>9. Keeps(n, rest, [posted EXCEPT !.send = g])
  <2>1. PICK m : m = [posted EXCEPT !.send = g]
    OBVIOUS
  <2>2. /\ DOMAIN m = DOMAIN n /\ m.send_op = TRUE /\ m.open = n.open /\ m.wq = n.wq
        /\ m.guard = n.guard /\ m.tx = n.tx /\ m.send = g /\ m.written = n.written
        /\ m.ended = n.ended /\ m.soon = n.soon /\ m.batch = n.batch
        /\ m.proto_paused = n.proto_paused /\ m.staged = n.staged /\ m.port = n.port
        /\ m.events = n.events
    BY <1>3, <1>8, <2>1 DEF Shape, Watched
  <2>3. Shape(m)
    <3>1. g \in Nat
      BY <1>7
    <3>2. QED
      BY <1>3, <2>2, <3>1 DEF Shape
  <2>4. Reported(m, rest) = <<>>
    BY <1>5, <2>2 DEF Reported
  <2>5. SendParked(m, rest)
    BY <1>5, <1>7, <2>2, <2>4 DEF SendParked
  <2>6. Outbound(m, rest)
    BY <1>3, <1>4, <2>2, <2>5 DEF Outbound, OpenSound
  <2>7. Kept(n, m)
    BY <2>2 DEF Kept, Owed
  <2>8. QED
    BY <1>3, <2>1, <2>3, <2>6, <2>7 DEF Keeps, Good
<1>10. ASSUME NEW k \in 1..g PROVE Keeps(n, rest, Sent(k))
  <2>1. PICK m, t, x : m = Sent(k) /\ t = n.tx \o SubSeq(n.wq, 1, k)
                       /\ x = Append(n.staged, [op |-> "send", sent |-> k])
    OBVIOUS
  <2>2. k \in 0..Len(n.wq) /\ k \in Nat
    BY <1>5, <1>7
  <2>3. [op |-> "send", sent |-> k] \in Sends
    BY <2>2 DEF Sends
  <2>4. Finished(x)
    BY <1>3, <2>1, <2>3, FinishedAppend DEF Shape
  <2>5. PICK q : q = SubSeq(n.wq, 1, k)
    OBVIOUS
  <2>6. q \in Seq(Nat) /\ Len(q) = k /\ Numbered(q, Len(n.tx))
    BY <1>4, <1>5, <1>6, <2>2, <2>5, QueueParts
  <2>7. t \in Seq(Nat) /\ Len(t) = Len(n.tx) + k /\ Numbered(t, 0)
    BY <1>3, <1>5, <2>1, <2>5, <2>6, SentBehind
  <2>8. /\ DOMAIN m = DOMAIN n /\ m.send_op = TRUE /\ m.open = n.open /\ m.wq = n.wq
        /\ m.guard = n.guard /\ m.tx = t /\ m.send = n.send /\ m.written = n.written
        /\ m.ended = n.ended /\ m.soon = n.soon /\ m.batch = n.batch
        /\ m.proto_paused = n.proto_paused /\ m.staged = x /\ m.port = n.port
        /\ m.events = n.events
    BY <1>3, <1>8, <2>1 DEF Shape, Watched
  <2>9. Shape(m)
    BY <1>3, <2>4, <2>7, <2>8 DEF Shape
  <2>10. Reported(m, rest) = <<[op |-> "send", sent |-> k]>>
    <3>1. m.staged = Append(n.staged, [op |-> "send", sent |-> k]) /\ m.port = n.port
      BY <2>1, <2>8
    <3>2. Shape(n) /\ Finished(rest) /\ Reported(n, rest) = <<>>
      BY <1>3, <1>5
    <3>3. QED
      BY <2>2, <2>9, <3>1, <3>2, ReportedSend, Zenon
  <2>11. n.written + k = Len(t) + Len(n.wq)
    <3>1. PICK a, b, w, l : a = Len(n.tx) /\ b = Len(n.wq) /\ w = n.written /\ l = Len(t)
      OBVIOUS
    <3>2. a \in Nat /\ b \in Nat /\ w \in Nat /\ w = a + b /\ l = a + k
      BY <1>5, <2>7, <3>1
    <3>3. w + k = l + b
      BY <2>2, <3>2
    <3>4. QED
      BY <3>1, <3>3
  <2>12. SendReported(m, rest)
    BY <1>5, <2>2, <2>8, <2>10, <2>11 DEF SendReported
  <2>13. Outbound(m, rest)
    BY <1>4, <2>7, <2>8, <2>12 DEF Outbound, OpenSound
  <2>14. Kept(n, m)
    BY <2>8 DEF Kept, Owed
  <2>15. QED
    BY <1>3, <2>1, <2>9, <2>13, <2>14 DEF Keeps, Good
<1>11. Keeps(n, rest, TeardownLost(n, "failed", FALSE))
  BY TeardownKeeps
<1>12. ASSUME NEW m \in PostSend(n) PROVE Keeps(n, rest, m)
  <2>1. PICK p, d : p = [posted EXCEPT !.send = g] /\ d = TeardownLost(n, "failed", FALSE)
    OBVIOUS
  <2>2. PostSend(n) = {p} \cup {Sent(k) : k \in 1..g} \cup (IF n.may.mayFail THEN {d} ELSE {})
    BY <1>1, <1>2, <2>1 DEF PostSend
  <2> HIDE DEF Sent
  <2>3. m = p \/ m = d \/ \E k \in 1..g : m = Sent(k)
    BY <2>2
  <2>4. QED
    BY <1>9, <1>10, <1>11, <2>1, <2>3
<1>13. QED
  BY <1>12

\* flush_pending.
LEMMA FlushKeeps ==
  ASSUME NEW n, NEW rest, Good(n, rest) PROVE \A m \in FlushPending(n) : Keeps(n, rest, m)
<1>1. CASE ~n.open \/ n.send_op
  BY <1>1, KeepsSelf DEF FlushPending
<1>2. CASE ~(~n.open \/ n.send_op) /\ n.wq = <<>>
  BY <1>2, FinishKeeps DEF FlushPending
<1>3. CASE ~(~n.open \/ n.send_op) /\ n.wq # <<>>
  BY <1>3, PostSendKeeps DEF FlushPending
<1>4. QED
  BY <1>1, <1>2, <1>3

\* The flush list.
LEMMA FlushListKeeps ==
  ASSUME NEW n, NEW rest, Good(n, rest) PROVE \A m \in FlushList(n) : Keeps(n, rest, m)
<1>1. PICK a : a = [n EXCEPT !.flush_list = FALSE]
  OBVIOUS
<1>2. Shape(n)
  BY DEF Good
<1>3. DOMAIN a = DOMAIN n /\ \A f \in Sending : a[f] = n[f]
  BY <1>1, <1>2 DEF Sending, Shape, Watched
<1>4. Keeps(n, rest, a)
  BY <1>2, <1>3, AsideOther, AsideKeeps
<1>5. ASSUME NEW m \in FlushPending(a) PROVE Keeps(n, rest, m)
  <2>1. Keeps(a, rest, m)
    BY <1>4, <1>5, FlushKeeps DEF Keeps
  <2>2. QED
    BY <1>4, <2>1, KeepsTwice
<1>6. QED
  BY <1>1, <1>5, KeepsSelf DEF FlushList

-----------------------------------------------------------------------------
(* Completions.                                                            *)

\* Data arrives.
LEMMA AsideRecvData ==
  ASSUME NEW n, NEW x, NEW chunk, Shape(n) PROVE \A m \in OnRecvData(n, x, chunk) : Aside(n, m)
<1>1. CASE n.reading_paused
  <2>1. PICK a : a = [n EXCEPT !.paused_recv = Append(@, chunk), !.recv_slot = NoSlot]
    OBVIOUS
  <2>2. DOMAIN a = DOMAIN n /\ \A f \in Sending : a[f] = n[f]
    BY <2>1 DEF Sending, Shape, Watched
  <2>3. Aside(n, a)
    BY <2>2, AsideOther
  <2>4. Aside(a, Release(a, x))
    BY <2>3, AsideShape, AsideRefs
  <2>5. OnRecvData(n, x, chunk) = {Release(a, x)}
    BY <1>1, <2>1 DEF OnRecvData
  <2>6. QED
    BY <2>3, <2>4, <2>5, AsideTwice
<1>2. CASE ~n.reading_paused
  <2>1. PICK u, v, w : u = [n EXCEPT !.recv_slot = NoSlot] /\ v = Push(u, BufEvent(x))
                       /\ w = Push(n, DataEvent(<<chunk>>))
    OBVIOUS
  <2>2. BufEvent(x).kind # "lost" /\ DataEvent(<<chunk>>).kind # "lost"
    BY DEF BufEvent, DataEvent
  <2>3. Aside(n, u)
    BY <2>1, AsideRecv
  <2>4. Aside(u, v) /\ Aside(n, w)
    BY <2>1, <2>2, <2>3, AsideShape, AsidePush
  <2>5. PICK h : h = IF n.buffered THEN v ELSE w
    OBVIOUS
  <2>6. Aside(n, h)
    BY <2>3, <2>4, <2>5, AsideTwice
  <2>7. ASSUME NEW r \in Resized(h, x) PROVE Aside(n, r)
    <3>1. PICK a : a = [h EXCEPT !.recv_slot = NoSlot]
      OBVIOUS
    <3>2. Aside(h, a)
      BY <2>6, <3>1, AsideShape, AsideRecv
    <3>3. Aside(a, Release(a, x))
      BY <3>2, AsideShape, AsideRefs
    <3>4. r = h \/ r = Release(a, x)
      BY <2>7, <3>1 DEF Resized
    <3>5. QED
      BY <2>6, <3>2, <3>3, <3>4, AsideTwice
  <2>8. OnRecvData(n, x, chunk) = UNION {PostRecv(r) : r \in Resized(h, x)}
    BY <1>2, <2>1, <2>5 DEF OnRecvData, Each
  <2>9. ASSUME NEW r \in Resized(h, x), NEW m \in PostRecv(r) PROVE Aside(n, m)
    BY <2>7, <2>9, AsideShape, AsidePostRecv, AsideTwice
  <2>10. QED
    BY <2>8, <2>9
<1>3. QED
  BY <1>1, <1>2

\* on_recv_done.
LEMMA RecvDoneKeeps ==
  ASSUME NEW n, NEW rest, NEW c, Good(n, rest) PROVE \A m \in OnRecvDone(n, c) : Keeps(n, rest, m)
<1>1. PICK done : done = [n EXCEPT !.recv_op = FALSE]
  OBVIOUS
<1>2. Shape(n)
  BY DEF Good
<1>3. Aside(n, done) /\ Shape(done)
  BY <1>1, <1>2, AsideRecv, AsideShape
<1>4. Keeps(n, rest, done)
  BY <1>3, AsideKeeps
<1>5. PICK lost, held, eof : /\ lost = TeardownLost(done, "failed", FALSE)
                             /\ held = [done EXCEPT !.paused_eof = TRUE]
                             /\ eof = Push(done, [kind |-> "eof"])
  OBVIOUS
<1>6. Keeps(n, rest, lost)
  <2>1. Keeps(done, rest, lost)
    BY <1>4, <1>5, TeardownKeeps DEF Keeps
  <2>2. QED
    BY <1>4, <2>1, KeepsTwice
<1>7. Aside(n, held) /\ Aside(n, eof)
  <2>1. [kind |-> "eof"].kind # "lost"
    OBVIOUS
  <2>2. Aside(done, held) /\ Aside(done, eof)
    BY <1>3, <1>5, <2>1, AsideRecv, AsidePush
  <2>3. QED
    BY <1>3, <2>2, AsideTwice
<1>8. Keeps(n, rest, held) /\ Keeps(n, rest, eof)
  BY <1>7, AsideKeeps
<1>9. ASSUME NEW m \in OnRecvData(done, c.slot, c.result) PROVE Keeps(n, rest, m)
  BY <1>3, <1>9, AsideRecvData, AsideTwice, AsideKeeps
<1>10. ASSUME NEW m \in OnRecvDone(n, c)
       PROVE  m \in {done, lost, held, eof} \cup OnRecvData(done, c.slot, c.result)
  BY <1>1, <1>5, <1>10 DEF OnRecvDone
<1>11. QED
  BY <1>4, <1>6, <1>8, <1>9, <1>10

\* A receive's completion is behind us.
LEMMA GoodWithoutRecv ==
  ASSUME NEW n, NEW rest, Good(n, rest), rest # <<>>, Head(rest).op = "recv" PROVE Good(n, Tail(rest))
<1>1. Shape(n) /\ Finished(rest) /\ Outbound(n, rest)
  BY DEF Good
<1>2. Finished(Tail(rest))
  BY <1>1, FinishedTail
<1>3. Reported(n, Tail(rest)) = Reported(n, rest)
  BY <1>1, ReportedTail
<1>4. Outbound(n, Tail(rest))
  BY <1>1, <1>3 DEF Outbound, OpenSound, GoneSound, SendIdle, SendParked, SendReported
<1>5. QED
  BY <1>1, <1>2, <1>4 DEF Good

\* What n is once its send is retired: c tells how much it took.
Retired(n, c) ==
  [n EXCEPT !.guard = <<>>, !.send_op = FALSE, !.inflight = 0, !.wq = SubSeq(n.wq, c.sent + 1, Len(n.wq))]

\* The bytes a send took leave the queue.
LEMMA RetiredKeeps ==
  ASSUME NEW n, NEW rest, NEW c, Good(n, rest), n.open, rest # <<>>, c = Head(rest), c \in Sends
  PROVE  /\ Keeps(n, Tail(rest), Retired(n, c))
         /\ c.sent = 0 =>
              Keeps(n, Tail(rest), [n EXCEPT !.guard = <<>>, !.send_op = FALSE, !.inflight = 0])
<1>1. Shape(n) /\ Finished(rest) /\ Numbered(n.tx, 0) /\ OpenSound(n, rest)
  BY DEF Good, Outbound
<1>2. Len(<<>>) = 0 /\ \A e : Len(<<e>>) = 1 /\ <<e>>[1] = e
  OBVIOUS
<1>3. Len(Reported(n, rest)) <= 1
  <2>1. CASE Reported(n, rest) = <<>>
    BY <1>2, <2>1
  <2>2. CASE SendReported(n, rest)
    BY <1>2, <2>2 DEF SendReported
  <2>3. QED
    BY <1>1, <2>1, <2>2 DEF OpenSound, SendIdle, SendParked
<1>4. Reported(n, rest) = <<c>> /\ Reported(n, Tail(rest)) = <<>> /\ Finished(Tail(rest))
  BY <1>1, <1>3, ReportedTail, FinishedTail
<1>5. Reported(n, rest) # <<>>
  BY <1>2, <1>4
<1>6. SendReported(n, rest) /\ n.ended # "closed" /\ Numbered(n.wq, n.written - Len(n.wq))
  BY <1>1, <1>5 DEF OpenSound, SendIdle, SendParked
<1>7. PICK k \in 0..Len(n.wq) : /\ Reported(n, rest) = <<[op |-> "send", sent |-> k]>>
                                /\ n.written + k = Len(n.tx) + Len(n.wq)
  BY <1>6 DEF SendReported
<1>8. c.sent = k
  <2>1. c = [op |-> "send", sent |-> k]
    BY <1>2, <1>4, <1>7
  <2>2. QED
    BY <2>1
<1>9. n.send = 0 /\ n.wq \in Seq(Nat) /\ n.tx \in Seq(Nat) /\ n.written \in Nat
  BY <1>1, <1>6 DEF SendReported, Shape
<1>10. Len(n.wq) \in Nat /\ Len(n.tx) \in Nat /\ k \in Nat
  BY <1>9
<1>11. PICK q : q = SubSeq(n.wq, k + 1, Len(n.wq))
  OBVIOUS
<1>12. q \in Seq(Nat) /\ Len(q) = Len(n.wq) - k /\ Numbered(q, n.written - Len(n.wq) + k)
  <2>1. n.written - Len(n.wq) \in Int
    BY <1>9, <1>10
  <2>2. QED
    BY <1>6, <1>9, <1>11, <2>1, QueueParts
<1>13. n.written = Len(n.tx) + Len(q) /\ n.written - Len(q) = n.written - Len(n.wq) + k
  <2>1. PICK a, b, w, l : a = Len(n.tx) /\ b = Len(n.wq) /\ w = n.written /\ l = Len(q)
    OBVIOUS
  <2>2. a \in Nat /\ b \in Nat /\ w \in Nat /\ w + k = a + b /\ l = b - k
    BY <1>7, <1>9, <1>10, <1>12, <2>1
  <2>3. w = a + l /\ w - l = w - b + k
    BY <1>10, <2>2
  <2>4. QED
    BY <2>1, <2>3
<1>14. ASSUME NEW m, DOMAIN m = DOMAIN n, ~m.send_op, m.send_op = FALSE, m.wq = q, m.guard = <<>>, m.open = n.open,
              m.tx = n.tx, m.send = n.send, m.written = n.written, m.ended = n.ended, m.soon = n.soon,
              m.batch = n.batch, m.proto_paused = n.proto_paused, m.staged = n.staged, m.port = n.port,
              m.events = n.events
       PROVE  Keeps(n, Tail(rest), m)
  <2>1. <<>> \in Seq(Nat)
    OBVIOUS
  <2>2. Shape(m)
    BY <1>1, <1>12, <1>14, <2>1 DEF Shape
  <2>3. Reported(m, Tail(rest)) = <<>>
    BY <1>4, <1>14 DEF Reported
  <2>4. SendIdle(m, Tail(rest))
    BY <1>9, <1>13, <1>14, <2>3 DEF SendIdle
  <2>5. Numbered(m.wq, m.written - Len(m.wq))
    BY <1>12, <1>13, <1>14
  <2>6. Outbound(m, Tail(rest))
    BY <1>1, <1>6, <1>14, <2>4, <2>5 DEF Outbound, OpenSound
  <2>7. Kept(n, m)
    BY <1>14 DEF Kept, Owed
  <2>8. QED
    BY <1>4, <2>2, <2>6, <2>7 DEF Keeps, Good
<1>15. Keeps(n, Tail(rest), Retired(n, c))
  <2>1. PICK m : m = Retired(n, c)
    OBVIOUS
  <2>2. m = [n EXCEPT !.guard = <<>>, !.send_op = FALSE, !.inflight = 0, !.wq = q]
    BY <1>8, <1>11, <2>1 DEF Retired
  <2>3. /\ DOMAIN m = DOMAIN n /\ m.send_op = FALSE /\ m.wq = q /\ m.guard = <<>> /\ m.open = n.open
        /\ m.tx = n.tx /\ m.send = n.send /\ m.written = n.written /\ m.ended = n.ended
        /\ m.soon = n.soon /\ m.batch = n.batch /\ m.proto_paused = n.proto_paused
        /\ m.staged = n.staged /\ m.port = n.port /\ m.events = n.events
    BY <1>1, <2>2 DEF Shape, Watched
  <2>4. QED
    BY <1>14, <2>1, <2>3
<1>16. ASSUME c.sent = 0
       PROVE  Keeps(n, Tail(rest), [n EXCEPT !.guard = <<>>, !.send_op = FALSE, !.inflight = 0])
  <2>1. PICK m : m = [n EXCEPT !.guard = <<>>, !.send_op = FALSE, !.inflight = 0]
    OBVIOUS
  <2>2. q = n.wq
    BY <1>8, <1>9, <1>11, <1>16
  <2>3. /\ DOMAIN m = DOMAIN n /\ m.send_op = FALSE /\ m.wq = n.wq /\ m.guard = <<>> /\ m.open = n.open
        /\ m.tx = n.tx /\ m.send = n.send /\ m.written = n.written /\ m.ended = n.ended
        /\ m.soon = n.soon /\ m.batch = n.batch /\ m.proto_paused = n.proto_paused
        /\ m.staged = n.staged /\ m.port = n.port /\ m.events = n.events
    BY <1>1, <2>1 DEF Shape, Watched
  <2>4. QED
    BY <1>14, <2>1, <2>2, <2>3
<1>17. QED
  BY <1>15, <1>16

\* on_send_done, of a transport whose guard is gone.
LEMMA SendDoneKeeps ==
  ASSUME NEW n, NEW rest, NEW c, Good(n, rest), rest # <<>>, c = Head(rest), c \in Sends
  PROVE  \A m \in OnSendDone([n EXCEPT !.guard = <<>>], c) : Keeps(n, Tail(rest), m)
<1>1. PICK g : g = [n EXCEPT !.guard = <<>>]
  OBVIOUS
<1>2. Shape(n) /\ Finished(rest) /\ Outbound(n, rest)
  BY DEF Good
<1>3. /\ DOMAIN g = DOMAIN n /\ g.send_op = n.send_op /\ g.wq = n.wq /\ g.guard = <<>> /\ g.open = n.open
      /\ g.tx = n.tx /\ g.send = n.send /\ g.written = n.written /\ g.ended = n.ended
      /\ g.soon = n.soon /\ g.batch = n.batch /\ g.proto_paused = n.proto_paused
      /\ g.staged = n.staged /\ g.port = n.port /\ g.events = n.events /\ g.low = n.low
      /\ g.protocol = n.protocol
  BY <1>1, <1>2 DEF Shape, Watched
<1>4. CASE ~n.open
  <2>1. Numbered(n.tx, 0) /\ GoneSound(n, rest)
    BY <1>2, <1>4 DEF Outbound
  <2>2. Reported(n, rest) = <<c>> /\ Reported(n, Tail(rest)) = <<>> /\ Finished(Tail(rest))
    BY <1>2, <2>1, ReportedTail, FinishedTail DEF GoneSound
  <2>3. <<c>> # <<>> /\ Len(<<>>) = 0 /\ <<>> \in Seq(Nat)
    OBVIOUS
  <2>4. ~(n.send > 0) /\ (n.ended = "closed" => n.send = 0 /\ Len(n.tx) = n.written)
    BY <2>1, <2>2, <2>3 DEF GoneSound
  <2>5. Shape(g)
    BY <1>2, <1>3, <2>3 DEF Shape
  <2>6. Reported(g, Tail(rest)) = <<>>
    BY <1>3, <2>2 DEF Reported
  <2>7. GoneSound(g, Tail(rest))
    BY <1>3, <2>3, <2>4, <2>6 DEF GoneSound
  <2>8. Outbound(g, Tail(rest))
    BY <1>3, <1>4, <2>1, <2>7 DEF Outbound
  <2>9. Kept(n, g)
    BY <1>3 DEF Kept, Owed
  <2>10. Keeps(n, Tail(rest), g)
    BY <2>2, <2>5, <2>8, <2>9 DEF Keeps, Good
  <2>11. OnSendDone(g, c) = {g}
    BY <1>3, <1>4 DEF OnSendDone
  <2>12. QED
    BY <1>1, <2>10, <2>11
<1>5. CASE n.open
  <2>1. PICK t : t = Tail(rest)
    OBVIOUS
  <2>2. PICK done : done = [g EXCEPT !.send_op = FALSE, !.inflight = 0]
    OBVIOUS
  <2>3. PICK q : q = SubSeq(n.wq, c.sent + 1, Len(n.wq))
    OBVIOUS
  <2>4. PICK retired : retired = [done EXCEPT !.wq = q]
    OBVIOUS
  <2>5. done = [n EXCEPT !.guard = <<>>, !.send_op = FALSE, !.inflight = 0] /\ retired = Retired(n, c)
    BY <1>1, <1>2, <2>2, <2>3, <2>4 DEF Retired, Shape, Watched
  <2>6. Keeps(n, t, retired) /\ (c.sent = 0 => Keeps(n, t, done))
    BY <1>5, <2>1, <2>5, RetiredKeeps
  <2>7. PICK resumed : resumed = Push([retired EXCEPT !.proto_paused = FALSE], ResumeEvent(n.protocol))
    OBVIOUS
  <2>8. Keeps(n, t, resumed)
    <3>1. PICK a : a = [retired EXCEPT !.proto_paused = FALSE]
      OBVIOUS
    <3>2. Shape(retired)
      BY <2>6 DEF Keeps, Good
    <3>3. /\ DOMAIN a = DOMAIN retired /\ a.send_op = retired.send_op /\ a.wq = retired.wq
          /\ a.guard = retired.guard /\ a.open = retired.open
          /\ a.tx = retired.tx /\ a.send = retired.send /\ a.written = retired.written
          /\ a.ended = retired.ended /\ a.soon = retired.soon /\ a.batch = retired.batch
          /\ a.proto_paused = FALSE /\ a.staged = retired.staged /\ a.port = retired.port
          /\ a.events = retired.events
      BY <3>1, <3>2 DEF Shape, Watched
    <3>4. Shape(a)
      BY <3>2, <3>3 DEF Shape
    <3>5. Aside(retired, a)
      BY <3>3, <3>4 DEF Aside
    <3>6. ResumeEvent(n.protocol).kind # "lost"
      BY DEF ResumeEvent
    <3>7. Aside(a, resumed)
      BY <2>7, <3>1, <3>4, <3>6, AsidePush
    <3>8. Keeps(retired, t, resumed)
      BY <2>6, <3>5, <3>7, AsideTwice, AsideKeeps DEF Keeps
    <3>9. QED
      BY <2>6, <3>8, KeepsTwice
  <2>9. PICK out : out = IF n.proto_paused /\ Len(q) <= n.low THEN resumed ELSE retired
    OBVIOUS
  <2>10. Keeps(n, t, out) /\ Good(out, t)
    BY <2>6, <2>8, <2>9 DEF Keeps
  <2>11. ASSUME NEW m \in FlushPending(out) PROVE Keeps(n, t, m)
    BY <2>10, <2>11, FlushKeeps, KeepsTwice
  <2>12. Keeps(n, t, MaybeFinishShutdown(out, TRUE))
    <3>1. Keeps(out, t, MaybeFinishShutdown(out, TRUE))
      BY <2>10, FinishKeeps
    <3>2. QED
      BY <2>10, <3>1, KeepsTwice
  <2>13. c.sent = 0 => Keeps(n, t, TeardownLost(done, "failed", FALSE))
    <3>1. c.sent = 0 => Keeps(done, t, TeardownLost(done, "failed", FALSE))
      BY <2>6, TeardownKeeps DEF Keeps
    <3>2. QED
      BY <2>6, <3>1, KeepsTwice
  <2>14. OnSendDone(g, c) = IF c.sent = 0 THEN {TeardownLost(done, "failed", FALSE)}
                            ELSE IF q # <<>> THEN FlushPending(out)
                            ELSE IF n.proto_paused /\ Len(q) <= n.low THEN {out}
                            ELSE {MaybeFinishShutdown(out, TRUE)}
    BY <1>3, <1>5, <2>2, <2>3, <2>4, <2>7, <2>9 DEF OnSendDone
  <2>15. ASSUME NEW m \in OnSendDone(g, c) PROVE Keeps(n, t, m)
    BY <2>10, <2>11, <2>12, <2>13, <2>14, <2>15
  <2>16. QED
    BY <1>1, <2>1, <2>15
<1>6. QED
  BY <1>2, <1>4, <1>5 DEF Shape

\* translate, of the first completion that is left.
LEMMA TranslateOneKeeps ==
  ASSUME NEW n, NEW rest, Good(n, rest), rest # <<>>
  PROVE  \A m \in TranslateOne(n, Head(rest)) : Keeps(n, Tail(rest), m)
<1>1. PICK c : c = Head(rest)
  OBVIOUS
<1>2. c.op = "recv" \/ c \in Sends
  BY <1>1, FinishedTail DEF Good
<1>3. CASE c.op = "recv"
  <2>1. Good(n, Tail(rest))
    BY <1>1, <1>3, GoodWithoutRecv
  <2>2. ASSUME NEW m \in OnRecvDone(n, c) PROVE Keeps(n, Tail(rest), Release(m, c.slot))
    <3>1. Keeps(n, Tail(rest), m)
      BY <2>1, <2>2, RecvDoneKeeps
    <3>2. Good(m, Tail(rest)) /\ Shape(m)
      BY <3>1 DEF Keeps, Good
    <3>3. Keeps(m, Tail(rest), Release(m, c.slot))
      BY <3>2, AsideRefs, AsideKeeps
    <3>4. QED
      BY <3>1, <3>3, KeepsTwice
  <2>3. TranslateOne(n, c) = {Release(m, c.slot) : m \in OnRecvDone(n, c)}
    BY <1>3 DEF TranslateOne
  <2>4. QED
    BY <1>1, <2>2, <2>3
<1>4. CASE c \in Sends
  <2>1. c.op # "recv"
    BY <1>4 DEF Sends
  <2>2. TranslateOne(n, c) = OnSendDone([n EXCEPT !.guard = <<>>], c)
    BY <2>1 DEF TranslateOne
  <2>3. QED
    BY <1>1, <1>4, <2>2, SendDoneKeeps
<1>5. QED
  BY <1>2, <1>3, <1>4

-----------------------------------------------------------------------------
(* Loops over completions.                                                 *)

\* What translate goes through.
Translates(f, n, comps) ==
  /\ Translate(n, comps) = f[Len(comps)] /\ f[0] = {n}
  /\ \A i \in 1..Len(comps) : f[i] = UNION {TranslateOne(m, comps[i]) : m \in f[i - 1]}

\* It goes through something.
LEMMA Translating ==
  ASSUME NEW n, NEW comps, Listed(comps)
  PROVE  \E f : Translates(f, n, comps)
<1> DEFINE N == Len(comps)
           Of(f, k) == [i \in 0..k |-> IF i = 0 THEN {n} ELSE UNION {TranslateOne(m, comps[i]) : m \in f[i - 1]}]
           A == {k \in 0..N : \E f : f = Of(f, k)}
<1>1. N \in Nat
  BY DEF Listed
<1>2. 0 \in A
  <2> DEFINE f == [i \in 0..0 |-> {n}]
  <2>1. f = Of(f, 0)
    OBVIOUS
  <2> HIDE DEF f, Of
  <2>2. QED
    BY <1>1, <2>1
<1>3. ASSUME NEW k \in 0..N, k \in A, k < N PROVE k + 1 \in A
  <2>1. PICK f : f = Of(f, k)
    BY <1>3
  <2> DEFINE last == UNION {TranslateOne(m, comps[k + 1]) : m \in f[k]}
             h == [i \in 0..(k + 1) |-> IF i = k + 1 THEN last ELSE f[i]]
  <2>2. ASSUME NEW i \in 0..(k + 1)
        PROVE h[i] = IF i = 0 THEN {n} ELSE UNION {TranslateOne(m, comps[i]) : m \in h[i - 1]}
    <3>1. CASE i = k + 1
      <4>1. k \in 0..(k + 1) /\ h[k] = f[k] /\ i # 0 /\ i - 1 = k
        BY <1>1, <3>1
      <4>2. h[i] = last
        BY <3>1
      <4> HIDE DEF h
      <4>3. QED
        BY <3>1, <4>1, <4>2
    <3>2. CASE i \in 0..k
      <4>1. i # k + 1 /\ h[i] = f[i]
        BY <1>1, <3>2
      <4>2. f[i] = IF i = 0 THEN {n} ELSE UNION {TranslateOne(m, comps[i]) : m \in f[i - 1]}
        BY <2>1, <3>2
      <4>3. i # 0 => i - 1 \in 0..(k + 1) /\ i - 1 # k + 1 /\ h[i - 1] = f[i - 1]
        BY <1>1, <3>2
      <4> HIDE DEF h
      <4>4. QED
        BY <4>1, <4>2, <4>3
    <3>3. QED
      BY <1>1, <3>1, <3>2
  <2>3. h = Of(h, k + 1)
    <3>1. h = [i \in 0..(k + 1) |-> h[i]]
      OBVIOUS
    <3> HIDE DEF h
    <3>2. QED
      BY <2>2, <3>1, Zenon
  <2> HIDE DEF h, Of
  <2>4. QED
    BY <1>1, <1>3, <2>3
<1>4. N \in A
  <2> HIDE DEF A, N
  <2>1. \A i \in 0..N : i \in A
    BY <1>1, <1>2, <1>3, UpTo
  <2>2. QED
    BY <1>1, <2>1
<1> DEFINE h == CHOOSE f : f = Of(f, N)
<1>5. h = Of(h, N)
  <2>1. \E f : f = Of(f, N)
    BY <1>4
  <2> HIDE DEF Of
  <2>2. QED
    BY <2>1
<1>6. Translate(n, comps) = h[N]
  BY Zenon DEF Translate
<1> HIDE DEF h
<1>7. h[0] = {n}
  BY <1>1, <1>5
<1>8. ASSUME NEW i \in 1..N PROVE h[i] = UNION {TranslateOne(m, comps[i]) : m \in h[i - 1]}
  <2>1. i \in 0..N /\ i # 0
    BY <1>1
  <2>2. QED
    BY <1>5, <2>1
<1>9. Translates(h, n, comps)
  BY <1>6, <1>7, <1>8 DEF Translates
<1>10. QED
  BY <1>9

\* What settle_inline goes through.
Settles(f, n) ==
  /\ SettleInline(n) = f[Rounds] /\ f[0] = {n}
  /\ \A i \in 1..Rounds : f[i] = UNION {Translate([m EXCEPT !.staged = <<>>], m.staged) : m \in f[i - 1]}

\* So does it.
LEMMA Settling ==
  ASSUME NEW n
  PROVE  \E f : Settles(f, n)
<1> DEFINE N == Rounds
           Of(f, k) == [i \in 0..k |-> IF i = 0 THEN {n} ELSE UNION {Translate([m EXCEPT !.staged = <<>>], m.staged) : m \in f[i - 1]}]
           A == {k \in 0..N : \E f : f = Of(f, k)}
<1>1. N \in Nat
  BY TransportAssumption DEF TransportAssumption
<1>2. 0 \in A
  <2> DEFINE f == [i \in 0..0 |-> {n}]
  <2>1. f = Of(f, 0)
    OBVIOUS
  <2> HIDE DEF f, Of
  <2>2. QED
    BY <1>1, <2>1
<1>3. ASSUME NEW k \in 0..N, k \in A, k < N PROVE k + 1 \in A
  <2>1. PICK f : f = Of(f, k)
    BY <1>3
  <2> DEFINE last == UNION {Translate([m EXCEPT !.staged = <<>>], m.staged) : m \in f[k]}
             h == [i \in 0..(k + 1) |-> IF i = k + 1 THEN last ELSE f[i]]
  <2>2. ASSUME NEW i \in 0..(k + 1)
        PROVE h[i] = IF i = 0 THEN {n} ELSE UNION {Translate([m EXCEPT !.staged = <<>>], m.staged) : m \in h[i - 1]}
    <3>1. CASE i = k + 1
      <4>1. k \in 0..(k + 1) /\ h[k] = f[k] /\ i # 0 /\ i - 1 = k
        BY <1>1, <3>1
      <4>2. h[i] = last
        BY <3>1
      <4> HIDE DEF h
      <4>3. QED
        BY <3>1, <4>1, <4>2
    <3>2. CASE i \in 0..k
      <4>1. i # k + 1 /\ h[i] = f[i]
        BY <1>1, <3>2
      <4>2. f[i] = IF i = 0 THEN {n} ELSE UNION {Translate([m EXCEPT !.staged = <<>>], m.staged) : m \in f[i - 1]}
        BY <2>1, <3>2
      <4>3. i # 0 => i - 1 \in 0..(k + 1) /\ i - 1 # k + 1 /\ h[i - 1] = f[i - 1]
        BY <1>1, <3>2
      <4> HIDE DEF h
      <4>4. QED
        BY <4>1, <4>2, <4>3
    <3>3. QED
      BY <1>1, <3>1, <3>2
  <2>3. h = Of(h, k + 1)
    <3>1. h = [i \in 0..(k + 1) |-> h[i]]
      OBVIOUS
    <3> HIDE DEF h
    <3>2. QED
      BY <2>2, <3>1, Zenon
  <2> HIDE DEF h, Of
  <2>4. QED
    BY <1>1, <1>3, <2>3
<1>4. N \in A
  <2> HIDE DEF A, N
  <2>1. \A i \in 0..N : i \in A
    BY <1>1, <1>2, <1>3, UpTo
  <2>2. QED
    BY <1>1, <2>1
<1> DEFINE h == CHOOSE f : f = Of(f, N)
<1>5. h = Of(h, N)
  <2>1. \E f : f = Of(f, N)
    BY <1>4
  <2> HIDE DEF Of
  <2>2. QED
    BY <2>1
<1>6. SettleInline(n) = h[N]
  BY Zenon DEF SettleInline
<1> HIDE DEF h
<1>7. h[0] = {n}
  BY <1>1, <1>5
<1>8. ASSUME NEW i \in 1..N PROVE h[i] = UNION {Translate([m EXCEPT !.staged = <<>>], m.staged) : m \in h[i - 1]}
  <2>1. i \in 0..N /\ i # 0
    BY <1>1
  <2>2. QED
    BY <1>5, <2>1
<1>9. Settles(h, n)
  BY <1>6, <1>7, <1>8 DEF Settles
<1>10. QED
  BY <1>9

\* translate keeps the invariant, and leaves nothing to translate.
LEMMA TranslateKeeps ==
  ASSUME NEW n, NEW comps, Good(n, comps) PROVE \A m \in Translate(n, comps) : Keeps(n, <<>>, m)
<1>1. PICK S : comps \in Seq(S)
  BY DEF Good, Finished, Listed
<1> DEFINE N == Len(comps)
           Rest(k) == SubSeq(comps, k + 1, N)
<1>2. N \in Nat
  BY <1>1
<1>3. PICK f : Translates(f, n, comps)
  BY <1>1, Translating DEF Listed
<1> DEFINE A == {k \in 0..N : \A m \in f[k] : Keeps(n, Rest(k), m)}
<1>4. 0 \in A
  <2>1. Rest(0) = comps /\ 0 \in 0..N
    BY <1>1, <1>2
  <2>2. \A m \in f[0] : m = n
    BY <1>3 DEF Translates
  <2>3. Keeps(n, comps, n)
    BY KeepsSelf
  <2> HIDE DEF Rest
  <2>4. QED
    BY <2>1, <2>2, <2>3
<1>5. ASSUME NEW k \in 0..N, k \in A, k < N PROVE k + 1 \in A
  <2>1. k + 1 \in 1..N /\ k + 1 \in 0..N /\ (k + 1) - 1 = k
    BY <1>2, <1>5
  <2>2. Rest(k) # <<>> /\ Head(Rest(k)) = comps[k + 1] /\ Tail(Rest(k)) = Rest(k + 1)
    <3>1. /\ Rest(k) \in Seq(S) /\ Len(Rest(k)) = N - k /\ N - k \in Nat \ {0}
          /\ \A i \in 1..(N - k) : Rest(k)[i] = comps[k + i]
      BY <1>1, <1>2, <1>5
    <3>2. /\ Rest(k + 1) \in Seq(S) /\ Len(Rest(k + 1)) = N - k - 1
          /\ \A i \in 1..(N - k - 1) : Rest(k + 1)[i] = comps[k + 1 + i]
      BY <1>1, <1>2, <1>5
    <3>3. PICK r, q : r = Rest(k) /\ q = Rest(k + 1)
      OBVIOUS
    <3> HIDE DEF Rest
    <3>4. r # <<>> /\ Head(r) = r[1] /\ Tail(r) \in Seq(S) /\ Len(Tail(r)) = N - k - 1
      BY <3>1, <3>3
    <3>5. Head(r) = comps[k + 1]
      BY <1>2, <3>1, <3>3, <3>4
    <3>6. ASSUME NEW i \in 1..(N - k - 1) PROVE Tail(r)[i] = q[i]
      <4>1. Tail(r)[i] = r[i + 1]
        BY <3>1, <3>3, <3>4
      <4>2. i + 1 \in 1..(N - k) /\ k + (i + 1) = k + 1 + i
        BY <1>2
      <4>3. r[i + 1] = comps[k + 1 + i]
        BY <3>1, <3>3, <4>2
      <4>4. QED
        BY <3>2, <3>3, <4>1, <4>3
    <3>7. Tail(r) = q
      <4>1. Len(Tail(r)) = Len(q) /\ q \in Seq(S)
        BY <3>2, <3>3, <3>4
      <4>2. \A i \in 1..Len(Tail(r)) : Tail(r)[i] = q[i]
        BY <3>4, <3>6
      <4>3. QED
        BY <3>4, <4>1, <4>2, SeqEqual
    <3>8. QED
      BY <3>3, <3>4, <3>5, <3>7
  <2> HIDE DEF Rest
  <2>3. f[k + 1] = UNION {TranslateOne(m, comps[k + 1]) : m \in f[k]}
    BY <1>3, <2>1 DEF Translates
  <2>4. ASSUME NEW m \in f[k], NEW d \in TranslateOne(m, comps[k + 1]) PROVE Keeps(n, Rest(k + 1), d)
    <3>1. Keeps(n, Rest(k), m)
      BY <1>5
    <3>2. Keeps(m, Rest(k + 1), d)
      BY <2>2, <2>4, <3>1, TranslateOneKeeps DEF Keeps
    <3>3. QED
      BY <3>1, <3>2, KeepsTwice
  <2>5. QED
    BY <2>1, <2>3, <2>4
<1>6. N \in A
  <2> HIDE DEF A, N, Rest
  <2>1. \A i \in 0..N : i \in A
    BY <1>2, <1>4, <1>5, UpTo
  <2>2. QED
    BY <1>2, <2>1
<1>7. Rest(N) = <<>>
  BY <1>1, <1>2
<1>8. Translate(n, comps) = f[N]
  BY <1>3 DEF Translates
<1> HIDE DEF Rest
<1>9. QED
  BY <1>6, <1>7, <1>8

\* Completions are taken up for translation: `rest' has them all.
LEMMA TakenUp ==
  ASSUME NEW n, NEW m, NEW rest, Good(n, <<>>),
         \/ m = [n EXCEPT !.staged = <<>>] /\ rest = n.staged
         \/ m = [n EXCEPT !.staged = <<>>, !.port = <<>>] /\ rest = n.staged \o n.port
  PROVE  Keeps(n, rest, m)
<1>1. Shape(n) /\ Finished(<<>>) /\ Reports(<<>>) = <<>>
  BY NothingYet DEF Good
<1>2. Finished(n.staged) /\ Finished(n.port)
  BY <1>1 DEF Shape
<1>3. PICK a, b : a = Reports(n.staged) /\ b = Reports(n.port)
  OBVIOUS
<1>4. a \in Seq(Sends) /\ b \in Seq(Sends) /\ a \o b \in Seq(Sends)
  BY <1>2, <1>3, ReportsType
<1>5. <<>> \o b = b /\ <<>> \o (a \o b) = a \o b /\ (a \o b) \o <<>> = a \o b /\ <<>> \o <<>> = <<>>
  BY <1>4
<1>6. Reported(n, <<>>) = a \o b
  BY <1>1, <1>3, <1>5 DEF Reported
<1>7. /\ DOMAIN m = DOMAIN n /\ m.send_op = n.send_op /\ m.wq = n.wq /\ m.guard = n.guard /\ m.open = n.open
      /\ m.tx = n.tx /\ m.send = n.send /\ m.written = n.written /\ m.ended = n.ended
      /\ m.soon = n.soon /\ m.batch = n.batch /\ m.proto_paused = n.proto_paused /\ m.events = n.events
      /\ m.staged = <<>>
  BY <1>1 DEF Shape, Watched
<1>8. Finished(rest) /\ Finished(m.port) /\ Reported(m, rest) = a \o b
  <2>1. CASE m = [n EXCEPT !.staged = <<>>] /\ rest = n.staged
    <3>1. m.port = n.port
      BY <1>1, <2>1 DEF Shape, Watched
    <3>2. QED
      BY <1>1, <1>2, <1>3, <1>5, <1>7, <2>1, <3>1 DEF Reported
  <2>2. CASE m = [n EXCEPT !.staged = <<>>, !.port = <<>>] /\ rest = n.staged \o n.port
    <3>1. m.port = <<>>
      BY <1>1, <2>2 DEF Shape, Watched
    <3>2. Finished(rest) /\ Reports(rest) = a \o b
      BY <1>2, <1>3, <2>2, FinishedConcat
    <3>3. QED
      BY <1>1, <1>5, <1>7, <3>1, <3>2 DEF Reported
  <2>3. QED
    BY <2>1, <2>2
<1>9. Shape(m)
  BY <1>1, <1>7, <1>8 DEF Shape
<1>10. Outbound(n, <<>>)
  BY DEF Good
<1>11. Reported(m, rest) = Reported(n, <<>>)
  BY <1>6, <1>8
<1>12. Outbound(m, rest)
  BY <1>7, <1>10, <1>11, ZenonT(40) DEF Outbound, OpenSound, GoneSound, SendIdle, SendParked, SendReported
<1>13. Kept(n, m)
  BY <1>7 DEF Kept, Owed
<1>14. QED
  BY <1>8, <1>9, <1>12, <1>13 DEF Keeps, Good

\* settle_inline.
LEMMA SettleKeeps ==
  ASSUME NEW n, Good(n, <<>>) PROVE \A m \in SettleInline(n) : Keeps(n, <<>>, m)
<1>1. Rounds \in Nat
  BY TransportAssumption DEF TransportAssumption
<1>2. PICK f : Settles(f, n)
  BY Settling
<1> DEFINE A == {k \in 0..Rounds : \A m \in f[k] : Keeps(n, <<>>, m)}
<1>3. 0 \in A
  <2>1. \A m \in f[0] : m = n
    BY <1>2 DEF Settles
  <2>2. QED
    BY <1>1, <2>1, KeepsSelf
<1>4. ASSUME NEW k \in 0..Rounds, k \in A, k < Rounds PROVE k + 1 \in A
  <2>1. k + 1 \in 1..Rounds /\ k + 1 \in 0..Rounds /\ (k + 1) - 1 = k
    BY <1>1, <1>4
  <2>2. f[k + 1] = UNION {Translate([m EXCEPT !.staged = <<>>], m.staged) : m \in f[k]}
    BY <1>2, <2>1 DEF Settles
  <2>3. ASSUME NEW m \in f[k], NEW d \in Translate([m EXCEPT !.staged = <<>>], m.staged)
        PROVE  Keeps(n, <<>>, d)
    <3>1. PICK a, rest : a = [m EXCEPT !.staged = <<>>] /\ rest = m.staged
      OBVIOUS
    <3>2. Keeps(n, <<>>, m)
      BY <1>4
    <3>3. Keeps(m, rest, a)
      BY <3>1, <3>2, TakenUp DEF Keeps
    <3>4. Keeps(a, <<>>, d)
      BY <2>3, <3>1, <3>3, TranslateKeeps DEF Keeps
    <3>5. QED
      BY <3>2, <3>3, <3>4, KeepsTwice
  <2>4. QED
    BY <2>1, <2>2, <2>3
<1>5. Rounds \in A
  <2> HIDE DEF A
  <2>1. \A i \in 0..Rounds : i \in A
    BY <1>1, <1>3, <1>4, UpTo
  <2>2. QED
    BY <1>1, <2>1
<1>6. QED
  BY <1>2, <1>5 DEF Settles

-----------------------------------------------------------------------------
(* The application's calls.                                                *)

\* What a call keeps: deferred ends may move from the events to the
\* schedule, and an open transport may be paused.
Called(n, m) ==
  /\ Good(m, <<>>) /\ m.batch = n.batch /\ m.soon + Owed(m) = n.soon + Owed(n)
  /\ n.open \/ (m.proto_paused => n.proto_paused)

\* A step in the cell is a call's.
LEMMA KeptIsCalled == ASSUME NEW n, NEW m, Keeps(n, <<>>, m) PROVE Called(n, m)
  BY DEF Keeps, Kept, Called

\* One call's steps follow another's, on an open transport.
LEMMA CalledTwice ==
  ASSUME NEW a, NEW b, NEW c, a.open, Called(a, b), Called(b, c) PROVE Called(a, c)
  BY DEF Called

\* schedule_pending_lost.
LEMMA ScheduleCalled ==
  ASSUME NEW n, NEW m, Called(n, m) PROVE Called(n, SchedulePendingLost(m))
<1>1. PICK k, x, d : /\ k = Len(Only(m.events, {LostEvent(FALSE)}))
                     /\ x = Only(m.events, ToSet(m.events) \ {LostEvent(FALSE)})
                     /\ d = SchedulePendingLost(m)
  OBVIOUS
<1>2. Shape(m) /\ Outbound(m, <<>>)
  BY DEF Called, Good
<1>3. Queued(m.events) /\ m.soon \in Nat
  BY <1>2 DEF Shape
<1>4. Queued(x) /\ k \in Nat /\ Losses(x) + k = Losses(m.events)
  BY <1>1, <1>3, LossesDeferred
<1>5. d = [m EXCEPT !.soon = m.soon + k, !.events = x]
  BY <1>1, <1>2 DEF SchedulePendingLost, Shape, Watched
<1>6. /\ DOMAIN d = DOMAIN m /\ d.send_op = m.send_op /\ d.wq = m.wq /\ d.guard = m.guard /\ d.open = m.open
      /\ d.tx = m.tx /\ d.send = m.send /\ d.written = m.written /\ d.ended = m.ended
      /\ d.soon = m.soon + k /\ d.batch = m.batch /\ d.proto_paused = m.proto_paused /\ d.events = x
      /\ d.staged = m.staged /\ d.port = m.port
  BY <1>2, <1>5 DEF Shape, Watched
<1>7. d.soon \in Nat
  BY <1>3, <1>4, <1>6
<1>8. Shape(d)
  BY <1>2, <1>4, <1>6, <1>7 DEF Shape
<1>9. Reported(d, <<>>) = Reported(m, <<>>)
  BY <1>6 DEF Reported
<1>10. Outbound(d, <<>>)
  BY <1>2, <1>6, <1>9 DEF Outbound, OpenSound, GoneSound, SendIdle, SendParked, SendReported
<1>11. Good(d, <<>>)
  BY <1>8, <1>10, NothingYet DEF Good
<1>12. d.soon + Owed(d) = m.soon + Owed(m)
  <2>1. PICK o : o = IF m.open THEN 1 ELSE 0
    OBVIOUS
  <2>2. o \in Nat /\ Owed(d) = Losses(x) + o /\ Owed(m) = Losses(m.events) + o
    BY <1>6, <2>1 DEF Owed
  <2>3. Losses(x) \in Nat /\ Losses(m.events) \in Nat
    BY <1>3, <1>4, LossesAppend
  <2>4. (m.soon + k) + (Losses(x) + o) = m.soon + (Losses(m.events) + o)
    BY <1>3, <1>4, <2>2, <2>3
  <2>5. QED
    BY <1>6, <2>2, <2>4
<1>13. Called(n, d)
  BY <1>6, <1>11, <1>12 DEF Called
<1>14. QED
  BY <1>1, <1>13

\* maybe_pause.
LEMMA PauseCalled ==
  ASSUME NEW n, Good(n, <<>>) PROVE \A m \in MaybePause(n) : Called(n, m)
<1> DEFINE over(m) == m.open /\ ~m.proto_paused /\ Len(m.wq) > m.high
           flushed == IF n.send_op THEN {n} ELSE FlushPending(n)
           settled == UNION {SettleInline(m) : m \in flushed}
           Paused(m) == IF over(m) THEN [m EXCEPT !.proto_paused = TRUE] ELSE m
<1>1. MaybePause(n) = IF ~over(n) THEN {n} ELSE {Paused(m) : m \in settled}
  BY DEF MaybePause, Each
<1>2. ASSUME NEW m \in flushed PROVE Keeps(n, <<>>, m)
  BY <1>2, KeepsSelf, FlushKeeps
<1>3. ASSUME NEW m \in settled PROVE Keeps(n, <<>>, m)
  <2>1. PICK d \in flushed : m \in SettleInline(d)
    BY <1>3
  <2>2. Keeps(n, <<>>, d)
    BY <1>2
  <2>3. Keeps(d, <<>>, m)
    BY <2>1, <2>2, SettleKeeps DEF Keeps
  <2>4. QED
    BY <2>2, <2>3, KeepsTwice
<1> HIDE DEF settled, flushed
<1>4. ASSUME NEW m \in settled, n.open PROVE Called(n, Paused(m))
  <2>1. Keeps(n, <<>>, m)
    BY <1>3
  <2>2. Shape(m) /\ Outbound(m, <<>>) /\ Kept(n, m)
    BY <2>1 DEF Keeps, Good
  <2>3. PICK d : d = [m EXCEPT !.proto_paused = TRUE]
    OBVIOUS
  <2>4. /\ DOMAIN d = DOMAIN m /\ d.send_op = m.send_op /\ d.wq = m.wq /\ d.guard = m.guard /\ d.open = m.open
        /\ d.tx = m.tx /\ d.send = m.send /\ d.written = m.written /\ d.ended = m.ended
        /\ d.soon = m.soon /\ d.batch = m.batch /\ d.proto_paused = TRUE /\ d.events = m.events
        /\ d.staged = m.staged /\ d.port = m.port
    BY <2>2, <2>3 DEF Shape, Watched
  <2>5. Shape(d)
    BY <2>2, <2>4 DEF Shape
  <2>6. Reported(d, <<>>) = Reported(m, <<>>)
    BY <2>4 DEF Reported
  <2>7. Outbound(d, <<>>)
    BY <2>2, <2>4, <2>6 DEF Outbound, OpenSound, GoneSound, SendIdle, SendParked, SendReported
  <2>8. Good(d, <<>>)
    BY <2>5, <2>7, NothingYet DEF Good
  <2>9. d.batch = n.batch /\ d.soon + Owed(d) = n.soon + Owed(n)
    BY <2>2, <2>4 DEF Kept, Owed
  <2>10. Called(n, d)
    BY <1>4, <2>8, <2>9 DEF Called
  <2>11. Called(n, m)
    BY <2>1, KeptIsCalled
  <2>12. Paused(m) = d \/ Paused(m) = m
    BY <2>3
  <2>13. QED
    BY <2>10, <2>11, <2>12
<1>5. Called(n, n)
  BY KeepsSelf, KeptIsCalled
<1>6. CASE ~over(n)
  BY <1>1, <1>5, <1>6
<1>7. CASE over(n)
  <2>1. n.open
    BY <1>7
  <2>2. MaybePause(n) = {Paused(m) : m \in settled}
    BY <1>1, <1>7
  <2> HIDE DEF Paused
  <2>3. QED
    BY <1>4, <2>1, <2>2
<1>8. QED
  BY <1>6, <1>7

\* A byte more is queued.
LEMMA ByteQueued ==
  ASSUME NEW n, Good(n, <<>>), n.open
  PROVE  Keeps(n, <<>>, [n EXCEPT !.wq = Append(@, n.written + 1), !.written = @ + 1])
<1>1. PICK m, q : /\ m = [n EXCEPT !.wq = Append(@, n.written + 1), !.written = @ + 1]
                  /\ q = Append(n.wq, n.written + 1)
  OBVIOUS
<1>2. Shape(n) /\ Numbered(n.tx, 0) /\ OpenSound(n, <<>>)
  BY DEF Good, Outbound
<1>3. n.wq \in Seq(Nat) /\ n.tx \in Seq(Nat) /\ n.written \in Nat
  BY <1>2 DEF Shape
<1>4. Len(n.wq) \in Nat /\ Len(n.tx) \in Nat /\ n.written + 1 \in Nat
  BY <1>3
<1>5. q \in Seq(Nat) /\ Len(q) = Len(n.wq) + 1 /\ q[Len(n.wq) + 1] = n.written + 1
      /\ \A i \in 1..Len(n.wq) : q[i] = n.wq[i]
  BY <1>1, <1>3, <1>4, AppendProperties
<1>6. /\ DOMAIN m = DOMAIN n /\ m.send_op = n.send_op /\ m.wq = q /\ m.guard = n.guard /\ m.open = n.open
      /\ m.tx = n.tx /\ m.send = n.send /\ m.written = n.written + 1 /\ m.ended = n.ended
      /\ m.soon = n.soon /\ m.batch = n.batch /\ m.proto_paused = n.proto_paused /\ m.events = n.events
      /\ m.staged = n.staged /\ m.port = n.port
  BY <1>1, <1>2 DEF Shape, Watched
<1>7. Shape(m)
  BY <1>2, <1>4, <1>5, <1>6 DEF Shape
<1>8. Reported(m, <<>>) = Reported(n, <<>>)
  BY <1>6 DEF Reported
<1>9. PICK a, b, w : a = Len(n.tx) /\ b = Len(n.wq) /\ w = n.written
  OBVIOUS
<1>10. a \in Nat /\ b \in Nat /\ w \in Nat /\ (w + 1) - (b + 1) = w - b
  BY <1>3, <1>4, <1>9
<1>11. Numbered(q, (w + 1) - (b + 1))
  <2>1. \A i \in 1..b : n.wq[i] = (w - b) + i
    BY <1>2, <1>9 DEF OpenSound, Numbered
  <2>2. ASSUME NEW i \in 1..(b + 1) PROVE q[i] = (w - b) + i
    <3>1. CASE i = b + 1
      BY <1>5, <1>9, <1>10, <3>1
    <3>2. CASE i \in 1..b
      BY <1>5, <1>9, <2>1, <3>2
    <3>3. QED
      BY <1>10, <3>1, <3>2
  <2>3. QED
    BY <1>5, <1>9, <1>10, <2>2 DEF Numbered
<1>12. CASE SendIdle(n, <<>>)
  <2>1. w = a + b => w + 1 = a + (b + 1)
    BY <1>10
  <2>2. SendIdle(m, <<>>)
    BY <1>5, <1>6, <1>8, <1>9, <1>12, <2>1 DEF SendIdle
  <2>3. QED
    BY <1>1, <1>2, <1>5, <1>6, <1>7, <1>9, <1>11, <2>2, NothingYet DEF Keeps, Kept, Owed, Good, Outbound, OpenSound
<1>13. CASE SendParked(n, <<>>)
  <2>1. w = a + b => w + 1 = a + (b + 1)
    BY <1>10
  <2>2. n.send \in 1..(b + 1)
    BY <1>9, <1>10, <1>13 DEF SendParked
  <2>3. SendParked(m, <<>>)
    BY <1>5, <1>6, <1>8, <1>9, <1>13, <2>1, <2>2 DEF SendParked
  <2>4. QED
    BY <1>1, <1>2, <1>5, <1>6, <1>7, <1>9, <1>11, <2>3, NothingYet DEF Keeps, Kept, Owed, Good, Outbound, OpenSound
<1>14. CASE SendReported(n, <<>>)
  <2>1. PICK k \in 0..b : Reported(n, <<>>) = <<[op |-> "send", sent |-> k]>> /\ w + k = a + b
    BY <1>9, <1>14 DEF SendReported
  <2>2. k \in 0..(b + 1) /\ (w + 1) + k = a + (b + 1)
    BY <1>10, <2>1
  <2>3. SendReported(m, <<>>)
    BY <1>5, <1>6, <1>8, <1>9, <1>14, <2>1, <2>2 DEF SendReported
  <2>4. QED
    BY <1>1, <1>2, <1>5, <1>6, <1>7, <1>9, <1>11, <2>3, NothingYet DEF Keeps, Kept, Owed, Good, Outbound, OpenSound
<1>15. QED
  BY <1>2, <1>12, <1>13, <1>14 DEF OpenSound

\* write.
LEMMA WriteCalled ==
  ASSUME NEW n, Good(n, <<>>) PROVE \A m \in Written(n) : Called(n, m)
<1>1. Called(n, n)
  BY KeepsSelf, KeptIsCalled
<1>2. CASE ~n.open
  <2>1. Written(n) = {n, SchedulePendingLost(n)}
    BY <1>2 DEF Written
  <2>2. QED
    BY <1>1, <2>1, ScheduleCalled
<1>3. CASE n.open
  <2>1. PICK w : w = [n EXCEPT !.wq = Append(@, n.written + 1), !.written = @ + 1]
    OBVIOUS
  <2>2. Keeps(n, <<>>, w) /\ Good(w, <<>>)
    BY <1>3, <2>1, ByteQueued DEF Keeps
  <2>3. PICK corked : corked = [w EXCEPT !.flush_list = TRUE]
    OBVIOUS
  <2>4. Keeps(w, <<>>, corked)
    <3>1. Shape(w)
      BY <2>2 DEF Good
    <3>2. DOMAIN corked = DOMAIN w /\ \A f \in Sending : corked[f] = w[f]
      BY <2>3, <3>1 DEF Sending, Shape, Watched
    <3>3. QED
      BY <2>2, <3>1, <3>2, AsideOther, AsideKeeps
  <2>5. PICK pushed : pushed = IF w.send_op THEN {w} ELSE IF Len(w.wq) >= Cork THEN FlushPending(w) ELSE {corked}
    OBVIOUS
  <2>6. ASSUME NEW p \in pushed PROVE Keeps(n, <<>>, p)
    BY <2>2, <2>4, <2>5, <2>6, FlushKeeps, KeepsTwice
  <2>7. ASSUME NEW p \in pushed, NEW m \in MaybePause(p) PROVE Called(n, SchedulePendingLost(m))
    <3>1. Keeps(n, <<>>, p) /\ Good(p, <<>>)
      BY <2>6 DEF Keeps
    <3>2. Called(n, p) /\ Called(p, m)
      BY <2>7, <3>1, KeptIsCalled, PauseCalled
    <3>3. Called(n, m)
      BY <1>3, <3>2, CalledTwice
    <3>4. QED
      BY <3>3, ScheduleCalled
  <2>8. Written(n) = {SchedulePendingLost(m) : m \in UNION {MaybePause(p) : p \in pushed}}
    BY <1>3, <2>1, <2>3, <2>5 DEF Written, Each
  <2>9. QED
    BY <2>7, <2>8
<1>4. QED
  BY <1>2, <1>3

\* close.
LEMMA CloseCalled ==
  ASSUME NEW n, Good(n, <<>>) PROVE \A m \in Closed(n) : Called(n, m)
<1>1. Called(n, n) /\ Shape(n)
  BY KeepsSelf, KeptIsCalled DEF Good
<1>2. CASE ~n.open \/ n.closing
  BY <1>1, <1>2 DEF Closed
<1>3. CASE ~(~n.open \/ n.closing)
  <2>1. PICK stopped : stopped = [n EXCEPT !.closing = TRUE, !.recv_op = FALSE]
    OBVIOUS
  <2>2. DOMAIN stopped = DOMAIN n /\ \A f \in Sending : stopped[f] = n[f]
    BY <1>1, <2>1 DEF Sending, Shape, Watched
  <2>3. Keeps(n, <<>>, stopped)
    BY <1>1, <2>2, AsideOther, AsideKeeps
  <2>4. PICK a : a = [stopped EXCEPT !.inline_close = TRUE]
    OBVIOUS
  <2>5. Keeps(n, <<>>, a)
    <3>1. Shape(stopped) /\ Good(stopped, <<>>)
      BY <2>3 DEF Keeps, Good
    <3>2. DOMAIN a = DOMAIN stopped /\ \A f \in Sending : a[f] = stopped[f]
      BY <2>4, <3>1 DEF Sending, Shape, Watched
    <3>3. Keeps(stopped, <<>>, a)
      BY <3>1, <3>2, AsideOther, AsideKeeps
    <3>4. QED
      BY <2>3, <3>3, KeepsTwice
  <2>6. ASSUME NEW p \in FlushPending(a), NEW d \in SettleInline(p)
        PROVE  Keeps(n, <<>>, [d EXCEPT !.inline_close = FALSE])
    <3>1. Keeps(a, <<>>, p)
      BY <2>5, <2>6, FlushKeeps DEF Keeps
    <3>2. Keeps(p, <<>>, d)
      BY <2>6, <3>1, SettleKeeps DEF Keeps
    <3>3. Keeps(n, <<>>, d)
      BY <2>5, <3>1, <3>2, KeepsTwice
    <3>4. PICK e : e = [d EXCEPT !.inline_close = FALSE]
      OBVIOUS
    <3>5. Shape(d) /\ Good(d, <<>>)
      BY <3>3 DEF Keeps, Good
    <3>6. DOMAIN e = DOMAIN d /\ \A f \in Sending : e[f] = d[f]
      BY <3>4, <3>5 DEF Sending, Shape, Watched
    <3>7. Keeps(d, <<>>, e)
      BY <3>5, <3>6, AsideOther, AsideKeeps
    <3>8. QED
      BY <3>3, <3>4, <3>7, KeepsTwice
  <2>7. PICK drained : drained = {[d EXCEPT !.inline_close = FALSE] : d \in UNION {SettleInline(p) : p \in FlushPending(a)}}
    OBVIOUS
  <2>8. PICK offered : offered = IF n.send_op \/ n.wq = <<>> THEN {stopped} ELSE drained
    OBVIOUS
  <2>9. ASSUME NEW m \in offered PROVE Keeps(n, <<>>, m)
    <3>1. \A m1 \in drained : Keeps(n, <<>>, m1)
      BY <2>6, <2>7
    <3>2. QED
      BY <2>3, <2>8, <2>9, <3>1
  <2>10. ASSUME NEW m \in offered PROVE Called(n, SchedulePendingLost(MaybeFinishShutdown(m, FALSE)))
    <3>1. Keeps(n, <<>>, m)
      BY <2>9, <2>10
    <3>2. Keeps(m, <<>>, MaybeFinishShutdown(m, FALSE))
      BY <3>1, FinishKeeps DEF Keeps
    <3>3. Called(n, MaybeFinishShutdown(m, FALSE))
      BY <3>1, <3>2, KeepsTwice, KeptIsCalled
    <3>4. QED
      BY <3>3, ScheduleCalled
  <2>11. Closed(n) = {SchedulePendingLost(MaybeFinishShutdown(m, FALSE)) : m \in offered}
    BY <1>3, <2>1, <2>4, <2>7, <2>8 DEF Closed, Each
  <2>12. QED
    BY <2>10, <2>11
<1>4. QED
  BY <1>2, <1>3

\* _force_close.
LEMMA AbortCalled ==
  ASSUME NEW n, Good(n, <<>>) PROVE \A m \in Aborted(n) : Called(n, m)
<1>1. PICK offered : offered = IF ~n.open \/ n.send_op \/ n.wq = <<>> THEN {n} ELSE FlushPending(n)
  OBVIOUS
<1>2. ASSUME NEW m \in offered PROVE Keeps(n, <<>>, m)
  BY <1>1, <1>2, KeepsSelf, FlushKeeps
<1>3. ASSUME NEW m \in offered PROVE Called(n, SchedulePendingLost(TeardownLost(m, "aborted", FALSE)))
  <2>1. Keeps(n, <<>>, m)
    BY <1>2, <1>3
  <2>2. Keeps(m, <<>>, TeardownLost(m, "aborted", FALSE))
    BY <2>1, TeardownKeeps DEF Keeps
  <2>3. Called(n, TeardownLost(m, "aborted", FALSE))
    BY <2>1, <2>2, KeepsTwice, KeptIsCalled
  <2>4. QED
    BY <2>3, ScheduleCalled
<1>4. Aborted(n) = {SchedulePendingLost(TeardownLost(m, "aborted", FALSE)) : m \in offered}
  BY <1>1 DEF Aborted
<1>5. QED
  BY <1>3, <1>4

\* resume_reading.
LEMMA ResumeKeeps ==
  ASSUME NEW n, Good(n, <<>>) PROVE \A m \in Resumed(n) : Keeps(n, <<>>, m)
<1>1. Keeps(n, <<>>, n) /\ Shape(n)
  BY KeepsSelf DEF Good
<1>2. CASE ~n.open \/ n.closing \/ ~n.reading_paused
  BY <1>1, <1>2 DEF Resumed
<1>3. CASE ~(~n.open \/ n.closing \/ ~n.reading_paused)
  <2>1. PICK r : r = [n EXCEPT !.reading_paused = FALSE, !.paused_recv = <<>>, !.paused_eof = FALSE]
    OBVIOUS
  <2>2. DOMAIN r = DOMAIN n /\ \A f \in Sending : r[f] = n[f]
    BY <1>1, <2>1 DEF Sending, Shape, Watched
  <2>3. Aside(n, r) /\ Shape(r)
    BY <1>1, <2>2, AsideOther, AsideShape
  <2>4. PICK p : p = Push(r, DataEvent(n.paused_recv))
    OBVIOUS
  <2>5. DataEvent(n.paused_recv).kind # "lost" /\ [kind |-> "eof"].kind # "lost"
    BY DEF DataEvent
  <2>6. Aside(r, p)
    BY <2>3, <2>4, <2>5, AsidePush
  <2>7. PICK d : d = IF n.paused_recv = <<>> THEN r ELSE p
    OBVIOUS
  <2>8. Aside(n, d) /\ Shape(d)
    BY <2>3, <2>6, <2>7, AsideTwice, AsideShape
  <2>9. PICK e : e = Push(d, [kind |-> "eof"])
    OBVIOUS
  <2>10. Aside(n, e)
    <3>1. Aside(d, e)
      BY <2>5, <2>8, <2>9, AsidePush
    <3>2. QED
      BY <2>8, <3>1, AsideTwice
  <2>11. ASSUME NEW m \in PostRecv(d) PROVE Aside(n, m)
    BY <2>8, <2>11, AsidePostRecv, AsideTwice
  <2>12. Resumed(n) = IF n.paused_eof THEN {e} ELSE PostRecv(d)
    BY <1>3, <2>1, <2>4, <2>7, <2>9 DEF Resumed
  <2>13. ASSUME NEW m \in Resumed(n) PROVE Aside(n, m)
    BY <2>10, <2>11, <2>12, <2>13
  <2>14. QED
    BY <2>13, AsideKeeps
<1>4. QED
  BY <1>2, <1>3

-----------------------------------------------------------------------------
(* The actions, which keep the invariant.                                  *)

\* What the calls and the callbacks of a transport leave alone.
Beside == UNCHANGED <<events, pass, lostCalls>>

\* wire_stream.
LEMMA WiredGood == ASSUME NEW sc PROVE Good(Wired(sc), <<>>) /\ Owed(Wired(sc)) = 1
<1>1. PICK n : n = Wired(sc)
  OBVIOUS
<1>2. /\ Watched \subseteq DOMAIN n /\ n.open = TRUE /\ n.send_op = FALSE /\ n.proto_paused = FALSE
      /\ n.wq = <<>> /\ n.guard = <<>> /\ n.tx = <<>> /\ n.soon = 0 /\ n.batch = 0 /\ n.send = 0
      /\ n.written = 0 /\ n.staged = <<>> /\ n.port = <<>> /\ n.events = <<>> /\ n.ended = "no"
  BY <1>1 DEF Wired, Watched
<1>3. <<>> \in Seq(Nat) /\ Len(<<>>) = 0 /\ <<>> \o <<>> = <<>>
  OBVIOUS
<1>4. Shape(n)
  <2>1. Finished(n.staged) /\ Finished(n.port) /\ Queued(n.events)
    BY <1>2, NothingYet
  <2>2. n.wq \in Seq(Nat) /\ n.guard \in Seq(Nat) /\ n.tx \in Seq(Nat)
    BY <1>2, <1>3
  <2>3. n.open \in BOOLEAN /\ n.send_op \in BOOLEAN /\ n.proto_paused \in BOOLEAN
    BY <1>2
  <2>4. n.soon \in Nat /\ n.batch \in Nat /\ n.send \in Nat /\ n.written \in Nat
    BY <1>2
  <2>5. QED
    BY <1>2, <2>1, <2>2, <2>3, <2>4 DEF Shape
<1>5. Reported(n, <<>>) = <<>>
  BY <1>2, <1>3, NothingYet DEF Reported
<1>6. SendIdle(n, <<>>)
  BY <1>2, <1>3, <1>5 DEF SendIdle
<1>7. \A k \in Int : Numbered(<<>>, k)
  BY <1>3 DEF Numbered
<1>8. Numbered(n.tx, 0) /\ Numbered(n.wq, n.written - Len(n.wq))
  BY <1>2, <1>3, <1>7
<1>9. Outbound(n, <<>>)
  BY <1>2, <1>6, <1>8 DEF Outbound, OpenSound
<1>10. Owed(n) = 1
  BY <1>2, NothingYet DEF Owed
<1>11. QED
  BY <1>1, <1>4, <1>9, <1>10, NothingYet DEF Good

\* The initial states.
LEMMA InitSound == Init => TransportInv
<1> SUFFICES ASSUME Init PROVE TransportInv
  OBVIOUS
<1>1. PICK sc \in Scenarios : net \in PostRecv(Wired(sc))
  BY DEF Init
<1>2. Good(Wired(sc), <<>>) /\ Owed(Wired(sc)) = 1 /\ Shape(Wired(sc))
  BY WiredGood DEF Good
<1>3. Keeps(Wired(sc), <<>>, net)
  BY <1>1, <1>2, AsidePostRecv, AsideKeeps
<1>4. Wired(sc).soon = 0 /\ Wired(sc).batch = 0
  BY DEF Wired
<1>5. Good(net, <<>>) /\ net.soon = 0 /\ net.batch = 0 /\ Owed(net) = 1
  BY <1>2, <1>3, <1>4 DEF Keeps, Kept
<1>6. events = <<>> /\ pass = 1 /\ lostCalls = 0
  BY DEF Init
<1>7. Queued(events) /\ Losses(events) = 0
  BY <1>6, NothingYet
<1>8. lostCalls + Losses(events) + net.soon + net.batch + Owed(net) = 1
  BY <1>5, <1>6, <1>7
<1>9. QED
  BY <1>5, <1>6, <1>7, <1>8 DEF TransportInv, Good

\* The accounts are of numbers.
LEMMA AccountTypes ==
  ASSUME NEW n, Shape(n)
  PROVE  Owed(n) \in Nat /\ n.soon \in Nat /\ n.batch \in Nat /\ Losses(n.events) \in Nat
         /\ (n.open => Owed(n) > 0)
<1>1. Queued(n.events)
  BY DEF Shape
<1>2. Losses(n.events) \in Nat
  BY <1>1, LossesAppend
<1>3. QED
  BY <1>2 DEF Owed, Shape

\* A call.
LEMMA CallStep == ASSUME TransportInv, Called(net, net'), Beside PROVE TransportInv'
<1>1. Good(net', <<>>) /\ net'.batch = net.batch /\ net'.soon + Owed(net') = net.soon + Owed(net)
  BY DEF Called
<1>2. Shape(net) /\ Shape(net')
  BY <1>1 DEF TransportInv, Good
<1>3. Losses(events) \in Nat /\ lostCalls \in Nat
  BY LossesAppend DEF TransportInv
<1>4. PICK l, e, s, b, o, s1, o1 : /\ l = lostCalls /\ e = Losses(events) /\ s = net.soon /\ b = net.batch
                                   /\ o = Owed(net) /\ s1 = net'.soon /\ o1 = Owed(net')
  OBVIOUS
<1>5. l \in Nat /\ e \in Nat /\ s \in Nat /\ b \in Nat /\ o \in Nat /\ s1 \in Nat /\ o1 \in Nat
  BY <1>2, <1>3, <1>4, AccountTypes
<1>6. l + e + s + b + o = 1 /\ s1 + o1 = s + o
  BY <1>1, <1>4 DEF TransportInv
<1>7. l + e + s1 + b + o1 = 1
  BY <1>5, <1>6
<1>8. lostCalls' + Losses(events') + net'.soon + net'.batch + Owed(net') = 1
  BY <1>1, <1>4, <1>7 DEF Beside
<1>9. QED
  BY <1>1, <1>8 DEF TransportInv, Good, Beside

\* A callback that takes an event which does not tell of the end.
LEMMA DispatchStep ==
  ASSUME TransportInv, Called(net, net'), events # <<>>, Head(events).kind # "lost", events' = Tail(events),
         UNCHANGED <<pass, lostCalls>>
  PROVE  TransportInv'
<1>1. Good(net', <<>>) /\ net'.batch = net.batch /\ net'.soon + Owed(net') = net.soon + Owed(net)
  BY DEF Called
<1>2. Shape(net) /\ Shape(net')
  BY <1>1 DEF TransportInv, Good
<1>3. Queued(events') /\ Losses(events') = Losses(events)
  BY QueuedTail DEF TransportInv
<1>4. Losses(events) \in Nat /\ lostCalls \in Nat
  BY LossesAppend DEF TransportInv
<1>5. PICK l, e, s, b, o, s1, o1 : /\ l = lostCalls /\ e = Losses(events) /\ s = net.soon /\ b = net.batch
                                   /\ o = Owed(net) /\ s1 = net'.soon /\ o1 = Owed(net')
  OBVIOUS
<1>6. l \in Nat /\ e \in Nat /\ s \in Nat /\ b \in Nat /\ o \in Nat /\ s1 \in Nat /\ o1 \in Nat
  BY <1>2, <1>4, <1>5, AccountTypes
<1>7. l + e + s + b + o = 1 /\ s1 + o1 = s + o
  BY <1>1, <1>5 DEF TransportInv
<1>8. l + e + s1 + b + o1 = 1
  BY <1>6, <1>7
<1>9. lostCalls' + Losses(events') + net'.soon + net'.batch + Owed(net') = 1
  BY <1>1, <1>3, <1>5, <1>8
<1>10. QED
  BY <1>1, <1>3, <1>9 DEF TransportInv, Good

\* The application's calls.
LEMMA ApplicationCalled ==
  ASSUME TransportInv, Application
  PROVE  Called(net, net') /\ Beside
<1>1. Good(net, <<>>) /\ Shape(net)
  BY NothingYet DEF TransportInv, Good
<1>2. CASE Write
  BY <1>1, <1>2, WriteCalled DEF Write, Call, Beside
<1>3. CASE WriteEof
  <2>1. PICK a : a = [net EXCEPT !.eof_wanted = TRUE]
    OBVIOUS
  <2>2. DOMAIN a = DOMAIN net /\ \A f \in Sending : a[f] = net[f]
    BY <1>1, <2>1 DEF Sending, Shape, Watched
  <2>3. Keeps(net, <<>>, a)
    BY <1>1, <2>2, AsideOther, AsideKeeps
  <2>4. Keeps(a, <<>>, MaybeFinishShutdown(a, FALSE))
    BY <2>3, FinishKeeps DEF Keeps
  <2>5. Called(net, MaybeFinishShutdown(a, FALSE))
    BY <2>3, <2>4, KeepsTwice, KeptIsCalled
  <2>6. Called(net, SchedulePendingLost(MaybeFinishShutdown(a, FALSE)))
    BY <2>5, ScheduleCalled
  <2>7. net' = SchedulePendingLost(MaybeFinishShutdown(a, FALSE)) /\ Beside
    BY <1>3, <2>1 DEF WriteEof, Call, Beside
  <2>8. QED
    BY <2>6, <2>7
<1>4. CASE Close
  BY <1>1, <1>4, CloseCalled DEF Close, Call, Beside
<1>5. CASE Abort
  BY <1>1, <1>5, AbortCalled DEF Abort, Call, Beside
<1>6. CASE PauseReading
  <2>1. PICK a : a = [net EXCEPT !.reading_paused = TRUE, !.pauses = @ + 1]
    OBVIOUS
  <2>2. DOMAIN a = DOMAIN net /\ \A f \in Sending : a[f] = net[f]
    BY <1>1, <2>1 DEF Sending, Shape, Watched
  <2>3. Called(net, a)
    BY <1>1, <2>2, AsideOther, AsideKeeps, KeptIsCalled
  <2>4. net' = a /\ Beside
    BY <1>6, <2>1 DEF PauseReading, Call, Beside
  <2>5. QED
    BY <2>3, <2>4
<1>7. CASE ResumeReading
  <2>1. PICK m \in Resumed(net) : net' = SchedulePendingLost(m)
    BY <1>7 DEF ResumeReading, Call
  <2>2. Called(net, m)
    BY <1>1, ResumeKeeps, KeptIsCalled
  <2>3. Called(net, net')
    BY <2>1, <2>2, ScheduleCalled
  <2>4. QED
    BY <1>7, <2>3 DEF ResumeReading, Call, Beside
<1>8. CASE SetWriteBufferLimits
  <2>1. PICK a : a = [net EXCEPT !.high = 0, !.low = 0]
    OBVIOUS
  <2>2. DOMAIN a = DOMAIN net /\ \A f \in Sending : a[f] = net[f]
    BY <1>1, <2>1 DEF Sending, Shape, Watched
  <2>3. Keeps(net, <<>>, a)
    BY <1>1, <2>2, AsideOther, AsideKeeps
  <2>4. PICK m \in MaybePause(a) : net' = SchedulePendingLost(m)
    BY <1>8, <2>1 DEF SetWriteBufferLimits, Call
  <2>5. Called(net, a) /\ Called(a, m) /\ net.open
    BY <1>8, <2>3, <2>4, KeptIsCalled, PauseCalled DEF SetWriteBufferLimits, Keeps
  <2>6. Called(net, m)
    BY <2>5, CalledTwice
  <2>7. Called(net, net')
    BY <2>4, <2>6, ScheduleCalled
  <2>8. QED
    BY <1>8, <2>7 DEF SetWriteBufferLimits, Call, Beside
<1>9. CASE SettledByAnother
  <2>1. net' \in SettleInline(net) /\ Beside
    BY <1>9 DEF SettledByAnother, Call, Beside
  <2>2. QED
    BY <1>1, <2>1, SettleKeeps, KeptIsCalled
<1>10. ASSUME NEW buffered \in BOOLEAN, SetProtocol(buffered) PROVE Called(net, net') /\ Beside
  <2>1. net' = [net EXCEPT !.protocol = @ + 1, !.proto_paused = FALSE, !.buffered = buffered] /\ Beside
    BY <1>10 DEF SetProtocol, Beside
  <2>2. PICK a : a = net'
    OBVIOUS
  <2>3. /\ DOMAIN a = DOMAIN net /\ a.send_op = net.send_op /\ a.wq = net.wq
        /\ a.guard = net.guard /\ a.open = net.open
        /\ a.tx = net.tx /\ a.send = net.send /\ a.written = net.written
        /\ a.ended = net.ended /\ a.soon = net.soon /\ a.batch = net.batch
        /\ a.proto_paused = FALSE /\ a.staged = net.staged /\ a.port = net.port
        /\ a.events = net.events
    BY <1>1, <2>1, <2>2 DEF Shape, Watched
  <2>4. Shape(a)
    BY <1>1, <2>3 DEF Shape
  <2>5. Aside(net, a)
    BY <2>3, <2>4 DEF Aside
  <2>6. QED
    BY <1>1, <2>1, <2>2, <2>5, AsideKeeps, KeptIsCalled
<1>11. QED
  BY <1>2, <1>3, <1>4, <1>5, <1>6, <1>7, <1>8, <1>9, <1>10 DEF Application

\* A failing callback.
LEMMA FailingKeeps ==
  ASSUME NEW n, Good(n, <<>>) PROVE \A m \in Failing(n) : Keeps(n, <<>>, m)
<1>1. Keeps(n, <<>>, TeardownLost(n, "failed", FALSE))
  BY TeardownKeeps
<1>2. QED
  BY <1>1 DEF Failing

\* What arrived is delivered, held or dropped.
LEMMA InboundCalled ==
  ASSUME NEW n, NEW chunks, Good(n, <<>>), Inbound(n, chunks) PROVE Keeps(n, <<>>, net')
<1>1. Shape(n) /\ Keeps(n, <<>>, n)
  BY KeepsSelf DEF Good
<1>2. PICK a : a = [n EXCEPT !.paused_recv = @ \o chunks]
  OBVIOUS
<1>3. DOMAIN a = DOMAIN n /\ \A f \in Sending : a[f] = n[f]
  BY <1>1, <1>2 DEF Sending, Shape, Watched
<1>4. Keeps(n, <<>>, a)
  BY <1>1, <1>3, AsideOther, AsideKeeps
<1>5. net' = n \/ net' = a \/ net' \in Failing(n)
  BY <1>2 DEF Inbound
<1>6. QED
  BY <1>1, <1>4, <1>5, FailingKeeps

\* The callbacks that take an event, but for the one that tells of the end.
LEMMA CallbackCalled ==
  ASSUME TransportInv,
         DispatchData \/ DispatchBufData \/ DispatchEof \/ DispatchRecvFailed \/ DispatchResume
  PROVE  /\ Called(net, net') /\ events # <<>> /\ Head(events).kind # "lost" /\ events' = Tail(events)
         /\ UNCHANGED <<pass, lostCalls>>
<1>1. Good(net, <<>>) /\ Shape(net) /\ Called(net, net)
  BY NothingYet, KeepsSelf, KeptIsCalled DEF TransportInv, Good
<1>2. CASE DispatchData
  <2>1. Inbound(net, Event.chunks)
    BY <1>2 DEF DispatchData
  <2>2. Called(net, net')
    BY <1>1, <2>1, InboundCalled, KeptIsCalled
  <2>3. QED
    BY <1>2, <2>2 DEF DispatchData, TakeEvent, Event
<1>3. CASE DispatchBufData
  <2>1. PICK r : r = Release(net, Event.slot)
    OBVIOUS
  <2>2. Inbound(r, <<net.mem[Event.slot]>>)
    BY <1>3, <2>1 DEF DispatchBufData
  <2>3. Keeps(net, <<>>, r)
    BY <1>1, <2>1, AsideRefs, AsideKeeps
  <2>4. Keeps(r, <<>>, net')
    BY <2>2, <2>3, InboundCalled DEF Keeps
  <2>5. Called(net, net')
    BY <2>3, <2>4, KeepsTwice, KeptIsCalled
  <2>6. QED
    BY <1>3, <2>5 DEF DispatchBufData, TakeEvent, Event
<1>4. CASE DispatchEof
  <2>1. PICK a : a = [net EXCEPT !.paused_eof = TRUE]
    OBVIOUS
  <2>2. Called(net, a)
    BY <1>1, <2>1, AsideRecv, AsideKeeps, KeptIsCalled
  <2>3. net' = net \/ net' = a \/ net' \in Closed(net) \/ net' \in Failing(net)
    BY <1>4, <2>1 DEF DispatchEof
  <2>4. Called(net, net')
    BY <1>1, <2>2, <2>3, CloseCalled, FailingKeeps, KeptIsCalled
  <2>5. QED
    BY <1>4, <2>4 DEF DispatchEof, TakeEvent, Event
<1>5. CASE DispatchRecvFailed
  <2>1. net' = TeardownLost(net, "failed", FALSE)
    BY <1>5 DEF DispatchRecvFailed
  <2>2. Called(net, net')
    BY <1>1, <2>1, TeardownKeeps, KeptIsCalled
  <2>3. QED
    BY <1>5, <2>2 DEF DispatchRecvFailed, TakeEvent, Event, app
<1>6. CASE DispatchResume
  <2>1. PICK m : net' = FinishAfterResume(m) /\ (m = net \/ (net.open /\ m \in Written(net)))
    BY <1>6 DEF DispatchResume
  <2>2. Called(net, m) /\ Good(m, <<>>)
    BY <1>1, <2>1, WriteCalled DEF Called
  <2>3. Keeps(m, <<>>, FinishAfterResume(m))
    BY <2>2, FinishKeeps, KeepsSelf DEF FinishAfterResume
  <2>4. Called(m, net')
    BY <2>1, <2>3, KeptIsCalled
  <2>5. Called(net, net')
    BY <2>1, <2>2, <2>4, CalledTwice
  <2>6. QED
    BY <1>6, <2>5 DEF DispatchResume, TakeEvent, Event
<1>7. QED
  BY <1>2, <1>3, <1>4, <1>5, <1>6

\* The end is told of, or scheduled.
LEMMA LostStep == ASSUME TransportInv, DispatchLost PROVE TransportInv'
<1>1. events # <<>> /\ Head(events).kind = "lost" /\ events' = Tail(events) /\ pass' = pass
  BY DEF DispatchLost, TakeEvent, Event
<1>2. Queued(events') /\ Losses(events) = Losses(events') + 1
  BY <1>1, QueuedTail DEF TransportInv
<1>3. Shape(net) /\ Outbound(net, <<>>)
  BY DEF TransportInv
<1>4. Losses(events') \in Nat /\ lostCalls \in Nat
  BY <1>2, LossesAppend DEF TransportInv
<1>5. PICK l, e, s, b, o : /\ l = lostCalls /\ e = Losses(events') /\ s = net.soon /\ b = net.batch /\ o = Owed(net)
  OBVIOUS
<1>6. l \in Nat /\ e \in Nat /\ s \in Nat /\ b \in Nat /\ o \in Nat
  BY <1>3, <1>4, <1>5, AccountTypes
<1>7. l + (e + 1) + s + b + o = 1
  BY <1>2, <1>5 DEF TransportInv
<1>8. CASE lostCalls' = lostCalls + 1 /\ UNCHANGED net
  <2>1. (l + 1) + e + s + b + o = 1
    BY <1>6, <1>7
  <2>2. lostCalls' + Losses(events') + net'.soon + net'.batch + Owed(net') = 1
    BY <1>5, <1>8, <2>1
  <2>3. lostCalls' \in Nat
    BY <1>4, <1>8
  <2>4. QED
    BY <1>1, <1>2, <1>8, <2>2, <2>3 DEF TransportInv
<1>9. CASE net' = [net EXCEPT !.soon = @ + 1] /\ UNCHANGED lostCalls
  <2>1. PICK a : a = net'
    OBVIOUS
  <2>2. /\ DOMAIN a = DOMAIN net /\ a.send_op = net.send_op /\ a.wq = net.wq
        /\ a.guard = net.guard /\ a.open = net.open
        /\ a.tx = net.tx /\ a.send = net.send /\ a.written = net.written
        /\ a.ended = net.ended /\ a.soon = net.soon + 1 /\ a.batch = net.batch
        /\ a.proto_paused = net.proto_paused /\ a.staged = net.staged /\ a.port = net.port
        /\ a.events = net.events
    BY <1>3, <1>9, <2>1 DEF Shape, Watched
  <2>3. a.soon \in Nat
    BY <1>5, <1>6, <2>2
  <2>4. Shape(a)
    BY <1>3, <2>2, <2>3 DEF Shape
  <2>5. Reported(a, <<>>) = Reported(net, <<>>)
    BY <2>2 DEF Reported
  <2>6. Outbound(a, <<>>)
    BY <1>3, <2>2, <2>5 DEF Outbound, OpenSound, GoneSound, SendIdle, SendParked, SendReported
  <2>7. Owed(a) = o
    BY <1>5, <2>2 DEF Owed
  <2>8. l + e + (s + 1) + b + o = 1
    BY <1>6, <1>7
  <2>9. lostCalls' + Losses(events') + a.soon + a.batch + Owed(a) = 1
    BY <1>5, <1>9, <2>2, <2>7, <2>8
  <2>10. pass' # 0 => a.batch = 0
    BY <1>1, <2>2 DEF TransportInv
  <2>11. QED
    BY <1>1, <1>2, <1>9, <2>1, <2>4, <2>6, <2>9, <2>10 DEF TransportInv
<1>10. QED
  BY <1>8, <1>9 DEF DispatchLost

\* The same net but for its accounts and events.
LEMMA Rebooked ==
  ASSUME NEW n, NEW m, NEW x, NEW a \in Nat, NEW b \in Nat, Shape(n), Outbound(n, <<>>), Queued(x),
         DOMAIN m = DOMAIN n, m.send_op = n.send_op, m.wq = n.wq, m.guard = n.guard, m.open = n.open,
         m.tx = n.tx, m.send = n.send, m.written = n.written, m.ended = n.ended,
         m.proto_paused = n.proto_paused, m.staged = n.staged, m.port = n.port,
         m.events = x, m.soon = a, m.batch = b
  PROVE  Shape(m) /\ Outbound(m, <<>>) /\ Owed(m) = Losses(x) + (IF n.open THEN 1 ELSE 0)
<1>1. Shape(m)
  BY DEF Shape
<1>2. Reported(m, <<>>) = Reported(n, <<>>)
  BY DEF Reported
<1>3. Outbound(m, <<>>)
  BY <1>2 DEF Outbound, OpenSound, GoneSound, SendIdle, SendParked, SendReported
<1>4. QED
  BY <1>1, <1>3 DEF Owed

\* The corked writes are flushed, and the events so far taken.
LEMMA FlushCorkedStep == ASSUME TransportInv, FlushCorked PROVE TransportInv'
<1>1. Good(net, <<>>)
  BY NothingYet DEF TransportInv, Good
<1>2. PICK m \in FlushList(net) : net' = [m EXCEPT !.events = <<>>] /\ events' = m.events
  BY DEF FlushCorked
<1>3. Keeps(net, <<>>, m)
  BY <1>1, <1>2, FlushListKeeps
<1>4. Shape(m) /\ Outbound(m, <<>>) /\ Kept(net, m)
  BY <1>3 DEF Keeps, Good
<1>5. events = <<>> /\ pass = 1 /\ pass' = 2 /\ lostCalls' = lostCalls
  BY DEF FlushCorked, app
<1>6. PICK a : a = net'
  OBVIOUS
<1>7. /\ DOMAIN a = DOMAIN m /\ a.send_op = m.send_op /\ a.wq = m.wq /\ a.guard = m.guard /\ a.open = m.open
      /\ a.tx = m.tx /\ a.send = m.send /\ a.written = m.written /\ a.ended = m.ended
      /\ a.proto_paused = m.proto_paused /\ a.staged = m.staged /\ a.port = m.port
      /\ a.events = <<>> /\ a.soon = m.soon /\ a.batch = m.batch
  BY <1>2, <1>4, <1>6 DEF Shape, Watched
<1>8. m.soon \in Nat /\ m.batch \in Nat /\ Queued(m.events)
  BY <1>4 DEF Shape
<1>9. PICK o : o = IF m.open THEN 1 ELSE 0
  OBVIOUS
<1>10. Shape(a) /\ Outbound(a, <<>>) /\ Owed(a) = 0 + o
  BY <1>4, <1>7, <1>8, <1>9, NothingYet, Rebooked
<1>11. Owed(m) = Losses(events') + o /\ o \in Nat /\ Losses(events') \in Nat
  BY <1>2, <1>8, <1>9, LossesAppend DEF Owed
<1>12. lostCalls + 0 + m.soon + m.batch + (Losses(events') + o) = 1
  BY <1>4, <1>5, <1>11, NothingYet DEF TransportInv, Kept
<1>13. lostCalls \in Nat
  BY DEF TransportInv
<1>14. lostCalls + Losses(events') + m.soon + m.batch + (0 + o) = 1
  BY <1>8, <1>11, <1>12, <1>13
<1>15. net.batch = 0
  BY <1>5 DEF TransportInv
<1>16. a.batch = 0
  BY <1>4, <1>7, <1>15 DEF Kept
<1>17. lostCalls' + Losses(events') + a.soon + a.batch + Owed(a) = 1
  BY <1>5, <1>7, <1>10, <1>14
<1>18. Queued(events')
  BY <1>2, <1>8
<1>19. QED
  BY <1>5, <1>6, <1>10, <1>13, <1>16, <1>17, <1>18 DEF TransportInv

\* The poll: flush, translate, take the events and the batch.
LEMMA PollStep == ASSUME TransportInv, Poll PROVE TransportInv'
<1>1. Good(net, <<>>)
  BY NothingYet DEF TransportInv, Good
<1>2. PICK f \in FlushList(net) :
        \E m \in Translate([f EXCEPT !.staged = <<>>, !.port = <<>>], f.staged \o f.port) :
          /\ net' = [m EXCEPT !.events = <<>>, !.batch = net.soon, !.soon = @ - net.soon]
          /\ events' = m.events
  BY DEF Poll
<1>3. PICK g, rest : g = [f EXCEPT !.staged = <<>>, !.port = <<>>] /\ rest = f.staged \o f.port
  OBVIOUS
<1>4. PICK m \in Translate(g, rest) :
          /\ net' = [m EXCEPT !.events = <<>>, !.batch = net.soon, !.soon = @ - net.soon]
          /\ events' = m.events
  BY <1>2, <1>3
<1>5. Keeps(net, <<>>, f)
  BY <1>1, <1>2, FlushListKeeps
<1>6. Keeps(f, rest, g)
  BY <1>3, <1>5, TakenUp DEF Keeps
<1>7. Keeps(g, <<>>, m)
  BY <1>4, <1>6, TranslateKeeps DEF Keeps
<1>8. Keeps(net, <<>>, m)
  BY <1>5, <1>6, <1>7, KeepsTwice
<1>9. Shape(m) /\ Outbound(m, <<>>) /\ Kept(net, m)
  BY <1>8 DEF Keeps, Good
<1>10. events = <<>> /\ pass = 2 /\ pass' = 0 /\ lostCalls' = lostCalls
  BY DEF Poll, app
<1>11. m.soon = net.soon /\ m.soon \in Nat /\ m.soon - net.soon = 0 /\ Queued(m.events)
  BY <1>9 DEF Shape, Kept
<1>12. PICK a : a = net'
  OBVIOUS
<1>13. /\ DOMAIN a = DOMAIN m /\ a.send_op = m.send_op /\ a.wq = m.wq /\ a.guard = m.guard /\ a.open = m.open
       /\ a.tx = m.tx /\ a.send = m.send /\ a.written = m.written /\ a.ended = m.ended
       /\ a.proto_paused = m.proto_paused /\ a.staged = m.staged /\ a.port = m.port
       /\ a.events = <<>> /\ a.soon = m.soon - net.soon /\ a.batch = net.soon
  BY <1>4, <1>9, <1>12 DEF Shape, Watched
<1>14. a.soon = 0 /\ a.batch \in Nat /\ 0 \in Nat
  BY <1>11, <1>13
<1>15. PICK o : o = IF m.open THEN 1 ELSE 0
  OBVIOUS
<1>16. Shape(a) /\ Outbound(a, <<>>) /\ Owed(a) = 0 + o
  BY <1>9, <1>13, <1>14, <1>15, NothingYet, Rebooked
<1>17. Owed(m) = Losses(events') + o /\ o \in Nat /\ Losses(events') \in Nat
  BY <1>4, <1>11, <1>15, LossesAppend DEF Owed
<1>18. net.batch = 0 /\ lostCalls \in Nat
  BY <1>10 DEF TransportInv
<1>19. lostCalls + 0 + net.soon + 0 + (Losses(events') + o) = 1
  BY <1>9, <1>10, <1>17, <1>18, NothingYet DEF TransportInv, Kept
<1>20. lostCalls + Losses(events') + 0 + net.soon + (0 + o) = 1
  BY <1>11, <1>17, <1>18, <1>19
<1>21. lostCalls' + Losses(events') + a.soon + a.batch + Owed(a) = 1
  BY <1>10, <1>13, <1>14, <1>16, <1>20
<1>22. Queued(events')
  BY <1>4, <1>11
<1>23. QED
  BY <1>10, <1>12, <1>16, <1>18, <1>21, <1>22 DEF TransportInv

\* The batch, and the end of it.
LEMMA BatchStep == ASSUME TransportInv, LostCall \/ BatchDone PROVE TransportInv'
<1>1. Shape(net) /\ Outbound(net, <<>>) /\ Queued(events) /\ lostCalls \in Nat
  BY DEF TransportInv
<1>2. net.soon \in Nat /\ net.batch \in Nat /\ Queued(net.events) /\ Losses(events) \in Nat
  BY <1>1, LossesAppend DEF Shape
<1>3. CASE LostCall
  <2>1. PICK a : a = net'
    OBVIOUS
  <2>2. /\ net.batch > 0 /\ pass = 0 /\ net' = [net EXCEPT !.batch = @ - 1] /\ lostCalls' = lostCalls + 1
        /\ UNCHANGED <<events, pass>>
    BY <1>3 DEF LostCall
  <2>3. /\ DOMAIN a = DOMAIN net /\ a.send_op = net.send_op /\ a.wq = net.wq
        /\ a.guard = net.guard /\ a.open = net.open
        /\ a.tx = net.tx /\ a.send = net.send /\ a.written = net.written
        /\ a.ended = net.ended /\ a.soon = net.soon /\ a.batch = net.batch - 1
        /\ a.proto_paused = net.proto_paused /\ a.staged = net.staged /\ a.port = net.port
        /\ a.events = net.events
    BY <1>1, <2>1, <2>2 DEF Shape, Watched
  <2>4. net.batch - 1 \in Nat
    BY <1>2, <2>2
  <2>5. Shape(a) /\ Outbound(a, <<>>) /\ Owed(a) = Owed(net)
    BY <1>1, <1>2, <2>3, <2>4, Rebooked DEF Owed
  <2>6. PICK l, e, s, b, o : /\ l = lostCalls /\ e = Losses(events) /\ s = net.soon /\ b = net.batch /\ o = Owed(net)
    OBVIOUS
  <2>7. l \in Nat /\ e \in Nat /\ s \in Nat /\ b \in Nat /\ o \in Nat /\ l + e + s + b + o = 1
    BY <1>1, <1>2, <2>6, AccountTypes DEF TransportInv
  <2>8. (l + 1) + e + s + (b - 1) + o = 1 /\ l + 1 \in Nat
    BY <2>7
  <2>9. lostCalls' + Losses(events') + a.soon + a.batch + Owed(a) = 1 /\ lostCalls' \in Nat
    BY <2>2, <2>3, <2>5, <2>6, <2>8
  <2>10. QED
    BY <1>1, <2>1, <2>2, <2>5, <2>9 DEF TransportInv
<1>4. CASE BatchDone
  <2>1. net.batch = 0 /\ pass' \in {1, 2} /\ UNCHANGED <<net, events, lostCalls>>
    BY <1>4 DEF BatchDone, app
  <2>2. pass' \in 0..2
    BY <2>1
  <2>3. QED
    BY <2>1, <2>2 DEF TransportInv
<1>5. QED
  BY <1>3, <1>4

\* A KeyboardInterrupt: events and batch go back.
LEMMA InterruptStep == ASSUME TransportInv, Interrupt PROVE TransportInv'
<1>1. Shape(net) /\ Outbound(net, <<>>) /\ Queued(events) /\ lostCalls \in Nat
  BY DEF TransportInv
<1>2. net.soon \in Nat /\ net.batch \in Nat /\ Queued(net.events)
  BY <1>1 DEF Shape
<1>3. /\ net' = [net EXCEPT !.events = events \o @, !.soon = @ + net.batch, !.batch = 0, !.interrupts = @ + 1]
      /\ events' = <<>> /\ pass' = 2 /\ lostCalls' = lostCalls
  BY DEF Interrupt, app
<1>4. PICK a, x : a = net' /\ x = events \o net.events
  OBVIOUS
<1>5. Queued(x) /\ Losses(x) = Losses(events) + Losses(net.events)
  BY <1>1, <1>2, <1>4, QueuedConcat
<1>6. Losses(events) \in Nat /\ Losses(net.events) \in Nat /\ net.soon + net.batch \in Nat /\ 0 \in Nat
  <2>1. Losses(events) \in Nat /\ Losses(net.events) \in Nat
    BY <1>1, <1>2, LossesAppend
  <2>2. net.soon + net.batch \in Nat
    BY <1>2
  <2>3. QED
    BY <2>1, <2>2
<1>7. /\ DOMAIN a = DOMAIN net /\ a.send_op = net.send_op /\ a.wq = net.wq
      /\ a.guard = net.guard /\ a.open = net.open
      /\ a.tx = net.tx /\ a.send = net.send /\ a.written = net.written
      /\ a.ended = net.ended /\ a.soon = net.soon + net.batch /\ a.batch = 0
      /\ a.proto_paused = net.proto_paused /\ a.staged = net.staged /\ a.port = net.port
      /\ a.events = x
  BY <1>1, <1>3, <1>4 DEF Shape, Watched
<1>8. PICK o : o = IF net.open THEN 1 ELSE 0
  OBVIOUS
<1>9. Shape(a) /\ Outbound(a, <<>>) /\ Owed(a) = Losses(x) + o
  BY <1>1, <1>5, <1>6, <1>7, <1>8, Rebooked
<1>10. PICK l, e, s, b, v : /\ l = lostCalls /\ e = Losses(events) /\ s = net.soon /\ b = net.batch
                            /\ v = Losses(net.events)
  OBVIOUS
<1>11. Owed(net) = v + o /\ o \in Nat
  BY <1>8, <1>10 DEF Owed
<1>12. l \in Nat /\ e \in Nat /\ s \in Nat /\ b \in Nat /\ v \in Nat /\ l + e + s + b + (v + o) = 1
  BY <1>1, <1>2, <1>6, <1>10, <1>11 DEF TransportInv
<1>13. l + 0 + (s + b) + 0 + ((e + v) + o) = 1
  BY <1>11, <1>12
<1>14. lostCalls' + Losses(events') + a.soon + a.batch + Owed(a) = 1
  BY <1>3, <1>5, <1>7, <1>9, <1>10, <1>13, NothingYet
<1>15. Queued(events')
  BY <1>3, NothingYet
<1>16. QED
  BY <1>1, <1>3, <1>4, <1>7, <1>9, <1>14, <1>15 DEF TransportInv

\* The peer sends, or ends.
LEMMA PeerStep == ASSUME TransportInv, Peer PROVE TransportInv'
<1>1. Good(net, <<>>) /\ Shape(net)
  BY NothingYet DEF TransportInv, Good
<1>2. PICK a : a = net'
  OBVIOUS
<1>3. ASSUME NEW k, PeerSends(k) PROVE Aside(net, a) /\ Beside
  <2>1. a = [net EXCEPT !.peer = k, !.rx = Append(@, k)] /\ Beside
    BY <1>2, <1>3 DEF PeerSends, app, Beside
  <2>2. DOMAIN a = DOMAIN net /\ \A f \in Sending : a[f] = net[f]
    BY <1>1, <2>1 DEF Sending, Shape, Watched
  <2>3. QED
    BY <1>1, <2>1, <2>2, AsideOther
<1>4. ASSUME NEW how, PeerEnds(how) PROVE Aside(net, a) /\ Beside
  <2>1. a = [net EXCEPT !.rx = Append(@, how)] /\ Beside
    BY <1>2, <1>4 DEF PeerEnds, app, Beside
  <2>2. DOMAIN a = DOMAIN net /\ \A f \in Sending : a[f] = net[f]
    BY <1>1, <2>1 DEF Sending, Shape, Watched
  <2>3. QED
    BY <1>1, <2>1, <2>2, AsideOther
<1>5. Aside(net, a) /\ Beside
  BY <1>3, <1>4 DEF Peer
<1>6. QED
  BY <1>1, <1>2, <1>5, AsideKeeps, KeptIsCalled, CallStep

\* A parked receive completes.
LEMMA ReceiveStep == ASSUME TransportInv, KernelReceives PROVE TransportInv'
<1>1. Good(net, <<>>) /\ Shape(net)
  BY NothingYet DEF TransportInv, Good
<1>2. Beside
  BY DEF KernelReceives, app, Beside
<1>3. ASSUME NEW n, NEW m, NEW c, Aside(net, n), m = [n EXCEPT !.recv = NoSlot], c.op = "recv", net' = Done(m, c)
      PROVE  Aside(net, net')
  <2>1. Aside(n, m)
    BY <1>3, AsideRecv, AsideShape
  <2>2. Aside(m, Done(m, c))
    BY <1>3, <2>1, AsideCompletes, AsideShape DEF Done
  <2>3. QED
    BY <1>3, <2>1, <2>2, AsideTwice
<1>4. ASSUME net' = Done([Taken(net, net.recv) EXCEPT !.recv = NoSlot], Received(net, net.recv))
      PROVE  Aside(net, net')
  <2>1. Aside(net, Taken(net, net.recv)) /\ Received(net, net.recv).op = "recv"
    BY <1>1, AsideRefs DEF Received
  <2>2. PICK n, m, c : /\ n = Taken(net, net.recv) /\ m = [n EXCEPT !.recv = NoSlot]
                       /\ c = Received(net, net.recv)
    OBVIOUS
  <2>3. Aside(net, n) /\ c.op = "recv" /\ net' = Done(m, c)
    BY <1>4, <2>1, <2>2
  <2>4. QED
    BY <1>3, <2>2, <2>3
<1>5. ASSUME net' = Done([net EXCEPT !.recv = NoSlot], [op |-> "recv", slot |-> net.recv, result |-> Cancelled])
      PROVE  Aside(net, net')
  <2>1. PICK m, c : /\ m = [net EXCEPT !.recv = NoSlot]
                    /\ c = [op |-> "recv", slot |-> net.recv, result |-> Cancelled]
    OBVIOUS
  <2>2. c.op = "recv" /\ Aside(net, net) /\ net' = Done(m, c)
    BY <1>1, <1>5, <2>1, AsideSelf
  <2>3. QED
    BY <1>3, <2>1, <2>2
<1>6. Aside(net, net')
  BY <1>4, <1>5, Zenon DEF KernelReceives
<1>7. QED
  BY <1>1, <1>2, <1>6, AsideKeeps, KeptIsCalled, CallStep

\* The bytes a send takes are the first that it was given.
LEMMA SentBytesParts ==
  ASSUME NEW n, NEW k, NEW at \in Seq(Nat), NEW b \in Nat, k \in 0..Len(at), Numbered(at, b),
         at = IF n.open THEN n.wq ELSE n.guard
  PROVE  SentBytes(n, k) \in Seq(Nat) /\ Len(SentBytes(n, k)) = k /\ Numbered(SentBytes(n, k), b)
<1>1. Len(at) \in Nat
  OBVIOUS
<1>2. k \in Nat /\ k <= Len(at)
  BY <1>1
<1>3. PICK q : q = [i \in 1..k |-> IF i <= Len(at) THEN at[i] ELSE 0]
  OBVIOUS
<1>4. q = SentBytes(n, k)
  BY <1>3 DEF SentBytes
<1>5. \A i \in 1..k : i \in 1..Len(at) /\ i <= Len(at)
  BY <1>1, <1>2
<1>6. \A i \in 1..k : q[i] = at[i] /\ q[i] \in Nat
  BY <1>3, <1>5
<1>7. q \in [1..k -> Nat]
  BY <1>3, <1>6
<1>8. q \in Seq(Nat) /\ Len(q) = k
  BY <1>2, <1>7
<1>9. Numbered(q, b)
  BY <1>5, <1>6, <1>8 DEF Numbered
<1>10. QED
  BY <1>4, <1>8, <1>9

\* A parked send takes some of its bytes, or fails.
LEMMA SendStep == ASSUME TransportInv, NEW k \in Nat, KernelSends(k) PROVE TransportInv'
<1>1. Good(net, <<>>) /\ Shape(net) /\ Outbound(net, <<>>) /\ Finished(<<>>)
  BY NothingYet DEF TransportInv, Good
<1>2. PICK q, t, c, x, a : /\ q = SentBytes(net, k) /\ t = net.tx \o q /\ c = [op |-> "send", sent |-> k]
                           /\ x = Append(net.port, c) /\ a = net'
  OBVIOUS
<1>3. net.send > 0 /\ k <= net.send /\ Beside
      /\ net' = Done([net EXCEPT !.send = 0, !.tx = @ \o SentBytes(net, k)], [op |-> "send", sent |-> k])
  BY DEF KernelSends, app, Beside
<1>4. PICK d : d = [net EXCEPT !.send = 0, !.tx = t]
  OBVIOUS
<1>5. /\ DOMAIN d = DOMAIN net /\ d.send_op = net.send_op /\ d.open = net.open /\ d.wq = net.wq
      /\ d.guard = net.guard /\ d.tx = t /\ d.send = 0 /\ d.written = net.written
      /\ d.ended = net.ended /\ d.soon = net.soon /\ d.batch = net.batch
      /\ d.proto_paused = net.proto_paused /\ d.staged = net.staged /\ d.port = net.port
      /\ d.events = net.events
  BY <1>1, <1>4 DEF Shape, Watched
<1>6. a = [d EXCEPT !.port = Append(@, c)]
  BY <1>1, <1>2, <1>3, <1>4 DEF Done, Shape, Watched
<1>7. /\ DOMAIN a = DOMAIN net /\ a.send_op = net.send_op /\ a.open = net.open /\ a.wq = net.wq
      /\ a.guard = net.guard /\ a.tx = t /\ a.send = 0 /\ a.written = net.written
      /\ a.ended = net.ended /\ a.soon = net.soon /\ a.batch = net.batch
      /\ a.proto_paused = net.proto_paused /\ a.staged = net.staged /\ a.port = x
      /\ a.events = net.events
  BY <1>1, <1>2, <1>5, <1>6, ZenonT(40) DEF Shape, Watched
<1>8. c \in Sends
  BY <1>2 DEF Sends
<1>9. Finished(x)
  BY <1>1, <1>2, <1>8, FinishedAppend DEF Shape
<1>10. /\ net.wq \in Seq(Nat) /\ net.guard \in Seq(Nat) /\ net.tx \in Seq(Nat) /\ net.send \in Nat
       /\ net.written \in Nat /\ Numbered(net.tx, 0) /\ net.open \in BOOLEAN
  BY <1>1 DEF Shape, Outbound
<1>11. PICK at : at = IF net.open THEN net.wq ELSE net.guard
  OBVIOUS
<1>12. at \in Seq(Nat) /\ Len(at) \in Nat /\ Len(net.tx) \in Nat /\ Len(net.wq) \in Nat
  <2>1. at \in Seq(Nat)
    BY <1>10, <1>11
  <2>2. QED
    BY <1>10, <2>1
<1>13. /\ net.send <= Len(at) /\ Numbered(at, Len(net.tx)) /\ Reported(net, <<>>) = <<>>
       /\ net.ended # "closed"
       /\ net.open => SendParked(net, <<>>) /\ Numbered(net.wq, net.written - Len(net.wq))
  <2>1. CASE net.open
    <3>1. OpenSound(net, <<>>)
      BY <1>1, <2>1 DEF Outbound
    <3>2. net.send # 0
      BY <1>3, <1>10
    <3>3. SendParked(net, <<>>)
      BY <3>1, <3>2 DEF OpenSound, SendIdle, SendReported
    <3>4. net.send \in 1..Len(net.wq) /\ net.written = Len(net.tx) + Len(net.wq) /\ Reported(net, <<>>) = <<>>
      BY <3>3 DEF SendParked
    <3>5. net.written - Len(net.wq) = Len(net.tx) /\ net.send <= Len(net.wq)
      BY <1>10, <1>12, <3>4
    <3>6. Numbered(net.wq, net.written - Len(net.wq)) /\ net.ended # "closed"
      BY <3>1 DEF OpenSound
    <3>7. QED
      BY <1>11, <2>1, <3>3, <3>4, <3>5, <3>6
  <2>2. CASE ~net.open
    <3>1. GoneSound(net, <<>>)
      BY <1>1, <2>2 DEF Outbound
    <3>2. net.send # 0
      BY <1>3, <1>10
    <3>3. QED
      BY <1>3, <1>11, <2>2, <3>1, <3>2 DEF GoneSound
  <2>3. QED
    BY <1>10, <2>1, <2>2
<1>14. k \in 0..Len(at)
  BY <1>3, <1>10, <1>12, <1>13
<1>15. q \in Seq(Nat) /\ Len(q) = k /\ Numbered(q, Len(net.tx))
  BY <1>2, <1>11, <1>12, <1>13, <1>14, SentBytesParts
<1>16. t \in Seq(Nat) /\ Len(t) = Len(net.tx) + k /\ Numbered(t, 0)
  BY <1>2, <1>10, <1>15, SentBehind
<1>17. Shape(a)
  BY <1>1, <1>7, <1>9, <1>16 DEF Shape
<1>18. Reported(a, <<>>) = <<[op |-> "send", sent |-> k]>>
  <2>1. a.staged = net.staged /\ a.port = Append(net.port, [op |-> "send", sent |-> k])
    BY <1>2, <1>7
  <2>2. QED
    BY <1>1, <1>13, <1>17, <2>1, ReportedSend, Zenon
<1>19. Outbound(a, <<>>)
  <2>1. CASE net.open
    <3>1. SendParked(net, <<>>) /\ Numbered(net.wq, net.written - Len(net.wq)) /\ at = net.wq
      BY <1>11, <1>13, <2>1
    <3>2. net.send_op /\ net.written = Len(net.tx) + Len(net.wq)
      BY <3>1 DEF SendParked
    <3>3. net.written + k = Len(t) + Len(net.wq)
      <4>1. PICK w, u, v, l : w = net.written /\ u = Len(net.tx) /\ v = Len(net.wq) /\ l = Len(t)
        OBVIOUS
      <4>2. w \in Nat /\ u \in Nat /\ v \in Nat /\ w = u + v /\ l = u + k
        BY <1>10, <1>12, <1>16, <3>2, <4>1
      <4>3. w + k = l + v
        BY <4>2
      <4>4. QED
        BY <4>1, <4>3
    <3>4. SendReported(a, <<>>)
      BY <1>7, <1>14, <1>18, <3>1, <3>2, <3>3 DEF SendReported
    <3>5. QED
      BY <1>7, <1>13, <1>16, <2>1, <3>1, <3>4 DEF Outbound, OpenSound
  <2>2. CASE ~net.open
    <3>1. Len(Reported(a, <<>>)) = 1
      BY <1>18
    <3>2. a.ended # "closed" /\ ~(a.send > 0) /\ Len(Reported(a, <<>>)) <= 1
      <4>1. a.send = 0 /\ a.ended # "closed"
        BY <1>7, <1>13
      <4>2. ~(a.send > 0)
        BY <4>1
      <4>3. PICK l : l = Len(Reported(a, <<>>))
        OBVIOUS
      <4>4. l <= 1
        <5>1. l = 1
          BY <3>1, <4>3
        <5>2. QED
          BY <5>1
      <4>5. QED
        BY <4>1, <4>2, <4>3, <4>4
    <3>3. GoneSound(a, <<>>)
      BY <3>2 DEF GoneSound
    <3>4. QED
      BY <1>7, <1>16, <2>2, <3>3 DEF Outbound
  <2>3. QED
    BY <1>10, <2>1, <2>2
<1>20. Kept(net, a)
  BY <1>7 DEF Kept, Owed
<1>21. Keeps(net, <<>>, net')
  BY <1>1, <1>2, <1>17, <1>19, <1>20 DEF Keeps, Good
<1>22. QED
  BY <1>3, <1>21, KeptIsCalled, CallStep

\* Every step keeps the invariant.
LEMMA NextSound == TransportInv /\ [Next]_vars => TransportInv'
<1> SUFFICES ASSUME TransportInv, [Next]_vars PROVE TransportInv'
  OBVIOUS
<1>1. CASE Application
  BY <1>1, ApplicationCalled, CallStep
<1>2. CASE Dispatch
  <2>1. CASE DispatchLost
    BY <2>1, LostStep
  <2>2. CASE ~DispatchLost
    <3>1. DispatchData \/ DispatchBufData \/ DispatchEof \/ DispatchRecvFailed \/ DispatchResume
      BY <1>2, <2>2 DEF Dispatch
    <3>2. QED
      BY <3>1, CallbackCalled, DispatchStep
  <2>3. QED
    BY <2>1, <2>2
<1>3. CASE LostCall \/ BatchDone
  BY <1>3, BatchStep
<1>4. CASE FlushCorked
  BY <1>4, FlushCorkedStep
<1>5. CASE Poll
  BY <1>5, PollStep
<1>6. CASE Interrupt
  BY <1>6, InterruptStep
<1>7. CASE Peer
  BY <1>7, PeerStep
<1>8. CASE KernelReceives
  BY <1>8, ReceiveStep
<1>9. ASSUME NEW k \in 0..Gather, KernelSends(k) PROVE TransportInv'
  <2>1. k \in Nat
    BY TransportAssumption DEF TransportAssumption
  <2>2. QED
    BY <1>9, <2>1, SendStep
<1>10. CASE UNCHANGED vars
  BY <1>10 DEF vars, app, TransportInv
<1>11. QED
  BY <1>1, <1>2, <1>3, <1>4, <1>5, <1>6, <1>7, <1>8, <1>9, <1>10 DEF Next, Tick, Kernel

-----------------------------------------------------------------------------
(* The theorems.                                                           *)

\* The inductive invariant.
THEOREM TransportIsSound == Spec => []TransportInv
  BY InitSound, NextSound, PTL DEF Spec

\* The invariant says where every byte is.
LEMMA SoundIsOutbound == TransportInv => OutboundSound
<1> SUFFICES ASSUME TransportInv PROVE OutboundSound
  OBVIOUS
<1>1. Numbered(net.tx, 0) /\ net.tx \in Seq(Nat) /\ net.open \in BOOLEAN
  BY DEF TransportInv, Outbound, Shape
<1>2. SentInOrder
  <2>1. DOMAIN net.tx = 1..Len(net.tx) /\ \A i \in 1..Len(net.tx) : net.tx[i] = 0 + i
    BY <1>1 DEF Numbered
  <2>2. ASSUME NEW i \in DOMAIN net.tx PROVE net.tx[i] = i
    <3>1. i \in 1..Len(net.tx) /\ i \in Int
      BY <1>1, <2>1
    <3>2. net.tx[i] = 0 + i
      BY <2>1, <3>1
    <3>3. QED
      BY <3>1, <3>2
  <2>3. QED
    BY <2>2 DEF SentInOrder
<1>3. CloseSendsAll
  <2>1. net.open => net.ended # "closed"
    BY DEF TransportInv, Outbound, OpenSound
  <2>2. ~net.open /\ net.ended = "closed" => Len(net.tx) = net.written
    BY DEF TransportInv, Outbound, GoneSound
  <2>3. QED
    BY <1>1, <2>1, <2>2 DEF CloseSendsAll
<1>4. QED
  BY <1>2, <1>3 DEF OutboundSound

\* What the protocol wrote reaches the peer in order, no byte twice and
\* none from memory that was let go under a send, and a close that ends in
\* order ends after the last byte (net.rs: on_send_done, teardown_lost and
\* the reap guards, maybe_finish_shutdown) -- whatever completes inline, and
\* in whatever order the loop, the kernel and the application take turns.
THEOREM OutboundIsSound == Spec => []OutboundSound
  BY TransportIsSound, SoundIsOutbound, PTL

\* The invariant says where the end that is owed is.
LEMMA SoundIsLostOnce == TransportInv => LostOnce
<1> SUFFICES ASSUME TransportInv PROVE LostOnce
  OBVIOUS
<1>1. Shape(net) /\ Queued(events) /\ Queued(net.events) /\ lostCalls \in Nat
  BY DEF TransportInv, Shape
<1>2. Losses(Pending) = Losses(events) + Losses(net.events)
  BY <1>1, QueuedConcat DEF Pending
<1>3. Losses(events) \in Nat /\ Losses(net.events) \in Nat
  BY <1>1, LossesAppend
<1>4. PICK l, e, s, b, v, o : /\ l = lostCalls /\ e = Losses(events) /\ s = net.soon /\ b = net.batch
                              /\ v = Losses(net.events) /\ o = IF net.open THEN 1 ELSE 0
  OBVIOUS
<1>5. l \in Nat /\ e \in Nat /\ s \in Nat /\ b \in Nat /\ v \in Nat /\ o \in Nat
  BY <1>1, <1>3, <1>4, AccountTypes
<1>6. l + e + s + b + (v + o) = 1
  BY <1>4 DEF TransportInv, Owed
<1>7. l + s + b + (e + v) = 1 - o
  BY <1>5, <1>6
<1>8. 1 - o = IF net.open THEN 0 ELSE 1
  BY <1>4
<1>9. lostCalls + net.soon + net.batch + Losses(Pending) = IF net.open THEN 0 ELSE 1
  BY <1>2, <1>4, <1>7, <1>8
<1>10. QED
  BY <1>9 DEF LostOnce, Losses, Losts

\* However a connection ends -- closed, aborted, failed, or reset by the
\* peer, and with KeyboardInterrupts handing the tick's work back -- the
\* protocol's connection_lost is queued, scheduled or called, once
\* (net.rs: teardown_lost, schedule_pending_lost; the two passes of a tick).
THEOREM LostExactlyOnce == Spec => []LostOnce
  BY TransportIsSound, SoundIsLostOnce, PTL

\* A transport whose end was told is closed, and no other end waits.
LEMMA NothingLeft ==
  ASSUME TransportInv, lostCalls = 1
  PROVE  ~net.open /\ net.batch = 0 /\ Losses(events) = 0
<1>1. Shape(net) /\ Losses(events) \in Nat
  BY LossesAppend DEF TransportInv
<1>2. PICK e, s, b, o : e = Losses(events) /\ s = net.soon /\ b = net.batch /\ o = Owed(net)
  OBVIOUS
<1>3. e \in Nat /\ s \in Nat /\ b \in Nat /\ o \in Nat /\ (net.open => o > 0)
  BY <1>1, <1>2, AccountTypes
<1>4. 1 + e + s + b + o = 1
  BY <1>2 DEF TransportInv
<1>5. e = 0 /\ b = 0 /\ o = 0
  BY <1>3, <1>4
<1>6. ~(o > 0)
  BY <1>5
<1>7. QED
  BY <1>2, <1>3, <1>5, <1>6

\* A step after it tells the protocol nothing.
LEMMA SilentStep ==
  TransportInv /\ [Next]_vars => [lostCalls = 1 => UNCHANGED <<delivered, told, lostCalls>>]_vars
<1> SUFFICES ASSUME TransportInv, Next, lostCalls = 1 PROVE UNCHANGED <<delivered, told, lostCalls>>
  OBVIOUS
<1>1. ~net.open /\ net.batch = 0 /\ Losses(events) = 0 /\ Queued(events)
  BY NothingLeft DEF TransportInv
<1>2. ASSUME Called(net, net'), Hears(net, net'), UNCHANGED <<delivered, lostCalls>>
      PROVE  UNCHANGED <<delivered, told, lostCalls>>
  <2>1. net'.proto_paused => net.proto_paused
    BY <1>1, <1>2 DEF Called
  <2>2. told' = told
    BY <1>2, <2>1 DEF Hears
  <2>3. QED
    BY <1>2, <2>2
<1>3. CASE Application
  <2>1. Called(net, net')
    BY <1>3, ApplicationCalled
  <2>2. \A buffered \in BOOLEAN : ~SetProtocol(buffered)
    BY <1>1 DEF SetProtocol
  <2>3. Hears(net, net') /\ UNCHANGED <<delivered, lostCalls>>
    BY <1>3, <2>2 DEF Application, Write, WriteEof, Close, Abort, PauseReading, ResumeReading,
                      SetWriteBufferLimits, SettledByAnother, Call
  <2>4. QED
    BY <1>2, <2>1, <2>3
<1>4. CASE DispatchData
  BY <1>1, <1>4 DEF DispatchData, Inbound
<1>5. CASE DispatchBufData
  <2>1. PICK r : r = Release(net, Event.slot)
    OBVIOUS
  <2>2. Shape(net)
    BY DEF TransportInv
  <2>3. r.open = net.open
    BY <2>1, <2>2 DEF Release, Shape, Watched
  <2>4. UNCHANGED <<told, lostCalls>> /\ Inbound(r, <<net.mem[Event.slot]>>)
    BY <1>5, <2>1 DEF DispatchBufData
  <2>5. UNCHANGED delivered
    BY <1>1, <2>3, <2>4 DEF Inbound
  <2>6. QED
    BY <2>4, <2>5
<1>6. CASE DispatchEof
  <2>1. Called(net, net')
    BY <1>6, CallbackCalled
  <2>2. QED
    BY <1>2, <1>6, <2>1 DEF DispatchEof
<1>7. CASE DispatchResume
  <2>1. UNCHANGED <<delivered, lostCalls>>
    BY <1>7 DEF DispatchResume
  <2>2. told' = told
    BY <1>1, <1>7 DEF DispatchResume
  <2>3. QED
    BY <2>1, <2>2
<1>8. ~DispatchLost
  <2>1. ASSUME DispatchLost PROVE FALSE
    <3>1. events # <<>> /\ Head(events).kind = "lost"
      BY <2>1 DEF DispatchLost, TakeEvent, Event
    <3>2. Queued(Tail(events)) /\ Losses(events) = Losses(Tail(events)) + 1
      BY <1>1, <3>1, QueuedTail
    <3>3. Losses(Tail(events)) \in Nat
      BY <3>2, LossesAppend
    <3>4. QED
      BY <1>1, <3>2, <3>3
  <2>2. QED
    BY <2>1
<1>9. ~LostCall
  BY <1>1 DEF LostCall
<1>10. CASE DispatchRecvFailed \/ BatchDone \/ FlushCorked \/ Poll \/ Interrupt \/ KernelReceives
  BY <1>10 DEF DispatchRecvFailed, BatchDone, FlushCorked, Poll, Interrupt, KernelReceives, app
<1>11. CASE Peer
  BY <1>11 DEF Peer, PeerSends, PeerEnds, app
<1>12. ASSUME NEW k \in 0..Gather, KernelSends(k) PROVE UNCHANGED <<delivered, told, lostCalls>>
  BY <1>12 DEF KernelSends, app
<1>13. QED
  BY <1>3, <1>4, <1>5, <1>6, <1>7, <1>8, <1>9, <1>10, <1>11, <1>12 DEF Next, Tick, Dispatch, Kernel

\* Once connection_lost has been called the protocol hears nothing more:
\* no data, no pause or resume, no second end -- though events queued before,
\* completions that come late and the application's own calls still run
\* (net.rs: route_inbound, on_recv_done, teardown_lost).
THEOREM StaysSilent == Spec => SilentAfterLost
<1>1. Spec => [][Next]_vars /\ []TransportInv
  BY TransportIsSound, PTL DEF Spec
<1>2. QED
  BY <1>1, SilentStep, PTL DEF SilentAfterLost

=============================================================================
