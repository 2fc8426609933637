----------------------- MODULE CompletionPort_proofs -----------------------
(***************************************************************************)
(* The slab keeps its books and every operation in flight is owed exactly  *)
(* one packet, for every size of the slab, of a chunk and of a batch, and  *)
(* however soon the generations wrap.                                      *)
(***************************************************************************)
EXTENDS CompletionPort, Filtering_proofs, FiniteSetTheorems, TLAPS

-----------------------------------------------------------------------------
(* The inductive invariant.                                                *)

\* The packets not translated yet, in the order they will be.
Wire == entries \o port


\* Every slot is in one place.
Placed ==
  /\ IsInjective(freelist) /\ IsInjective(held)
  /\ \A i \in Slots :
       /\ i \in ToSet(freelist) <=> i < capacity /\ state[i] = "Free"
       /\ i >= capacity => state[i] = "Free"
       /\ i \in ToSet(held) \/ i \in untaken <=> state[i] = "Completed"
       /\ ~(i \in ToSet(held) /\ i \in untaken)

InFlight(i) == state[i] \in InFlightStates
Absent(i) == \A k \in 1..Len(Wire) : Wire[k].slot # i

\* A packet meets the operation it belongs to.
Matched ==
  \A k \in 1..Len(Wire) :
    Wire[k].key = "op" => /\ generation[Wire[k].slot] = Wire[k].generation
                          /\ state[Wire[k].slot] # "Free"

\* One packet per operation in flight; none for a payload that a packet has
\* already brought.
Owed ==
  \A i \in Slots :
    /\ i \in pending => InFlight(i) /\ Absent(i)
    /\ InFlight(i) /\ i \notin pending => ~Absent(i)
    /\ InFlight(i) => \A j, k \in 1..Len(Wire) : Wire[j].slot = i /\ Wire[k].slot = i => j = k
    /\ i \in untaken /\ ~inline[i] => Absent(i)

\* The sentinel is the one drain packet, and no packet of a slot that it
\* covers is behind it.
Covering ==
  /\ \A j, k \in 1..Len(Wire) : Wire[j].key = "drain" /\ Wire[k].key = "drain" => j = k
  /\ \A k \in 1..Len(Wire) : Wire[k].key = "drain" =>
       /\ sentinel # NoSentinel /\ Wire[k].generation = sentinel.generation
       /\ \A j \in 1..Len(Wire), p \in 1..Len(held) :
            k < j /\ p <= sentinel.covered => Wire[j].slot # held[p]
  /\ sentinel.covered <= Len(held)

\* A poll sees the whole quarantine, and after a short batch nothing but the
\* packets of operations in flight has reached the port.
Polled ==
  /\ ~polling => entries = <<>>
  /\ polling => Len(held) <= mark
  /\ polling /\ dequeued < Batch =>
       \A k \in 1..Len(port) : port[k].key = "op" => InFlight(port[k].slot)

\* The counter is exact, and memory is freed at zero.
Counted ==
  /\ inFlight = Cardinality({i \in Slots : InFlight(i)})
  /\ phase = "freed" => inFlight = 0 /\ ~polling

IInv == TypeOK /\ Placed /\ Matched /\ Owed /\ Covering /\ Polled /\ Counted


-----------------------------------------------------------------------------
(* Packets, and how the steps move them.                                   *)

\* No duplicates, as the model states it.
LEMMA InjectiveIsNoneTwice ==
  ASSUME NEW S, NEW s \in Seq(S), IsInjective(s)
  PROVE  NoneTwice(s)
<1> DEFINE D == 1..Len(s)
<1>1. IsFiniteSet(D) /\ Cardinality(D) = Len(s)
  <2>1. 1 \in Int /\ Len(s) \in Int /\ Len(s) >= 0
    OBVIOUS
  <2>2. IsFiniteSet(D) /\ Cardinality(D) = IF 1 > Len(s) THEN 0 ELSE Len(s) - 1 + 1
    BY <2>1, FS_Interval, Zenon
  <2>3. QED
    BY <2>1, <2>2
<1>2. s \in [D -> S]
  BY LenProperties
<1>. /\ \A k \in D : s[k] \in ToSet(s)
     /\ \A e \in ToSet(s) : \E k \in D : s[k] = e
  BY DEF ToSet
<1>. s \in [D -> ToSet(s)]
  BY <1>2
<1>3. s \in Surjection(D, ToSet(s)) /\ s \in Injection(D, ToSet(s))
  BY DEF Surjection, Injection, IsInjective
<1>4. QED
  BY <1>1, <1>3, FS_Surjection DEF NoneTwice

\* Only the packet of an operation names a slot.
LEMMA PacketKinds ==
  /\ \A e \in Packet : /\ e.key = "op" => e.slot \in Slots /\ e.generation \in Gens
                       /\ e.slot \in Slots => e.key = "op"
                       /\ e.key = "drain" => e.generation \in Gens
  /\ \A i \in Slots, g \in Gens : /\ OpPacket(i, g) \in Packet /\ OpPacket(i, g).key = "op"
                                 /\ OpPacket(i, g).slot = i /\ OpPacket(i, g).generation = g
  /\ \A g \in Gens : /\ DrainPacket(g) \in Packet /\ DrainPacket(g).key = "drain"
                     /\ DrainPacket(g).slot \notin Slots /\ DrainPacket(g).generation = g
  /\ OtherPacket \in Packet /\ OtherPacket.key = "other" /\ OtherPacket.slot \notin Slots
BY PortAssumption DEF Packet, OpPacket, DrainPacket, OtherPacket, NoSlot, Slots, Gens

\* The wire: what was dequeued, then what is on the port.
LEMMA WireType ==
  ASSUME TypeOK
  PROVE  /\ Wire \in Seq(Packet) /\ Len(Wire) = Len(entries) + Len(port)
         /\ \A k \in 1..Len(Wire) :
              Wire[k] = IF k <= Len(entries) THEN entries[k] ELSE port[k - Len(entries)]
BY ConcatProperties DEF TypeOK, Wire

\* A packet is queued behind all others.
LEMMA Queued ==
  ASSUME TypeOK, NEW e \in Packet, port' = Append(port, e), entries' = entries
  PROVE  /\ Wire' \in Seq(Packet) /\ Len(Wire') = Len(Wire) + 1
         /\ \A k \in 1..Len(Wire) : Wire'[k] = Wire[k]
         /\ Wire'[Len(Wire) + 1] = e
<1>1. Wire' = Append(Wire, e)
  <2>1. entries \in Seq(Packet) /\ port \in Seq(Packet) /\ <<e>> \in Seq(Packet)
    BY DEF TypeOK
  <2>2. Append(port, e) = port \o <<e>> /\ Append(Wire, e) = Wire \o <<e>>
    BY <2>1, AppendIsConcat, WireType
  <2>3. QED
    BY <2>1, <2>2, ConcatAssociative DEF Wire
<1>2. QED
  BY <1>1, WireType, AppendProperties

\* The first packet is translated.
LEMMA Translated ==
  ASSUME TypeOK, entries # <<>>, entries' = Tail(entries), port' = port
  PROVE  /\ Wire' \in Seq(Packet) /\ Len(Wire) \in Nat \ {0} /\ Len(Wire') = Len(Wire) - 1
         /\ Wire[1] = Head(entries)
         /\ \A k \in 1..Len(Wire') : Wire'[k] = Wire[k + 1]
<1>1. entries \in Seq(Packet) /\ port \in Seq(Packet) /\ Len(entries) \in Nat \ {0}
  BY EmptySeq DEF TypeOK
<1>2. /\ Tail(entries) \in Seq(Packet) /\ Len(Tail(entries)) = Len(entries) - 1
      /\ \A k \in 1..(Len(entries) - 1) : Tail(entries)[k] = entries[k + 1]
      /\ Head(entries) = entries[1]
  BY <1>1
<1>3. /\ Wire' \in Seq(Packet) /\ Len(Wire') = Len(entries) - 1 + Len(port)
      /\ \A k \in 1..Len(Wire') : Wire'[k] = IF k <= Len(entries) - 1
                                           THEN Tail(entries)[k]
                                           ELSE port[k - (Len(entries) - 1)]
  BY <1>1, <1>2, ConcatProperties DEF Wire
<1>4. ASSUME NEW k \in 1..Len(Wire') PROVE Wire'[k] = Wire[k + 1]
  <2>1. k + 1 \in 1..Len(Wire)
    BY <1>1, <1>3, WireType
  <2>2. CASE k <= Len(entries) - 1
    BY <1>1, <1>2, <1>3, <2>1, <2>2, WireType
  <2>3. CASE k > Len(entries) - 1
    <3>1. k - (Len(entries) - 1) = (k + 1) - Len(entries)
      BY <1>1, <1>3
    <3>2. Wire'[k] = port[(k + 1) - Len(entries)]
      BY <1>1, <1>3, <2>3, <3>1
    <3>3. Wire[k + 1] = port[(k + 1) - Len(entries)]
      BY <1>1, <2>1, <2>3, WireType
    <3>4. QED
      BY <3>2, <3>3
  <2>4. QED
    BY <1>1, <1>3, <2>2, <2>3
<1>5. QED
  BY <1>1, <1>2, <1>3, <1>4, WireType

\* Dequeuing a batch moves packets along the wire.
LEMMA Moved ==
  ASSUME TypeOK, entries = <<>>, NEW n \in 0..Len(port),
         entries' = SubSeq(port, 1, n), port' = SubSeq(port, n + 1, Len(port))
  PROVE  /\ Wire' = Wire /\ entries' \in Seq(Packet) /\ port' \in Seq(Packet)
         /\ n = Len(port) => port' = <<>>
<1>1. port \in Seq(Packet)
  BY DEF TypeOK
<1>2. SubSeq(port, 1, n) \o SubSeq(port, n + 1, Len(port)) = SubSeq(port, 1, Len(port))
  <2>1. 1 \in 1..(Len(port) + 1) /\ n \in (1 - 1)..Len(port) /\ Len(port) \in n..Len(port)
    BY <1>1
  <2>2. QED
    BY <1>1, <2>1, ConcatAdjacentSubSeq, Zenon
<1>3. SubSeq(port, 1, Len(port)) = port /\ Wire = port
  BY <1>1, SubSeqFull, ConcatEmptySeq DEF Wire
<1>4. entries' \in Seq(Packet) /\ port' \in Seq(Packet)
  BY <1>1, SubSeqProperties
<1>5. n = Len(port) => port' = <<>>
  BY <1>1, SubSeqEmpty
<1>6. QED
  BY <1>2, <1>3, <1>4, <1>5 DEF Wire

-----------------------------------------------------------------------------
(* The slab.                                                               *)

\* post takes a free slot that is nowhere else, growing the slab if need be.
LEMMA AllocatesFree ==
  ASSUME TypeOK, Placed, CanPost, Allocate
  PROVE  /\ Allocated \in Slots /\ state[Allocated] = "Free" /\ Allocated < capacity'
         /\ capacity' \in 0..MaxSlots /\ capacity <= capacity'
         /\ freelist' \in Seq(Slots) /\ IsInjective(freelist')
         /\ \A i \in Slots : i \in ToSet(freelist') <=>
              i < capacity' /\ state[i] = "Free" /\ i # Allocated
<1> USE PortAssumption
<1>1. CASE freelist # <<>>
  <2>1. freelist \in Seq(Slots) /\ Len(freelist) \in Nat \ {0} /\ IsInjective(freelist)
    BY <1>1, EmptySeq DEF TypeOK, Placed
  <2> DEFINE n == Len(freelist) - 1
  <2>2. n \in 0..Len(freelist) /\ n + 1 = Len(freelist)
    BY <2>1
  <2>3. /\ freelist' = SubSeq(freelist, 1, n) /\ capacity' = capacity
        /\ Allocated = freelist[n + 1]
    BY <1>1, <2>2 DEF Allocate, Allocated
  <2> DEFINE b == SubSeq(freelist, n + 1, Len(freelist))
  <2>4. /\ freelist' \in Seq(Slots) /\ IsInjective(freelist')
        /\ b \in Seq(Slots) /\ Len(b) = 1 /\ b[1] = freelist[1 + n]
        /\ ToSet(freelist') \cap ToSet(b) = {} /\ ToSet(freelist') \cup ToSet(b) = ToSet(freelist)
    BY <2>1, <2>2, <2>3, CutElements
  <2> HIDE DEF b, n
  <2>5. ToSet(b) = {Allocated}
    BY <2>2, <2>3, <2>4 DEF ToSet
  <2>6. Allocated \in ToSet(freelist) /\ Allocated \in Slots
    BY <2>1, <2>4, <2>5, Elements
  <2>7. QED
    BY <2>3, <2>4, <2>5, <2>6 DEF TypeOK, Placed, Slots
<1>2. CASE freelist = <<>>
  <2>1. /\ freelist' = [k \in 1..(Chunk - 1) |-> capacity + Chunk - k]
        /\ capacity' = capacity + Chunk /\ Allocated = capacity
        /\ capacity \in 0..MaxSlots /\ capacity + Chunk <= MaxSlots
    BY <1>2 DEF Allocate, Allocated, CanPost, TypeOK
  <2>2. \A k \in 1..(Chunk - 1) : capacity + Chunk - k \in Slots
    BY <2>1 DEF Slots
  <2>3. freelist' \in Seq(Slots) /\ Len(freelist') = Chunk - 1
    <3>1. Chunk - 1 \in Nat
      OBVIOUS
    <3>2. QED
      BY <2>1, <2>2, <3>1
  <2>4. IsInjective(freelist')
    BY <2>1 DEF IsInjective
  <2>5. ASSUME NEW i \in Slots
        PROVE  i \in ToSet(freelist') <=> i < capacity + Chunk /\ i > capacity
    <3>1. ASSUME i \in ToSet(freelist') PROVE i < capacity + Chunk /\ i > capacity
      BY <2>1, <3>1 DEF ToSet
    <3>2. ASSUME i < capacity + Chunk, i > capacity PROVE i \in ToSet(freelist')
      <4>1. capacity + Chunk - i \in 1..(Chunk - 1) /\ i = capacity + Chunk - (capacity + Chunk - i)
        BY <2>1, <3>2 DEF Slots
      <4>2. QED
        BY <2>1, <4>1 DEF ToSet
    <3>3. QED
      BY <3>1, <3>2
  <2>6. ASSUME NEW i \in Slots PROVE state[i] # "Free" \/ i >= capacity
    <3>1. i \notin ToSet(freelist)
      BY <1>2 DEF ToSet
    <3>2. QED
      BY <2>1, <3>1 DEF Placed, Slots
  <2>7. Allocated \in Slots /\ state[Allocated] = "Free" /\ \A i \in Slots : i >= capacity => state[i] = "Free"
    BY <2>1 DEF Placed, Slots
  <2>8. QED
    BY <2>1, <2>3, <2>4, <2>5, <2>6, <2>7 DEF Slots
<1>3. QED
  BY <1>1, <1>2

\* release puts slots that are in no other place back on the freelist.
LEMMA ReleaseFrees ==
  ASSUME TypeOK, Placed, NEW s \in Seq(Slots), IsInjective(s),
         \A i \in ToSet(s) : state[i] # "Free", Release(s)
  PROVE  /\ state' \in [Slots -> {"Free", "Posted", "Completed", "Cancelled"}]
         /\ generation' \in [Slots -> Gens]
         /\ freelist' \in Seq(Slots) /\ IsInjective(freelist')
         /\ \A i \in Slots :
              /\ state'[i] = IF i \in ToSet(s) THEN "Free" ELSE state[i]
              /\ i \notin ToSet(s) => generation'[i] = generation[i]
              /\ i \in ToSet(freelist') <=> i < capacity /\ state'[i] = "Free"
<1>1. freelist \in Seq(Slots) /\ IsInjective(freelist) /\ ToSet(s) \in SUBSET Slots
  BY Elements DEF TypeOK, Placed
<1>2. ToSet(freelist) \cap ToSet(s) = {}
  BY <1>1 DEF Placed
<1>3. freelist' \in Seq(Slots) /\ IsInjective(freelist') /\ ToSet(freelist') = ToSet(freelist) \cup ToSet(s)
  BY <1>1, <1>2, ConcatElements DEF Release
<1>4. \A g \in Gens : (g + 1) % Generations \in Gens
  BY PortAssumption DEF Gens
<1>5. generation' \in [Slots -> Gens] /\ \A i \in Slots : i \notin ToSet(s) => generation'[i] = generation[i]
  BY <1>4 DEF Release, TypeOK
<1>6. /\ state' \in [Slots -> {"Free", "Posted", "Completed", "Cancelled"}]
      /\ \A i \in Slots : state'[i] = IF i \in ToSet(s) THEN "Free" ELSE state[i]
  BY DEF Release, TypeOK
<1>7. \A i \in Slots : i \in ToSet(s) => i < capacity
  BY <1>1 DEF Placed, TypeOK, Slots
<1>8. QED
  BY <1>3, <1>5, <1>6, <1>7 DEF Placed

\* No packet names a free slot.
LEMMA FreeIsAbsent ==
  ASSUME TypeOK, Matched, NEW i \in Slots, state[i] = "Free"
  PROVE  Absent(i)
BY WireType, PacketKinds, ElementOfSeq DEF Matched, Absent

\* in_flight, when a step puts no operation in flight and ends none.
LEMMA CountSame ==
  ASSUME Counted, inFlight' = inFlight, \A i \in Slots : InFlight(i)' <=> InFlight(i),
         phase' = "freed" => phase = "freed" /\ polling' = polling
  PROVE  Counted'
<1>1. {i \in Slots : InFlight(i)'} = {i \in Slots : InFlight(i)}
  OBVIOUS
<1>2. QED
  BY <1>1 DEF Counted

\* The slab is finite.
LEMMA FlightIsFinite == IsFiniteSet({i \in Slots : InFlight(i)})
<1>1. 0 \in Int /\ MaxSlots - 1 \in Int
  BY PortAssumption
<1>2. IsFiniteSet(Slots)
  BY <1>1, FS_Interval, Zenon DEF Slots
<1>3. {i \in Slots : InFlight(i)} \in SUBSET Slots
  OBVIOUS
<1>4. QED
  BY <1>2, <1>3, FS_Subset, Zenon

\* in_flight, when an operation is posted.
LEMMA CountUp ==
  ASSUME Counted, inFlight' = inFlight + 1, NEW a \in Slots, ~InFlight(a),
         \A i \in Slots : InFlight(i)' <=> InFlight(i) \/ i = a, phase' # "freed"
  PROVE  Counted'
<1> DEFINE F == {i \in Slots : InFlight(i)}
<1>1. IsFiniteSet(F)
  BY FlightIsFinite
<1>2. {i \in Slots : InFlight(i)'} = F \cup {a} /\ a \notin F
  OBVIOUS
<1>3. Cardinality(F \cup {a}) = Cardinality(F) + 1
  BY <1>1, <1>2, FS_AddElement
<1>4. QED
  BY <1>2, <1>3 DEF Counted

\* in_flight, when an operation is completed.
LEMMA CountDown ==
  ASSUME Counted, inFlight' = inFlight - 1, NEW a \in Slots, InFlight(a),
         \A i \in Slots : InFlight(i)' <=> InFlight(i) /\ i # a, phase' # "freed"
  PROVE  Counted'
<1> DEFINE F == {i \in Slots : InFlight(i)}
<1>1. IsFiniteSet(F)
  BY FlightIsFinite
<1>2. {i \in Slots : InFlight(i)'} = F \ {a} /\ a \in F
  OBVIOUS
<1>3. Cardinality(F \ {a}) = Cardinality(F) - 1
  BY <1>1, <1>2, FS_RemoveElement
<1>4. QED
  BY <1>2, <1>3 DEF Counted

-----------------------------------------------------------------------------
(* One lemma per operation.                                                *)

\* An operation that pends.
LEMMA PostPendsKeeps == IInv /\ PostPends => IInv'
<1> SUFFICES ASSUME IInv, PostPends PROVE IInv'
  OBVIOUS
<1> USE DEF IInv
<1> DEFINE a == Allocated
<1>1. /\ a \in Slots /\ state[a] = "Free" /\ a < capacity'
      /\ capacity' \in 0..MaxSlots /\ capacity <= capacity'
      /\ freelist' \in Seq(Slots) /\ IsInjective(freelist')
      /\ \A i \in Slots : i \in ToSet(freelist') <=> i < capacity' /\ state[i] = "Free" /\ i # a
  BY AllocatesFree DEF PostPends
<1>2. /\ state' = [state EXCEPT ![a] = "Posted"] /\ inline' = [inline EXCEPT ![a] = FALSE]
      /\ pending' = pending \cup {a} /\ inFlight' = inFlight + 1
      /\ UNCHANGED <<generation, untaken, held, sentinel, nextSentinel, port, entries, polling,
                     mark, dequeued, phase>>
      /\ ~polling /\ phase = "open"
  BY DEF PostPends, quarantine, poll, CanPost
<1> HIDE DEF a
<1>3. TypeOK'
  BY <1>1, <1>2 DEF TypeOK
<1>4. /\ Wire' = Wire /\ Absent(a)
      /\ \A i \in Slots : Absent(i)' <=> Absent(i)
  BY <1>1, <1>2, FreeIsAbsent DEF Wire, Absent
<1>5. \A i \in Slots : /\ state'[i] = IF i = a THEN "Posted" ELSE state[i]
                       /\ inline'[i] = IF i = a THEN FALSE ELSE inline[i]
  BY <1>1, <1>2 DEF TypeOK
<1>6. Placed'
  BY <1>1, <1>2, <1>5 DEF Placed, TypeOK, Slots
<1>7. Matched'
  <2>1. \A k \in 1..Len(Wire) : Wire[k].key = "op" => Wire[k].slot \in Slots /\ Wire[k].slot # a
    BY <1>4, WireType, PacketKinds, ElementOfSeq DEF Absent
  <2>2. QED
    BY <2>1, <1>2, <1>4, <1>5 DEF Matched
<1>8. \A i \in Slots : InFlight(i)' <=> InFlight(i) \/ i = a
  BY <1>5 DEF InFlight, InFlightStates
<1>9. Owed'
  <2>1. a \notin untaken
    BY <1>1 DEF Placed
  <2>2. QED
    BY <2>1, <1>2, <1>4, <1>5, <1>8 DEF Owed, Absent
<1>10. Covering' /\ Polled'
  BY <1>2, <1>4 DEF Covering, Polled
<1>11. Counted'
  <2>1. ~InFlight(a)
    BY <1>1 DEF InFlight, InFlightStates
  <2>2. QED
    BY <2>1, <1>1, <1>2, <1>8, CountUp
<1>12. QED
  BY <1>3, <1>6, <1>7, <1>9, <1>10, <1>11

\* cancel only marks an operation: it stays in flight.
LEMMA CancelKeeps ==
  ASSUME IInv, NEW i \in Slots, Cancel(i)
  PROVE  IInv'
<1> USE DEF IInv
<1>1. /\ state[i] = "Posted" /\ state' = [state EXCEPT ![i] = "Cancelled"]
      /\ UNCHANGED <<capacity, generation, inline, freelist, inFlight, untaken, held, sentinel,
                     nextSentinel, pending, port, entries, polling, mark, dequeued, phase>>
      /\ ~polling /\ phase = "open"
  BY DEF Cancel, quarantine, poll
<1>2. TypeOK'
  BY <1>1 DEF TypeOK
<1>3. \A j \in Slots : state'[j] = IF j = i THEN "Cancelled" ELSE state[j]
  BY <1>1 DEF TypeOK
<1>4. Wire' = Wire /\ \A j \in Slots : (Absent(j)' <=> Absent(j)) /\ (InFlight(j)' <=> InFlight(j))
  BY <1>1, <1>3 DEF Wire, Absent, InFlight, InFlightStates
<1>5. Placed'
  BY <1>1, <1>3 DEF Placed, TypeOK, Slots
<1>6. Matched'
  <2>1. \A k \in 1..Len(Wire) : Wire[k].key = "op" => Wire[k].slot \in Slots
    BY WireType, PacketKinds, ElementOfSeq
  <2>2. QED
    BY <2>1, <1>1, <1>3, <1>4 DEF Matched
<1>7. Owed' /\ Covering' /\ Polled'
  BY <1>1, <1>4 DEF Owed, Covering, Polled
<1>8. Counted'
  BY <1>1, <1>4, CountSame
<1>9. QED
  BY <1>2, <1>5, <1>6, <1>7, <1>8

\* The packet that may come although none was expected.
LEMMA StrayQueued ==
  ASSUME IInv, NEW a \in Slots, NEW stray \in BOOLEAN, entries' = entries,
         port' = IF stray THEN Append(port, OpPacket(a, generation[a])) ELSE port
  PROVE  /\ port' \in Seq(Packet) /\ Len(Wire) \in Nat /\ Len(Wire') \in {Len(Wire), Len(Wire) + 1}
         /\ \A k \in 1..Len(Wire) : Wire'[k] = Wire[k]
         /\ Wire'[Len(Wire) + 1] = OpPacket(a, generation[a]) \/ Len(Wire') = Len(Wire)
<1> DEFINE e == OpPacket(a, generation[a])
<1>1. e \in Packet
  BY PacketKinds DEF IInv, TypeOK
<1>2. port \in Seq(Packet) /\ TypeOK /\ Len(Wire) \in Nat
  BY WireType DEF IInv, TypeOK
<1>3. CASE stray
  BY <1>1, <1>2, <1>3, Queued
<1>4. CASE ~stray
  BY <1>2, <1>4 DEF Wire
<1>5. QED
  BY <1>3, <1>4

\* A slot whose operation ends at once, stray packet or not: every part of
\* the invariant but where the slot goes.
LEMMA EndsAtOnce ==
  ASSUME IInv, NEW stray \in BOOLEAN, CanPost, Allocate, NEW a, a = Allocated,
         state' = [state EXCEPT ![a] = "Completed"],
         inline' = [inline EXCEPT ![a] = TRUE],
         port' = IF stray THEN Append(port, OpPacket(a, generation[a])) ELSE port,
         held' \in {held, Append(held, a)},
         untaken' \in {untaken, untaken \cup {a}},
         a \in ToSet(held') \cup untaken',
         ~(a \in ToSet(held') /\ a \in untaken'),
         UNCHANGED <<generation, inFlight, sentinel, nextSentinel, pending, poll, phase>>
  PROVE  IInv'
<1> USE DEF IInv
<1>1. /\ a \in Slots /\ state[a] = "Free" /\ a < capacity'
      /\ capacity' \in 0..MaxSlots /\ capacity <= capacity'
      /\ freelist' \in Seq(Slots) /\ IsInjective(freelist')
      /\ \A i \in Slots : i \in ToSet(freelist') <=> i < capacity' /\ state[i] = "Free" /\ i # a
  BY AllocatesFree
<1>2. UNCHANGED <<entries, polling, mark, dequeued>> /\ ~polling /\ phase = "open"
  BY DEF poll, CanPost
<1>3. /\ port' \in Seq(Packet) /\ Len(Wire) \in Nat /\ Len(Wire') \in {Len(Wire), Len(Wire) + 1}
      /\ \A k \in 1..Len(Wire) : Wire'[k] = Wire[k]
      /\ Wire'[Len(Wire) + 1] = OpPacket(a, generation[a]) \/ Len(Wire') = Len(Wire)
  BY <1>1, <1>2, StrayQueued
<1>4. a \notin ToSet(held) /\ a \notin untaken
  BY <1>1 DEF Placed
<1>5. /\ held \in Seq(Slots) /\ IsInjective(held) /\ Len(held) \in Nat
      /\ held' \in Seq(Slots) /\ IsInjective(held') /\ Len(held) <= Len(held')
      /\ \A i \in Slots : i # a => (i \in ToSet(held') <=> i \in ToSet(held))
      /\ \A p \in 1..Len(held) : held'[p] = held[p]
  <2>1. held \in Seq(Slots) /\ IsInjective(held) /\ Len(held) \in Nat
    BY DEF TypeOK, Placed
  <2>2. CASE held' = held
    BY <2>1, <2>2
  <2>3. CASE held' = Append(held, a)
    BY <2>1, <2>3, <1>1, <1>4, AppendElements, AppendProperties
  <2>4. QED
    BY <2>1, <2>2, <2>3
<1>6. /\ untaken' \in SUBSET Slots
      /\ \A i \in Slots : i # a => (i \in untaken' <=> i \in untaken)
  BY <1>1 DEF TypeOK
<1>7. a \in ToSet(held') \cup untaken' /\ ~(a \in ToSet(held') /\ a \in untaken')
  OBVIOUS
<1>8. /\ TypeOK
      /\ \A i \in Slots : /\ state'[i] = IF i = a THEN "Completed" ELSE state[i]
                          /\ inline'[i] = IF i = a THEN TRUE ELSE inline[i]
  BY <1>1 DEF TypeOK
<1>9. TypeOK'
  BY <1>1, <1>2, <1>3, <1>5, <1>6 DEF TypeOK
<1>10. Absent(a)
  BY <1>1, FreeIsAbsent
<1>11. Placed'
  BY <1>1, <1>5, <1>6, <1>7, <1>8 DEF Placed, TypeOK, Slots
<1>12. \A k \in 1..Len(Wire) : Wire[k].key = "op" => Wire[k].slot \in Slots /\ Wire[k].slot # a
  BY <1>10, WireType, PacketKinds, ElementOfSeq DEF Absent
<1>13. /\ OpPacket(a, generation[a]).key = "op" /\ OpPacket(a, generation[a]).slot = a
       /\ OpPacket(a, generation[a]).generation = generation[a]
  BY <1>1, PacketKinds DEF TypeOK
<1>14. Matched'
  <2>1. generation' = generation
    OBVIOUS
  <2>2. ASSUME NEW k \in 1..Len(Wire'), Wire'[k].key = "op"
        PROVE  generation[Wire'[k].slot] = Wire'[k].generation /\ state'[Wire'[k].slot] # "Free"
    <3>1. CASE k \in 1..Len(Wire)
      BY <1>3, <1>8, <1>12, <2>2, <3>1 DEF Matched
    <3>2. CASE k \notin 1..Len(Wire)
      <4>1. Wire'[k] = OpPacket(a, generation[a])
        BY <1>3, <3>2
      <4>2. Wire'[k].slot = a /\ Wire'[k].generation = generation[a]
        BY <1>13, <4>1
      <4>3. state'[a] = "Completed"
        BY <1>1, <1>8
      <4>4. QED
        BY <4>2, <4>3
    <3>3. QED
      BY <3>1, <3>2
  <2>3. QED
    BY <2>1, <2>2 DEF Matched
<1>15. \A i \in Slots : InFlight(i)' <=> InFlight(i)
  BY <1>1, <1>8 DEF InFlight, InFlightStates
<1>16. \A i \in Slots : i # a => (Absent(i)' <=> Absent(i))
  BY <1>3, <1>13 DEF Absent
<1>17. Owed'
  <2>1. ~InFlight(a) /\ a \notin pending /\ inline'[a]
    BY <1>1, <1>8 DEF InFlight, InFlightStates, Owed
  <2>2. ASSUME NEW i \in Slots, i # a, InFlight(i),
               NEW j \in 1..Len(Wire'), NEW k \in 1..Len(Wire'), Wire'[j].slot = i, Wire'[k].slot = i
        PROVE  j = k
    <3>1. j \in 1..Len(Wire) /\ k \in 1..Len(Wire)
      BY <1>3, <1>13, <2>2
    <3>2. QED
      BY <1>3, <2>2, <3>1 DEF Owed
  <2>3. QED
    BY <2>1, <2>2, <1>6, <1>8, <1>15, <1>16 DEF Owed
<1>18. Covering'
  <2>1. sentinel' = sentinel /\ sentinel.covered \in Nat /\ sentinel.covered <= Len(held)
    BY DEF TypeOK, Covering
  <2>2. ASSUME NEW k \in 1..Len(Wire'), Wire'[k].key = "drain" PROVE k \in 1..Len(Wire) /\ Wire'[k] = Wire[k]
    BY <1>3, <1>13, <2>2
  <2>3. ASSUME NEW p \in 1..Len(held'), p <= sentinel.covered
        PROVE  p \in 1..Len(held) /\ held'[p] = held[p] /\ held[p] # a
    <3>1. p \in 1..Len(held) /\ held'[p] = held[p]
      BY <2>1, <2>3, <1>5
    <3>2. QED
      BY <3>1, <1>4, <1>5, Elements
  <2>4. ASSUME NEW k \in 1..Len(Wire'), Wire'[k].key = "drain",
               NEW j \in 1..Len(Wire'), NEW p \in 1..Len(held'), k < j, p <= sentinel.covered
        PROVE  Wire'[j].slot # held'[p]
    <3>1. CASE j \in 1..Len(Wire)
      BY <1>3, <2>2, <2>3, <2>4, <3>1 DEF Covering
    <3>2. CASE j \notin 1..Len(Wire)
      BY <1>3, <1>13, <2>3, <2>4, <3>2
    <3>3. QED
      BY <3>1, <3>2
  <2>5. QED
    BY <2>1, <2>2, <2>4, <1>3, <1>5 DEF Covering
<1>19. Polled'
  BY <1>2 DEF Polled
<1>20. Counted'
  BY <1>2, <1>15, CountSame
<1>21. QED
  BY <1>9, <1>11, <1>14, <1>17, <1>18, <1>19, <1>20

\* complete_inline and fail_post: the slot goes into the quarantine.
LEMMA PostEndsAtOnceKeeps ==
  ASSUME IInv, NEW stray \in BOOLEAN, PostEndsAtOnce(stray)
  PROVE  IInv'
<1>1. Allocated \in Slots /\ Allocated \notin untaken
  <2>1. Allocated \in Slots /\ state[Allocated] = "Free"
    BY AllocatesFree DEF PostEndsAtOnce, IInv
  <2>2. QED
    BY <2>1 DEF IInv, Placed
<1>2. held' = Append(held, Allocated) /\ untaken' = untaken
  BY DEF PostEndsAtOnce
<1>3. ToSet(held') = ToSet(held) \cup {Allocated}
  BY <1>1, <1>2, AppendElements DEF IInv, TypeOK
<1>4. QED
  BY <1>1, <1>2, <1>3, EndsAtOnce DEF PostEndsAtOnce

\* An accept or a recv-from whose result waits in its slot.
LEMMA PostEndsAtOnceUntakenKeeps ==
  ASSUME IInv, NEW stray \in BOOLEAN, PostEndsAtOnceUntaken(stray)
  PROVE  IInv'
<1>1. Allocated \in Slots /\ Allocated \notin ToSet(held)
  <2>1. Allocated \in Slots /\ state[Allocated] = "Free"
    BY AllocatesFree DEF PostEndsAtOnceUntaken, IInv
  <2>2. QED
    BY <2>1 DEF IInv, Placed
<1>2. held' = held /\ untaken' = untaken \cup {Allocated}
  BY DEF PostEndsAtOnceUntaken, quarantine
<1>3. QED
  BY <1>1, <1>2, EndsAtOnce DEF PostEndsAtOnceUntaken, quarantine

\* Slots of which no packet is left can be released.
LEMMA ReleaseKeepsMatched ==
  ASSUME TypeOK, Placed, Matched, NEW s \in Seq(Slots), IsInjective(s),
         \A i \in ToSet(s) : state[i] # "Free", Release(s),
         \A k \in 1..Len(Wire') : Wire'[k].key = "op" =>
           /\ Wire'[k].slot \in Slots /\ Wire'[k].slot \notin ToSet(s)
           /\ \E m \in 1..Len(Wire) : Wire[m] = Wire'[k]
  PROVE  Matched'
<1>1. \A i \in Slots : i \notin ToSet(s) => state'[i] = state[i] /\ generation'[i] = generation[i]
  BY ReleaseFrees
<1>2. ASSUME NEW k \in 1..Len(Wire'), Wire'[k].key = "op"
      PROVE  generation'[Wire'[k].slot] = Wire'[k].generation /\ state'[Wire'[k].slot] # "Free"
  <2>1. PICK m \in 1..Len(Wire) : Wire[m] = Wire'[k]
    BY <1>2
  <2>2. generation[Wire'[k].slot] = Wire'[k].generation /\ state[Wire'[k].slot] # "Free"
    BY <1>2, <2>1 DEF Matched
  <2>3. QED
    BY <1>1, <1>2, <2>2
<1>3. QED
  BY <1>2 DEF Matched

\* A sequence of one slot.
LEMMA JustOne ==
  ASSUME NEW i \in Slots
  PROVE  <<i>> \in Seq(Slots) /\ IsInjective(<<i>>) /\ ToSet(<<i>>) = {i}
BY DEF IsInjective, ToSet

\* What the wire says of slots, when it did not change.
LEMMA SameWire ==
  ASSUME UNCHANGED <<entries, port>>
  PROVE  Wire' = Wire /\ \A i \in Slots : Absent(i)' <=> Absent(i)
BY DEF Wire, Absent

\* take_accept_socket and take_recv_from_addr: retire.
LEMMA TakeKeeps ==
  ASSUME IInv, NEW i \in Slots, Take(i)
  PROVE  IInv'
<1> USE DEF IInv
<1>1. /\ i \in untaken /\ untaken' = untaken \ {i} /\ ~polling /\ phase = "open"
      /\ UNCHANGED <<capacity, inline, inFlight, sentinel, nextSentinel, pending, port, entries,
                     polling, mark, dequeued, phase>>
  BY DEF Take, poll
<1>2. Wire' = Wire /\ \A j \in Slots : Absent(j)' <=> Absent(j)
  BY <1>1, SameWire
<1>3. state[i] = "Completed" /\ i \notin ToSet(held) /\ i \notin ToSet(freelist)
  BY <1>1 DEF Placed
<1>4. Polled'
  BY <1>1 DEF Polled
<1>5. CASE inline[i] /\ held' = Append(held, i) /\ UNCHANGED <<state, generation, freelist>>
  <2>1. /\ held \in Seq(Slots) /\ IsInjective(held) /\ Len(held) \in Nat
        /\ held' \in Seq(Slots) /\ IsInjective(held') /\ Len(held') = Len(held) + 1
        /\ ToSet(held') = ToSet(held) \cup {i}
        /\ \A p \in 1..Len(held) : held'[p] = held[p]
    BY <1>3, <1>5, AppendElements, AppendProperties DEF TypeOK, Placed
  <2>2. TypeOK'
    BY <1>1, <1>5, <2>1 DEF TypeOK
  <2>3. Placed'
    BY <1>1, <1>3, <1>5, <2>1 DEF Placed
  <2>4. Matched' /\ \A j \in Slots : InFlight(j)' <=> InFlight(j)
    BY <1>2, <1>5 DEF Matched, InFlight
  <2>5. Owed'
    BY <1>1, <1>2, <2>4 DEF Owed
  <2>6. Covering'
    <3>1. sentinel.covered \in Nat /\ sentinel.covered <= Len(held)
      BY DEF TypeOK, Covering
    <3>2. ASSUME NEW p \in 1..Len(held'), p <= sentinel.covered
          PROVE  p \in 1..Len(held) /\ held'[p] = held[p]
      BY <2>1, <3>1, <3>2
    <3>3. sentinel' = sentinel /\ sentinel.covered <= Len(held')
      BY <1>1, <2>1, <3>1
    <3>4. QED
      BY <1>2, <3>2, <3>3 DEF Covering
  <2>7. Counted'
    BY <1>1, <2>4, CountSame
  <2>8. QED
    BY <1>4, <2>2, <2>3, <2>4, <2>5, <2>6, <2>7
<1>6. CASE ~inline[i] /\ Release(<<i>>) /\ UNCHANGED held
  <2>1. /\ <<i>> \in Seq(Slots) /\ IsInjective(<<i>>) /\ ToSet(<<i>>) = {i}
        /\ \A j \in ToSet(<<i>>) : state[j] # "Free"
    BY <1>3, JustOne
  <2>2. /\ state' \in [Slots -> {"Free", "Posted", "Completed", "Cancelled"}]
        /\ generation' \in [Slots -> Gens]
        /\ freelist' \in Seq(Slots) /\ IsInjective(freelist')
        /\ \A j \in Slots : /\ state'[j] = IF j = i THEN "Free" ELSE state[j]
                            /\ j \in ToSet(freelist') <=> j < capacity /\ state'[j] = "Free"
    BY <1>6, <2>1, ReleaseFrees
  <2>3. TypeOK'
    BY <1>1, <1>6, <2>2 DEF TypeOK
  <2>4. Placed'
    BY <1>1, <1>3, <1>6, <2>2 DEF Placed
  <2>5. Absent(i)
    BY <1>1, <1>6 DEF Owed
  <2>6. Matched'
    <3>1. \A k \in 1..Len(Wire) : Wire[k].key = "op" => Wire[k].slot \in Slots /\ Wire[k].slot # i
      BY <2>5, WireType, PacketKinds, ElementOfSeq DEF Absent
    <3>2. QED
      BY <1>2, <1>6, <2>1, <3>1, ReleaseKeepsMatched
  <2>7. \A j \in Slots : InFlight(j)' <=> InFlight(j)
    BY <1>3, <2>2 DEF InFlight, InFlightStates
  <2>8. Owed'
    BY <1>1, <1>2, <2>7 DEF Owed
  <2>9. Covering'
    BY <1>1, <1>2, <1>6 DEF Covering
  <2>10. Counted'
    BY <1>1, <2>7, CountSame
  <2>11. QED
    BY <1>4, <2>3, <2>4, <2>6, <2>8, <2>9, <2>10
<1>7. QED
  BY <1>5, <1>6 DEF Take

\* A packet that is of no slot, or of an operation in flight that the kernel
\* still had, is queued.
LEMMA QueuedKeeps ==
  ASSUME IInv, NEW e \in Packet, port' = Append(port, e),
         \/ e = OtherPacket /\ pending' = pending
         \/ \E i \in pending : e = OpPacket(i, generation[i]) /\ pending' = pending \ {i},
         UNCHANGED <<slab, untaken, quarantine, poll, phase>>
  PROVE  IInv'
<1> USE DEF IInv
<1>1. UNCHANGED <<capacity, state, generation, inline, freelist, inFlight, untaken, held, sentinel,
                  nextSentinel, entries, polling, mark, dequeued, phase>>
  BY DEF slab, quarantine, poll
<1>2. /\ Len(Wire) \in Nat /\ Len(Wire') = Len(Wire) + 1
      /\ \A k \in 1..Len(Wire) : Wire'[k] = Wire[k]
      /\ Wire'[Len(Wire) + 1] = e
  BY <1>1, Queued, WireType
<1>3. /\ e.key # "drain"
      /\ e.key = "op" => /\ e.slot \in pending /\ e.generation = generation[e.slot]
                         /\ pending' = pending \ {e.slot}
      /\ e.key # "op" => e.slot \notin Slots /\ pending' = pending
  <2>1. CASE e = OtherPacket /\ pending' = pending
    BY <2>1, PacketKinds
  <2>2. CASE \E i \in pending : e = OpPacket(i, generation[i]) /\ pending' = pending \ {i}
    BY <2>2, PacketKinds DEF TypeOK
  <2>3. QED
    BY <2>1, <2>2
<1>4. e.key = "op" => e.slot \in Slots /\ InFlight(e.slot) /\ Absent(e.slot)
  BY <1>3 DEF Owed, TypeOK
<1>5. TypeOK'
  <2>1. port' \in Seq(Packet) /\ pending' \in SUBSET Slots
    BY <1>3 DEF TypeOK
  <2>2. QED
    BY <1>1, <2>1 DEF TypeOK
<1>6. Placed' /\ \A i \in Slots : InFlight(i)' <=> InFlight(i)
  BY <1>1 DEF Placed, InFlight
<1>7. Matched'
  BY <1>1, <1>2, <1>3, <1>4 DEF Matched, InFlight, InFlightStates
<1>8. \A i \in Slots : Absent(i)' <=> Absent(i) /\ e.slot # i
  BY <1>2 DEF Absent
<1>9. Owed'
  <2>1. ASSUME NEW i \in Slots, InFlight(i), NEW j \in 1..Len(Wire'), NEW k \in 1..Len(Wire'),
               Wire'[j].slot = i, Wire'[k].slot = i
        PROVE  j = k
    <3>1. CASE e.slot = i
      <4>1. Absent(i)
        BY <1>3, <1>4, <3>1
      <4>2. j \notin 1..Len(Wire) /\ k \notin 1..Len(Wire)
        BY <1>2, <2>1, <4>1 DEF Absent
      <4>3. QED
        BY <1>2, <4>2
    <3>2. CASE e.slot # i
      BY <1>2, <2>1, <3>2 DEF Owed
    <3>3. QED
      BY <3>1, <3>2
  <2>2. ASSUME NEW i \in untaken PROVE e.slot # i
    <3>1. i \in Slots /\ ~InFlight(i)
      BY DEF TypeOK, Placed, InFlight, InFlightStates
    <3>2. QED
      BY <1>3, <1>4, <3>1
  <2>3. QED
    BY <2>1, <2>2, <1>1, <1>3, <1>6, <1>8 DEF Owed
<1>10. Covering'
  <2>1. ASSUME NEW k \in 1..Len(Wire'), Wire'[k].key = "drain"
        PROVE  k \in 1..Len(Wire) /\ Wire'[k] = Wire[k]
    BY <1>2, <1>3, <2>1
  <2>2. ASSUME NEW p \in 1..Len(held) PROVE e.slot # held[p]
    <3>1. held[p] \in Slots /\ state[held[p]] = "Completed"
      BY Elements DEF TypeOK, Placed
    <3>2. QED
      BY <1>3, <1>4, <3>1 DEF InFlight, InFlightStates
  <2>3. ASSUME NEW k \in 1..Len(Wire'), Wire'[k].key = "drain",
               NEW j \in 1..Len(Wire'), NEW p \in 1..Len(held), k < j, p <= sentinel.covered
        PROVE  Wire'[j].slot # held[p]
    <3>1. CASE j \in 1..Len(Wire)
      BY <1>2, <2>1, <2>3, <3>1 DEF Covering
    <3>2. CASE j \notin 1..Len(Wire)
      <4>1. j = Len(Wire) + 1
        BY <1>2, <3>2
      <4>2. QED
        BY <1>2, <2>2, <4>1
    <3>3. QED
      BY <3>1, <3>2
  <2>4. sentinel' = sentinel /\ held' = held
    BY <1>1
  <2>5. QED
    BY <2>1, <2>3, <2>4 DEF Covering
<1>11. Polled'
  <2>1. Len(port') = Len(port) + 1 /\ port'[Len(port) + 1] = e /\ \A k \in 1..Len(port) : port'[k] = port[k]
    BY AppendProperties DEF TypeOK
  <2>2. QED
    BY <1>1, <1>4, <2>1 DEF Polled, InFlight, TypeOK
<1>12. Counted'
  BY <1>1, <1>6, CountSame
<1>13. QED
  BY <1>5, <1>6, <1>7, <1>9, <1>10, <1>11, <1>12

\* The kernel completes an operation, or wakes the loop.
LEMMA KernelKeeps == IInv /\ Kernel => IInv'
<1> SUFFICES ASSUME IInv, Kernel PROVE IInv'
  OBVIOUS
<1>1. CASE OtherArrives
  BY <1>1, QueuedKeeps, PacketKinds DEF OtherArrives
<1>2. ASSUME NEW i \in Slots, KernelCompletes(i) PROVE IInv'
  <2>1. OpPacket(i, generation[i]) \in Packet
    BY PacketKinds DEF IInv, TypeOK
  <2>2. QED
    BY <1>2, <2>1, QueuedKeeps DEF KernelCompletes
<1>3. QED
  BY <1>1, <1>2 DEF Kernel

\* A batch is dequeued: a short one leaves the port empty.
LEMMA DequeueKeeps == IInv /\ Dequeue => IInv'
<1> SUFFICES ASSUME IInv, Dequeue PROVE IInv'
  OBVIOUS
<1> USE DEF IInv
<1>1. PICK n : /\ n = IF Len(port) < Batch THEN Len(port) ELSE Batch
               /\ dequeued' = n /\ entries' = SubSeq(port, 1, n)
               /\ port' = SubSeq(port, n + 1, Len(port))
  BY DEF Dequeue
<1>2. /\ mark' = Len(held) /\ polling' = TRUE /\ ~polling /\ phase \in {"open", "closing"}
      /\ UNCHANGED <<capacity, state, generation, inline, freelist, inFlight, untaken, held,
                     sentinel, nextSentinel, pending, phase>>
  BY DEF Dequeue, slab, quarantine, Open
<1>3. n \in 0..Len(port) /\ n \in Nat /\ (n < Batch => n = Len(port))
  BY <1>1, PortAssumption DEF TypeOK
<1>4. /\ Wire' = Wire /\ entries' \in Seq(Packet) /\ port' \in Seq(Packet)
      /\ n = Len(port) => port' = <<>>
  BY <1>1, <1>2, <1>3, Moved DEF Polled
<1>5. TypeOK'
  <2>1. mark' \in Nat /\ dequeued' \in Nat /\ polling' \in BOOLEAN
    BY <1>1, <1>2, <1>3 DEF TypeOK
  <2>2. QED
    BY <1>2, <1>4, <2>1 DEF TypeOK
<1>6. \A i \in Slots : (Absent(i)' <=> Absent(i)) /\ (InFlight(i)' <=> InFlight(i))
  BY <1>2, <1>4 DEF Absent, InFlight
<1>7. Placed' /\ Matched' /\ Covering'
  BY <1>2, <1>4 DEF Placed, Matched, Covering
<1>8. Owed'
  BY <1>2, <1>4, <1>6 DEF Owed
<1>9. Polled'
  <2>1. Len(held) \in Nat /\ Len(held') <= mark'
    BY <1>2 DEF TypeOK
  <2>2. dequeued' < Batch => Len(port') = 0
    BY <1>1, <1>3, <1>4
  <2>3. QED
    BY <1>2, <2>1, <2>2 DEF Polled
<1>10. Counted'
  BY <1>2, <1>6, CountSame
<1>11. QED
  BY <1>5, <1>7, <1>8, <1>9, <1>10

\* What the rest of the wire says once its first packet is translated.
LEMMA TailOfWire ==
  ASSUME IInv, entries # <<>>, entries' = Tail(entries), port' = port
  PROVE  /\ Head(entries) = Wire[1] /\ Head(entries) \in Packet /\ Len(Wire) \in Nat \ {0}
         /\ Len(Wire') = Len(Wire) - 1 /\ entries' \in Seq(Packet)
         /\ \A k \in 1..Len(Wire') : k + 1 \in 1..Len(Wire) /\ Wire'[k] = Wire[k + 1]
         /\ \A i \in Slots : Absent(i) => Absent(i)'
         /\ \A i \in Slots : Absent(i)' /\ Head(entries).slot # i => Absent(i)
         /\ \A i \in Slots : InFlight(i) => \A j, k \in 1..Len(Wire') :
              Wire'[j].slot = i /\ Wire'[k].slot = i => j = k
<1> USE DEF IInv
<1>1. /\ Wire' \in Seq(Packet) /\ Len(Wire) \in Nat \ {0} /\ Len(Wire') = Len(Wire) - 1
      /\ Wire[1] = Head(entries)
      /\ \A k \in 1..Len(Wire') : Wire'[k] = Wire[k + 1]
  BY Translated
<1>2. \A k \in 1..Len(Wire') : k + 1 \in 1..Len(Wire)
  BY <1>1
<1>3. Head(entries) \in Packet /\ entries' \in Seq(Packet)
  BY HeadTailProperties DEF TypeOK
<1>4. \A i \in Slots : Absent(i) => Absent(i)'
  BY <1>1, <1>2 DEF Absent
<1>5. ASSUME NEW i \in Slots, Absent(i)', Head(entries).slot # i PROVE Absent(i)
  <2> SUFFICES ASSUME NEW k \in 1..Len(Wire), Wire[k].slot = i PROVE FALSE
    BY DEF Absent
  <2>1. k # 1
    BY <1>1, <1>5
  <2>2. k - 1 \in 1..Len(Wire') /\ (k - 1) + 1 = k
    BY <1>1, <2>1
  <2>3. QED
    BY <1>1, <1>5, <2>2 DEF Absent
<1>6. ASSUME NEW i \in Slots, InFlight(i), NEW j \in 1..Len(Wire'), NEW k \in 1..Len(Wire'),
             Wire'[j].slot = i, Wire'[k].slot = i
      PROVE  j = k
  <2>1. j + 1 = k + 1
    BY <1>1, <1>2, <1>6 DEF Owed
  <2>2. QED
    BY <1>1, <2>1
<1>7. QED
  BY <1>1, <1>2, <1>3, <1>4, <1>5, <1>6

\* The sentinel and the slots it covers, while packets ahead are translated.
LEMMA TailKeepsCovering ==
  ASSUME IInv, entries # <<>>, entries' = Tail(entries), port' = port,
         UNCHANGED <<held, sentinel>>
  PROVE  Covering'
<1>1. /\ Len(Wire) \in Nat \ {0} /\ Len(Wire') = Len(Wire) - 1
      /\ \A k \in 1..Len(Wire') : k + 1 \in 1..Len(Wire) /\ Wire'[k] = Wire[k + 1]
  BY TailOfWire
<1>2. ASSUME NEW j \in 1..Len(Wire'), NEW k \in 1..Len(Wire'),
             Wire'[j].key = "drain", Wire'[k].key = "drain"
      PROVE  j = k
  <2>1. j + 1 = k + 1
    BY <1>1, <1>2 DEF IInv, Covering
  <2>2. QED
    BY <1>1, <2>1
<1>3. ASSUME NEW k \in 1..Len(Wire'), Wire'[k].key = "drain"
      PROVE  /\ sentinel # NoSentinel /\ Wire'[k].generation = sentinel.generation
             /\ \A j \in 1..Len(Wire'), p \in 1..Len(held) :
                  k < j /\ p <= sentinel.covered => Wire'[j].slot # held[p]
  <2>1. sentinel # NoSentinel /\ Wire'[k].generation = sentinel.generation
    BY <1>1, <1>3 DEF IInv, Covering
  <2>2. ASSUME NEW j \in 1..Len(Wire'), NEW p \in 1..Len(held), k < j, p <= sentinel.covered
        PROVE  Wire'[j].slot # held[p]
    <3>1. k + 1 < j + 1
      BY <1>1, <2>2
    <3>2. /\ k + 1 \in 1..Len(Wire) /\ j + 1 \in 1..Len(Wire)
          /\ Wire[k + 1].key = "drain" /\ Wire'[j] = Wire[j + 1]
      BY <1>1, <1>3
    <3>3. QED
      BY <2>2, <3>1, <3>2 DEF IInv, Covering
  <2>3. QED
    BY <2>1, <2>2
<1>4. QED
  BY <1>2, <1>3 DEF IInv, Covering

\* A packet that completes nothing.
LEMMA TranslateDropsKeeps == IInv /\ TranslateDrops => IInv'
<1> SUFFICES ASSUME IInv, TranslateDrops PROVE IInv'
  OBVIOUS
<1> USE DEF IInv
<1>1. /\ polling /\ entries # <<>> /\ entries' = Tail(entries) /\ port' = port
      /\ \/ Head(entries).key = "other"
         \/ Head(entries).key = "op" /\ ~InFlight(Head(entries).slot)
      /\ UNCHANGED <<capacity, state, generation, inline, freelist, inFlight, untaken, held,
                     sentinel, nextSentinel, pending, polling, mark, dequeued, phase>>
  BY DEF TranslateDrops, slab, quarantine, InFlight
<1>2. /\ Head(entries) = Wire[1] /\ Head(entries) \in Packet /\ entries' \in Seq(Packet)
      /\ \A k \in 1..Len(Wire') : k + 1 \in 1..Len(Wire) /\ Wire'[k] = Wire[k + 1]
      /\ \A i \in Slots : Absent(i) => Absent(i)'
      /\ \A i \in Slots : Absent(i)' /\ Head(entries).slot # i => Absent(i)
      /\ \A i \in Slots : InFlight(i) => \A j, k \in 1..Len(Wire') :
           Wire'[j].slot = i /\ Wire'[k].slot = i => j = k
  BY <1>1, TailOfWire
<1>3. TypeOK'
  BY <1>1, <1>2 DEF TypeOK
<1>4. Placed' /\ Matched' /\ \A i \in Slots : InFlight(i)' <=> InFlight(i)
  BY <1>1, <1>2 DEF Placed, Matched, InFlight
<1>5. \A i \in Slots : InFlight(i) => Head(entries).slot # i
  BY <1>1, <1>2, PacketKinds
<1>6. Owed'
  BY <1>1, <1>2, <1>4, <1>5 DEF Owed
<1>7. Covering'
  BY <1>1, TailKeepsCovering
<1>8. Polled'
  BY <1>1 DEF Polled, InFlight
<1>9. Counted'
  BY <1>1, <1>4, CountSame
<1>10. QED
  BY <1>3, <1>4, <1>6, <1>7, <1>8, <1>9

\* The one packet of an operation in flight completes it.
LEMMA TranslateCompletesKeeps ==
  ASSUME IInv, NEW keeps \in BOOLEAN, TranslateCompletes(keeps)
  PROVE  IInv'
<1> USE DEF IInv
<1>. PICK i : i = Head(entries).slot
  OBVIOUS
<1>1. /\ polling /\ entries # <<>> /\ entries' = Tail(entries) /\ port' = port
      /\ Head(entries).key = "op" /\ InFlight(i) /\ inFlight' = inFlight - 1
      /\ UNCHANGED <<capacity, inline, held, sentinel, nextSentinel, pending, polling, mark,
                     dequeued, phase>>
  BY DEF TranslateCompletes, quarantine, InFlight
<1>2. \/ /\ state' = [state EXCEPT ![i] = "Completed"] /\ untaken' = untaken \cup {i}
         /\ UNCHANGED <<generation, freelist>>
      \/ Release(<<i>>) /\ UNCHANGED untaken
  BY DEF TranslateCompletes
<1>3. /\ Head(entries) = Wire[1] /\ Head(entries) \in Packet /\ entries' \in Seq(Packet)
      /\ Len(Wire) \in Nat \ {0}
      /\ \A k \in 1..Len(Wire') : k + 1 \in 1..Len(Wire) /\ Wire'[k] = Wire[k + 1]
      /\ \A j \in Slots : Absent(j) => Absent(j)'
      /\ \A j \in Slots : Absent(j)' /\ Head(entries).slot # j => Absent(j)
      /\ \A j \in Slots : InFlight(j) => \A m, k \in 1..Len(Wire') :
           Wire'[m].slot = j /\ Wire'[k].slot = j => m = k
  BY <1>1, TailOfWire
<1>4. i \in Slots /\ 1 \in 1..Len(Wire) /\ Wire[1].slot = i
  BY <1>1, <1>3, PacketKinds
<1>5. i \notin pending /\ i \notin untaken /\ i \notin ToSet(held) /\ state[i] # "Free" /\ i < capacity
  BY <1>1, <1>4 DEF Owed, Absent, Placed, InFlight, InFlightStates, TypeOK, Slots
<1>6. \A k \in 1..Len(Wire) : k # 1 => Wire[k].slot # i
  BY <1>1, <1>4 DEF Owed
<1>7. Absent(i)'
  <2> SUFFICES ASSUME NEW k \in 1..Len(Wire'), Wire'[k].slot = i PROVE FALSE
    BY DEF Absent
  <2>1. k + 1 # 1
    BY <1>3
  <2>2. QED
    BY <1>3, <1>6, <2>1
<1>8. \A k \in 1..Len(port) : port[k].slot # i
  <2> SUFFICES ASSUME NEW k \in 1..Len(port) PROVE port[k].slot # i
    OBVIOUS
  <2>1. entries \in Seq(Packet) /\ port \in Seq(Packet) /\ Len(entries) \in Nat \ {0}
    BY <1>1, EmptySeq DEF TypeOK
  <2>2. /\ Len(entries) + k \in 1..Len(Wire) /\ Len(entries) + k # 1
        /\ ~(Len(entries) + k <= Len(entries)) /\ (Len(entries) + k) - Len(entries) = k
    BY <2>1, WireType
  <2>3. Wire[Len(entries) + k] = port[k]
    BY <2>2, WireType
  <2>4. QED
    BY <1>6, <2>2, <2>3
<1>9. \A k \in 1..Len(Wire') : Wire'[k].key = "op" => Wire'[k].slot \in Slots /\ Wire'[k].slot # i
  BY <1>3, <1>7, WireType, PacketKinds, ElementOfSeq DEF Absent
<1>10. /\ \A j \in Slots : j # i => state'[j] = state[j]
       /\ ~InFlight(i)' /\ TypeOK' /\ Placed' /\ Matched'
       /\ \A j \in Slots : j \in untaken' => j \in untaken \/ j = i
  <2>1. CASE /\ state' = [state EXCEPT ![i] = "Completed"] /\ untaken' = untaken \cup {i}
             /\ UNCHANGED <<generation, freelist>>
    <3>1. \A j \in Slots : state'[j] = IF j = i THEN "Completed" ELSE state[j]
      BY <2>1, <1>4 DEF TypeOK
    <3>2. ~InFlight(i)'
      BY <3>1, <1>4 DEF InFlight, InFlightStates
    <3>3. TypeOK'
      <4>1. state' \in [Slots -> {"Free", "Posted", "Completed", "Cancelled"}] /\ untaken' \in SUBSET Slots
        BY <2>1, <1>4 DEF TypeOK
      <4>2. inFlight' \in Int
        BY <1>1 DEF TypeOK
      <4>3. QED
        BY <2>1, <1>1, <1>3, <4>1, <4>2 DEF TypeOK
    <3>4. Placed'
      BY <2>1, <1>1, <1>4, <1>5, <3>1 DEF Placed
    <3>5. Matched'
      BY <2>1, <1>3, <1>9, <3>1 DEF Matched
    <3>6. QED
      BY <2>1, <3>1, <3>2, <3>3, <3>4, <3>5
  <2>2. CASE Release(<<i>>) /\ UNCHANGED untaken
    <3>1. /\ <<i>> \in Seq(Slots) /\ IsInjective(<<i>>) /\ ToSet(<<i>>) = {i}
          /\ \A j \in ToSet(<<i>>) : state[j] # "Free"
      BY <1>4, <1>5, JustOne
    <3>2. /\ state' \in [Slots -> {"Free", "Posted", "Completed", "Cancelled"}]
          /\ generation' \in [Slots -> Gens]
          /\ freelist' \in Seq(Slots) /\ IsInjective(freelist')
          /\ \A j \in Slots : /\ state'[j] = IF j = i THEN "Free" ELSE state[j]
                              /\ j \in ToSet(freelist') <=> j < capacity /\ state'[j] = "Free"
      BY <2>2, <3>1, ReleaseFrees
    <3>3. ~InFlight(i)'
      BY <3>2, <1>4 DEF InFlight, InFlightStates
    <3>4. TypeOK'
      <4>1. inFlight' \in Int
        BY <1>1 DEF TypeOK
      <4>2. QED
        BY <2>2, <1>1, <1>3, <3>2, <4>1 DEF TypeOK
    <3>5. Placed'
      BY <2>2, <1>1, <1>4, <1>5, <3>2 DEF Placed
    <3>6. Matched'
      <4>1. \A k \in 1..Len(Wire') : \E m \in 1..Len(Wire) : Wire[m] = Wire'[k]
        BY <1>3
      <4>2. QED
        BY <2>2, <1>9, <3>1, <4>1, ReleaseKeepsMatched
    <3>7. QED
      BY <2>2, <3>2, <3>3, <3>4, <3>5, <3>6
  <2>3. QED
    BY <1>2, <2>1, <2>2
<1>11. \A j \in Slots : InFlight(j)' <=> InFlight(j) /\ j # i
  BY <1>10 DEF InFlight
<1>12. Owed'
  BY <1>1, <1>3, <1>5, <1>7, <1>10, <1>11 DEF Owed
<1>13. Covering'
  BY <1>1, TailKeepsCovering
<1>14. Polled'
  <2>1. ASSUME NEW k \in 1..Len(port), port[k].key = "op", InFlight(port[k].slot)
        PROVE  InFlight(port[k].slot)'
    <3>1. port[k].slot \in Slots
      BY <2>1, PacketKinds DEF TypeOK
    <3>2. state'[port[k].slot] = state[port[k].slot]
      BY <1>8, <1>10, <3>1
    <3>3. QED
      BY <1>1, <2>1, <3>2 DEF InFlight
  <2>2. QED
    BY <1>1, <2>1 DEF Polled
<1>15. Counted'
  <2>1. phase' # "freed"
    BY <1>1 DEF Counted
  <2>2. QED
    BY <1>1, <1>4, <1>11, <2>1, CountDown
<1>16. QED
  BY <1>10, <1>12, <1>13, <1>14, <1>15

\* The quarantine releases its oldest slots, if no packet of them is left.
LEMMA LetGoKeeps ==
  ASSUME IInv, NEW n \in 0..Len(held), LetGo(n), UNCHANGED <<capacity, untaken>>,
         \A k \in 1..Len(Wire') : Wire'[k].key = "op" =>
           /\ Wire'[k].slot \in Slots /\ \E m \in 1..Len(Wire) : Wire[m] = Wire'[k]
           /\ \A p \in 1..n : Wire'[k].slot # held[p]
  PROVE  /\ state' \in [Slots -> {"Free", "Posted", "Completed", "Cancelled"}]
         /\ generation' \in [Slots -> Gens] /\ freelist' \in Seq(Slots)
         /\ held' \in Seq(Slots) /\ Len(held) \in Nat /\ Len(held') = Len(held) - n
         /\ \A p \in 1..Len(held') : held'[p] = held[p + n]
         /\ \A i \in Slots : InFlight(i)' <=> InFlight(i)
         /\ Placed' /\ Matched'
<1> USE DEF IInv
<1> DEFINE s == SubSeq(held, 1, n)
<1>1. held \in Seq(Slots) /\ IsInjective(held) /\ Len(held) \in Nat
  BY DEF TypeOK, Placed
<1>2. /\ s \in Seq(Slots) /\ held' \in Seq(Slots) /\ IsInjective(s) /\ IsInjective(held')
      /\ Len(s) = n /\ Len(held') = Len(held) - n
      /\ \A k \in 1..n : s[k] = held[k]
      /\ \A k \in 1..Len(held') : held'[k] = held[k + n]
      /\ ToSet(s) \cap ToSet(held') = {} /\ ToSet(s) \cup ToSet(held') = ToSet(held)
  BY <1>1, CutElements DEF LetGo
<1>3. Release(s)
  BY DEF LetGo
<1> HIDE DEF s
<1>4. \A i \in ToSet(s) : i \in Slots /\ state[i] = "Completed"
  BY <1>2, Elements DEF Placed
<1>5. /\ state' \in [Slots -> {"Free", "Posted", "Completed", "Cancelled"}]
      /\ generation' \in [Slots -> Gens]
      /\ freelist' \in Seq(Slots) /\ IsInjective(freelist')
      /\ \A i \in Slots : /\ state'[i] = IF i \in ToSet(s) THEN "Free" ELSE state[i]
                          /\ i \in ToSet(freelist') <=> i < capacity /\ state'[i] = "Free"
  BY <1>2, <1>3, <1>4, ReleaseFrees
<1>6. \A i \in Slots : InFlight(i)' <=> InFlight(i)
  BY <1>4, <1>5 DEF InFlight, InFlightStates
<1>7. Placed'
  BY <1>2, <1>4, <1>5 DEF Placed
<1>8. ASSUME NEW k \in 1..Len(Wire'), Wire'[k].key = "op" PROVE Wire'[k].slot \notin ToSet(s)
  <2> SUFFICES ASSUME Wire'[k].slot \in ToSet(s) PROVE FALSE
    OBVIOUS
  <2>1. PICK p \in 1..n : s[p] = Wire'[k].slot
    BY <1>2, Elements
  <2>2. QED
    BY <1>2, <1>8, <2>1
<1>9. Matched'
  BY <1>2, <1>3, <1>4, <1>8, ReleaseKeepsMatched
<1>10. QED
  BY <1>1, <1>2, <1>5, <1>6, <1>7, <1>9

\* The sentinel proves that the packets of the slots it covers are gone.
LEMMA TranslateSentinelKeeps == IInv /\ TranslateSentinel => IInv'
<1> SUFFICES ASSUME IInv, TranslateSentinel PROVE IInv'
  OBVIOUS
<1> USE DEF IInv
<1>1. /\ polling /\ entries # <<>> /\ entries' = Tail(entries) /\ port' = port
      /\ Head(entries).key = "drain"
      /\ UNCHANGED <<capacity, inline, inFlight, untaken, nextSentinel, pending, polling, mark,
                     dequeued, phase>>
  BY DEF TranslateSentinel
<1>2. /\ Head(entries) = Wire[1] /\ Head(entries) \in Packet /\ entries' \in Seq(Packet)
      /\ Len(Wire) \in Nat \ {0} /\ Len(Wire') = Len(Wire) - 1
      /\ \A k \in 1..Len(Wire') : k + 1 \in 1..Len(Wire) /\ Wire'[k] = Wire[k + 1]
      /\ \A i \in Slots : Absent(i) => Absent(i)'
      /\ \A i \in Slots : Absent(i)' /\ Head(entries).slot # i => Absent(i)
      /\ \A i \in Slots : InFlight(i) => \A j, k \in 1..Len(Wire') :
           Wire'[j].slot = i /\ Wire'[k].slot = i => j = k
  BY <1>1, TailOfWire
<1>3. 1 \in 1..Len(Wire) /\ Wire[1].key = "drain"
  BY <1>1, <1>2
<1>4. sentinel # NoSentinel /\ sentinel.generation = Head(entries).generation
  BY <1>2, <1>3 DEF Covering
<1>. PICK n : n = sentinel.covered
  OBVIOUS
<1>5. n \in 0..Len(held) /\ n = AtMost(sentinel.covered, held)
  BY DEF Covering, TypeOK, AtMost
<1>6. LetGo(n) /\ sentinel' = NoSentinel
  BY <1>4, <1>5 DEF TranslateSentinel
<1>7. ASSUME NEW k \in 1..Len(Wire'), Wire'[k].key = "op"
      PROVE  /\ Wire'[k].slot \in Slots /\ \E m \in 1..Len(Wire) : Wire[m] = Wire'[k]
             /\ \A p \in 1..n : Wire'[k].slot # held[p]
  <2>1. k + 1 \in 1..Len(Wire) /\ Wire'[k] = Wire[k + 1] /\ 1 < k + 1
    BY <1>2
  <2>2. Wire[k + 1] \in Packet /\ Wire[k + 1].slot \in Slots
    BY <1>7, <2>1, WireType, PacketKinds, ElementOfSeq
  <2>3. ASSUME NEW p \in 1..n PROVE Wire[k + 1].slot # held[p]
    <3>1. p \in 1..Len(held) /\ p <= sentinel.covered
      BY <1>5 DEF TypeOK
    <3>2. QED
      BY <1>3, <2>1, <3>1 DEF Covering
  <2>4. QED
    BY <2>1, <2>2, <2>3
<1>8. /\ state' \in [Slots -> {"Free", "Posted", "Completed", "Cancelled"}]
      /\ generation' \in [Slots -> Gens] /\ freelist' \in Seq(Slots)
      /\ held' \in Seq(Slots) /\ Len(held) \in Nat /\ Len(held') = Len(held) - n
      /\ \A i \in Slots : InFlight(i)' <=> InFlight(i)
      /\ Placed' /\ Matched'
  BY <1>1, <1>5, <1>6, <1>7, LetGoKeeps
<1>9. TypeOK'
  <2>1. sentinel' \in [generation : Gens \cup {-1}, covered : Nat]
    BY <1>6 DEF NoSentinel
  <2>2. QED
    BY <1>1, <1>2, <1>8, <2>1 DEF TypeOK
<1>10. \A i \in Slots : Head(entries).slot # i
  BY <1>1, <1>2, PacketKinds
<1>11. Owed'
  BY <1>1, <1>2, <1>8, <1>10 DEF Owed
<1>12. Covering'
  <2>1. \A k \in 1..Len(Wire') : Wire'[k].key # "drain"
    <3> SUFFICES ASSUME NEW k \in 1..Len(Wire'), Wire'[k].key = "drain" PROVE FALSE
      OBVIOUS
    <3>1. k + 1 = 1
      BY <1>2, <1>3 DEF Covering
    <3>2. QED
      BY <3>1, <1>2
  <2>2. sentinel'.covered = 0 /\ 0 <= Len(held')
    BY <1>6, <1>8, <1>5 DEF NoSentinel
  <2>3. QED
    BY <2>1, <2>2 DEF Covering
<1>13. Polled'
  <2>1. Len(held') <= mark'
    BY <1>1, <1>5, <1>8 DEF Polled, TypeOK
  <2>2. ASSUME NEW k \in 1..Len(port), port[k].key = "op", InFlight(port[k].slot)
        PROVE  InFlight(port[k].slot)'
    <3>1. port[k].slot \in Slots
      BY <2>2, PacketKinds DEF TypeOK
    <3>2. PICK i \in Slots : i = port[k].slot
      BY <3>1
    <3>3. InFlight(i)'
      BY <1>8, <2>2, <3>2
    <3>4. QED
      BY <1>1, <3>2, <3>3 DEF InFlight
  <2>3. QED
    BY <1>1, <2>1, <2>2 DEF Polled
<1>14. Counted'
  BY <1>1, <1>8, CountSame
<1>15. QED
  BY <1>8, <1>9, <1>11, <1>12, <1>13, <1>14

\* The end of a poll whose batch was short: the whole quarantine goes.
LEMMA ShortPollKeeps ==
  ASSUME IInv, NEW posted \in BOOLEAN, EndPoll(posted), dequeued < Batch
  PROVE  IInv'
<1> USE DEF IInv
<1>. PICK n : n = Len(held)
  OBVIOUS
<1>1. Len(held) \in Nat /\ mark \in Nat /\ n \in 0..Len(held) /\ sentinel.covered \in 0..n
  BY DEF TypeOK, Covering
<1>2. /\ polling /\ entries = <<>> /\ entries' = entries /\ phase = "open" /\ polling' = FALSE
      /\ mark' = 0 /\ dequeued' = 0
      /\ UNCHANGED <<capacity, inline, inFlight, untaken, pending, phase>>
  BY DEF EndPoll
<1>3. DrainedCount = n /\ ~SentinelWanted
  <2>1. Len(held) <= mark
    BY <1>2 DEF Polled
  <2>2. AtMost(mark, held) = n
    BY <1>1, <2>1 DEF AtMost
  <2>3. ~(dequeued >= Batch)
    BY PortAssumption DEF TypeOK
  <2>4. QED
    BY <2>2, <2>3 DEF DrainedCount, SentinelWanted
<1>4. LetGo(n) /\ sentinel' = CoveredLeft /\ UNCHANGED <<nextSentinel, port>>
  BY <1>3 DEF EndPoll
<1>5. Wire' = Wire /\ \A i \in Slots : Absent(i)' <=> Absent(i)
  BY <1>2, <1>4, SameWire
<1>6. Wire = port
  BY <1>2, ConcatEmptySeq DEF Wire, TypeOK
<1>7. ASSUME NEW k \in 1..Len(Wire'), Wire'[k].key = "op"
      PROVE  /\ Wire'[k].slot \in Slots /\ \E m \in 1..Len(Wire) : Wire[m] = Wire'[k]
             /\ \A p \in 1..n : Wire'[k].slot # held[p]
  <2>1. Wire[k] \in Packet /\ Wire[k].slot \in Slots
    BY <1>5, <1>7, WireType, PacketKinds, ElementOfSeq
  <2>2. InFlight(Wire[k].slot)
    BY <1>2, <1>5, <1>6, <1>7 DEF Polled
  <2>3. ASSUME NEW p \in 1..n PROVE Wire[k].slot # held[p]
    <3>1. held[p] \in Slots /\ state[held[p]] = "Completed"
      BY Elements DEF TypeOK, Placed
    <3>2. QED
      BY <2>2, <3>1 DEF InFlight, InFlightStates
  <2>4. QED
    BY <1>5, <2>1, <2>3
<1>8. /\ state' \in [Slots -> {"Free", "Posted", "Completed", "Cancelled"}]
      /\ generation' \in [Slots -> Gens] /\ freelist' \in Seq(Slots)
      /\ held' \in Seq(Slots) /\ Len(held') = Len(held) - n
      /\ \A i \in Slots : InFlight(i)' <=> InFlight(i)
      /\ Placed' /\ Matched'
  BY <1>1, <1>2, <1>4, <1>7, LetGoKeeps
<1>9. /\ sentinel' \in [generation : Gens \cup {-1}, covered : Nat]
      /\ sentinel'.generation = sentinel.generation /\ sentinel'.covered = 0
  <2>1. CASE sentinel = NoSentinel
    BY <1>4, <2>1 DEF CoveredLeft, NoSentinel
  <2>2. CASE sentinel # NoSentinel
    <3>1. sentinel' = [sentinel EXCEPT !.covered = IF @ < n THEN 0 ELSE @ - n]
      BY <1>3, <1>4, <2>2 DEF CoveredLeft
    <3>2. (IF sentinel.covered < n THEN 0 ELSE sentinel.covered - n) = 0
      BY <1>1
    <3>3. sentinel' = [sentinel EXCEPT !.covered = 0]
      BY <3>1, <3>2
    <3>4. QED
      BY <3>3 DEF TypeOK
  <2>3. QED
    BY <2>1, <2>2
<1>10. TypeOK'
  BY <1>2, <1>4, <1>8, <1>9 DEF TypeOK
<1>11. Owed'
  BY <1>2, <1>5, <1>8 DEF Owed
<1>12. Covering'
  <2>1. ASSUME NEW k \in 1..Len(Wire), Wire[k].key = "drain"
        PROVE  sentinel' # NoSentinel /\ Wire[k].generation = sentinel'.generation
    <3>1. Wire[k].generation = sentinel.generation /\ Wire[k].generation \in Gens
      BY <2>1, WireType, PacketKinds, ElementOfSeq DEF Covering
    <3>2. QED
      BY <1>9, <3>1 DEF NoSentinel, Gens
  <2>2. Len(held') = 0
    BY <1>1, <1>8
  <2>3. QED
    BY <1>5, <1>9, <2>1, <2>2 DEF Covering
<1>13. Polled'
  BY <1>2 DEF Polled
<1>14. Counted'
  BY <1>2, <1>8, CountSame
<1>15. QED
  BY <1>8, <1>10, <1>11, <1>12, <1>13, <1>14

\* The end of a poll whose batch was full: nothing is released, a sentinel
\* may be posted behind all packets.
LEMMA FullPollKeeps ==
  ASSUME IInv, NEW posted \in BOOLEAN, EndPoll(posted), ~(dequeued < Batch)
  PROVE  IInv'
<1> USE DEF IInv
<1>1. Len(held) \in Nat /\ sentinel.covered \in 0..Len(held) /\ held \in Seq(Slots)
  BY DEF TypeOK, Covering
<1>2. /\ polling /\ entries = <<>> /\ entries' = entries /\ phase = "open" /\ polling' = FALSE
      /\ mark' = 0 /\ dequeued' = 0
      /\ UNCHANGED <<capacity, inline, inFlight, untaken, pending, phase>>
  BY DEF EndPoll
<1>3. DrainedCount = 0
  BY DEF DrainedCount
<1>4. LetGo(0) /\ 0 \in 0..Len(held)
  BY <1>1, <1>3 DEF EndPoll
<1>5. held' = held
  BY <1>1, <1>4, SubSeqFull DEF LetGo
<1>6. /\ nextSentinel' \in Gens
      /\ sentinel' \in [generation : Gens \cup {-1}, covered : Nat]
      /\ \/ /\ sentinel = NoSentinel /\ port' = Append(port, DrainPacket(nextSentinel'))
            /\ sentinel' = [generation |-> nextSentinel', covered |-> Len(held)]
         \/ sentinel' = sentinel /\ port' = port
  <2>1. CASE SentinelWanted
    <3>1. nextSentinel' = (nextSentinel + 1) % Generations
      BY <2>1 DEF EndPoll
    <3>2. nextSentinel' \in Gens
      BY <3>1, PortAssumption DEF TypeOK, Gens
    <3>3. sentinel = NoSentinel
      BY <2>1 DEF SentinelWanted
    <3>4. CASE posted
      BY <1>1, <2>1, <3>2, <3>3, <3>4 DEF EndPoll
    <3>5. CASE ~posted
      BY <2>1, <3>2, <3>5 DEF EndPoll, TypeOK
    <3>6. QED
      BY <3>4, <3>5
  <2>2. CASE ~SentinelWanted
    <3>1. sentinel' = CoveredLeft /\ UNCHANGED <<nextSentinel, port>>
      BY <2>2 DEF EndPoll
    <3>2. CoveredLeft = sentinel
      BY <1>1, <1>3 DEF CoveredLeft, TypeOK
    <3>3. QED
      BY <3>1, <3>2 DEF TypeOK
  <2>3. QED
    BY <2>1, <2>2
<1>7. /\ Len(Wire) \in Nat /\ port' \in Seq(Packet)
      /\ \A k \in 1..Len(Wire) : Wire'[k] = Wire[k]
      /\ \/ /\ sentinel = NoSentinel /\ Len(Wire') = Len(Wire) + 1
            /\ sentinel' = [generation |-> nextSentinel', covered |-> Len(held)]
            /\ Wire'[Len(Wire) + 1].key = "drain" /\ Wire'[Len(Wire) + 1].slot \notin Slots
            /\ Wire'[Len(Wire) + 1].generation = nextSentinel'
         \/ sentinel' = sentinel /\ Len(Wire') = Len(Wire)
  <2>1. Len(Wire) \in Nat
    BY WireType
  <2>2. CASE /\ sentinel = NoSentinel /\ port' = Append(port, DrainPacket(nextSentinel'))
             /\ sentinel' = [generation |-> nextSentinel', covered |-> Len(held)]
    <3>. PICK e : e = DrainPacket(nextSentinel')
      OBVIOUS
    <3>1. /\ e \in Packet /\ e.key = "drain" /\ e.slot \notin Slots /\ e.generation = nextSentinel'
      BY <1>6, PacketKinds
    <3>2. /\ Len(Wire') = Len(Wire) + 1 /\ \A k \in 1..Len(Wire) : Wire'[k] = Wire[k]
          /\ Wire'[Len(Wire) + 1] = e
      BY <1>2, <2>2, <3>1, Queued
    <3>3. port' \in Seq(Packet)
      BY <2>2, <3>1 DEF TypeOK
    <3>4. QED
      BY <2>1, <2>2, <3>1, <3>2, <3>3
  <2>3. CASE sentinel' = sentinel /\ port' = port
    BY <1>2, <2>1, <2>3, SameWire DEF TypeOK
  <2>4. QED
    BY <1>6, <2>2, <2>3
<1>8. ASSUME NEW k \in 1..Len(Wire'), Wire'[k].key = "op"
      PROVE  k \in 1..Len(Wire) /\ Wire[k] = Wire'[k] /\ Wire'[k].slot \in Slots
  <2>1. k \in 1..Len(Wire) /\ Wire[k] = Wire'[k]
    BY <1>7, <1>8
  <2>2. QED
    BY <1>8, <2>1, WireType, PacketKinds, ElementOfSeq
<1>9. /\ state' \in [Slots -> {"Free", "Posted", "Completed", "Cancelled"}]
      /\ generation' \in [Slots -> Gens] /\ freelist' \in Seq(Slots)
      /\ \A i \in Slots : InFlight(i)' <=> InFlight(i)
      /\ Placed' /\ Matched'
  BY <1>2, <1>4, <1>8, LetGoKeeps
<1>10. TypeOK'
  BY <1>1, <1>2, <1>5, <1>6, <1>7, <1>9 DEF TypeOK
<1>11. \A i \in Slots : /\ Absent(i)' <=> Absent(i)
                        /\ \A k \in 1..Len(Wire') : Wire'[k].slot = i => k \in 1..Len(Wire)
  BY <1>7 DEF Absent
<1>12. Owed'
  <2>1. ASSUME NEW i \in Slots, InFlight(i), NEW j \in 1..Len(Wire'), NEW k \in 1..Len(Wire'),
               Wire'[j].slot = i, Wire'[k].slot = i
        PROVE  j = k
    BY <1>7, <1>11, <2>1 DEF Owed
  <2>2. QED
    BY <2>1, <1>2, <1>9, <1>11 DEF Owed
<1>13. Covering'
  <2>1. CASE sentinel' = sentinel /\ Len(Wire') = Len(Wire)
    BY <1>5, <1>7, <2>1 DEF Covering
  <2>2. CASE /\ sentinel = NoSentinel /\ Len(Wire') = Len(Wire) + 1
             /\ sentinel' = [generation |-> nextSentinel', covered |-> Len(held)]
             /\ Wire'[Len(Wire) + 1].generation = nextSentinel'
    <3>1. ASSUME NEW k \in 1..Len(Wire'), Wire'[k].key = "drain" PROVE k = Len(Wire')
      <4>1. k \notin 1..Len(Wire)
        BY <1>7, <2>2, <3>1 DEF Covering
      <4>2. QED
        BY <1>7, <2>2, <4>1
    <3>2. sentinel' # NoSentinel
      BY <1>6, <2>2 DEF NoSentinel, Gens
    <3>3. sentinel'.generation = nextSentinel' /\ sentinel'.covered <= Len(held)
      BY <1>1, <2>2
    <3>4. QED
      BY <1>5, <1>7, <2>2, <3>1, <3>2, <3>3 DEF Covering
  <2>3. QED
    BY <1>7, <2>1, <2>2
<1>14. Polled'
  BY <1>2 DEF Polled
<1>15. Counted'
  BY <1>2, <1>9, CountSame
<1>16. QED
  BY <1>9, <1>10, <1>12, <1>13, <1>14, <1>15

\* Teardown: quiesce and Drop.
LEMMA TeardownKeeps == IInv /\ (Close \/ EndReap \/ Drop) => IInv'
<1> SUFFICES ASSUME IInv, Close \/ EndReap \/ Drop PROVE IInv'
  OBVIOUS
<1> USE DEF IInv
<1>1. /\ UNCHANGED <<capacity, state, generation, inline, freelist, inFlight, untaken, held,
                     sentinel, nextSentinel, pending, port, entries>>
      /\ phase' = "freed" => inFlight = 0 /\ ~polling'
      /\ polling' = FALSE /\ entries = <<>>
      /\ mark' \in Nat /\ dequeued' \in Nat /\ phase' \in {"open", "closing", "freed", "leaked"}
  BY DEF Close, EndReap, Drop, slab, quarantine, poll, Polled, TypeOK
<1>2. TypeOK'
  BY <1>1 DEF TypeOK
<1>3. Wire' = Wire /\ \A i \in Slots : (Absent(i)' <=> Absent(i)) /\ (InFlight(i)' <=> InFlight(i))
  BY <1>1, SameWire DEF InFlight
<1>4. Placed' /\ Matched' /\ Covering' /\ Polled'
  BY <1>1, <1>3 DEF Placed, Matched, Covering, Polled
<1>5. Owed'
  BY <1>1, <1>3 DEF Owed
<1>6. Counted'
  <2>1. {i \in Slots : InFlight(i)'} = {i \in Slots : InFlight(i)}
    BY <1>3
  <2>2. QED
    BY <1>1, <2>1 DEF Counted
<1>7. QED
  BY <1>2, <1>4, <1>5, <1>6

-----------------------------------------------------------------------------
(* The theorems.                                                           *)

\* A new backend has an empty slab.
LEMMA InitIInv == Init => IInv
<1> SUFFICES ASSUME Init PROVE IInv
  OBVIOUS
<1> USE DEF Init
<1>1. Wire = <<>>
  BY DEF Wire
<1>2. TypeOK
  <2>1. 0 \in Gens /\ capacity \in 0..MaxSlots
    BY PortAssumption DEF Gens
  <2>2. /\ state \in [Slots -> {"Free", "Posted", "Completed", "Cancelled"}]
        /\ generation \in [Slots -> Gens] /\ inline \in [Slots -> BOOLEAN]
    BY <2>1
  <2>3. sentinel \in [generation : Gens \cup {-1}, covered : Nat]
    BY DEF NoSentinel
  <2>4. freelist \in Seq(Slots) /\ held \in Seq(Slots) /\ port \in Seq(Packet) /\ entries \in Seq(Packet)
    BY EmptySeq
  <2>5. /\ inFlight \in Int /\ nextSentinel \in Gens /\ mark \in Nat /\ dequeued \in Nat
        /\ phase \in {"open", "closing", "freed", "leaked"}
    BY <2>1
  <2>6. untaken \in SUBSET Slots /\ pending \in SUBSET Slots /\ polling \in BOOLEAN
    OBVIOUS
  <2> HIDE DEF Init
  <2>7. QED
    BY <2>1, <2>2, <2>3, <2>4, <2>5, <2>6 DEF TypeOK
<1>3. Placed
  BY DEF Placed, IsInjective, ToSet, Slots
<1>4. Matched /\ Covering /\ Polled
  BY <1>1 DEF Matched, Covering, Polled, NoSentinel
<1>5. \A i \in Slots : ~InFlight(i)
  BY DEF InFlight, InFlightStates
<1>6. Owed
  BY <1>1, <1>5 DEF Owed, Absent
<1>7. Counted
  <2>1. {i \in Slots : InFlight(i)} = {}
    BY <1>5
  <2>2. QED
    BY <2>1, FS_EmptySet DEF Counted
<1>8. QED
  BY <1>2, <1>3, <1>4, <1>6, <1>7 DEF IInv

\* Every step keeps the invariant.
LEMMA StepIInv == IInv /\ [Next]_vars => IInv'
<1> SUFFICES ASSUME IInv, [Next]_vars PROVE IInv'
  OBVIOUS
<1>1. CASE UNCHANGED vars
  <2>1. UNCHANGED <<capacity, state, generation, inline, freelist, inFlight, untaken, held, sentinel,
                    nextSentinel, pending, port, entries, polling, mark, dequeued, phase>>
    BY <1>1 DEF vars, slab, quarantine, poll
  <2>2. TypeOK' /\ Placed' /\ Polled'
    BY <2>1 DEF IInv, TypeOK, Placed, Polled, InFlight
  <2>3. /\ Wire' = Wire
        /\ \A i \in Slots : (Absent(i)' <=> Absent(i)) /\ (InFlight(i)' <=> InFlight(i))
    BY <2>1, SameWire DEF InFlight
  <2>4. Matched' /\ Covering' /\ Owed'
    BY <2>1, <2>3 DEF IInv, Matched, Covering, Owed
  <2>5. Counted'
    BY <2>1, <2>3, CountSame DEF IInv
  <2>6. QED
    BY <2>2, <2>4, <2>5 DEF IInv
<1>2. CASE Client
  BY <1>2, PostPendsKeeps, PostEndsAtOnceKeeps, PostEndsAtOnceUntakenKeeps, TakeKeeps, CancelKeeps,
     TeardownKeeps DEF Client
<1>3. CASE Kernel
  BY <1>3, KernelKeeps
<1>4. CASE Dequeue \/ Translate
  BY <1>4, DequeueKeeps, TranslateDropsKeeps, TranslateCompletesKeeps, TranslateSentinelKeeps
  DEF Translate
<1>5. CASE EndReap \/ Drop
  BY <1>5, TeardownKeeps
<1>6. ASSUME NEW posted \in BOOLEAN, EndPoll(posted) PROVE IInv'
  BY <1>6, ShortPollKeeps, FullPollKeeps
<1>7. QED
  BY <1>1, <1>2, <1>3, <1>4, <1>5, <1>6 DEF Next

\* The invariant holds throughout.
LEMMA Invariance == Spec => []IInv
BY InitIInv, StepIInv, PTL DEF Spec

\* What the wire says of the packets on the port.
LEMMA OnTheWire ==
  ASSUME TypeOK
  PROVE  \A e : e \in OnPort <=> \E k \in 1..Len(Wire) : Wire[k] = e
<1>1. entries \in Seq(Packet) /\ port \in Seq(Packet) /\ Wire \in Seq(Packet)
  BY WireType DEF TypeOK
<1>2. ToSet(Wire) = ToSet(entries) \cup ToSet(port)
  BY <1>1, ConcatElements DEF Wire
<1>3. QED
  BY <1>1, <1>2, Elements DEF OnPort

\* opslab.rs, iocp_util.rs and the Drop of iocp.rs: for every size of the
\* slab and of the batch, and however soon generations wrap, no packet meets
\* a recycled slot, no slot is leaked or handed out twice, and no memory that
\* the kernel owns is freed.
THEOREM SlabIsSound == Spec => []SlabSound
<1>1. IInv => SlabSound
  <2> SUFFICES ASSUME IInv PROVE SlabSound
    OBVIOUS
  <2> USE DEF IInv
  <2>1. PacketsKeepTheirSlot
    BY OnTheWire DEF PacketsKeepTheirSlot, Matched
  <2>2. SlotsAccounted
    <3>1. freelist \in Seq(Slots) /\ held \in Seq(Slots) /\ untaken \in SUBSET Slots
      BY DEF TypeOK
    <3>2. NoneTwice(freelist) /\ NoneTwice(held)
      BY <3>1, InjectiveIsNoneTwice DEF Placed
    <3>3. ToSet(freelist) \in SUBSET Slots /\ ToSet(held) \in SUBSET Slots
      BY <3>1, Elements
    <3>4. QED
      BY <3>1, <3>2, <3>3 DEF SlotsAccounted, Placed
  <2>3. FreedIsQuiet
    <3> SUFFICES ASSUME phase = "freed" PROVE pending = {}
      BY DEF FreedIsQuiet
    <3>1. Cardinality({i \in Slots : InFlight(i)}) = 0
      BY DEF Counted
    <3>2. {i \in Slots : InFlight(i)} = {}
      BY <3>1, FlightIsFinite, FS_EmptySet
    <3>3. QED
      BY <3>2 DEF Owed, TypeOK
  <2>4. QED
    BY <2>1, <2>2, <2>3 DEF SlabSound
<1>2. QED
  BY <1>1, Invariance, PTL

\* iocp.rs, cancel and translate_entry: the kernel owns only slots in flight,
\* and every operation in flight, cancelled or not, is owed one packet.
THEOREM OwedExactlyOne == Spec => []InFlightIsOwedOnePacket
<1>1. IInv => InFlightIsOwedOnePacket
  <2> SUFFICES ASSUME IInv, NEW i \in Slots
               PROVE  /\ i \in pending => InFlight(i) /\ \A e \in OnPort : e.slot # i
                      /\ InFlight(i) /\ i \notin pending =>
                           Cardinality({k \in 1..Len(Wire) : Wire[k].slot = i}) = 1
    BY DEF InFlightIsOwedOnePacket, Wire, InFlight
  <2> USE DEF IInv
  <2>1. ASSUME i \in pending PROVE InFlight(i) /\ \A e \in OnPort : e.slot # i
    BY <2>1, OnTheWire DEF Owed, Absent
  <2>2. ASSUME InFlight(i), i \notin pending
        PROVE  Cardinality({k \in 1..Len(Wire) : Wire[k].slot = i}) = 1
    <3>1. PICK k \in 1..Len(Wire) : Wire[k].slot = i
      BY <2>2 DEF Owed, Absent
    <3>2. {j \in 1..Len(Wire) : Wire[j].slot = i} = {k}
      BY <2>2, <3>1 DEF Owed
    <3>3. QED
      BY <3>2, FS_Singleton
  <2>3. QED
    BY <2>1, <2>2
<1>2. QED
  BY <1>1, Invariance, PTL

=============================================================================
