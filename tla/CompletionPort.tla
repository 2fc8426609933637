--------------------------- MODULE CompletionPort ---------------------------
(***************************************************************************)
(* The life of an overlapped operation on Windows: the pinned operation    *)
(* slab (crates/core/src/opslab.rs), the completion port, and the          *)
(* quarantine (backend/iocp_util.rs) that keeps a slot which ended without *)
(* a packet off the freelist until the port proves that no stray packet of *)
(* it is left; driven by the posts, the poll and the teardown of           *)
(* backend/iocp.rs.                                                        *)
(*                                                                         *)
(* A packet carries a pointer to a slot, not an operation: whatever the    *)
(* slot holds when the packet is translated is what it completes.  The     *)
(* generation in the packets of this model is a ghost; translate_entry     *)
(* never looks at it.                                                      *)
(***************************************************************************)
EXTENDS Integers, Sequences, FiniteSets, SequencesExt

CONSTANTS
  Chunk,        \* CHUNK: slots the slab grows by
  MaxSlots,     \* bound on its growth
  Generations,  \* generation counters wrap here (2^32 in the code)
  Batch,        \* POLL_BATCH
  MaxOther      \* bound on the packets of other kinds waiting on the port

ASSUME PortAssumption ==
  /\ Chunk \in Nat \ {0} /\ MaxSlots \in Nat /\ Generations \in Nat \ {0}
  /\ Batch \in Nat \ {0} /\ MaxOther \in Nat

Slots == 0..(MaxSlots - 1)
Gens == 0..(Generations - 1)
NoSlot == -1

VARIABLES
  capacity,      \* OpSlab.chunks.len() * CHUNK
  state,         \* OpSlot.state
  generation,    \* OpSlot.generation
  inline,        \* IocpOp.inline: the op ended without a port completion
  freelist,      \* OpSlab.freelist, a stack
  inFlight,      \* OpSlab.in_flight
  untaken,       \* Completed slots whose payload is still to be taken
  held,          \* Quarantine.held, oldest first
  sentinel,      \* Quarantine.sentinel, or NoSentinel
  nextSentinel,  \* Quarantine.next_sentinel
  pending,       \* kernel: slots of operations it has not completed
  port,          \* kernel: the completion port, first in first out
  entries,       \* dequeued packets, not translated yet
  polling,       \* between the dequeue and the end of a poll
  mark,          \* Quarantine.mark() taken before the dequeue
  dequeued,      \* how many packets the dequeue returned
  phase          \* "open", "closing" (quiesce), "freed" or "leaked"

slab == <<capacity, state, generation, inline, freelist, inFlight>>
quarantine == <<held, sentinel, nextSentinel>>
poll == <<entries, polling, mark, dequeued>>
vars == <<slab, untaken, quarantine, pending, port, poll, phase>>

InFlightStates == {"Posted", "Cancelled"}
NoSentinel == [generation |-> -1, covered |-> 0]

OpPacket(i, g) == [key |-> "op", slot |-> i, generation |-> g]
DrainPacket(g) == [key |-> "drain", slot |-> NoSlot, generation |-> g]

\* A wakeup, a park timer, or a packet whose pointer contains_data_ptr does
\* not know: dropped, but it takes a place in the batch.
OtherPacket == [key |-> "other", slot |-> NoSlot, generation |-> 0]

Packet == [key : {"op"}, slot : Slots, generation : Gens]
            \cup [key : {"drain"}, slot : {NoSlot}, generation : Gens] \cup {OtherPacket}

TypeOK ==
  /\ capacity \in 0..MaxSlots
  /\ state \in [Slots -> {"Free", "Posted", "Completed", "Cancelled"}]
  /\ generation \in [Slots -> Gens]
  /\ inline \in [Slots -> BOOLEAN]
  /\ freelist \in Seq(Slots)
  /\ inFlight \in Int
  /\ untaken \in SUBSET Slots
  /\ held \in Seq(Slots)
  /\ sentinel \in [generation : Gens \cup {-1}, covered : Nat]
  /\ nextSentinel \in Gens
  /\ pending \in SUBSET Slots
  /\ port \in Seq(Packet) /\ entries \in Seq(Packet)
  /\ polling \in BOOLEAN /\ mark \in Nat /\ dequeued \in Nat
  /\ phase \in {"open", "closing", "freed", "leaked"}

Init ==
  /\ capacity = 0
  /\ state = [i \in Slots |-> "Free"]
  /\ generation = [i \in Slots |-> 0]
  /\ inline = [i \in Slots |-> FALSE]
  /\ freelist = <<>>
  /\ inFlight = 0
  /\ untaken = {}
  /\ held = <<>> /\ sentinel = NoSentinel /\ nextSentinel = 0
  /\ pending = {}
  /\ port = <<>> /\ entries = <<>>
  /\ polling = FALSE /\ mark = 0 /\ dequeued = 0
  /\ phase = "open"

-----------------------------------------------------------------------------
(* The slab.                                                               *)

CanPost ==
  /\ phase = "open" /\ ~polling
  /\ freelist # <<>> \/ capacity + Chunk <= MaxSlots

\* post: the slot on top of the freelist, or the first of a new chunk, whose
\* slots go onto the freelist highest first (grow).
Allocated == IF freelist # <<>> THEN freelist[Len(freelist)] ELSE capacity
Allocate ==
  IF freelist # <<>>
  THEN /\ freelist' = SubSeq(freelist, 1, Len(freelist) - 1)
       /\ UNCHANGED capacity
  ELSE /\ freelist' = [k \in 1..(Chunk - 1) |-> capacity + Chunk - k]
       /\ capacity' = capacity + Chunk

\* release, for each of the (Completed) slots: the only way back to Free.
Release(slots) ==
  /\ state' = [i \in Slots |-> IF i \in ToSet(slots) THEN "Free" ELSE state[i]]
  /\ generation' = [i \in Slots |-> IF i \in ToSet(slots)
                                    THEN (generation[i] + 1) % Generations ELSE generation[i]]
  /\ freelist' = freelist \o slots

-----------------------------------------------------------------------------
(* Posts, cancellation and collection, by the transport layer.             *)

\* The operation pends (or its packet is on its way although the call
\* succeeded at once: skip modes are off for the socket).
PostPends ==
  /\ CanPost
  /\ LET i == Allocated IN
       /\ state' = [state EXCEPT ![i] = "Posted"]
       /\ inline' = [inline EXCEPT ![i] = FALSE]
       /\ pending' = pending \cup {i}
  /\ Allocate
  /\ inFlight' = inFlight + 1
  /\ UNCHANGED <<generation, untaken, quarantine, port, poll, phase>>

\* The call succeeded or failed at once, with no packet expected -- yet the
\* kernel may have queued one: complete_inline and fail_post retire the slot
\* into the quarantine.
PostEndsAtOnce(stray) ==
  /\ CanPost
  /\ LET i == Allocated IN
       /\ state' = [state EXCEPT ![i] = "Completed"]
       /\ inline' = [inline EXCEPT ![i] = TRUE]
       /\ held' = Append(held, i)
       /\ port' = IF stray THEN Append(port, OpPacket(i, generation[i])) ELSE port
  /\ Allocate
  /\ UNCHANGED <<generation, inFlight, untaken, sentinel, nextSentinel, pending, poll, phase>>

\* An accept or a recv-from that succeeded at once keeps its slot until the
\* socket or the address has been taken.
PostEndsAtOnceUntaken(stray) ==
  /\ CanPost
  /\ LET i == Allocated IN
       /\ state' = [state EXCEPT ![i] = "Completed"]
       /\ inline' = [inline EXCEPT ![i] = TRUE]
       /\ untaken' = untaken \cup {i}
       /\ port' = IF stray THEN Append(port, OpPacket(i, generation[i])) ELSE port
  /\ Allocate
  /\ UNCHANGED <<generation, inFlight, quarantine, pending, poll, phase>>

\* Mutant: a taken slot is recycled, inline or not.
Mut_TakeReleases(i) ==
  /\ phase = "open" /\ ~polling
  /\ i \in untaken
  /\ untaken' = untaken \ {i}
  /\ Release(<<i>>)
  /\ UNCHANGED <<capacity, inline, inFlight, quarantine, pending, port, poll, phase>>

\* take_accept_socket, take_recv_from_addr: retire.
Take(i) ==
  /\ phase = "open" /\ ~polling
  /\ i \in untaken
  /\ untaken' = untaken \ {i}
  /\ \/ inline[i] /\ held' = Append(held, i) /\ UNCHANGED <<state, generation, freelist>>
     \/ ~inline[i] /\ Release(<<i>>) /\ UNCHANGED held
  /\ UNCHANGED <<capacity, inline, inFlight, sentinel, nextSentinel, pending, port, poll, phase>>

\* Mutant: cancelling completes the slot although the kernel still has it.
Mut_CancelCompletes(i) ==
  /\ phase = "open" /\ ~polling
  /\ state[i] = "Posted"
  /\ state' = [state EXCEPT ![i] = "Completed"]
  /\ inFlight' = inFlight - 1
  /\ untaken' = untaken \cup {i}
  /\ UNCHANGED <<capacity, generation, inline, freelist, quarantine, pending, port, poll, phase>>

\* cancel: mark_cancelled, then CancelIoEx.  The kernel completes the
\* operation all the same, if it has not done so already.
Cancel(i) ==
  /\ phase = "open" /\ ~polling
  /\ state[i] = "Posted"
  /\ state' = [state EXCEPT ![i] = "Cancelled"]
  /\ UNCHANGED <<capacity, generation, inline, freelist, inFlight, untaken, quarantine, pending,
                 port, poll, phase>>

-----------------------------------------------------------------------------
(* The kernel.                                                             *)

Open == phase \in {"open", "closing"}

\* A pending operation ends, cancelled or not: its packet is queued.
KernelCompletes(i) ==
  /\ Open
  /\ i \in pending
  /\ pending' = pending \ {i}
  /\ port' = Append(port, OpPacket(i, generation[i]))
  /\ UNCHANGED <<slab, untaken, quarantine, poll, phase>>

OtherArrives ==
  /\ Open
  /\ Cardinality({k \in 1..Len(port) : port[k] = OtherPacket}) < MaxOther
  /\ port' = Append(port, OtherPacket)
  /\ UNCHANGED <<slab, untaken, quarantine, pending, poll, phase>>

-----------------------------------------------------------------------------
(* The poll: poll_precise, and quiesce once the backend is dropped.        *)

\* GetQueuedCompletionStatusEx: all the packets there are, up to a batch.
Dequeue ==
  /\ Open /\ ~polling
  /\ phase = "closing" => inFlight > 0
  /\ LET n == IF Len(port) < Batch THEN Len(port) ELSE Batch IN
       /\ dequeued' = n
       /\ entries' = SubSeq(port, 1, n)
       /\ port' = SubSeq(port, n + 1, Len(port))
  /\ mark' = Len(held)
  /\ polling' = TRUE
  /\ UNCHANGED <<slab, untaken, quarantine, pending, phase>>

\* translate_entry of a packet that is none of an operation in flight: other
\* kinds, foreign pointers, and strays of slots that already ended.
TranslateDrops ==
  /\ polling /\ entries # <<>>
  /\ LET e == Head(entries) IN
       \/ e.key = "other"
       \/ e.key = "op" /\ state[e.slot] \notin InFlightStates
  /\ entries' = Tail(entries)
  /\ UNCHANGED <<slab, untaken, quarantine, pending, port, polling, mark, dequeued, phase>>

\* translate_entry of an operation in flight: complete, then release -- or,
\* for an accept or recv-from that succeeded, keep the slot to be taken.
TranslateCompletes(keeps) ==
  /\ polling /\ entries # <<>>
  /\ LET e == Head(entries) IN
       /\ e.key = "op" /\ state[e.slot] \in InFlightStates
       /\ \/ keeps /\ state' = [state EXCEPT ![e.slot] = "Completed"]
                   /\ untaken' = untaken \cup {e.slot}
                   /\ UNCHANGED <<generation, freelist>>
          \/ ~keeps /\ Release(<<e.slot>>) /\ UNCHANGED untaken
  /\ inFlight' = inFlight - 1
  /\ entries' = Tail(entries)
  /\ UNCHANGED <<capacity, inline, quarantine, pending, port, polling, mark, dequeued, phase>>

AtMost(n, s) == IF n < Len(s) THEN n ELSE Len(s)

\* The quarantine lets go of its n oldest slots.
LetGo(n) ==
  /\ Release(SubSeq(held, 1, n))
  /\ held' = SubSeq(held, n + 1, Len(held))

\* sentinel_arrived: the slots it covers have no packet left.
TranslateSentinel ==
  /\ polling /\ entries # <<>>
  /\ LET e == Head(entries)
         known == sentinel # NoSentinel /\ sentinel.generation = e.generation
     IN  /\ e.key = "drain"
         /\ LetGo(IF known THEN AtMost(sentinel.covered, held) ELSE 0)
         /\ sentinel' = IF known THEN NoSentinel ELSE sentinel
  /\ entries' = Tail(entries)
  /\ UNCHANGED <<capacity, inline, inFlight, untaken, nextSentinel, pending, port, polling, mark,
                 dequeued, phase>>

\* Quarantine::drained: a dequeue short of a full batch emptied the port.
DrainedCount == IF dequeued < Batch THEN AtMost(mark, held) ELSE 0

\* The sentinel covers that many fewer of the slots still held.
CoveredLeft ==
  IF sentinel = NoSentinel THEN sentinel
  ELSE [sentinel EXCEPT !.covered = IF @ < DrainedCount THEN 0 ELSE @ - DrainedCount]

\* Mutant: no sentinel is ever wanted.
Mut_NoSentinel == FALSE

\* sentinel_wanted: a full batch proves nothing.
SentinelWanted == dequeued >= Batch /\ sentinel = NoSentinel /\ held # <<>>

\* port_drained, at the end of a poll; the sentinel's post may fail.
EndPoll(posted) ==
  /\ phase = "open" /\ polling /\ entries = <<>>
  /\ polling' = FALSE
  /\ LetGo(DrainedCount)
  /\ IF SentinelWanted
     THEN /\ nextSentinel' = (nextSentinel + 1) % Generations
          /\ port' = IF posted THEN Append(port, DrainPacket(nextSentinel')) ELSE port
          /\ sentinel' = IF posted THEN [generation |-> nextSentinel', covered |-> Len(held)]
                         ELSE sentinel
     ELSE /\ sentinel' = CoveredLeft
          /\ UNCHANGED <<nextSentinel, port>>
  /\ mark' = 0 /\ dequeued' = 0
  /\ UNCHANGED <<capacity, inline, inFlight, untaken, pending, entries, phase>>

-----------------------------------------------------------------------------
(* Teardown: Drop.                                                         *)

\* quiesce: every operation in flight gets a CancelIoEx.
Close ==
  /\ phase = "open" /\ ~polling
  /\ phase' = "closing"
  /\ UNCHANGED <<slab, untaken, quarantine, pending, port, poll>>

\* quiesce's loop goes round: what it dequeued is translated, nothing more.
EndReap ==
  /\ phase = "closing" /\ polling /\ entries = <<>>
  /\ polling' = FALSE /\ mark' = 0 /\ dequeued' = 0
  /\ UNCHANGED <<slab, untaken, quarantine, pending, port, entries, phase>>

\* The slab's memory goes once nothing is in flight; when the budget runs
\* out first it is leaked.
Drop ==
  /\ phase = "closing" /\ ~polling
  /\ phase' = IF inFlight = 0 THEN "freed" ELSE "leaked"
  /\ UNCHANGED <<slab, untaken, quarantine, pending, port, poll>>

-----------------------------------------------------------------------------
Translate ==
  \/ TranslateDrops
  \/ \E keeps \in BOOLEAN : TranslateCompletes(keeps)
  \/ TranslateSentinel

Client ==
  \/ PostPends
  \/ \E stray \in BOOLEAN : PostEndsAtOnce(stray) \/ PostEndsAtOnceUntaken(stray)
  \/ \E i \in Slots : Take(i) \/ Cancel(i)
  \/ Close

Kernel == OtherArrives \/ \E i \in Slots : KernelCompletes(i)

Next ==
  \/ Client \/ Kernel \/ Dequeue \/ Translate \/ EndReap \/ Drop
  \/ \E posted \in BOOLEAN : EndPoll(posted)

Spec == Init /\ [][Next]_vars

\* The loop keeps polling, and the system does not refuse every sentinel.
FairSpec == Spec /\ WF_vars(Dequeue) /\ WF_vars(Translate) /\ SF_vars(EndPoll(TRUE))

-----------------------------------------------------------------------------
(* Properties.                                                             *)

OnPort == ToSet(entries) \cup ToSet(port)

\* A slot is never recycled while a packet of it is queued, stray packets
\* included: a packet can only ever meet the operation it belongs to
\* (iocp_util.rs, Quarantine; translate_entry trusts the pointer).
PacketsKeepTheirSlot ==
  \A e \in OnPort : e.key = "op" => /\ generation[e.slot] = e.generation
                                    /\ state[e.slot] # "Free"

\* The kernel writes into no slot but those of operations still in flight
\* (R-037: cancelled operations stay in flight until they are reaped), and
\* each of these is owed exactly one packet: the kernel still has it, or
\* one packet is queued.
InFlightIsOwedOnePacket ==
  \A i \in Slots :
    /\ i \in pending => state[i] \in InFlightStates /\ \A e \in OnPort : e.slot # i
    /\ state[i] \in InFlightStates /\ i \notin pending =>
         LET all == entries \o port IN Cardinality({k \in 1..Len(all) : all[k].slot = i}) = 1

NoneTwice(s) == Cardinality(ToSet(s)) = Len(s)

\* The slab neither leaks a slot nor hands one out twice: each slot below
\* the capacity is in flight, untaken, quarantined or free -- in one place
\* only.
SlotsAccounted ==
  /\ NoneTwice(freelist) /\ NoneTwice(held)
  /\ ToSet(freelist) = {i \in Slots : i < capacity /\ state[i] = "Free"}
  /\ ToSet(held) \cap untaken = {}
  /\ ToSet(held) \cup untaken = {i \in Slots : state[i] = "Completed"}

\* Memory is freed only when the kernel owns none of it (Drop).
FreedIsQuiet ==
  phase = "freed" => pending = {}

\* The slab keeps its books: no packet meets a recycled slot, no slot is
\* leaked or handed out twice, and memory the kernel owns is never freed
\* (op_slab.rs, and the Drop of the backend).
SlabSound == TypeOK /\ PacketsKeepTheirSlot /\ SlotsAccounted /\ FreedIsQuiet

\* A quarantined slot gets out, on a port so busy that no dequeue is ever
\* short of a full batch too: the sentinel is what proves the drain then.
HeldIsReleased ==
  \A i \in Slots : i \in ToSet(held) ~> i \notin ToSet(held) \/ phase # "open"

=============================================================================
