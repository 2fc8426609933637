---------------------- MODULE CrossThreadQueue_proofs ----------------------
(***************************************************************************)
(* No wakeup is lost between push and drain_into, for every number of      *)
(* producers, callbacks and timers.                                        *)
(***************************************************************************)
EXTENDS CrossThreadQueue, SequenceTheorems, TLAPS

\* drain_into keeps no state between two calls.
DrainAtRest == ~Draining => drain = "test"

\* The inductive invariant: NoLostWakeup does not say why the flag may stand
\* in for a wakeup, its two halves do.
IInv == TypeOK /\ DrainAtRest /\ RaisedFlagIsBacked /\ ArmedIsBacked /\ LeftoverIsFlagged

\* The state of a fresh CrossThreadQueue satisfies the invariant.
LEMMA InitIInv == Init => IInv
<1> SUFFICES ASSUME Init PROVE IInv
  OBVIOUS
<1>1. TypeOK
  BY EmptySeq DEF Init, TypeOK, LoopPlaces, DrainSteps
<1>2. DrainAtRest /\ RaisedFlagIsBacked /\ ArmedIsBacked
  BY DEF Init, DrainAtRest, RaisedFlagIsBacked, ArmedIsBacked, Draining
<1>3. LeftoverIsFlagged
  BY DEF Init, LeftoverIsFlagged, QueueLeft, TimersLeft
<1>4. QED
  BY <1>1, <1>2, <1>3 DEF IInv

\* Every action keeps the variables in their types.
LEMMA TypeStep == TypeOK /\ [Next]_vars => TypeOK'
<1> SUFFICES ASSUME TypeOK, [Next]_vars PROVE TypeOK'
  OBVIOUS
<1> USE DEF TypeOK, LoopPlaces, DrainSteps
<1>1. CASE UNCHANGED vars
  BY <1>1 DEF vars
<1>2. ASSUME NEW p \in Producers, Push(p) PROVE TypeOK'
  BY <1>2 DEF Push
<1>3. ASSUME NEW p \in Producers, PushTimer(p) PROVE TypeOK'
  BY <1>3 DEF PushTimer
<1>4. ASSUME NEW p \in Producers, Raise(p) PROVE TypeOK'
  BY <1>4 DEF Raise
<1>5. ASSUME NEW p \in Producers, Wake(p) \/ Post(p) PROVE TypeOK'
  BY <1>5 DEF Wake, Post
<1>6. CASE DrainTest
  BY <1>6 DEF DrainTest, DrainReturns
<1>7. CASE DrainClear
  BY <1>7 DEF DrainClear
<1>8. CASE DrainBound
  BY <1>8 DEF DrainBound
<1>9. CASE DrainPop
  <2>1. CASE bound > 0 /\ queue # <<>>
    <3>1. Head(queue) \in Callbacks /\ Tail(queue) \in Seq(Callbacks)
      BY <2>1, HeadTailProperties
    <3>2. ready' = ready \cup {Head(queue)} /\ queue' = Tail(queue) /\ bound' = bound - 1
      BY <1>9, <2>1 DEF DrainPop
    <3>3. ready' \in SUBSET Callbacks /\ queue' \in Seq(Callbacks) /\ bound' \in Nat
      BY <2>1, <3>1, <3>2
    <3>4. QED
      BY <1>9, <2>1, <3>3 DEF DrainPop
  <2>2. CASE ~(bound > 0 /\ queue # <<>>)
    BY <1>9, <2>2 DEF DrainPop
  <2>3. QED
    BY <2>1, <2>2
<1>10. CASE DrainTimersBound
  BY <1>10 DEF DrainTimersBound
<1>11. CASE DrainTimersPop
  <2>1. CASE bound > 0 /\ timers # <<>>
    <3>1. Head(timers) \in Timers /\ Tail(timers) \in Seq(Timers)
      BY <2>1, HeadTailProperties
    <3>2. scheduled' = scheduled \cup {Head(timers)} /\ timers' = Tail(timers) /\ bound' = bound - 1
      BY <1>11, <2>1 DEF DrainTimersPop
    <3>3. scheduled' \in SUBSET Timers /\ timers' \in Seq(Timers) /\ bound' \in Nat
      BY <2>1, <3>1, <3>2
    <3>4. QED
      BY <1>11, <2>1, <3>3 DEF DrainTimersPop
  <2>2. CASE ~(bound > 0 /\ timers # <<>>)
    BY <1>11, <2>2 DEF DrainTimersPop, DrainReturns
  <2>3. QED
    BY <2>1, <2>2
<1>12. CASE PollWithoutParking \/ PollReadsWakeup \/ Consume \/ SpinEnds \/ ParkTimesOut
  BY <1>12 DEF PollWithoutParking, PollReadsWakeup, Consume, SpinEnds, ParkTimesOut
<1>13. CASE Dispatch
  BY <1>13 DEF Dispatch
<1>14. QED
  BY <1>1, <1>2, <1>3, <1>4, <1>5, <1>6, <1>7, <1>8, <1>9, <1>10, <1>11, <1>12, <1>13
     DEF Next, LoopNext, Drain, ProducerNext

\* A drain leaves its bookkeeping at the first step when it returns.
LEMMA RestStep == TypeOK /\ DrainAtRest /\ [Next]_vars => DrainAtRest'
BY DEF TypeOK, DrainAtRest, Draining, LoopPlaces, vars, Next, LoopNext, Drain, ProducerNext, Push,
       PushTimer, Raise, Wake, Post, DrainTest, DrainReturns, DrainClear, DrainBound, DrainPop,
       DrainTimersBound, DrainTimersPop, PollWithoutParking, PollReadsWakeup, Consume, SpinEnds, ParkTimesOut,
       Dispatch

\* The flag keeps its backing.
LEMMA BackedStep == IInv /\ [Next]_vars => RaisedFlagIsBacked'
<1> SUFFICES ASSUME IInv, [Next]_vars PROVE RaisedFlagIsBacked'
  OBVIOUS
<1> USE DEF IInv, TypeOK, DrainAtRest, RaisedFlagIsBacked, Draining, LoopPlaces, DrainSteps
<1>1. CASE UNCHANGED vars
  BY <1>1 DEF vars
<1>2. ASSUME NEW p \in Producers, Push(p) \/ PushTimer(p) PROVE RaisedFlagIsBacked'
  BY <1>2 DEF Push, PushTimer
<1>3. ASSUME NEW p \in Producers, Raise(p) PROVE RaisedFlagIsBacked'
  <2>1. CASE wakePending
    BY <1>3, <2>1 DEF Raise
  <2>2. CASE ~wakePending
    <3>1. producer'[p] = "wake"
      BY <1>3, <2>2 DEF Raise
    <3>2. QED
      BY <3>1
  <2>3. QED
    BY <2>1, <2>2
<1>4. ASSUME NEW p \in Producers, Wake(p) PROVE RaisedFlagIsBacked'
  <2>1. CASE armed
    BY <1>4, <2>1 DEF Wake, ArmedIsBacked
  <2>2. CASE ~armed
    <3>1. producer'[p] = "post"
      BY <1>4, <2>2 DEF Wake
    <3>2. QED
      BY <3>1
  <2>3. QED
    BY <2>1, <2>2
<1>4a. ASSUME NEW p \in Producers, Post(p) PROVE RaisedFlagIsBacked'
  BY <1>4a DEF Post
<1>5. CASE DrainTest
  BY <1>5 DEF DrainTest, DrainReturns
<1>6. CASE DrainClear
  BY <1>6 DEF DrainClear
<1>7. CASE DrainBound \/ DrainTimersBound
  BY <1>7 DEF DrainBound, DrainTimersBound
<1>8. CASE DrainPop
  BY <1>8 DEF DrainPop
<1>9. CASE DrainTimersPop
  BY <1>9 DEF DrainTimersPop, DrainReturns
<1>10. CASE PollWithoutParking \/ PollReadsWakeup \/ Consume \/ SpinEnds \/ ParkTimesOut
  BY <1>10 DEF PollWithoutParking, PollReadsWakeup, Consume, SpinEnds, ParkTimesOut
<1>11. CASE Dispatch
  BY <1>11 DEF Dispatch
<1>12. QED
  BY <1>1, <1>2, <1>3, <1>4, <1>4a, <1>5, <1>6, <1>7, <1>8, <1>9, <1>10, <1>11
     DEF Next, LoopNext, Drain, ProducerNext

\* The backend's flag keeps its backing.
LEMMA ArmedStep == IInv /\ [Next]_vars => ArmedIsBacked'
<1> SUFFICES ASSUME IInv, [Next]_vars PROVE ArmedIsBacked'
  OBVIOUS
<1> USE DEF IInv, TypeOK, ArmedIsBacked, LoopPlaces
<1>1. CASE UNCHANGED vars
  BY <1>1 DEF vars
<1>2. ASSUME NEW p \in Producers, Push(p) \/ PushTimer(p) \/ Raise(p) PROVE ArmedIsBacked'
  BY <1>2 DEF Push, PushTimer, Raise
<1>3. ASSUME NEW p \in Producers, Wake(p) PROVE ArmedIsBacked'
  <2>1. CASE armed
    BY <1>3, <2>1 DEF Wake
  <2>2. CASE ~armed
    <3>1. producer'[p] = "post"
      BY <1>3, <2>2 DEF Wake
    <3>2. QED
      BY <3>1
  <2>3. QED
    BY <2>1, <2>2
<1>4. ASSUME NEW p \in Producers, Post(p) PROVE ArmedIsBacked'
  BY <1>4 DEF Post
<1>5. CASE Drain
  BY <1>5 DEF Drain, DrainTest, DrainClear, DrainBound, DrainPop, DrainTimersBound,
              DrainTimersPop, DrainReturns, Draining
<1>6. CASE PollWithoutParking \/ PollReadsWakeup \/ Consume \/ SpinEnds \/ ParkTimesOut
  BY <1>6 DEF PollWithoutParking, PollReadsWakeup, Consume, SpinEnds, ParkTimesOut
<1>7. CASE Dispatch
  BY <1>7 DEF Dispatch
<1>8. QED
  BY <1>1, <1>2, <1>3, <1>4, <1>5, <1>6, <1>7 DEF Next, LoopNext, ProducerNext

\* What a drain does not pop stays flagged.
LEMMA LeftoverStep == IInv /\ [Next]_vars => LeftoverIsFlagged'
<1> SUFFICES ASSUME IInv, [Next]_vars PROVE LeftoverIsFlagged'
  OBVIOUS
<1> USE DEF IInv, TypeOK, DrainAtRest, LeftoverIsFlagged, QueueLeft, TimersLeft, Draining,
            LoopPlaces, DrainSteps
<1>1. CASE UNCHANGED vars
  BY <1>1 DEF vars
<1>2. ASSUME NEW p \in Producers, Push(p) \/ PushTimer(p) PROVE LeftoverIsFlagged'
  <2>1. producer'[p] = "raise"
    BY <1>2 DEF Push, PushTimer
  <2>2. QED
    BY <2>1
<1>3. ASSUME NEW p \in Producers, Raise(p) PROVE LeftoverIsFlagged'
  BY <1>3 DEF Raise
<1>4. ASSUME NEW p \in Producers, Wake(p) \/ Post(p) PROVE LeftoverIsFlagged'
  BY <1>4 DEF Wake, Post
<1>5. CASE DrainTest
  BY <1>5 DEF DrainTest, DrainReturns
<1>6. CASE DrainClear
  BY <1>6 DEF DrainClear
<1>7. CASE DrainBound
  BY <1>7 DEF DrainBound
<1>8. CASE DrainPop
  BY <1>8 DEF DrainPop
<1>9. CASE DrainTimersBound
  BY <1>9 DEF DrainTimersBound
<1>10. CASE DrainTimersPop
  BY <1>10 DEF DrainTimersPop, DrainReturns
<1>11. CASE PollWithoutParking \/ PollReadsWakeup \/ Consume \/ SpinEnds \/ ParkTimesOut
  BY <1>11 DEF PollWithoutParking, PollReadsWakeup, Consume, SpinEnds, ParkTimesOut
<1>12. CASE Dispatch
  BY <1>12 DEF Dispatch
<1>13. QED
  BY <1>1, <1>2, <1>3, <1>4, <1>5, <1>6, <1>7, <1>8, <1>9, <1>10, <1>11, <1>12
     DEF Next, LoopNext, Drain, ProducerNext

\* The invariant is inductive.
LEMMA StepIInv == IInv /\ [Next]_vars => IInv'
BY TypeStep, RestStep, BackedStep, ArmedStep, LeftoverStep DEF IInv

\* The invariant is what makes parking safe.
LEMMA IInvImpliesNoLostWakeup == IInv => NoLostWakeup
BY DEF IInv, TypeOK, DrainAtRest, RaisedFlagIsBacked, LeftoverIsFlagged, QueueLeft, TimersLeft,
       Draining, NoLostWakeup, Owing

\* The invariant holds in every reachable state.
THEOREM AlwaysIInv == Spec => []IInv
BY InitIInv, StepIInv, PTL DEF Spec

\* The queue, the flag and the steps of both sides keep their types.
THEOREM TypeCorrect == Spec => []TypeOK
<1>1. IInv => TypeOK
  BY DEF IInv
<1>2. QED
  BY <1>1, AlwaysIInv, PTL

\* ready.rs, push and drain_into: with any number of threads pushing, the
\* loop never waits in its poll over work that nobody will wake it for.
THEOREM NeverLosesAWakeup == Spec => []NoLostWakeup
BY AlwaysIInv, IInvImpliesNoLostWakeup, PTL

\* ready.rs, push: a producer that finds the flag up may rely on it.
THEOREM FlagAlwaysBacked == Spec => []RaisedFlagIsBacked
<1>1. IInv => RaisedFlagIsBacked
  BY DEF IInv
<1>2. QED
  BY <1>1, AlwaysIInv, PTL

\* epoll.rs, wake: a producer that finds the wakeup armed may skip the write.
THEOREM ArmedAlwaysBacked == Spec => []ArmedIsBacked
<1>1. IInv => ArmedIsBacked
  BY DEF IInv
<1>2. QED
  BY <1>1, AlwaysIInv, PTL

=============================================================================
