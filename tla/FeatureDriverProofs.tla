------------------------- MODULE FeatureDriverProofs -------------------------
(***************************************************************************)
(* Theorems about FeatureDriver for every set of events, every receive     *)
(* time and key, every interval, window and capacity.                      *)
(***************************************************************************)
EXTENDS FeatureDriver, FiniteSetTheorems, TLAPS

(* Typing strengthened by what the capacity argument needs: the heap is    *)
(* finite, and a publish transition carries exactly one event, ahead of    *)
(* the watermark and not yet accepted.                                     *)
OpOK ==
    /\ op.kind = "idle" => op = Idle
    /\ op.kind = "publish" =>
        \E e \in Events : /\ op.push = {e}
                          /\ op.target = Ts[e] - Lateness
                          /\ Ts[e] > watermark
                          /\ e \notin accepted
    /\ op.kind = "finish" => op.target >= maxSeen
    /\ op # Idle => status = "open"

TypeInv ==
    /\ TypeOK
    /\ IsFiniteSet(heap)
    /\ nextFeature = None <=> nextSignal = None
    /\ OpOK

(***************************************************************************)
(* The inductive invariant.  The timeline up to the horizon (the target of *)
(* the running transition, or the watermark) is decided; accepted events   *)
(* lie, in order, in the feature state, in the bus queue and in the heap;  *)
(* the next tick separates what was released from what is still to come.   *)
(***************************************************************************)
Horizon == IF op.target > watermark THEN op.target ELSE watermark

Placement ==
    /\ heap \subseteq accepted
    /\ consumed \subseteq accepted
    /\ \A i \in 1..Len(queue) : queue[i] \in accepted
    /\ \A e \in accepted : Ts[e] <= maxSeen
    /\ (worker = "running" /\ status # "failed") =>
        \A e \in accepted : \/ e \in heap
                            \/ e \in consumed
                            \/ \E i \in 1..Len(queue) : queue[i] = e

Ordered ==
    /\ \A i, j \in 1..Len(queue) : i < j => Before(queue[i], queue[j])
    /\ \A d \in consumed : \A i \in 1..Len(queue) : Before(d, queue[i])
    /\ \A d \in consumed : \A h \in heap : Before(d, h)
    /\ \A i \in 1..Len(queue) : \A h \in heap : Before(queue[i], h)

BehindHorizon ==
    /\ \A h \in heap : Ts[h] > watermark
    /\ status # "failed" =>
        /\ \A d \in consumed : Ts[d] <= Horizon
        /\ \A i \in 1..Len(queue) : Ts[queue[i]] <= Horizon
        /\ \A k \in ticks : k.at <= Horizon

TickOrder ==
    /\ \A k \in ticks : \A h \in heap : k.at < Ts[h]
    /\ \A k \in ticks : \A i \in 1..Len(queue) : k.at < Ts[queue[i]]
    /\ \A k \in ticks : /\ k.at < nextFeature
                        /\ k.at <= nextSignal
                        /\ k.kind = "SIGNAL" => k.at < nextSignal

Scheduled ==
    /\ nextFeature = None => ticks = {} /\ consumed = {} /\ queue = <<>>
    /\ nextFeature # None =>
        /\ \A d \in consumed : Ts[d] <= nextFeature /\ Ts[d] <= nextSignal
        /\ \A i \in 1..Len(queue) : /\ Ts[queue[i]] <= nextFeature
                                    /\ Ts[queue[i]] <= nextSignal

IndInv ==
    /\ TypeInv
    /\ Placement
    /\ Ordered
    /\ BehindHorizon
    /\ TickOrder
    /\ Scheduled
    /\ TicksSeeExactPast
    /\ SealedComplete

(* A scheduler boundary is a natural number strictly after its start. *)
LEMMA BoundaryAfter ==
    ASSUME NEW t \in Nat, NEW i \in Nat \ {0}
    PROVE  /\ NextBoundary(t, i) \in Nat
           /\ NextBoundary(t, i) > t
<1> DEFINE q == t \div i
<1>1. q \in Nat /\ t = i * q + (t % i) /\ (t % i) \in 0..(i-1)
  OBVIOUS
<1>2. i * (q + 1) = i * q + i
  BY <1>1
<1>3. (q + 1) * i = i * (q + 1)
  BY <1>1
<1>4. i * q \in Nat
  BY <1>1
<1> HIDE DEF q
<1>5. (q + 1) * i \in Nat /\ (q + 1) * i > t
  BY <1>1, <1>2, <1>3, <1>4
<1> QED
  BY <1>5 DEF NextBoundary, q

(* The bounds and intervals are positive, as the settings guarantee. *)
LEMMA Bounds ==
    /\ Capacity \in Nat /\ Capacity > 0
    /\ QueueCapacity \in Nat /\ QueueCapacity > 0
    /\ FeatureInterval \in Nat \ {0} /\ SignalInterval \in Nat \ {0}
    /\ Lateness \in Nat /\ Lateness > 0
BY DriverAssumption

(* Receive timestamps and heap keys are numbers past the epoch. *)
LEMMA Stamps ==
    ASSUME NEW e \in Events
    PROVE  Ts[e] \in Nat /\ Key[e] \in Nat /\ Ts[e] >= Lateness
BY DriverAssumption

(* The initial state is well typed. *)
LEMMA InitType == Init => TypeInv
<1> SUFFICES ASSUME Init PROVE TypeInv
  OBVIOUS
<1> USE DEF Init
<1>1. IsFiniteSet(heap) /\ Cardinality(heap) = 0
  BY FS_EmptySet
<1>2. op \in Operations
  BY DEF Idle, Operations, Times
<1>3. queue \in Seq(Events) /\ Len(queue) = 0
  OBVIOUS
<1>4. TypeOK
  BY <1>1, <1>2, <1>3, Bounds DEF TypeOK, Times
<1>5. OpOK
  BY DEF OpOK, Idle
<1> QED
  BY <1>1, <1>4, <1>5 DEF TypeInv

----------------------------------------------------------------------------
(* Typing is inductive. *)
(* Taking the lock for publish keeps every bound. *)
LEMMA PublishType ==
    ASSUME TypeInv, NEW e \in Events, Publish(e) PROVE TypeInv'
<1> USE DEF TypeInv, Publish, driverVars, schedVars, busVars
<1>1. op' \in Operations
  BY Stamps, Bounds DEF Operations, Times, None
<1>2. TypeOK'
  BY <1>1 DEF TypeOK
<1>3. OpOK'
  BY DEF OpOK, Idle, Admissible
<1> QED
  BY <1>2, <1>3

(* Taking the lock for advance_to keeps every bound. *)
LEMMA AdvanceToType ==
    ASSUME TypeInv, NEW t \in ClockTimes, AdvanceTo(t) PROVE TypeInv'
<1> USE DEF TypeInv, AdvanceTo, driverVars, schedVars, busVars
<1>1. op' \in Operations
  BY DriverAssumption DEF Operations, Times, None
<1>2. TypeOK'
  BY <1>1 DEF TypeOK
<1>3. OpOK'
  BY DEF OpOK, Idle
<1> QED
  BY <1>2, <1>3

(* Taking the lock for finish keeps every bound. *)
LEMMA FinishType ==
    ASSUME TypeInv, NEW t \in ClockTimes \cup {None}, Finish(t) PROVE TypeInv'
<1> USE DEF TypeInv, Finish, driverVars, schedVars, busVars
<1>1. t \in Times /\ maxSeen \in Times
  BY DriverAssumption DEF TypeOK, Times
<1>2. op' \in Operations
  BY <1>1 DEF Operations, MaxOf
<1>3. TypeOK'
  BY <1>2 DEF TypeOK
<1>4. OpOK'
  BY <1>1 DEF OpOK, Idle, MaxOf, Times, None
<1> QED
  BY <1>3, <1>4

(* The watermark a transition installs is a time. *)
LEMMA WatermarkType ==
    ASSUME TypeInv PROVE NewWatermark \in Times
BY DEF TypeInv, TypeOK, Operations, NewWatermark, MaxOf

(* A delivered tick is a tick record and the next boundary a time. *)
LEMMA DeliverTickType ==
    ASSUME TypeInv, DeliverTick PROVE TypeInv'
<1> USE DEF TypeInv, DeliverTick, driverVars, busVars
<1>1. nextFeature \in Nat /\ nextSignal \in Nat
  BY DEF TypeOK, TickDue, Times, None
<1>2. NextTick \in Nat
  BY <1>1 DEF NextTick, MinOf
<1>3. [at |-> NextTick, kind |-> TickKindDue, seen |-> consumed] \in TickRecords
  BY <1>2 DEF TypeOK, TickRecords, TickKindDue, TickKind
<1>4. nextFeature' \in Nat /\ nextSignal' \in Nat
  BY <1>1, Bounds
<1>5. TypeOK'
  BY <1>3, <1>4 DEF TypeOK, Times
<1>6. OpOK'
  BY DEF OpOK
<1> QED
  BY <1>4, <1>5, <1>6 DEF None

(* A release keeps the bus queue within its capacity. *)
LEMMA ReleaseEventType ==
    ASSUME TypeInv, NEW e \in Events, ReleaseEvent(e) PROVE TypeInv'
<1> USE DEF TypeInv, ReleaseEvent
<1>1. IsFiniteSet(heap') /\ Cardinality(heap') <= Cardinality(heap)
  BY FS_Subset
<1>2. Cardinality(heap) \in Nat /\ Cardinality(heap') \in Nat
  BY <1>1, FS_CardinalityType
<1>3. Cardinality(heap') <= Capacity
  BY <1>1, <1>2, Bounds DEF TypeOK
<1>4. queue' \in Seq(Events) /\ Len(queue') <= QueueCapacity
  BY Bounds DEF TypeOK
<1>5. /\ nextFeature' \in Times /\ nextSignal' \in Times
      /\ nextFeature' = None <=> nextSignal' = None
  <2>1. /\ NextBoundary(Ts[e], FeatureInterval) \in Nat
        /\ NextBoundary(Ts[e], SignalInterval) \in Nat
    BY BoundaryAfter, Bounds, Stamps
  <2> QED
    BY <2>1 DEF StartScheduler, TypeOK, Times, None, schedVars
<1>6. TypeOK'
  BY <1>3, <1>4, <1>5 DEF TypeOK
<1>7. OpOK'
  BY DEF OpOK
<1> QED
  BY <1>1, <1>5, <1>6, <1>7

(* A push keeps the heap within its capacity. *)
LEMMA PushEventType ==
    ASSUME TypeInv, PushEvent PROVE TypeInv'
<1> USE DEF TypeInv, PushEvent, schedVars, busVars
<1>1. PICK e \in Events : op.push = {e}
  BY DEF OpOK
<1>2. /\ IsFiniteSet(heap') /\ Cardinality(heap) \in Nat
      /\ Cardinality(heap') <= Cardinality(heap) + 1
      /\ Cardinality(heap') \in Nat
  <2>1. heap' = heap \cup {e}
    BY <1>1
  <2>2. Cardinality(heap) \in Nat
    BY FS_CardinalityType
  <2>3. /\ IsFiniteSet(heap \cup {e})
        /\ Cardinality(heap \cup {e}) =
             IF e \in heap THEN Cardinality(heap) ELSE Cardinality(heap) + 1
    BY FS_AddElement
  <2> HIDE DEF TypeInv, PushEvent
  <2>4. CASE e \in heap
    BY <2>1, <2>2, <2>3, <2>4
  <2>5. CASE e \notin heap
    BY <2>1, <2>2, <2>3, <2>5
  <2> QED
    BY <2>4, <2>5
<1>3. Cardinality(heap') <= Capacity
  BY <1>2, Bounds DEF HasRoom
<1>4. maxSeen' \in Times
  BY <1>1, Stamps DEF TypeOK, Times, MaxOf
<1>5. op' \in Operations
  BY DEF Idle, Operations, Times
<1>6. TypeOK'
  BY <1>1, <1>3, <1>4, <1>5, WatermarkType DEF TypeOK
<1>7. OpOK'
  BY DEF OpOK, Idle
<1> QED
  BY <1>2, <1>6, <1>7

(* The four actions that end a transition without accepting an event. *)
LEMMA EndType ==
    ASSUME TypeInv, PushOverflow \/ AdvanceReturns \/ Seal PROVE TypeInv'
<1> USE DEF TypeInv, PushOverflow, AdvanceReturns, Seal, schedVars, busVars
<1>1. op' \in Operations
  BY DEF Idle, Operations, Times
<1>2. TypeOK'
  BY <1>1, WatermarkType DEF TypeOK
<1>3. OpOK'
  BY DEF OpOK, Idle
<1> QED
  BY <1>2, <1>3

(* A failing transition keeps every bound. *)
LEMMA FailType ==
    ASSUME TypeInv, NEW lost \in SUBSET Events, FailTransition(lost) PROVE TypeInv'
<1> USE DEF TypeInv, FailTransition, schedVars, busVars
<1>1. op' \in Operations
  BY DEF Idle, Operations, Times
<1>2. IsFiniteSet(heap') /\ Cardinality(heap') <= Cardinality(heap)
  BY FS_Subset
<1>3. Cardinality(heap) \in Nat /\ Cardinality(heap') \in Nat
  BY <1>2, FS_CardinalityType
<1>4. Cardinality(heap') <= Capacity
  BY <1>2, <1>3, Bounds DEF TypeOK
<1>5. TypeOK'
  BY <1>1, <1>4 DEF TypeOK
<1>6. OpOK'
  BY DEF OpOK, Idle
<1> QED
  BY <1>2, <1>5, <1>6

(* The consumer only shortens its queue. *)
LEMMA ConsumeType ==
    ASSUME TypeInv, Consume \/ ConsumeFails PROVE TypeInv'
<1> USE DEF TypeInv, Consume, ConsumeFails, driverVars, schedVars
<1>1. /\ Head(queue) \in Events /\ Tail(queue) \in Seq(Events)
      /\ Len(Tail(queue)) = Len(queue) - 1 /\ Len(queue) \in Nat
  BY DEF TypeOK
<1>2. TypeOK'
  BY <1>1, Bounds DEF TypeOK
<1>3. OpOK'
  BY DEF OpOK
<1> QED
  BY <1>2, <1>3

(* Every step of the driver preserves the types. *)
LEMMA TypeStep == TypeInv /\ [Next]_vars => TypeInv'
<1> SUFFICES ASSUME TypeInv, [Next]_vars PROVE TypeInv'
  OBVIOUS
<1>1. ASSUME UNCHANGED vars PROVE TypeInv'
  BY <1>1 DEF TypeInv, TypeOK, OpOK, vars, driverVars, schedVars, busVars
<1>2. ASSUME NEW e \in Events, ReleaseFails(e) PROVE TypeInv'
  BY <1>2, FailType DEF ReleaseFails
<1>3. ASSUME DrainFails \/ TickFails PROVE TypeInv'
  BY <1>3, FailType DEF DrainFails, TickFails
<1> QED
  BY <1>1, <1>2, <1>3, PublishType, AdvanceToType, FinishType, DeliverTickType,
     ReleaseEventType, PushEventType, EndType, ConsumeType DEF Next, Transition

(* Type correctness, with the bounds of the reorder heap and of the bus    *)
(* queue, in every reachable state of the driver.                          *)
THEOREM TypeCorrect == Spec => []TypeOK
<1>1. Spec => []TypeInv
  BY InitType, TypeStep, PTL DEF Spec
<1>2. TypeInv => TypeOK
  BY DEF TypeInv
<1> QED
  BY <1>1, <1>2, PTL

----------------------------------------------------------------------------
(* What Append and Tail do to the positions of a queue. *)
LEMMA AppendFacts ==
    ASSUME NEW S, NEW q \in Seq(S), NEW e \in S
    PROVE  /\ Len(Append(q, e)) = Len(q) + 1 /\ Len(q) \in Nat
           /\ \A i \in 1..Len(q) : Append(q, e)[i] = q[i]
           /\ Append(q, e)[Len(q) + 1] = e
           /\ \A i \in 1..Len(q) : q[i] \in S
OBVIOUS

(* Tail shifts every position of a queue by one. *)
LEMMA TailFacts ==
    ASSUME NEW S, NEW q \in Seq(S), q # <<>>
    PROVE  /\ Len(Tail(q)) = Len(q) - 1 /\ Len(q) \in Nat /\ Len(q) >= 1
           /\ \A i \in 1..Len(Tail(q)) : Tail(q)[i] = q[i + 1] /\ i + 1 \in 1..Len(q)
           /\ Head(q) = q[1]
           /\ \A i \in 1..Len(q) : q[i] \in S /\ (i = 1 \/ i - 1 \in 1..Len(Tail(q)))
OBVIOUS

(* Heap keys order the events totally and strictly. *)
LEMMA BeforeOrder ==
    ASSUME NEW c \in Events, NEW d \in Events, NEW e \in Events
    PROVE  /\ ~Before(d, d)
           /\ Before(c, d) /\ Before(d, e) => Before(c, e)
           /\ Before(d, e) => Ts[d] <= Ts[e]
           /\ Ts[d] < Ts[e] => Before(d, e)
BY Stamps DEF Before

(* Numeric types that the ordering arguments use. *)
LEMMA Numbers ==
    ASSUME TypeInv
    PROVE  /\ \A e \in Events : Ts[e] \in Nat
           /\ \A k \in ticks : k.at \in Nat /\ k \in TickRecords
           /\ \A i \in 1..Len(queue) : queue[i] \in Events
           /\ watermark \in Int /\ maxSeen \in Int /\ op.target \in Int
           /\ nextFeature \in Int /\ nextSignal \in Int
           /\ nextFeature # None => nextFeature \in Nat /\ nextSignal \in Nat
           /\ heap \subseteq Events /\ accepted \subseteq Events
           /\ consumed \subseteq Events
           /\ queue \in Seq(Events)
           /\ Horizon \in Int /\ NewWatermark \in Int /\ Horizon = NewWatermark
BY Stamps DEF TypeInv, TypeOK, TickRecords, Operations, Times, None, Horizon,
              NewWatermark, MaxOf

(* The initial state satisfies the inductive invariant. *)
LEMMA InitInd == Init => IndInv
<1> SUFFICES ASSUME Init PROVE IndInv
  OBVIOUS
<1>1. TypeInv
  BY InitType
<1>2. Len(queue) = 0
  BY DEF Init
<1>3. Placement /\ Ordered /\ BehindHorizon /\ TickOrder /\ Scheduled
  BY <1>2 DEF Init, Placement, Ordered, BehindHorizon, TickOrder, Scheduled
<1>4. TicksSeeExactPast /\ SealedComplete
  BY DEF Init, TicksSeeExactPast, SealedComplete
<1> QED
  BY <1>1, <1>3, <1>4 DEF IndInv

(* A transition begins: the horizon can only grow. *)
LEMMA BeginInd ==
    ASSUME IndInv, TypeInv',
           \/ \E e \in Events : Publish(e)
           \/ \E t \in ClockTimes : AdvanceTo(t)
           \/ \E t \in ClockTimes \cup {None} : Finish(t)
    PROVE  IndInv'
<1>1. /\ op = Idle /\ op' \in Operations
      /\ UNCHANGED <<driverVars, schedVars, busVars, accepted, ticks>>
  BY DEF Publish, AdvanceTo, Finish, TypeInv, TypeOK
<1> USE <1>1 DEF IndInv, driverVars, schedVars, busVars
<1>2. Placement' /\ Ordered' /\ TickOrder' /\ Scheduled'
  BY DEF Placement, Ordered, TickOrder, Scheduled
<1>3. watermark \in Times /\ op'.target \in Times /\ Horizon = watermark
  BY DEF TypeInv, TypeOK, Operations, Horizon, Idle, Times, None
<1>4. Horizon' \in Times /\ Horizon <= Horizon'
  BY <1>3 DEF Horizon, Times, None
<1>5. BehindHorizon'
  <2>1. \A e \in Events : Ts[e] \in Nat
    BY Stamps
  <2>2. \A k \in ticks : k.at \in Nat
    BY DEF TypeInv, TypeOK, TickRecords
  <2>3. \A i \in 1..Len(queue) : queue[i] \in Events
    BY DEF TypeInv, TypeOK
  <2> QED
    BY <1>3, <1>4, <2>1, <2>2, <2>3 DEF BehindHorizon, TypeInv, TypeOK, Times, None
<1>6. TicksSeeExactPast' /\ SealedComplete'
  BY DEF TicksSeeExactPast, SealedComplete
<1> QED
  BY <1>2, <1>5, <1>6

(* A tick is delivered: everything released lies at or before it, and      *)
(* everything still on the heap after it.                                  *)
LEMMA DeliverTickInd ==
    ASSUME IndInv, TypeInv', DeliverTick PROVE IndInv'
<1> DEFINE k0 == [at |-> NextTick, kind |-> TickKindDue, seen |-> consumed]
<1> USE Numbers DEF IndInv
<1>1. /\ nextFeature \in Nat /\ nextSignal \in Nat /\ NextTick \in Nat
      /\ NextTick <= nextFeature /\ NextTick <= nextSignal
      /\ queue = <<>> /\ worker = "running" /\ status = "open"
      /\ op.target > watermark /\ NextTick <= op.target
      /\ Horizon = op.target
  BY DEF DeliverTick, TickDue, NextTick, MinOf, Drained, Advancing, TypeInv, OpOK, Horizon
<1>2. /\ ticks' = ticks \cup {k0}
      /\ UNCHANGED <<heap, watermark, maxSeen, status, op, queue, worker, consumed, accepted>>
  BY DEF DeliverTick, driverVars, busVars
<1>3. \A h \in heap : NextTick < Ts[h]
  BY <1>1 DEF DeliverTick, TickDue, Due, TickPrecedes
<1>4. \A d \in consumed : Ts[d] <= NextTick
  BY <1>1 DEF Scheduled, NextTick, MinOf, None
<1>5. /\ nextFeature' \in Nat /\ nextSignal' \in Nat
      /\ nextFeature <= nextFeature' /\ nextSignal <= nextSignal'
      /\ NextTick < nextFeature' /\ NextTick <= nextSignal'
      /\ TickKindDue = "SIGNAL" => NextTick < nextSignal'
  BY <1>1, Bounds DEF DeliverTick, NextTick, MinOf, TickKindDue
<1>6. Placement' /\ Ordered'
  BY <1>2 DEF Placement, Ordered
<1>7. Horizon' = Horizon
  BY <1>2 DEF Horizon
<1>8. BehindHorizon'
  BY <1>1, <1>2, <1>7 DEF BehindHorizon
<1>9. TickOrder'
  BY <1>1, <1>2, <1>3, <1>5 DEF TickOrder
<1>10. Scheduled'
  BY <1>1, <1>2, <1>4, <1>5 DEF Scheduled, None
<1>11. consumed = {e \in accepted : Ts[e] <= NextTick}
  BY <1>1, <1>3, <1>4 DEF Placement
<1>12. TicksSeeExactPast'
  BY <1>2, <1>11 DEF TicksSeeExactPast
<1>13. SealedComplete'
  BY <1>1, <1>2 DEF SealedComplete
<1> QED
  BY <1>6, <1>8, <1>9, <1>10, <1>12, <1>13

(* The head of the heap moves to the tail of the bus queue. *)
LEMMA ReleaseEventInd ==
    ASSUME IndInv, TypeInv', NEW e \in Events, ReleaseEvent(e) PROVE IndInv'
<1> USE Numbers DEF IndInv
<1>1. /\ op.target > watermark /\ Horizon = op.target /\ status = "open"
      /\ e \in heap /\ Ts[e] <= op.target
      /\ \A h \in heap \ {e} : Before(e, h)
  BY DEF ReleaseEvent, Advancing, IsHead, Due, Horizon, TypeInv, OpOK
<1>2. /\ heap' = heap \ {e} /\ queue' = Append(queue, e)
      /\ UNCHANGED <<watermark, maxSeen, status, op, worker, consumed, accepted, ticks>>
      /\ Horizon' = Horizon
  BY DEF ReleaseEvent, Horizon
<1>3. /\ Len(queue') = Len(queue) + 1 /\ Len(queue) \in Nat
      /\ \A i \in 1..Len(queue) : queue'[i] = queue[i]
      /\ queue'[Len(queue) + 1] = e
  BY <1>2, AppendFacts
<1>4. \A i \in 1..Len(queue') : (i \in 1..Len(queue) /\ queue'[i] = queue[i])
                                 \/ (i = Len(queue) + 1 /\ queue'[i] = e)
  BY <1>3
<1>5. /\ nextFeature' \in Nat /\ nextSignal' \in Nat
      /\ Ts[e] <= nextFeature' /\ Ts[e] <= nextSignal'
      /\ nextFeature # None => UNCHANGED <<nextFeature, nextSignal>>
  <2>1. CASE nextFeature # None
    <3>1. UNCHANGED <<nextFeature, nextSignal>>
      BY <2>1 DEF ReleaseEvent, StartScheduler, schedVars
    <3>2. Ts[e] <= NextTick
      BY <1>1, <2>1, BeforeOrder
         DEF ReleaseEvent, TickDue, Advancing, Due, TickPrecedes, NextTick, MinOf
    <3> QED
      BY <3>1, <3>2, <2>1 DEF NextTick, MinOf
  <2>2. CASE nextFeature = None
    <3>1. /\ NextBoundary(Ts[e], FeatureInterval) \in Nat
          /\ NextBoundary(Ts[e], SignalInterval) \in Nat
          /\ NextBoundary(Ts[e], FeatureInterval) > Ts[e]
          /\ NextBoundary(Ts[e], SignalInterval) > Ts[e]
      BY BoundaryAfter, Bounds
    <3> QED
      BY <2>2, <3>1 DEF ReleaseEvent, StartScheduler
  <2> QED
    BY <2>1, <2>2
<1>6. Placement'
  BY <1>1, <1>2, <1>3, <1>4 DEF Placement
<1>7. Ordered'
  BY <1>1, <1>2, <1>3, <1>4 DEF Ordered
<1>8. BehindHorizon'
  BY <1>1, <1>2, <1>4 DEF BehindHorizon
<1>9. TickOrder'
  BY <1>1, <1>2, <1>4, <1>5 DEF TickOrder, Scheduled
<1>10. Scheduled'
  BY <1>1, <1>2, <1>4, <1>5 DEF Scheduled, None
<1>11. TicksSeeExactPast' /\ SealedComplete'
  BY <1>1, <1>2 DEF TicksSeeExactPast, SealedComplete
<1> QED
  BY <1>6, <1>7, <1>8, <1>9, <1>10, <1>11

(* Once the loop of _advance_locked is over nothing on the heap is at or   *)
(* before the new watermark.                                               *)
LEMMA HeapAhead ==
    ASSUME IndInv, AdvanceDone PROVE \A h \in heap : Ts[h] > NewWatermark
BY Numbers DEF IndInv, AdvanceDone, Advancing, Due, BehindHorizon, NewWatermark, MaxOf

(* An event joins the heap: it is ahead of the whole timeline. *)
LEMMA PushEventInd ==
    ASSUME IndInv, TypeInv', PushEvent PROVE IndInv'
<1> USE Numbers DEF IndInv
<1>1. PICK e \in Events : /\ op.push = {e} /\ op.target = Ts[e] - Lateness
                          /\ Ts[e] > watermark /\ e \notin accepted
  BY DEF PushEvent, TypeInv, OpOK
<1>2. /\ heap' = heap \cup {e} /\ accepted' = accepted \cup {e}
      /\ watermark' = NewWatermark /\ maxSeen' = MaxOf(maxSeen, Ts[e])
      /\ UNCHANGED <<status, nextFeature, nextSignal, queue, worker, consumed, ticks>>
      /\ op' = Idle /\ op # Idle
  BY <1>1 DEF PushEvent, AdvanceDone, schedVars, busVars
<1>3. status = "open" /\ Ts[e] > NewWatermark /\ Horizon' = Horizon
  BY <1>1, <1>2, Bounds, SMTT(30) DEF TypeInv, OpOK, NewWatermark, MaxOf, Horizon, Idle, None,
                            TypeOK, Times
<1>4. \A h \in heap : Ts[h] > NewWatermark
  BY HeapAhead DEF PushEvent
<1>5. /\ \A d \in consumed : Ts[d] < Ts[e]
      /\ \A i \in 1..Len(queue) : Ts[queue[i]] < Ts[e]
      /\ \A k \in ticks : k.at < Ts[e]
  BY <1>3 DEF BehindHorizon
<1>6. Placement'
  BY <1>2 DEF Placement, MaxOf
<1>7. Ordered'
  BY <1>2, <1>5 DEF Ordered, Before
<1>8. BehindHorizon'
  BY <1>2, <1>3, <1>4 DEF BehindHorizon
<1>9. TickOrder' /\ Scheduled'
  BY <1>2, <1>5 DEF TickOrder, Scheduled
<1>10. TicksSeeExactPast' /\ SealedComplete'
  BY <1>2, <1>3, <1>5 DEF TicksSeeExactPast, SealedComplete
<1> QED
  BY <1>6, <1>7, <1>8, <1>9, <1>10

(* A transition ends with the watermark moved and nothing accepted. *)
LEMMA EndInd ==
    ASSUME IndInv, TypeInv', PushOverflow \/ AdvanceReturns \/ Seal PROVE IndInv'
<1> USE Numbers DEF IndInv
<1>1. /\ AdvanceDone /\ op # Idle /\ status = "open"
      /\ watermark' = NewWatermark /\ op' = Idle
      /\ UNCHANGED <<heap, maxSeen, nextFeature, nextSignal, queue, worker, consumed,
                     accepted, ticks>>
  BY DEF PushOverflow, AdvanceReturns, Seal, AdvanceDone, schedVars, busVars, TypeInv, OpOK
<1>2. \A h \in heap : Ts[h] > NewWatermark
  BY <1>1, HeapAhead
<1>3. Horizon' = Horizon
  BY <1>1 DEF NewWatermark, MaxOf, Horizon, Idle, None, TypeInv, TypeOK, Times
<1>4. Placement' /\ Ordered'
  BY <1>1 DEF Placement, Ordered
<1>5. BehindHorizon'
  BY <1>1, <1>2, <1>3 DEF BehindHorizon
<1>6. TickOrder' /\ Scheduled' /\ TicksSeeExactPast'
  BY <1>1 DEF TickOrder, Scheduled, TicksSeeExactPast
<1>7. SealedComplete'
  <2>1. CASE ~Seal
    BY <1>1, <2>1 DEF SealedComplete, PushOverflow, AdvanceReturns
  <2>2. CASE Seal
    <3>1. /\ op.target >= maxSeen /\ queue = <<>> /\ worker = "running"
      BY <2>2 DEF Seal, Drained, TypeInv, OpOK
    <3>2. maxSeen <= NewWatermark
      BY <3>1 DEF NewWatermark, MaxOf
    <3>3. heap = {}
      BY <1>2, <3>2 DEF Placement
    <3>4. \A e \in accepted : e \in consumed
      BY <1>1, <3>1, <3>3 DEF Placement
    <3>5. consumed = accepted
      BY <3>4 DEF Placement
    <3> QED
      BY <1>1, <3>2, <3>5 DEF SealedComplete
  <2> QED
    BY <2>1, <2>2
<1> QED
  BY <1>4, <1>5, <1>6, <1>7

(* A failing transition preserves the inductive invariant. *)
LEMMA FailInd ==
    ASSUME IndInv, TypeInv', NEW lost \in SUBSET Events, FailTransition(lost) PROVE IndInv'
<1> USE Numbers DEF IndInv
<1>1. /\ status' = "failed" /\ heap' = heap \ lost
      /\ UNCHANGED <<watermark, maxSeen, nextFeature, nextSignal, queue, worker, consumed,
                     accepted, ticks>>
  BY DEF FailTransition, schedVars, busVars
<1>2. Placement' /\ Ordered'
  BY <1>1 DEF Placement, Ordered
<1>3. BehindHorizon'
  BY <1>1 DEF BehindHorizon
<1>4. TickOrder' /\ Scheduled' /\ TicksSeeExactPast' /\ SealedComplete'
  BY <1>1 DEF TickOrder, Scheduled, TicksSeeExactPast, SealedComplete
<1> QED
  BY <1>2, <1>3, <1>4

(* The consumer takes the head of its queue, and ingests it or fails. *)
LEMMA ConsumeInd ==
    ASSUME IndInv, TypeInv', Consume \/ ConsumeFails PROVE IndInv'
<1> USE Numbers DEF IndInv
<1>1. /\ queue # <<>> /\ queue' = Tail(queue)
      /\ UNCHANGED <<heap, watermark, maxSeen, status, nextFeature, nextSignal, op,
                     accepted, ticks>>
      /\ \/ consumed' = consumed \cup {Head(queue)} /\ worker' = worker
         \/ consumed' = consumed /\ worker' = "failed"
  BY DEF Consume, ConsumeFails, driverVars, schedVars
<1>2. /\ Len(queue') = Len(queue) - 1 /\ Len(queue) \in Nat /\ Len(queue) >= 1
      /\ \A i \in 1..Len(queue') : queue'[i] = queue[i + 1] /\ i + 1 \in 1..Len(queue)
      /\ \A i \in 1..Len(queue) : i = 1 \/ i - 1 \in 1..Len(queue')
      /\ Head(queue) = queue[1] /\ queue[1] \in accepted /\ 1 \in 1..Len(queue)
  BY <1>1, TailFacts DEF Placement
<1>3. consumed' \subseteq consumed \cup {queue[1]}
  BY <1>1, <1>2
<1>4. Placement'
  <2>1. \A i \in 1..Len(queue') : queue'[i] \in accepted
    BY <1>2 DEF Placement
  <2>2. consumed' \subseteq accepted
    BY <1>2, <1>3 DEF Placement
  <2>3. ASSUME worker' = "running", status # "failed", NEW e \in accepted
        PROVE  e \in heap \/ e \in consumed' \/ \E i \in 1..Len(queue') : queue'[i] = e
    <3>1. /\ worker = "running" /\ consumed' = consumed \cup {queue[1]}
      BY <1>1, <1>2, <2>3
    <3>2. e \in heap \/ e \in consumed \/ \E i \in 1..Len(queue) : queue[i] = e
      BY <2>3, <3>1 DEF Placement
    <3>3. ASSUME NEW i \in 1..Len(queue), queue[i] = e, i # 1
          PROVE  \E j \in 1..Len(queue') : queue'[j] = e
      <4>1. i - 1 \in 1..Len(queue') /\ queue'[i - 1] = queue[i]
        BY <1>2, <3>3
      <4> QED
        BY <3>3, <4>1
    <3> QED
      BY <3>1, <3>2, <3>3
  <2> QED
    BY <1>1, <2>1, <2>2, <2>3 DEF Placement
<1>5. Ordered'
  BY <1>1, <1>2, <1>3, SMTT(30) DEF Ordered
<1>6. BehindHorizon'
  BY <1>1, <1>2, <1>3 DEF BehindHorizon, Horizon
<1>7. TickOrder'
  BY <1>1, <1>2 DEF TickOrder
<1>8. Scheduled'
  BY <1>1, <1>2, <1>3 DEF Scheduled
<1>9. status # "sealed"
  BY <1>2, BeforeOrder DEF SealedComplete, Ordered
<1>10. TicksSeeExactPast' /\ SealedComplete'
  BY <1>1, <1>9 DEF TicksSeeExactPast, SealedComplete
<1> QED
  BY <1>4, <1>5, <1>6, <1>7, <1>8, <1>10

(* Every step preserves the inductive invariant. *)
LEMMA IndStep == IndInv /\ [Next]_vars => IndInv'
<1> SUFFICES ASSUME IndInv, [Next]_vars PROVE IndInv'
  OBVIOUS
<1>1. TypeInv'
  BY TypeStep DEF IndInv
<1>2. ASSUME UNCHANGED vars PROVE IndInv'
  BY <1>1, <1>2 DEF IndInv, Placement, Ordered, BehindHorizon, Horizon, TickOrder,
     Scheduled, TicksSeeExactPast, SealedComplete, vars, driverVars, schedVars, busVars
<1>3. ASSUME NEW e \in Events, ReleaseFails(e) PROVE IndInv'
  BY <1>1, <1>3, FailInd DEF ReleaseFails
<1>4. ASSUME DrainFails \/ TickFails PROVE IndInv'
  BY <1>1, <1>4, FailInd DEF DrainFails, TickFails
<1> QED
  BY <1>1, <1>2, <1>3, <1>4, BeginInd, DeliverTickInd, ReleaseEventInd, PushEventInd,
     EndInd, ConsumeInd DEF Next, Transition

(* The inductive invariant holds throughout. *)
LEMMA Invariance == Spec => []IndInv
BY InitInd, IndStep, PTL DEF Spec

(* No lookahead and no omission: a decision tick at t was computed from    *)
(* exactly the accepted events received up to t, whatever is accepted      *)
(* later, for every arrival order, reorder window and queue capacity.      *)
THEOREM NoLookahead == Spec => []TicksSeeExactPast
<1>1. IndInv => TicksSeeExactPast
  BY DEF IndInv
<1> QED
  BY <1>1, Invariance, PTL

(* finish() loses nothing: a sealed timeline has ingested every accepted   *)
(* event and its watermark has passed the newest of them.                  *)
THEOREM SealedIsComplete == Spec => []SealedComplete
<1>1. IndInv => SealedComplete
  BY DEF IndInv
<1> QED
  BY <1>1, Invariance, PTL

(* Under the invariant an ingested event follows all ingested before. *)
LEMMA OrderStep ==
    ASSUME IndInv, [Next]_vars
    PROVE  [\A e \in consumed' \ consumed : \A d \in consumed : Before(d, e)]_vars
<1>1. CASE Consume
  <2>1. Head(queue) = queue[1] /\ 1 \in 1..Len(queue)
    BY <1>1, TailFacts, Numbers DEF Consume, IndInv
  <2> QED
    BY <1>1, <2>1 DEF Consume, IndInv, Ordered
<1>2. CASE ~Consume
  <2>1. consumed' = consumed
    BY <1>2 DEF Next, Transition, Publish, AdvanceTo, Finish, DeliverTick, ReleaseEvent,
       PushEvent, PushOverflow, AdvanceReturns, Seal, ReleaseFails, DrainFails, TickFails,
       FailTransition, ConsumeFails, vars, busVars
  <2> QED
    BY <2>1
<1> QED
  BY <1>1, <1>2

(* The feature state ingests events in heap-key order. *)
THEOREM OrderedIngestion == Spec => IngestedInOrder
BY Invariance, OrderStep, PTL DEF Spec, IngestedInOrder

----------------------------------------------------------------------------
(* The refinement: every step of the driver is a step of the abstract      *)
(* timeline or leaves it unchanged.                                        *)
LEMMA AcceptStep ==
    ASSUME IndInv, PushEvent PROVE \E e \in Events : TL!Accept(e)
<1> USE Numbers DEF IndInv
<1>1. PICK e \in Events : /\ op.push = {e} /\ op.target = Ts[e] - Lateness
                          /\ Ts[e] > watermark /\ e \notin accepted
  BY DEF PushEvent, TypeInv, OpOK
<1>2. status = "open" /\ Ts[e] > Horizon
  BY <1>1, Bounds DEF PushEvent, AdvanceDone, TypeInv, OpOK, Horizon
<1>3. /\ \A d \in consumed : Ts[d] < Ts[e]
      /\ \A k \in ticks : k.at < Ts[e]
  BY <1>2 DEF BehindHorizon
<1> QED
  BY <1>1, <1>2, <1>3 DEF TL!Accept, PushEvent, busVars

(* The consumer's step is the timeline's Ingest. *)
LEMMA IngestStep ==
    ASSUME IndInv, Consume PROVE \E e \in Events : TL!Ingest(e)
<1> USE Numbers DEF IndInv
<1>1. /\ Head(queue) = queue[1] /\ 1 \in 1..Len(queue) /\ queue[1] \in Events
  BY TailFacts DEF Consume
<1>2. /\ queue[1] \in accepted /\ queue[1] \notin consumed
      /\ \A d \in consumed : Before(d, queue[1])
      /\ \A k \in ticks : k.at < Ts[queue[1]]
  BY <1>1, BeforeOrder DEF Placement, Ordered, TickOrder
<1>3. status # "sealed"
  BY <1>2 DEF SealedComplete
<1>4. TL!Ingest(queue[1])
  BY <1>1, <1>2, <1>3 DEF TL!Ingest, TL!Before, Before, Consume, driverVars
<1> QED
  BY <1>1, <1>4

(* The delivery of a tick is the timeline's Tick. *)
LEMMA TickStep ==
    ASSUME IndInv, IndInv', DeliverTick
    PROVE  \E k \in ticks' \ ticks : TL!Tick(k.at, k.kind)
<1> DEFINE k0 == [at |-> NextTick, kind |-> TickKindDue, seen |-> consumed]
<1> USE Numbers DEF IndInv
<1>1. /\ ticks' = ticks \cup {k0} /\ status = "open"
      /\ UNCHANGED <<status, consumed, accepted>>
  BY DEF DeliverTick, TickDue, Advancing, TypeInv, OpOK, driverVars, busVars
<1>2. nextFeature \in Nat /\ nextSignal \in Nat /\ NextTick \in Nat
  BY DEF DeliverTick, TickDue, NextTick, MinOf
<1>3. \A k \in ticks : \/ k.at < NextTick
                       \/ k.at = NextTick /\ k.kind = "FEATURE" /\ TickKindDue = "SIGNAL"
  BY <1>2 DEF TickOrder, NextTick, MinOf, TickKindDue, TickRecords, TickKind
<1>4. k0 \notin ticks
  BY <1>2, <1>3
<1>5. consumed = {e \in accepted : Ts[e] <= NextTick}
  <2>1. k0 \in ticks' /\ k0.seen = consumed /\ k0.at = NextTick
    BY <1>1
  <2>2. k0.seen = {e \in accepted' : Ts[e] <= k0.at}
    BY <2>1 DEF TicksSeeExactPast
  <2> QED
    BY <1>1, <2>1, <2>2
<1>6. TL!Tick(NextTick, TickKindDue)
  BY <1>1, <1>3, <1>5 DEF TL!Tick
<1>7. k0.at = NextTick /\ k0.kind = TickKindDue /\ k0 \in ticks' \ ticks
  BY <1>1, <1>4
<1> QED
  BY <1>6, <1>7

(* Sealing the driver seals the timeline. *)
LEMMA SealStep ==
    ASSUME IndInv, IndInv', Seal PROVE TL!SealTimeline
<1>1. status = "open" /\ status' = "sealed" /\ UNCHANGED <<consumed, accepted, ticks>>
  BY DEF Seal, AdvanceDone, IndInv, TypeInv, OpOK, busVars
<1>2. consumed = accepted
  BY <1>1 DEF IndInv, SealedComplete
<1> QED
  BY <1>1, <1>2 DEF TL!SealTimeline

(* Every step maps to a timeline step or a stutter. *)
LEMMA RefinementStep ==
    ASSUME IndInv, IndInv', [Next]_vars PROVE [TL!TNext]_(TL!tvars)
<1>1. CASE PushEvent
  BY <1>1, AcceptStep DEF TL!TNext
<1>2. CASE Consume
  BY <1>2, IngestStep DEF TL!TNext
<1>3. CASE DeliverTick
  BY <1>3, TickStep DEF TL!TNext
<1>4. CASE Seal
  BY <1>4, SealStep DEF TL!TNext
<1>5. CASE ~(PushEvent \/ Consume \/ DeliverTick \/ Seal)
  <2>1. UNCHANGED <<accepted, consumed, ticks>>
    BY <1>5 DEF Next, Transition, Publish, AdvanceTo, Finish, ReleaseEvent, PushOverflow,
       AdvanceReturns, ReleaseFails, DrainFails, TickFails, FailTransition, ConsumeFails,
       vars, busVars
  <2>2. status' = status \/ (status = "open" /\ status' = "failed")
    BY <1>5 DEF Next, Transition, Publish, AdvanceTo, Finish, ReleaseEvent, PushOverflow,
       AdvanceReturns, ReleaseFails, DrainFails, TickFails, FailTransition, ConsumeFails,
       vars, driverVars, IndInv, TypeInv, OpOK, AdvanceDone, Advancing, TickDue
  <2> QED
    BY <2>1, <2>2 DEF TL!tvars
<1> QED
  BY <1>1, <1>2, <1>3, <1>4, <1>5

(* The driver implements the abstract timeline: one order of events and    *)
(* ticks that depends on the accepted events and not on how publishers,    *)
(* the live clock and the bus consumer interleave.                         *)
THEOREM Refinement == Spec => ImplementsTimeline
<1>1. Init => TL!TInit
  BY DEF Init, TL!TInit
<1> QED
  BY <1>1, Invariance, RefinementStep, PTL DEF Spec, ImplementsTimeline, TL!TSpec

----------------------------------------------------------------------------
(* The decision grid.  The scheduler starts at the first event released,   *)
(* which is the earliest ever accepted; from there on every boundary of a  *)
(* kind before the next one has had its tick, and no other time has.       *)
OnGrid(t, i) == t % i = 0

Origin(e0) ==
    /\ \A e \in accepted : Ts[e0] <= Ts[e]
    /\ status # "failed" => Ts[e0] <= Horizon
    /\ Ts[e0] < nextFeature /\ Ts[e0] < nextSignal
    /\ \A k \in ticks : Ts[e0] < k.at
    /\ \A t \in Nat : Ts[e0] < t /\ t < nextFeature /\ OnGrid(t, FeatureInterval)
            => \E k \in ticks : k.kind = "FEATURE" /\ k.at = t
    /\ \A t \in Nat : Ts[e0] < t /\ t < nextSignal /\ OnGrid(t, SignalInterval)
            => \E k \in ticks : k.kind = "SIGNAL" /\ k.at = t

Grid ==
    /\ nextFeature = None => worker = "running" /\ accepted = heap
    /\ nextFeature # None =>
        /\ OnGrid(nextFeature, FeatureInterval) /\ OnGrid(nextSignal, SignalInterval)
        /\ status # "failed" => nextFeature > watermark /\ nextSignal > watermark
        /\ \E e0 \in accepted : Origin(e0)
    /\ \A k \in ticks : OnGrid(k.at, Interval(k.kind))
    /\ FeatureBeforeSignal

(* Multiplication by an interval keeps the order, strictly. *)
LEMMA Scaled ==
    ASSUME NEW i \in Nat \ {0}, NEW a \in Int, NEW b \in Int
    PROVE  i * a < i * b <=> a < b
<1>1. CASE a < b
  <2>1. b - a \in Nat /\ b - a >= 1 /\ i * b = i * a + i * (b - a)
    BY <1>1
  <2>2. i * (b - a) >= i
    BY <2>1
  <2> QED
    BY <1>1, <2>1, <2>2
<1>2. CASE ~(a < b)
  <2>1. a - b \in Nat /\ i * a = i * b + i * (a - b)
    BY <1>2
  <2>2. i * (a - b) >= 0
    BY <2>1
  <2> QED
    BY <1>2, <2>1, <2>2
<1> QED
  BY <1>1, <1>2

(* The multiples of an interval are its grid, with nothing between two     *)
(* consecutive ones.                                                       *)
LEMMA GridLines ==
    ASSUME NEW i \in Nat \ {0}, NEW q \in Nat
    PROVE  /\ OnGrid(i * q, i)
           /\ \A u \in Nat : i * q < u /\ u < i * (q + 1) => ~OnGrid(u, i)
<1>1. ASSUME NEW x \in Nat
      PROVE  /\ x \div i \in Int /\ x % i \in 0..(i - 1) /\ x = i * (x \div i) + (x % i)
  OBVIOUS
<1>2. OnGrid(i * q, i)
  <2> DEFINE x == i * q
             d == x \div i
             m == x % i
  <2>1. x \in Nat
    OBVIOUS
  <2>2. d \in Int /\ m \in Int /\ 0 <= m /\ m < i /\ x = i * d + m
    BY <1>1, <2>1, SMTT(30)
  <2> HIDE DEF d, m
  <2>3. i * d <= i * q /\ i * q < i * d + i
    BY <2>2
  <2>4. i * (d + 1) = i * d + i
    BY <2>2
  <2>5. q < d + 1
    BY <2>2, <2>3, <2>4, Scaled
  <2>6. ~(q < d)
    BY <2>2, <2>3, Scaled
  <2>7. q = d
    BY <2>2, <2>5, <2>6
  <2>8. m = 0
    BY <2>2, <2>7
  <2> QED
    BY <2>8 DEF OnGrid, m
<1>3. ASSUME NEW u \in Nat, i * q < u, u < i * (q + 1), OnGrid(u, i) PROVE FALSE
  <2> DEFINE d == u \div i
  <2>1. d \in Int /\ u = i * d
    BY <1>1, <1>3 DEF OnGrid
  <2> HIDE DEF d
  <2>2. q < d /\ d < q + 1
    BY <1>3, <2>1, Scaled
  <2> QED
    BY <2>1, <2>2
<1> QED
  BY <1>2, <1>3

(* The first boundary after a time. *)
LEMMA FirstBoundary ==
    ASSUME NEW t \in Nat, NEW i \in Nat \ {0}
    PROVE  /\ OnGrid(NextBoundary(t, i), i)
           /\ \A u \in Nat : t < u /\ u < NextBoundary(t, i) => ~OnGrid(u, i)
<1> DEFINE q == t \div i
<1>1. q \in Nat /\ t = i * q + (t % i) /\ (t % i) \in 0..(i - 1)
  OBVIOUS
<1>2. NextBoundary(t, i) = i * (q + 1) /\ q + 1 \in Nat
  BY <1>1 DEF NextBoundary
<1> HIDE DEF q
<1>3. i * q <= t
  BY <1>1
<1>4. OnGrid(i * (q + 1), i)
  BY <1>1, <1>2, GridLines
<1>5. \A u \in Nat : i * q < u /\ u < i * (q + 1) => ~OnGrid(u, i)
  BY <1>1, GridLines
<1>6. i * q \in Nat
  BY <1>1
<1> QED
  BY <1>2, <1>3, <1>4, <1>5, <1>6

(* The boundary after a boundary. *)
LEMMA FollowingBoundary ==
    ASSUME NEW a \in Nat, NEW i \in Nat \ {0}, OnGrid(a, i)
    PROVE  /\ OnGrid(a + i, i)
           /\ \A u \in Nat : a < u /\ u < a + i => ~OnGrid(u, i)
<1> DEFINE q == a \div i
<1>1. q \in Nat /\ a = i * q
  BY DEF OnGrid
<1> HIDE DEF q
<1>2. i * (q + 1) = a + i /\ q + 1 \in Nat
  BY <1>1
<1>3. OnGrid(i * (q + 1), i)
  BY <1>2, GridLines
<1>4. \A u \in Nat : i * q < u /\ u < i * (q + 1) => ~OnGrid(u, i)
  BY <1>1, GridLines
<1> QED
  BY <1>1, <1>2, <1>3, <1>4

(* Steps that neither tick, nor accept, nor move the scheduler. *)
LEMMA GridFrame ==
    ASSUME Grid, TypeInv, TypeInv',
           UNCHANGED <<accepted, ticks, nextFeature, nextSignal>>,
           nextFeature = None => worker' = "running" /\ heap' = heap,
           nextFeature # None /\ status' # "failed" =>
               /\ status # "failed" /\ Horizon <= Horizon'
               /\ nextFeature > watermark' /\ nextSignal > watermark'
    PROVE  Grid'
<1>1. \A e0 \in accepted : nextFeature # None /\ Origin(e0) => Origin(e0)'
  <2>1. Horizon \in Int /\ Horizon' \in Int /\ \A e \in accepted : Ts[e] \in Nat
    BY Numbers DEF TypeInv, TypeOK, Horizon, Operations, Times, None
  <2> QED
    BY <2>1 DEF Origin
<1> QED
  BY <1>1 DEF Grid, FeatureBeforeSignal, Interval

(* A tick is delivered on the next boundary of its kind; one of the other  *)
(* kind that is earlier or precedes it has been delivered already.         *)
LEMMA DeliverTickGrid ==
    ASSUME IndInv, TypeInv', Grid, DeliverTick PROVE Grid'
<1> DEFINE k0 == [at |-> NextTick, kind |-> TickKindDue, seen |-> consumed]
<1>0. /\ ticks' = ticks \cup {k0}
      /\ UNCHANGED <<heap, watermark, status, op, worker, accepted>> /\ Horizon' = Horizon
      /\ nextFeature # None
  BY DEF DeliverTick, TickDue, driverVars, busVars, Horizon
<1>1. /\ \A e \in Events : Ts[e] \in Nat
      /\ \A k \in ticks : k.at \in Nat
      /\ nextFeature \in Nat /\ nextSignal \in Nat /\ accepted \subseteq Events
      /\ watermark \in Int
  BY <1>0, Numbers DEF IndInv
<1>2. /\ FeatureInterval \in Nat \ {0} /\ SignalInterval \in Nat \ {0}
  BY Bounds
<1>3. k0.at = NextTick /\ k0.kind = TickKindDue /\ k0 \in ticks'
  BY <1>0
<1> HIDE DEF k0
<1>4. PICK e0 \in accepted : Origin(e0)
  BY <1>0 DEF Grid
<1>5. OnGrid(nextFeature, FeatureInterval) /\ OnGrid(nextSignal, SignalInterval)
  BY <1>0 DEF Grid
<1>6. CASE TickKindDue = "FEATURE"
  <2>1. /\ NextTick = nextFeature /\ nextFeature <= nextSignal
        /\ nextFeature' = nextFeature + FeatureInterval /\ nextSignal' = nextSignal
    BY <1>1, <1>6 DEF DeliverTick, TickKindDue, NextTick, MinOf
  <2>2. /\ OnGrid(nextFeature', FeatureInterval)
        /\ \A u \in Nat : nextFeature < u /\ u < nextFeature' => ~OnGrid(u, FeatureInterval)
    BY <1>1, <1>2, <1>5, <2>1, FollowingBoundary
  <2>3. \A t \in Nat : Ts[e0] < t /\ t < nextFeature' /\ OnGrid(t, FeatureInterval)
            => \E k \in ticks' : k.kind = "FEATURE" /\ k.at = t
    <3>1. SUFFICES ASSUME NEW t \in Nat, Ts[e0] < t, t < nextFeature', OnGrid(t, FeatureInterval)
                   PROVE  \E k \in ticks' : k.kind = "FEATURE" /\ k.at = t
      OBVIOUS
    <3>2. t < nextFeature \/ t = nextFeature
      BY <1>1, <2>2, <3>1
    <3> QED
      BY <1>0, <1>3, <1>4, <1>6, <2>1, <3>1, <3>2 DEF Origin
  <2>4. Origin(e0)'
    <3>1. \A k \in ticks' : Ts[e0] < k.at
      BY <1>0, <1>1, <1>3, <1>4, <2>1 DEF Origin
    <3>2. Ts[e0] < nextFeature' /\ Ts[e0] < nextSignal'
      BY <1>1, <1>2, <1>4, <2>1 DEF Origin
    <3>3. \A t \in Nat : Ts[e0] < t /\ t < nextSignal' /\ OnGrid(t, SignalInterval)
            => \E k \in ticks' : k.kind = "SIGNAL" /\ k.at = t
      BY <1>0, <1>4, <2>1 DEF Origin
    <3> QED
      BY <1>0, <1>4, <2>3, <3>1, <3>2, <3>3 DEF Origin, OnGrid
  <2>5. \A k \in ticks' : OnGrid(k.at, Interval(k.kind))
    BY <1>0, <1>3, <1>5, <1>6, <2>1 DEF Grid, Interval
  <2>6. FeatureBeforeSignal'
    BY <1>0, <1>3, <1>6 DEF Grid, FeatureBeforeSignal
  <2>7. status # "failed" => nextFeature' > watermark /\ nextSignal' > watermark
    BY <1>0, <1>1, <1>2, <2>1 DEF Grid
  <2>8. nextFeature' # None
    BY <1>1, <1>2, <2>1 DEF None
  <2> QED
    BY <1>0, <1>4, <1>5, <2>1, <2>2, <2>4, <2>5, <2>6, <2>7, <2>8 DEF Grid, OnGrid, Interval
<1>7. CASE TickKindDue = "SIGNAL"
  <2>1. /\ NextTick = nextSignal /\ nextSignal < nextFeature
        /\ nextSignal' = nextSignal + SignalInterval /\ nextFeature' = nextFeature
    BY <1>1, <1>7 DEF DeliverTick, TickKindDue, NextTick, MinOf
  <2>2. /\ OnGrid(nextSignal', SignalInterval)
        /\ \A u \in Nat : nextSignal < u /\ u < nextSignal' => ~OnGrid(u, SignalInterval)
    BY <1>1, <1>2, <1>5, <2>1, FollowingBoundary
  <2>3. \A t \in Nat : Ts[e0] < t /\ t < nextSignal' /\ OnGrid(t, SignalInterval)
            => \E k \in ticks' : k.kind = "SIGNAL" /\ k.at = t
    <3>1. SUFFICES ASSUME NEW t \in Nat, Ts[e0] < t, t < nextSignal', OnGrid(t, SignalInterval)
                   PROVE  \E k \in ticks' : k.kind = "SIGNAL" /\ k.at = t
      OBVIOUS
    <3>2. t < nextSignal \/ t = nextSignal
      BY <1>1, <2>2, <3>1
    <3> QED
      BY <1>0, <1>3, <1>4, <1>7, <2>1, <3>1, <3>2 DEF Origin
  <2>4. Origin(e0)'
    <3>1. \A k \in ticks' : Ts[e0] < k.at
      BY <1>0, <1>1, <1>3, <1>4, <2>1 DEF Origin
    <3>2. Ts[e0] < nextFeature' /\ Ts[e0] < nextSignal'
      BY <1>1, <1>2, <1>4, <2>1 DEF Origin
    <3>3. \A t \in Nat : Ts[e0] < t /\ t < nextFeature' /\ OnGrid(t, FeatureInterval)
            => \E k \in ticks' : k.kind = "FEATURE" /\ k.at = t
      BY <1>0, <1>4, <2>1 DEF Origin
    <3> QED
      BY <1>0, <1>4, <2>3, <3>1, <3>2, <3>3 DEF Origin, OnGrid
  <2>5. \A k \in ticks' : OnGrid(k.at, Interval(k.kind))
    BY <1>0, <1>3, <1>5, <1>7, <2>1 DEF Grid, Interval
  <2>6. FeatureBeforeSignal'
    <3>1. OnGrid(nextSignal, FeatureInterval) => \E f \in ticks : f.kind = "FEATURE" /\ f.at = nextSignal
      BY <1>1, <1>4, <2>1 DEF Origin
    <3> QED
      BY <1>0, <1>3, <2>1, <3>1 DEF Grid, FeatureBeforeSignal, OnGrid
  <2>7. status # "failed" => nextFeature' > watermark /\ nextSignal' > watermark
    BY <1>0, <1>1, <1>2, <2>1 DEF Grid
  <2> QED
    BY <1>0, <1>4, <1>5, <2>1, <2>2, <2>4, <2>5, <2>6, <2>7 DEF Grid, OnGrid, Interval
<1> QED
  BY <1>6, <1>7 DEF TickKindDue

(* The scheduler starts at the earliest event ever accepted. *)
LEMMA ReleaseEventGrid ==
    ASSUME IndInv, TypeInv', Grid, NEW e \in Events, ReleaseEvent(e) PROVE Grid'
<1>0. /\ heap' = heap \ {e} /\ e \in heap /\ status = "open"
      /\ UNCHANGED <<watermark, status, op, worker, accepted, ticks>> /\ Horizon' = Horizon
      /\ op.target > watermark /\ Horizon = op.target /\ Ts[e] <= op.target
      /\ \A h \in heap \ {e} : Before(e, h)
  BY DEF ReleaseEvent, Advancing, IsHead, Due, Horizon, IndInv, TypeInv, OpOK
<1>1. /\ \A d \in Events : Ts[d] \in Nat
      /\ accepted \subseteq Events /\ watermark \in Int /\ Horizon \in Int
  BY Numbers DEF IndInv
<1>2. CASE nextFeature # None
  <2>1. UNCHANGED <<nextFeature, nextSignal>>
    BY <1>2 DEF ReleaseEvent, StartScheduler, schedVars
  <2>2. TypeInv
    BY DEF IndInv
  <2>3. nextFeature > watermark /\ nextSignal > watermark
    BY <1>0, <1>2 DEF Grid
  <2> QED
    BY <1>0, <1>1, <1>2, <2>1, <2>2, <2>3, GridFrame
<1>3. CASE nextFeature = None
  <2>1. /\ nextFeature' = NextBoundary(Ts[e], FeatureInterval)
        /\ nextSignal' = NextBoundary(Ts[e], SignalInterval)
    BY <1>3 DEF ReleaseEvent, StartScheduler
  <2>2. /\ nextFeature' \in Nat /\ nextSignal' \in Nat
        /\ Ts[e] < nextFeature' /\ Ts[e] < nextSignal'
        /\ OnGrid(nextFeature', FeatureInterval) /\ OnGrid(nextSignal', SignalInterval)
        /\ \A u \in Nat : Ts[e] < u /\ u < nextFeature' => ~OnGrid(u, FeatureInterval)
        /\ \A u \in Nat : Ts[e] < u /\ u < nextSignal' => ~OnGrid(u, SignalInterval)
    BY <1>1, <2>1, Bounds, BoundaryAfter, FirstBoundary
  <2>3. ticks = {} /\ accepted = heap
    BY <1>3 DEF IndInv, Scheduled, Grid
  <2>4. \A d \in accepted : Ts[e] <= Ts[d]
    BY <1>0, <1>1, <2>3 DEF Before
  <2>5. Ts[e] > watermark
    BY <1>0 DEF IndInv, BehindHorizon
  <2>6. Origin(e)'
    BY <1>0, <1>1, <2>2, <2>3, <2>4 DEF Origin, OnGrid
  <2>7. nextFeature' > watermark' /\ nextSignal' > watermark' /\ nextFeature' # None
    BY <1>0, <1>1, <2>2, <2>5 DEF None
  <2> QED
    BY <1>0, <2>2, <2>3, <2>6, <2>7 DEF Grid, OnGrid, FeatureBeforeSignal
<1> QED
  BY <1>2, <1>3

(* When the loop of _advance_locked is over, the next ticks lie beyond the *)
(* new watermark.                                                          *)
LEMMA TicksAhead ==
    ASSUME IndInv, Grid, AdvanceDone, nextFeature # None
    PROVE  nextFeature > NewWatermark /\ nextSignal > NewWatermark
<1>1. /\ nextFeature \in Nat /\ nextSignal \in Nat /\ watermark \in Int /\ op.target \in Int
  BY Numbers DEF IndInv
<1>2. status # "failed"
  BY DEF IndInv, TypeInv, OpOK, AdvanceDone
<1>3. nextFeature > watermark /\ nextSignal > watermark
  BY <1>2 DEF Grid
<1>4. Advancing => NextTick > op.target
  BY <1>1 DEF AdvanceDone, TickDue, NextTick, MinOf
<1> QED
  BY <1>1, <1>3, <1>4 DEF AdvanceDone, Advancing, NextTick, MinOf, NewWatermark, MaxOf

(* An accepted event is later than the origin of the grid. *)
LEMMA PushEventGrid ==
    ASSUME IndInv, TypeInv', Grid, PushEvent PROVE Grid'
<1> USE Numbers DEF IndInv
<1>1. PICK e \in Events : /\ op.push = {e} /\ op.target = Ts[e] - Lateness
                          /\ Ts[e] > watermark /\ e \notin accepted
  BY DEF PushEvent, TypeInv, OpOK
<1>2. /\ heap' = heap \cup {e} /\ accepted' = accepted \cup {e}
      /\ watermark' = NewWatermark /\ AdvanceDone
      /\ UNCHANGED <<status, nextFeature, nextSignal, queue, worker, consumed, ticks>>
      /\ op' = Idle /\ op # Idle
  BY <1>1 DEF PushEvent, AdvanceDone, schedVars, busVars
<1>3. status = "open" /\ Ts[e] > NewWatermark /\ Horizon' = Horizon /\ Ts[e] > Horizon
  BY <1>1, <1>2, Bounds, SMTT(30) DEF TypeInv, OpOK, NewWatermark, MaxOf, Horizon, Idle, None,
                            TypeOK, Times
<1>4. nextFeature # None => nextFeature > watermark' /\ nextSignal > watermark'
  <2> HIDE DEF IndInv
  <2> QED
    BY <1>2, TicksAhead
<1>5. ASSUME NEW e0 \in accepted, nextFeature # None, Origin(e0) PROVE Origin(e0)'
  <2>1. Ts[e0] \in Nat /\ Ts[e] \in Nat /\ Horizon \in Int
    OBVIOUS
  <2>2. Ts[e0] <= Ts[e]
    BY <1>3, <1>5, <2>1 DEF Origin
  <2> QED
    BY <1>2, <1>3, <1>5, <2>2 DEF Origin, OnGrid
<1> HIDE DEF IndInv
<1> QED
  BY <1>2, <1>4, <1>5 DEF Grid, FeatureBeforeSignal, OnGrid, Interval

(* Every step keeps the grid. *)
LEMMA GridStep == IndInv /\ Grid /\ [Next]_vars => Grid'
<1> SUFFICES ASSUME IndInv, Grid, [Next]_vars PROVE Grid'
  OBVIOUS
<1>0. TypeInv /\ TypeInv'
  BY TypeStep DEF IndInv
<1>1. Horizon \in Int /\ watermark \in Int /\ Horizon = NewWatermark
  BY <1>0, Numbers
<1>2. CASE \/ \E e \in Events : Publish(e)
           \/ \E t \in ClockTimes : AdvanceTo(t)
           \/ \E t \in ClockTimes \cup {None} : Finish(t)
  <2>1. /\ op = Idle /\ status = "open"
        /\ UNCHANGED <<driverVars, schedVars, busVars, accepted, ticks>>
    BY <1>2 DEF Publish, AdvanceTo, Finish
  <2>2. watermark \in Times /\ op'.target \in Times /\ Horizon = watermark
    BY <1>0, <2>1 DEF TypeInv, TypeOK, Operations, Horizon, Idle, Times, None
  <2>3. Horizon <= Horizon'
    BY <2>1, <2>2 DEF Horizon, Times, None, driverVars
  <2>4. nextFeature # None => nextFeature > watermark /\ nextSignal > watermark
    BY <2>1 DEF Grid
  <2> QED
    BY <1>0, <2>1, <2>3, <2>4, GridFrame DEF driverVars, schedVars, busVars, Grid
<1>3. CASE PushOverflow \/ AdvanceReturns \/ Seal
  <2>1. /\ AdvanceDone /\ op # Idle /\ status = "open"
        /\ watermark' = NewWatermark /\ op' = Idle
        /\ UNCHANGED <<heap, nextFeature, nextSignal, worker, accepted, ticks>>
    BY <1>3 DEF PushOverflow, AdvanceReturns, Seal, AdvanceDone, schedVars, busVars,
       IndInv, TypeInv, OpOK
  <2>2. Horizon' = Horizon
    BY <1>0, <1>1, <2>1 DEF NewWatermark, MaxOf, Horizon, Idle, None, TypeInv, TypeOK, Times
  <2>3. nextFeature # None => nextFeature > watermark' /\ nextSignal > watermark'
    BY <2>1, TicksAhead
  <2> QED
    BY <1>0, <1>1, <2>1, <2>2, <2>3, GridFrame DEF Grid
<1>4. ASSUME NEW lost, FailTransition(lost), nextFeature = None => lost = {}
      PROVE  Grid'
  BY <1>0, <1>4, GridFrame DEF FailTransition, schedVars, busVars, Grid
<1>5. ASSUME NEW e \in Events, ReleaseFails(e) PROVE Grid'
  BY <1>4, <1>5 DEF ReleaseFails, Grid
<1>6. CASE DrainFails \/ TickFails
  BY <1>4, <1>6 DEF DrainFails, TickFails
<1>7. CASE Consume \/ ConsumeFails
  <2>1. /\ queue # <<>>
        /\ UNCHANGED <<heap, watermark, status, nextFeature, nextSignal, op, accepted, ticks>>
    BY <1>7 DEF Consume, ConsumeFails, driverVars, schedVars
  <2>2. nextFeature # None
    BY <2>1 DEF IndInv, Scheduled
  <2>3. Horizon' = Horizon
    BY <2>1 DEF Horizon
  <2> QED
    BY <1>0, <1>1, <2>1, <2>2, <2>3, GridFrame DEF Grid
<1>8. CASE UNCHANGED vars
  <2>1. /\ UNCHANGED <<heap, watermark, status, nextFeature, nextSignal, op, accepted, ticks>>
        /\ worker' = worker
    BY <1>8 DEF vars, driverVars, schedVars, busVars
  <2>2. Horizon' = Horizon
    BY <2>1 DEF Horizon
  <2> QED
    BY <1>0, <1>1, <2>1, <2>2, GridFrame DEF Grid
<1> QED
  BY <1>0, <1>2, <1>3, <1>5, <1>6, <1>7, <1>8, DeliverTickGrid, ReleaseEventGrid, PushEventGrid
     DEF Next, Transition

(* The grid is in order throughout. *)
LEMMA GridInvariance == Spec => []Grid
<1>1. Init => Grid
  BY DEF Init, Grid, FeatureBeforeSignal
<1> QED
  BY <1>1, Invariance, GridStep, PTL DEF Spec

(* Between transitions the ticks of each kind delivered are exactly the    *)
(* boundaries after the first accepted event and up to the watermark, for  *)
(* every pair of intervals and every interleaving.                         *)
THEOREM CompleteBoundaries == Spec => []BoundariesComplete
<1>1. IndInv /\ Grid => BoundariesComplete
  <2> SUFFICES ASSUME IndInv, Grid, op = Idle, status # "failed", NEW kind \in TickKind
               PROVE  {k.at : k \in {j \in ticks : j.kind = kind}} =
                          {t \in 0..watermark : /\ t % Interval(kind) = 0
                                                /\ \E e \in accepted : Ts[e] < t}
    BY DEF BoundariesComplete
  <2>0. /\ \A e \in Events : Ts[e] \in Nat
        /\ \A k \in ticks : k.at \in Nat
        /\ accepted \subseteq Events /\ watermark \in Int
        /\ nextFeature # None => nextFeature \in Nat /\ nextSignal \in Nat
    BY Numbers DEF IndInv
  <2>1. Horizon = watermark
    BY <2>0 DEF Horizon, Idle, None, IndInv, TypeInv, TypeOK, Times
  <2>2. ASSUME NEW k \in ticks, k.kind = kind
        PROVE  /\ k.at \in 0..watermark /\ k.at % Interval(kind) = 0
               /\ \E e \in accepted : Ts[e] < k.at
    <3>1. k.at <= watermark
      BY <2>1 DEF IndInv, BehindHorizon
    <3>2. nextFeature # None
      BY DEF IndInv, Scheduled
    <3>3. \E e \in accepted : Ts[e] < k.at
      BY <3>2 DEF Grid, Origin
    <3>4. k.at % Interval(kind) = 0
      BY <2>2 DEF Grid, OnGrid
    <3> QED
      BY <2>0, <3>1, <3>3, <3>4
  <2>3. ASSUME NEW t \in 0..watermark, t % Interval(kind) = 0, NEW e \in accepted, Ts[e] < t
        PROVE  \E k \in ticks : k.kind = kind /\ k.at = t
    <3>1. nextFeature # None
      <4>1. SUFFICES ASSUME nextFeature = None PROVE FALSE
        OBVIOUS
      <4>2. e \in heap
        BY <4>1 DEF Grid
      <4>3. Ts[e] > watermark
        BY <4>2 DEF IndInv, BehindHorizon
      <4> QED
        BY <2>0, <2>3, <4>3
    <3>2. PICK e0 \in accepted : Origin(e0)
      BY <3>1 DEF Grid
    <3>3. /\ t \in Nat /\ Ts[e0] < t /\ t < nextFeature /\ t < nextSignal
      BY <2>0, <2>3, <3>1, <3>2 DEF Grid, Origin
    <3> QED
      BY <2>3, <3>2, <3>3 DEF Origin, OnGrid, Interval, TickKind
  <2> QED
    BY <2>2, <2>3
<1> QED
  BY <1>1, Invariance, GridInvariance, PTL

(* On a boundary shared by both kinds the feature tick is delivered before *)
(* the signal tick.                                                        *)
THEOREM FeatureFirst == Spec => []FeatureBeforeSignal
<1>1. Grid => FeatureBeforeSignal
  BY DEF Grid
<1> QED
  BY <1>1, GridInvariance, PTL
=============================================================================
