--------------------------- MODULE FeatureDriver ---------------------------
(***************************************************************************)
(* The receive-time feature driver (features/runtime.py) between the       *)
(* normalized-event producers and the feature runtime.                     *)
(*                                                                         *)
(* Producers publish events in any order.  The driver keeps them in a      *)
(* bounded heap, releases them in receive-time order once the watermark    *)
(* passes them, and interleaves the decision ticks of the scheduler        *)
(* (clock/scheduler.py).  Released events cross a bounded queue of the     *)
(* event bus to the feature-state consumer, which runs concurrently; ticks *)
(* call the runtime directly, after a drain of that queue.                 *)
(*                                                                         *)
(* The asyncio lock admits one transition (publish, advance_to, finish) at *)
(* a time; the steps of a transition are separated where it awaits the bus *)
(* or the runtime, so the consumer may run between any two of them.        *)
(* Cancelling the caller does not stop a transition that has begun         *)
(* (utils/async_lifecycle.py), so cancellation is no action here.          *)
(***************************************************************************)
EXTENDS Integers, Sequences, FiniteSets

CONSTANTS
    Events,          \* every normalized event that may be published
    Ts,              \* Ts[e]: local receive timestamp of e
    Key,             \* Key[e]: the rest of e's heap key (exchange .. ordinal)
    Lateness,        \* features.receive_time_reorder_ms
    Capacity,        \* bound of the reorder heap
    QueueCapacity,   \* bound of the consumer's bus queue
    FeatureInterval, \* timing.feature_update_seconds
    SignalInterval,  \* timing.signal_check_seconds
    ClockTimes       \* timestamps advance_to and finish may be called with

(* Settings reject non-positive intervals, bounds and reorder windows      *)
(* (config.py); the ordinal makes heap keys of one timestamp distinct;     *)
(* timestamps count from an epoch earlier than any watermark.              *)
ASSUME DriverAssumption ==
    /\ Lateness \in Nat \ {0}
    /\ Capacity \in Nat \ {0}
    /\ QueueCapacity \in Nat \ {0}
    /\ FeatureInterval \in Nat \ {0}
    /\ SignalInterval \in Nat \ {0}
    /\ Ts \in [Events -> Nat]
    /\ \A e \in Events : Ts[e] >= Lateness
    /\ Key \in [Events -> Nat]
    /\ \A d, e \in Events : Ts[d] = Ts[e] /\ Key[d] = Key[e] => d = e
    /\ ClockTimes \subseteq Nat

VARIABLES
    heap,        \* _events: accepted, not yet released to the bus
    watermark,   \* _watermark, None before the first advance
    maxSeen,     \* _maximum_seen
    status,      \* "sealed" by _sealed, "failed" by _failure, else "open"
    nextFeature, \* scheduler._next_feature, None while there is no scheduler
    nextSignal,  \* scheduler._next_signal
    op,          \* the transition that holds the lock
    queue,       \* the feature-state consumer's bus queue
    worker,      \* that consumer's task: "running" or "failed"
    accepted,    \* history: events pushed on the heap
    consumed,    \* history: events the feature state has ingested
    ticks        \* history: the ticks delivered, with what had been ingested

driverVars == <<heap, watermark, maxSeen, status>>
schedVars == <<nextFeature, nextSignal>>
busVars == <<queue, worker, consumed>>
vars == <<driverVars, schedVars, op, busVars, accepted, ticks>>

(* Names ending in _mutant are plausible faults; the specification never   *)
(* uses them.  The checks swap one in to see that a property notices it.   *)

None == -1
TickKind == {"FEATURE", "SIGNAL"}
Times == Nat \cup {None}
Operations == [kind : {"idle", "publish", "advance", "finish"},
               target : Times, push : SUBSET Events]
TickRecords == [at : Nat, kind : TickKind, seen : SUBSET Events]
Idle == [kind |-> "idle", target |-> None, push |-> {}]

MaxOf(a, b) == IF a >= b THEN a ELSE b
MinOf(a, b) == IF a <= b THEN a ELSE b

(* The dataclass ordering of _QueuedFeatureEvent. *)
Before(d, e) == Ts[d] < Ts[e] \/ (Ts[d] = Ts[e] /\ Key[d] < Key[e])

IsHead_mutant(e) == e \in heap /\ \A d \in heap : Ts[e] <= Ts[d]

(* Head of the heap. *)
IsHead(e) == e \in heap /\ \A d \in heap \ {e} : Before(e, d)

NextBoundary_mutant(t, interval) == ((t + interval - 1) \div interval) * interval

(* _next_boundary: the first multiple of the interval strictly after t. *)
NextBoundary(t, interval) == ((t \div interval) + 1) * interval

----------------------------------------------------------------------------
Init ==
    /\ heap = {}
    /\ watermark = None
    /\ maxSeen = None
    /\ status = "open"
    /\ nextFeature = None
    /\ nextSignal = None
    /\ op = Idle
    /\ queue = <<>>
    /\ worker = "running"
    /\ accepted = {}
    /\ consumed = {}
    /\ ticks = {}

(***************************************************************************)
(* Taking the lock.  publish raises, leaving the driver as it is, on an    *)
(* earlier failure, after finish, and for an event at or behind the        *)
(* watermark: that event is simply never accepted.                         *)
(***************************************************************************)
Admissible_mutant(e) == Ts[e] >= watermark

Admissible(e) == Ts[e] > watermark

Publish(e) ==
    /\ op = Idle /\ status = "open"
    /\ e \notin accepted
    /\ Admissible(e)
    /\ op' = [kind |-> "publish", target |-> Ts[e] - Lateness, push |-> {e}]
    /\ UNCHANGED <<driverVars, schedVars, busVars, accepted, ticks>>

(* advance_to, called by run_live_clock with now - lateness; the wall      *)
(* clock may step backwards, so any time is possible.  An advance to a     *)
(* time at or behind the watermark returns at once.                        *)
AdvanceTo(t) ==
    /\ op = Idle /\ status = "open"
    /\ t > watermark
    /\ op' = [kind |-> "advance", target |-> t, push |-> {}]
    /\ UNCHANGED <<driverVars, schedVars, busVars, accepted, ticks>>

Finish_mutant(through) ==
    /\ op = Idle /\ status = "open"
    /\ op' = [kind |-> "finish", push |-> {},
              target |-> IF through = None THEN maxSeen ELSE through]
    /\ UNCHANGED <<driverVars, schedVars, busVars, accepted, ticks>>

(* finish: through_timestamp is None or a time; with no event seen and no  *)
(* through_timestamp there is nothing to advance to.                       *)
Finish(through) ==
    /\ op = Idle /\ status = "open"
    /\ op' = [kind |-> "finish", target |-> MaxOf(maxSeen, through), push |-> {}]
    /\ UNCHANGED <<driverVars, schedVars, busVars, accepted, ticks>>

----------------------------------------------------------------------------
(***************************************************************************)
(* The steps of _advance_locked.  Before each distinct timestamp of a      *)
(* releasable event every tick strictly earlier is delivered; when no      *)
(* releasable event is left, every tick up to the target.                  *)
(***************************************************************************)
Advancing == op # Idle /\ op.target > watermark

Due(e) == Ts[e] <= op.target

NextTick == MinOf(nextFeature, nextSignal)

(* before_event: one time unit before the event that is about to be        *)
(* released, and through it every tick is emitted first.                   *)
TickPrecedes(t, e) == t <= Ts[e] - 1

(* _emit_ticks_through has a due tick. *)
TickDue ==
    /\ Advancing /\ nextFeature # None
    /\ NextTick <= op.target
    /\ \A e \in heap : Due(e) => TickPrecedes(NextTick, e)

Drained_mutant == worker = "running"

(* event_bus.drain() has returned: the queue's join is complete. *)
Drained == queue = <<>> /\ worker = "running"

(* One tick of scheduler.advance_to, FEATURE before SIGNAL on the same     *)
(* boundary, handed to runtime.consume_tick.  The scheduler moves its      *)
(* boundaries before the first tick is consumed; nothing reads them while  *)
(* the transition holds the lock.                                          *)
TickKindDue_mutant == IF nextSignal = NextTick THEN "SIGNAL" ELSE "FEATURE"

TickKindDue == IF nextFeature = NextTick THEN "FEATURE" ELSE "SIGNAL"

DeliverTick ==
    /\ TickDue
    /\ Drained
    /\ ticks' = ticks \cup {[at |-> NextTick, kind |-> TickKindDue, seen |-> consumed]}
    /\ IF TickKindDue = "FEATURE"
       THEN nextFeature' = nextFeature + FeatureInterval /\ UNCHANGED nextSignal
       ELSE nextSignal' = nextSignal + SignalInterval /\ UNCHANGED nextFeature
    /\ UNCHANGED <<driverVars, op, busVars, accepted>>

(* DecisionScheduler.__init__, at the first event ever released. *)
StartScheduler(t) ==
    IF nextFeature # None
    THEN UNCHANGED schedVars
    ELSE /\ nextFeature' = NextBoundary(t, FeatureInterval)
         /\ nextSignal' = NextBoundary(t, SignalInterval)

(* heappop and event_bus.publish, which waits while the queue is full. *)
ReleaseEvent(e) ==
    /\ Advancing
    /\ IsHead(e) /\ Due(e)
    /\ ~TickDue
    /\ worker = "running"
    /\ Len(queue) < QueueCapacity
    /\ StartScheduler(Ts[e])
    /\ heap' = heap \ {e}
    /\ queue' = Append(queue, e)
    /\ UNCHANGED <<watermark, maxSeen, status, op, worker, consumed,
                   accepted, ticks>>

(* Nothing up to the target is left: the loop ends and the watermark moves. *)
AdvanceDone ==
    /\ op # Idle
    /\ Advancing => ~TickDue /\ ~(\E e \in heap : Due(e))

NewWatermark == MaxOf(watermark, op.target)

HasRoom_mutant == Cardinality(heap) <= Capacity
HasRoom == Cardinality(heap) < Capacity

(* The rest of _publish_locked. *)
PushEvent ==
    /\ AdvanceDone /\ op.kind = "publish"
    /\ HasRoom
    /\ watermark' = NewWatermark
    /\ heap' = heap \cup op.push
    /\ accepted' = accepted \cup op.push
    /\ \E e \in op.push : maxSeen' = MaxOf(maxSeen, Ts[e])
    /\ op' = Idle
    /\ UNCHANGED <<status, schedVars, busVars, ticks>>

(* The reorder buffer is full: the event is refused and the driver fails. *)
PushOverflow ==
    /\ AdvanceDone /\ op.kind = "publish"
    /\ ~HasRoom
    /\ watermark' = NewWatermark
    /\ status' = "failed"
    /\ op' = Idle
    /\ UNCHANGED <<heap, maxSeen, schedVars, busVars, accepted, ticks>>

AdvanceReturns ==
    /\ AdvanceDone /\ op.kind = "advance"
    /\ watermark' = NewWatermark
    /\ op' = Idle
    /\ UNCHANGED <<heap, maxSeen, status, schedVars, busVars, accepted, ticks>>

(* finish drains the bus before it seals. *)
Seal ==
    /\ AdvanceDone /\ op.kind = "finish"
    /\ Drained
    /\ watermark' = NewWatermark
    /\ status' = "sealed"
    /\ op' = Idle
    /\ UNCHANGED <<heap, maxSeen, schedVars, busVars, accepted, ticks>>

(***************************************************************************)
(* _run_transition records any error as the driver's permanent failure:    *)
(* publishing or draining after the consumer's task failed, and a tick the *)
(* runtime raises on.  An event already popped is gone.                    *)
(***************************************************************************)
FailTransition(lost) ==
    /\ status' = "failed"
    /\ heap' = heap \ lost
    /\ op' = Idle
    /\ UNCHANGED <<watermark, maxSeen, schedVars, busVars, accepted, ticks>>

ReleaseFails(e) ==
    /\ Advancing /\ IsHead(e) /\ Due(e) /\ ~TickDue
    /\ worker = "failed"
    /\ FailTransition({e})

DrainFails_mutant ==
    /\ TickDue
    /\ worker = "failed"
    /\ FailTransition({})

DrainFails ==
    /\ TickDue \/ (AdvanceDone /\ op.kind = "finish")
    /\ worker = "failed"
    /\ FailTransition({})

TickFails ==
    /\ TickDue /\ Drained
    /\ FailTransition({})

----------------------------------------------------------------------------
(* The feature-state consumer's task.  Its handler never suspends, so one  *)
(* step takes an event from the queue and ingests it.                      *)
Consume ==
    /\ worker = "running" /\ queue # <<>>
    /\ consumed' = consumed \cup {Head(queue)}
    /\ queue' = Tail(queue)
    /\ UNCHANGED <<driverVars, schedVars, op, worker, accepted, ticks>>

(* The handler raises: the item is marked done and the task ends. *)
ConsumeFails ==
    /\ worker = "running" /\ queue # <<>>
    /\ queue' = Tail(queue)
    /\ worker' = "failed"
    /\ UNCHANGED <<driverVars, schedVars, op, consumed, accepted, ticks>>

----------------------------------------------------------------------------
Transition ==
    \/ DeliverTick
    \/ \E e \in Events : ReleaseEvent(e) \/ ReleaseFails(e)
    \/ PushEvent \/ PushOverflow \/ AdvanceReturns \/ Seal
    \/ DrainFails

Next ==
    \/ \E e \in Events : Publish(e)
    \/ \E t \in ClockTimes : AdvanceTo(t)
    \/ \E t \in ClockTimes \cup {None} : Finish(t)
    \/ Transition
    \/ TickFails
    \/ Consume
    \/ ConsumeFails

Spec == Init /\ [][Next]_vars

(* The event loop keeps running a transition that has begun and the        *)
(* consumer's task; whether anyone publishes or finishes is up to callers, *)
(* and no handler is obliged to fail.                                      *)
Fairness == WF_vars(Transition) /\ WF_vars(Consume \/ ConsumeFails)

FairSpec == Spec /\ Fairness

----------------------------------------------------------------------------
(* Types, and the bounds of the reorder heap and of the bus queue, which   *)
(* the driver must respect whatever the arrival order is.                  *)
TypeOK ==
    /\ heap \subseteq Events
    /\ Cardinality(heap) <= Capacity
    /\ watermark \in Times
    /\ maxSeen \in Times
    /\ status \in {"open", "sealed", "failed"}
    /\ nextFeature \in Times
    /\ nextSignal \in Times
    /\ op \in Operations
    /\ queue \in Seq(Events)
    /\ Len(queue) <= QueueCapacity
    /\ worker \in {"running", "failed"}
    /\ accepted \subseteq Events
    /\ consumed \subseteq Events
    /\ ticks \subseteq TickRecords

(* No lookahead, no omission: a tick at t ran when the feature state had   *)
(* ingested exactly the accepted events received up to t - including every *)
(* event that is accepted after the tick was delivered.                    *)
TicksSeeExactPast ==
    \A k \in ticks : k.seen = {e \in accepted : Ts[e] <= k.at}

(* The feature state ingests events in receive-time order (exchange,       *)
(* symbol, ... order within one timestamp), whatever order they were       *)
(* published in.                                                           *)
IngestedInOrder ==
    [][\A e \in consumed' \ consumed : \A d \in consumed : Before(d, e)]_vars

Interval(kind) == IF kind = "FEATURE" THEN FeatureInterval ELSE SignalInterval

(* While no transition runs, the boundaries delivered are exactly those    *)
(* after the first accepted event and up to the watermark: none skipped,   *)
(* none invented, none beyond the watermark.                               *)
BoundariesComplete ==
    (op = Idle /\ status # "failed") =>
        \A kind \in TickKind :
            {k.at : k \in {j \in ticks : j.kind = kind}} =
                {t \in 0..watermark :
                    /\ t % Interval(kind) = 0
                    /\ \E e \in accepted : Ts[e] < t}

(* A sealed timeline has ingested every accepted event; with the two       *)
(* properties above its output is a function of the accepted events and    *)
(* the finish time, which is what makes live and replayed runs agree.      *)
SealedComplete == status = "sealed" => consumed = accepted /\ maxSeen <= watermark

(* On a boundary shared by both kinds the feature tick comes first. *)
FeatureBeforeSignal ==
    \A s \in ticks :
        s.kind = "SIGNAL" /\ s.at % FeatureInterval = 0
            => \E f \in ticks : f.kind = "FEATURE" /\ f.at = s.at

(* The driver implements the abstract timeline. *)
TL == INSTANCE Timeline
      WITH phase <- IF status = "sealed" THEN "sealed" ELSE "open"

ImplementsTimeline == TL!TSpec

(* Every transition ends, by completing or by failing, although the driver *)
(* waits for a bounded queue and for a drain: neither a full queue nor a   *)
(* consumer that fails leaves the lock held.                               *)
TransitionsEnd == (op # Idle) ~> (op = Idle)

============================================================================
