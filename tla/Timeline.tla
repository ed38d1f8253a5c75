------------------------------ MODULE Timeline ------------------------------
(***************************************************************************)
(* What the feature side promises its readers: one timeline per run.       *)
(* Events are accepted only ahead of everything already put on the         *)
(* timeline, are ingested in receive-time order, and a decision tick at t  *)
(* follows every accepted event received up to t and precedes every later  *)
(* one.  Nothing is said about heaps, watermarks, locks or queues.         *)
(***************************************************************************)
EXTENDS Integers

CONSTANTS Events, Ts, Key

VARIABLES accepted, consumed, ticks, phase

tvars == <<accepted, consumed, ticks, phase>>

Before(d, e) == Ts[d] < Ts[e] \/ (Ts[d] = Ts[e] /\ Key[d] < Key[e])

TInit ==
    /\ accepted = {}
    /\ consumed = {}
    /\ ticks = {}
    /\ phase = "open"

Accept(e) ==
    /\ phase = "open"
    /\ e \notin accepted
    /\ \A d \in consumed : Ts[d] < Ts[e]
    /\ \A k \in ticks : k.at < Ts[e]
    /\ accepted' = accepted \cup {e}
    /\ UNCHANGED <<consumed, ticks, phase>>

Ingest(e) ==
    /\ phase = "open"
    /\ e \in accepted \ consumed
    /\ \A d \in consumed : Before(d, e)
    /\ \A k \in ticks : k.at < Ts[e]
    /\ consumed' = consumed \cup {e}
    /\ UNCHANGED <<accepted, ticks, phase>>

Tick(t, kind) ==
    /\ phase = "open"
    /\ consumed = {e \in accepted : Ts[e] <= t}
    /\ \A k \in ticks :
        k.at < t \/ (k.at = t /\ k.kind = "FEATURE" /\ kind = "SIGNAL")
    /\ ticks' = ticks \cup {[at |-> t, kind |-> kind, seen |-> consumed]}
    /\ UNCHANGED <<accepted, consumed, phase>>

SealTimeline ==
    /\ phase = "open"
    /\ consumed = accepted
    /\ phase' = "sealed"
    /\ UNCHANGED <<accepted, consumed, ticks>>

(* The witness of a tick is read off the step, so that TLC can check the   *)
(* formula without a bound on time.                                        *)
TNext ==
    \/ \E e \in Events : Accept(e) \/ Ingest(e)
    \/ \E k \in ticks' \ ticks : Tick(k.at, k.kind)
    \/ SealTimeline

TSpec == TInit /\ [][TNext]_tvars
============================================================================
