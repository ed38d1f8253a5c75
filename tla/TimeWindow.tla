----------------------------- MODULE TimeWindow -----------------------------
(***************************************************************************)
(* BoundedTimeWindow (features/rolling.py): items in event-time order, a   *)
(* retention behind the newest event time, a hard bound on their number,   *)
(* and a policy for events that arrive behind the newest.                  *)
(***************************************************************************)
EXTENDS Integers, Sequences, SequencesExt, FiniteSetsExt

CONSTANT
    MaxItems    \* maximum_items

ASSUME TimeWindowAssumption == MaxItems \in Nat \ {0}

NoTime == -1

(* retention, late_event_policy and maximum_lateness *)
DropLate(retention) == [retention |-> retention, insert |-> FALSE, lateness |-> 0]
InsertLate(retention, lateness) ==
    [retention |-> retention, insert |-> TRUE, lateness |-> lateness]

NewWindow(policy) ==
    [items |-> <<>>, watermark |-> NoTime, ordinal |-> 0, policy |-> policy]

(* earliest *)
Earliest(w) == Head(w.items)

(* _prune: from the left, the expired items, then what exceeds the bound *)
Prune(items, cutoff) ==
    LET expired == Min({Len(items) + 1} \cup {i \in DOMAIN items : items[i].at > cutoff}) - 1
        gone == Max({expired, Len(items) - MaxItems})
    IN  SubSeq(items, gone + 1, Len(items))

(* admissibility *)
Admissibility(w, at) ==
    IF at >= w.watermark THEN "ACCEPTED"
    ELSE IF at <= w.watermark - w.policy.retention THEN "EXPIRED_DROPPED"
    ELSE IF ~w.policy.insert \/ w.watermark - at > w.policy.lateness THEN "LATE_DROPPED"
    ELSE "ACCEPTED"

(* append: a late item goes behind the items of its time *)
AppendItem(w, at, value) ==
    LET item == [at |-> at, value |-> value, ordinal |-> w.ordinal + 1]
        place == Cardinality({i \in DOMAIN w.items : w.items[i].at <= at}) + 1
        watermark == Max({at, w.watermark})
    IN  IF Admissibility(w, at) # "ACCEPTED" THEN w
        ELSE [w EXCEPT !.items = Prune(InsertAt(@, place, item), watermark - w.policy.retention),
                       !.watermark = watermark,
                       !.ordinal = @ + 1]

(* items_between: the items of (start, end] *)
ItemsBetween(w, start, end) ==
    LET before == Max({0} \cup {i \in DOMAIN w.items : w.items[i].at <= start})
    IN  SelectSeq(SubSeq(w.items, before + 1, Len(w.items)), LAMBDA i : i.at <= end)

(* latest_at_or_before: none, or one *)
LatestAtOrBefore(w, boundary) ==
    LET upto == {i \in DOMAIN w.items : w.items[i].at <= boundary}
    IN  IF upto = {} THEN {} ELSE {w.items[Max(upto)]}

(* items_appended_after, in append order *)
AppendedAfter(w, ordinal) ==
    LET known == Max({0} \cup {i \in DOMAIN w.items : w.items[i].ordinal <= ordinal})
    IN  IF w.policy.insert
        THEN SortSeq(SelectSeq(w.items, LAMBDA i : i.ordinal > ordinal),
                     LAMBDA a, b : a.ordinal < b.ordinal)
        ELSE SubSeq(w.items, known + 1, Len(w.items))
=============================================================================
