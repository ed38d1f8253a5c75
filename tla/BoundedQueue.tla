---------------------------- MODULE BoundedQueue ----------------------------
(***************************************************************************)
(* asyncio.Queue as the code uses it: a bounded FIFO with tasks ("putters")*)
(* that wait for room.  Taking an item wakes the oldest waiting putter; it *)
(* runs some time later, and waits again if another put took the room.     *)
(***************************************************************************)
EXTENDS Integers, Sequences, SequencesExt

EmptyQueue == [items |-> <<>>, fresh |-> {}, parked |-> <<>>, woken |-> {}]

(* Well-formed queues of at most capacity items. *)
IsQueue(q, Items, Tasks, capacity) ==
    /\ q \in [items : Seq(Items), fresh : SUBSET Tasks, parked : Seq(Tasks),
              woken : SUBSET Tasks]
    /\ Len(q.items) <= capacity

Full(q, capacity) == Len(q.items) >= capacity

(* put_nowait *)
PutNowait(q, item) == [q EXCEPT !.items = Append(@, item)]

(* create_task(queue.put(item)): the putter has not run yet. *)
StartPut(q, t) == [q EXCEPT !.fresh = @ \cup {t}]

Wake(q) ==
    IF q.parked = <<>> THEN q
    ELSE [q EXCEPT !.parked = Tail(@), !.woken = @ \cup {Head(q.parked)}]

(* get_nowait, for a queue that is not empty *)
Get(q) == Wake([q EXCEPT !.items = Tail(@)])

Runnable(q) == q.fresh \cup q.woken

(* A putter runs: it puts its item, or waits at the end of the line. *)
RunPut(q, t, item, capacity) ==
    LET ran == [q EXCEPT !.fresh = @ \ {t}, !.woken = @ \ {t}]
    IN  IF Full(q, capacity) THEN [ran EXCEPT !.parked = Append(@, t)]
        ELSE PutNowait(ran, item)

(* A putter is cancelled; one that had been woken passes the wake-up on. *)
CancelPut(q, t, capacity) ==
    LET gone == [q EXCEPT !.fresh = @ \ {t}, !.woken = @ \ {t},
                          !.parked = RemoveFirst(@, t)]
    IN  IF t \in q.woken /\ ~Full(q, capacity) THEN Wake(gone) ELSE gone
=============================================================================
