------------------------------ MODULE EventBus ------------------------------
(***************************************************************************)
(* NormalizedEventBus (pipeline/event_bus.py): every event is put on the   *)
(* bounded queue of each consumer in turn; each consumer's task handles    *)
(* its events in order; drain waits for all of them, close stops them.     *)
(*                                                                         *)
(* A put that finds room does not suspend, so a publish runs from one full *)
(* queue to the next in a single step.                                     *)
(***************************************************************************)
EXTENDS Integers, Sequences, BoundedQueue

CONSTANTS
    N,          \* consumers, in the order of their registration
    Publishers, \* tasks that publish
    Capacity,   \* queue_capacity
    MaxEvents,  \* bound: events per publisher
    MaxDrains   \* bound: calls of drain

ASSUME BusAssumption ==
    /\ N \in Nat \ {0} /\ Capacity \in Nat \ {0}
    /\ MaxEvents \in Nat /\ MaxDrains \in Nat

VARIABLES
    started,   \* _started
    queues,    \* each consumer's queue
    consumer,  \* each consumer's task and the event it is handling, as a set
    pub,       \* each publisher: where it is, at which consumer, its event
    drain,     \* the drain under way, the joins completed, drains so far
    close,     \* the close task, and the publishes returned before it
    processed, \* history: what each consumer has handled
    returned   \* history: events whose publish returned normally

vars == <<started, queues, consumer, pub, drain, close, processed, returned>>

Consumers == 1..N
Events == [by : Publishers, no : 1..MaxEvents]
STOP == [by |-> "bus", no |-> 0]
Closer == "close"
Tasks == Publishers \cup {Closer}

Done(c) == consumer[c].task \in {"stopped", "failed"}
Failed == \E c \in Consumers : consumer[c].task = "failed"
Closing == close.pc # "none"

Init ==
    /\ started = FALSE
    /\ queues = [c \in Consumers |-> EmptyQueue]
    /\ consumer = [c \in Consumers |-> [task |-> "none", handling |-> {}]]
    /\ pub = [p \in Publishers |-> [pc |-> "idle", at |-> 0, no |-> 0]]
    /\ drain = [pc |-> "idle", joined |-> {}, before |-> {}, no |-> 0]
    /\ close = [pc |-> "none", at |-> 0, errors |-> FALSE, before |-> {}]
    /\ processed = [c \in Consumers |-> <<>>]
    /\ returned = {}

Start ==
    /\ ~started /\ ~Closing
    /\ started' = TRUE
    /\ consumer' = [c \in Consumers |-> [consumer[c] EXCEPT !.task = "running"]]
    /\ UNCHANGED <<queues, pub, drain, close, processed, returned>>

----------------------------------------------------------------------------
(* _put_or_failure over the consumers from a given one on. *)

FirstFull_mutant(from, targets) ==
    LET full == {c \in targets : c >= from /\ Full(queues[c], Capacity + 1)}
    IN  IF full = {} THEN N + 1 ELSE CHOOSE c \in full : \A d \in full : c <= d

(* The first queue, of those the item is meant for, that has no room. *)
FirstFull(from, targets) ==
    LET full == {c \in targets : c >= from /\ Full(queues[c], Capacity)}
    IN  IF full = {} THEN N + 1 ELSE CHOOSE c \in full : \A d \in full : c <= d

(* The item is put on every queue before that one, where a putter starts. *)
Offered(t, item, from, targets) ==
    LET stop == FirstFull(from, targets)
    IN  [c \in Consumers |->
            IF c = stop THEN StartPut(queues[c], t)
            ELSE IF c \in targets /\ c >= from /\ c < stop THEN PutNowait(queues[c], item)
            ELSE queues[c]]

----------------------------------------------------------------------------
(* publish *)

EventOf(p) == [by |-> p, no |-> pub[p].no]

(* The publish goes on at consumer `from': it returns, or waits for room. *)
PublishOn(p, no, from) ==
    LET e == [by |-> p, no |-> no]
        stop == FirstFull(from, Consumers)
    IN  /\ queues' = Offered(p, e, from, Consumers)
        /\ pub' = [pub EXCEPT ![p] = [pc |-> IF stop > N THEN "idle" ELSE "waiting",
                                      at |-> stop, no |-> no]]
        /\ returned' = IF stop > N THEN returned \cup {e} ELSE returned
        /\ UNCHANGED <<started, consumer, drain, close, processed>>

Publish(p) ==
    /\ started /\ ~Closing /\ ~Failed
    /\ pub[p].pc = "idle" /\ pub[p].no < MaxEvents
    /\ PublishOn(p, pub[p].no + 1, 1)

(* A putter's own task runs. *)
Putting(p) ==
    /\ pub[p].pc = "waiting"
    /\ LET c == pub[p].at
       IN  /\ p \in Runnable(queues[c])
           /\ queues' = [queues EXCEPT ![c] = RunPut(@, p, EventOf(p), Capacity)]
           /\ pub' = [pub EXCEPT ![p].pc = IF Full(queues[c], Capacity)
                                           THEN "waiting" ELSE "put"]
    /\ UNCHANGED <<started, consumer, drain, close, processed, returned>>

PublishResumes_mutant(p) ==
    /\ pub[p].pc = "put" /\ ~Done(pub[p].at)
    /\ PublishOn(p, pub[p].no, pub[p].at)

(* The publisher resumes after its putter is done, its consumer running. *)
PublishResumes(p) ==
    /\ pub[p].pc = "put" /\ ~Done(pub[p].at)
    /\ PublishOn(p, pub[p].no, pub[p].at + 1)

(* The publish raises: its putter, if it is still waiting, is cancelled. *)
PublishRaises(p) ==
    /\ queues' = IF pub[p].pc = "put" THEN queues
                 ELSE [queues EXCEPT ![pub[p].at] = CancelPut(@, p, Capacity)]
    /\ pub' = [pub EXCEPT ![p].pc = "idle"]
    /\ UNCHANGED <<started, consumer, drain, close, processed, returned>>

PublishCancelled(p) == pub[p].pc \in {"waiting", "put"} /\ PublishRaises(p)

ConsumerGone_mutant(p) == pub[p].pc = "put" /\ Done(pub[p].at) /\ PublishRaises(p)

ConsumerGone(p) ==
    /\ pub[p].pc \in {"waiting", "put"} /\ Done(pub[p].at)
    /\ PublishRaises(p)

----------------------------------------------------------------------------
(* _ConsumerRuntime.run *)

Take(c) ==
    /\ consumer[c].task = "running" /\ consumer[c].handling = {}
    /\ queues[c].items # <<>>
    /\ queues' = [queues EXCEPT ![c] = Get(@)]
    /\ consumer' = [consumer EXCEPT ![c] =
                        IF Head(queues[c].items) = STOP
                        THEN [task |-> "stopped", handling |-> {}]
                        ELSE [@ EXCEPT !.handling = {Head(queues[c].items)}]]
    /\ UNCHANGED <<started, pub, drain, close, processed, returned>>

Handled(c) ==
    /\ \E e \in consumer[c].handling :
        processed' = [processed EXCEPT ![c] = Append(@, e)]
    /\ consumer' = [consumer EXCEPT ![c].handling = {}]
    /\ UNCHANGED <<started, queues, pub, drain, close, returned>>

HandlerRaises(c) ==
    /\ consumer[c].handling # {}
    /\ consumer' = [consumer EXCEPT ![c] = [task |-> "failed", handling |-> {}]]
    /\ UNCHANGED <<started, queues, pub, drain, close, processed, returned>>

----------------------------------------------------------------------------
(* drain *)

DrainBegins ==
    /\ started /\ ~Closing /\ ~Failed
    /\ drain.pc = "idle" /\ drain.no < MaxDrains
    /\ drain' = [pc |-> "joining", joined |-> {}, before |-> returned,
                 no |-> drain.no + 1]
    /\ UNCHANGED <<started, queues, consumer, pub, close, processed, returned>>

Joined_mutant(c) == queues[c].items = <<>>

(* Every item put on the queue has been marked done. *)
Joined(c) == queues[c].items = <<>> /\ consumer[c].handling = {}

Join(c) ==
    /\ drain.pc = "joining" /\ c \notin drain.joined
    /\ Joined(c)
    /\ drain' = [drain EXCEPT !.joined = @ \cup {c}]
    /\ UNCHANGED <<started, queues, consumer, pub, close, processed, returned>>

DrainReturns ==
    /\ drain.pc = "joining" /\ drain.joined = Consumers
    /\ \A c \in Consumers : ~Done(c)
    /\ drain' = [drain EXCEPT !.pc = "idle", !.joined = {}, !.before = {}]
    /\ UNCHANGED <<started, queues, consumer, pub, close, processed, returned>>

DrainRaises ==
    /\ drain.pc = "joining" /\ \E c \in Consumers : Done(c)
    /\ drain' = [drain EXCEPT !.pc = "idle", !.joined = {}, !.before = {}]
    /\ UNCHANGED <<started, queues, consumer, pub, close, processed, returned>>

----------------------------------------------------------------------------
(* close and its shared task; cancelling the caller does not stop it.      *)

CloseBegins ==
    /\ ~Closing
    /\ close' = [close EXCEPT !.pc = "scheduled", !.before = returned]
    /\ UNCHANGED <<started, queues, consumer, pub, drain, processed, returned>>

(* STOP goes to the consumers from `from' on that have not ended. *)
CloseOn(from, errors) ==
    LET targets == {c \in Consumers : ~Done(c)}
        stop == FirstFull(from, targets)
    IN  /\ queues' = Offered(Closer, STOP, from, targets)
        /\ close' = [close EXCEPT !.pc = IF stop > N THEN "gather" ELSE "waiting",
                                  !.at = stop, !.errors = errors]
        /\ UNCHANGED <<started, consumer, pub, drain, processed, returned>>

CloseRuns ==
    /\ close.pc = "scheduled"
    /\ IF started THEN CloseOn(1, Failed)
       ELSE /\ close' = [close EXCEPT !.pc = "closed"]
            /\ UNCHANGED <<started, queues, consumer, pub, drain, processed, returned>>

PuttingStop ==
    /\ close.pc = "waiting"
    /\ LET c == close.at
       IN  /\ Closer \in Runnable(queues[c])
           /\ queues' = [queues EXCEPT ![c] = RunPut(@, Closer, STOP, Capacity)]
           /\ close' = [close EXCEPT !.pc = IF Full(queues[c], Capacity)
                                            THEN "waiting" ELSE "put"]
    /\ UNCHANGED <<started, consumer, pub, drain, processed, returned>>

(* The close task resumes; a consumer that failed meanwhile is an error. *)
CloseResumes ==
    /\ close.pc = "put"
    /\ CloseOn(close.at + 1, close.errors \/ consumer[close.at].task = "failed")

(* The consumer ends while STOP still waits for room. *)
CloseLosesConsumer ==
    /\ close.pc = "waiting" /\ Done(close.at)
    /\ queues' = [queues EXCEPT ![close.at] = CancelPut(@, Closer, Capacity)]
    /\ close' = [close EXCEPT !.pc = "retry", !.errors = TRUE]
    /\ UNCHANGED <<started, consumer, pub, drain, processed, returned>>

CloseRetries ==
    /\ close.pc = "retry"
    /\ CloseOn(close.at + 1, TRUE)

Closed_mutant ==
    /\ close.pc = "gather"
    /\ close' = [close EXCEPT !.pc = "closed", !.errors = @ \/ Failed]
    /\ UNCHANGED <<started, queues, consumer, pub, drain, processed, returned>>

Closed ==
    /\ close.pc = "gather" /\ \A c \in Consumers : Done(c)
    /\ close' = [close EXCEPT !.pc = "closed", !.errors = @ \/ Failed]
    /\ UNCHANGED <<started, queues, consumer, pub, drain, processed, returned>>

----------------------------------------------------------------------------
PublisherStep(p) == Putting(p) \/ PublishResumes(p) \/ ConsumerGone(p)

ConsumerStep(c) == Take(c) \/ Handled(c) \/ HandlerRaises(c)

DrainStep == (\E c \in Consumers : Join(c)) \/ DrainReturns \/ DrainRaises

CloseStep ==
    \/ CloseRuns \/ PuttingStop \/ CloseResumes
    \/ CloseLosesConsumer \/ CloseRetries \/ Closed

Next ==
    \/ Start
    \/ \E p \in Publishers : Publish(p) \/ PublishCancelled(p) \/ PublisherStep(p)
    \/ \E c \in Consumers : ConsumerStep(c)
    \/ DrainBegins \/ DrainStep
    \/ CloseBegins \/ CloseStep

(* The event loop keeps running every task that is ready, and handlers     *)
(* return: the feature state's never suspends.                             *)
Fairness ==
    /\ \A p \in Publishers : WF_vars(PublisherStep(p))
    /\ \A c \in Consumers : WF_vars(ConsumerStep(c))
    /\ WF_vars(DrainStep)
    /\ WF_vars(CloseStep)

Spec == Init /\ [][Next]_vars

FairSpec == Spec /\ Fairness

----------------------------------------------------------------------------
(* Types, with the bound of every queue. *)
TypeOK ==
    /\ started \in BOOLEAN
    /\ DOMAIN queues = Consumers
    /\ \A c \in Consumers : IsQueue(queues[c], Events \cup {STOP}, Tasks, Capacity)
    /\ consumer \in [Consumers -> [task : {"none", "running", "stopped", "failed"},
                                   handling : SUBSET Events]]
    /\ pub \in [Publishers -> [pc : {"idle", "waiting", "put"}, at : 0..N + 1,
                               no : 0..MaxEvents]]
    /\ drain \in [pc : {"idle", "joining"}, joined : SUBSET Consumers,
                  before : SUBSET Events, no : 0..MaxDrains]
    /\ close \in [pc : {"none", "scheduled", "waiting", "put", "retry", "gather", "closed"},
                  at : 0..N + 1, errors : BOOLEAN, before : SUBSET Events]
    /\ processed \in [Consumers -> Seq(Events)]
    /\ returned \subseteq Events

(* Each consumer handles the events of one publisher in the order they     *)
(* were published, each at most once, although publishes wait for room and *)
(* are cancelled while they wait: an abandoned event never turns up later. *)
OrderedPerPublisher ==
    \A c \in Consumers : \A i, j \in 1..Len(processed[c]) :
        i < j /\ processed[c][i].by = processed[c][j].by
            => processed[c][i].no < processed[c][j].no

(* When drain returns, every consumer has handled every event whose        *)
(* publish had returned before the drain began: the driver delivers a tick *)
(* on the strength of this.                                                *)
DrainCompletes ==
    [][DrainReturns => \A c \in Consumers : drain.before \subseteq Range(processed[c])]_vars

(* publish: "Publish one event to every consumer, applying backpressure    *)
(* rather than dropping"; close: "Drain all queues and surface any         *)
(* consumer failure."  After a close that raises nothing, every event whose*)
(* publish had returned when close was called has been handled by every    *)
(* consumer, whatever publishes still waited for room then.                *)
CloseDrains ==
    close.pc = "closed" /\ started /\ ~close.errors =>
        \A c \in Consumers : close.before \subseteq Range(processed[c])

(* Nobody waits forever: a publish blocked on a full queue, a drain and a  *)
(* close all return or raise, whichever consumer fails or stops meanwhile. *)
EveryoneReturns ==
    /\ \A p \in Publishers : (pub[p].pc # "idle") ~> (pub[p].pc = "idle")
    /\ (drain.pc # "idle") ~> (drain.pc = "idle")
    /\ Closing ~> (close.pc = "closed")
=============================================================================
