-------------------------- MODULE WebSocketSession --------------------------
(***************************************************************************)
(* PublicWebSocketSession (exchanges/session.py): the task that runs the   *)
(* session (run), another that stops it (stop), and the sockets they open  *)
(* and close.  Both may be at an await while the other goes on.            *)
(*                                                                         *)
(* A lifecycle event is handed to the connector's event handler, which     *)
(* persists it: once the raw writer has failed, every such hand-over       *)
(* raises (broken).  What a connector does in its handlers is left open:   *)
(* an action that hands over an event takes place together with a step of  *)
(* the connector's.                                                        *)
(***************************************************************************)
EXTENDS Integers, FiniteSets

CONSTANT
    MaxConnections  \* bound: attempts to connect

ASSUME SessionAssumption == MaxConnections \in Nat \ {0}

VARIABLES
    run,       \* where run() is
    raised,    \* what run() will raise, or has raised
    attempts,  \* connection attempts so far
    stopped,   \* _stop
    gen,       \* _active_generation
    closedGen, \* _closed_generation
    active,    \* the generation of _active_transport
    open,      \* generations whose socket is open
    closing,   \* where run() and stop() are in _close_active
    broken,    \* event hand-overs raise
    torn       \* closing a socket was itself cut short

transport == <<gen, closedGen, active, open>>
svars == <<run, raised, attempts, stopped, transport, closing, broken, torn>>

None == -1
Tasks == {"run", "stop"}
TryBody == {"connecting", "connected", "subscribing", "receiving", "handling"}

SInit ==
    /\ run = "loop" /\ raised = "nothing" /\ attempts = 0
    /\ stopped = FALSE
    /\ gen = 0 /\ closedGen = None /\ active = None /\ open = {}
    /\ closing = [t \in Tasks |-> "idle"]
    /\ broken = FALSE /\ torn = FALSE

Goto(place) == run' = place /\ UNCHANGED raised
Raise(what, place) == run' = place /\ raised' = what

(* An await of the event handler on the way to a place: where a failure    *)
(* leads depends on the try statement around it.                           *)
HandOver(place, placeIfRaised) ==
    IF broken THEN Raise("error", placeIfRaised) ELSE Goto(place)

----------------------------------------------------------------------------
(* run *)

(* The loop's condition, then CONNECTING outside the try. *)
Connecting ==
    /\ run = "loop" /\ ~stopped /\ attempts < MaxConnections
    /\ attempts' = attempts + 1
    /\ HandOver("connecting", "ended")
    /\ UNCHANGED <<stopped, transport, closing, broken, torn>>

LoopEnds ==
    /\ run = "loop" /\ stopped
    /\ Goto("ended")
    /\ UNCHANGED <<attempts, stopped, transport, closing, broken, torn>>

(* _connection_factory returns: the transport becomes active. *)
Opened ==
    /\ run = "connecting"
    /\ gen' = gen + 1 /\ closedGen' = None /\ active' = gen + 1
    /\ open' = open \cup {gen + 1}
    /\ Goto("connected")
    /\ UNCHANGED <<attempts, stopped, closing, broken, torn>>

(* A recoverable error: in the try statement, or the end of the socket. *)
ConnectFails ==
    /\ run = "connecting"
    /\ Goto("failing")
    /\ UNCHANGED <<attempts, stopped, transport, closing, broken, torn>>

(* CONNECTED *)
Connected ==
    /\ run = "connected"
    /\ HandOver("subscribing", "finally")
    /\ UNCHANGED <<attempts, stopped, transport, closing, broken, torn>>

(* The while of _receive_loop *)
ReceiveLoop == IF stopped THEN "finally" ELSE "receiving"

(* _send_all and SUBSCRIBED *)
Subscribed ==
    /\ run = "subscribing" /\ gen \in open
    /\ HandOver(ReceiveLoop, "finally")
    /\ UNCHANGED <<attempts, stopped, transport, closing, broken, torn>>

(* recv returns a message, in time or in place of a pong; MESSAGE_RECEIVED *)
Received ==
    /\ run = "receiving" /\ gen \in open
    /\ HandOver("handling", "finally")
    /\ UNCHANGED <<attempts, stopped, transport, closing, broken, torn>>

(* recv times out and the heartbeat is answered. *)
Heartbeat ==
    /\ run = "receiving" /\ gen \in open
    /\ HandOver(ReceiveLoop, "finally")
    /\ UNCHANGED <<attempts, stopped, transport, closing, broken, torn>>

(* _message_handler returns, or raises: SessionProtocolError is recoverable*)
Handled(outcome) ==
    /\ run = "handling"
    /\ IF broken THEN Raise("error", "finally")
       ELSE Goto(IF outcome = "protocol error" THEN "failing" ELSE ReceiveLoop)
    /\ UNCHANGED <<attempts, stopped, transport, closing, broken, torn>>

(* The peer closes, stop has closed the socket, or no pong comes in time.  *)
SocketFails ==
    /\ run \in {"subscribing", "receiving"}
    /\ Goto("failing")
    /\ UNCHANGED <<attempts, stopped, transport, closing, broken, torn>>

(* DISCONNECTED, unless stopping *)
Disconnected ==
    /\ run = "failing"
    /\ IF stopped THEN Goto("finally") ELSE HandOver("finally", "finally")
    /\ UNCHANGED <<attempts, stopped, transport, closing, broken, torn>>

(* Behind the try statement: RECONNECT_SCHEDULED *)
Rescheduled ==
    /\ run = "after"
    /\ IF stopped \/ raised # "nothing" THEN Goto("ended") ELSE HandOver("backoff", "ended")
    /\ UNCHANGED <<attempts, stopped, transport, closing, broken, torn>>

(* _sleep_until_reconnect_or_stop: what wakes it *)
Elapsed ==
    /\ run = "backoff"
    /\ Goto("loop")
    /\ UNCHANGED <<attempts, stopped, transport, closing, broken, torn>>

WokenByStop_mutant == FALSE

WokenByStop == stopped

Woken ==
    /\ run = "backoff" /\ WokenByStop
    /\ Goto("loop")
    /\ UNCHANGED <<attempts, stopped, transport, closing, broken, torn>>

----------------------------------------------------------------------------
(* _close_active, of either task *)

AlreadyClosed == active = None \/ closedGen = gen

(* Up to the first await *)
BeginClose(t, graceful) ==
    /\ closing[t] = "idle"
    /\ IF AlreadyClosed
       THEN closing' = [closing EXCEPT ![t] = "done"] /\ UNCHANGED closedGen
       ELSE /\ closedGen' = gen
            /\ closing' = [closing EXCEPT ![t] = IF graceful THEN "unsubscribing" ELSE "closing"]
    /\ UNCHANGED <<gen, active, open>>

Finally_mutant ==
    /\ run = "finally"
    /\ IF stopped THEN BeginClose("run", TRUE)
       ELSE closing' = [closing EXCEPT !["run"] = "done"] /\ UNCHANGED transport
    /\ UNCHANGED <<run, raised, attempts, stopped, broken, torn>>

(* The finally clause of run *)
Finally ==
    /\ run = "finally"
    /\ BeginClose("run", stopped)
    /\ UNCHANGED <<run, raised, attempts, stopped, broken, torn>>

(* The unsubscription and UNSUBSCRIBED; a connection error is suppressed,  *)
(* the event handler's is not: the socket is then never closed.            *)
Unsubscribed(t) ==
    /\ closing[t] = "unsubscribing"
    /\ \/ /\ closing' = [closing EXCEPT ![t] = "closing"]
          /\ UNCHANGED <<run, raised, torn>>
       \/ /\ broken
          /\ closing' = [closing EXCEPT ![t] = "raised"]
          /\ torn' = TRUE
          /\ IF t = "run" THEN Raise("error", "ended") ELSE UNCHANGED <<run, raised>>
    /\ UNCHANGED <<attempts, stopped, transport, broken>>

(* close and CLOSED *)
SocketClosed(t) ==
    /\ closing[t] = "closing"
    /\ open' = open \ {gen}
    /\ active' = IF broken THEN active ELSE None
    /\ closing' = [closing EXCEPT ![t] = IF broken THEN "raised" ELSE "done"]
    /\ IF t = "run" /\ broken THEN Raise("error", "ended") ELSE UNCHANGED <<run, raised>>
    /\ UNCHANGED <<attempts, stopped, gen, closedGen, broken, torn>>

(* The finally clause is over. *)
Finished ==
    /\ closing["run"] = "done"
    /\ closing' = [closing EXCEPT !["run"] = "idle"]
    /\ Goto("after")
    /\ UNCHANGED <<attempts, stopped, transport, broken, torn>>

----------------------------------------------------------------------------
(* stop: the flag and, without an await between, _close_active *)
Stop ==
    /\ stopped' = TRUE
    /\ BeginClose("stop", TRUE)
    /\ UNCHANGED <<run, raised, attempts, broken, torn>>

(* The task of run is cancelled: in the try statement it stops itself and  *)
(* closes; in the except clause the finally clause still follows; else the *)
(* cancellation leaves run at once, also out of _close_active.  Entering   *)
(* and leaving the finally clause is no await.                             *)
Cancel ==
    /\ run # "ended" /\ raised # "cancelled"
    /\ run = "finally" => closing["run"] \in {"unsubscribing", "closing"}
    /\ stopped' = (stopped \/ run \in TryBody)
    /\ raised' = "cancelled"
    /\ run' = IF run \in TryBody \cup {"failing"} THEN "finally" ELSE "ended"
    /\ torn' = (torn \/ closing["run"] \in {"unsubscribing", "closing"})
    /\ closing' = IF run' = "ended" THEN [closing EXCEPT !["run"] = "idle"] ELSE closing
    /\ UNCHANGED <<attempts, transport, broken>>

(* The raw writer fails. *)
WriterFails ==
    /\ ~broken
    /\ broken' = TRUE
    /\ UNCHANGED <<run, raised, attempts, stopped, transport, closing, torn>>

----------------------------------------------------------------------------
(* The steps that need no connector, by who takes them.  Among run's own   *)
(* steps are those it takes whatever the peer and the backoff's timer do.  *)
RunAlone ==
    \/ Connecting \/ LoopEnds \/ Opened \/ ConnectFails \/ Heartbeat
    \/ (gen \notin open /\ SocketFails)
    \/ Finally \/ Unsubscribed("run") \/ SocketClosed("run") \/ Finished
    \/ Rescheduled \/ Woken

StopAlone == Unsubscribed("stop") \/ SocketClosed("stop")

Outside == (gen \in open /\ SocketFails) \/ Elapsed \/ Stop \/ Cancel \/ WriterFails
=============================================================================
