--------------------------- MODULE OkxFeedProofs ---------------------------
(***************************************************************************)
(* The session of the OKX feed leaves no socket behind, and a book that    *)
(* the health registry reports as synchronized is the exchange's.          *)
(*                                                                         *)
(* SInv says who still owes the close of an open socket: the task of run,  *)
(* as long as it is between opening the connection and its finally clause; *)
(* then whoever has claimed the generation (_closed_generation) and is     *)
(* still closing it; nobody only if closing was itself cut short.          *)
(*                                                                         *)
(* FeedInv follows the points <<sequence id, change>> that the messages    *)
(* and the book hold. Two points with one id are one change, which is why  *)
(* prevSeqId = seqId is evidence that nothing is missing, across any       *)
(* number of restarts of the ids. Until a restart in the book's generation *)
(* the ids also order what is on the wire, so that the deduplicator        *)
(* drops nothing the feature book still needs.                             *)
(***************************************************************************)
EXTENDS OkxFeed, FiniteSetTheorems, TLAPS

FP == INSTANCE FeatureBookProofs

----------------------------------------------------------------------------
(* The exchange's book                                                     *)

LEMMA MinIsLeast ==
  ASSUME NEW T, T \subseteq Nat, T # {}
  PROVE  Min(T) \in T /\ \A m \in T : Min(T) <= m
  BY FP!LeastNumber DEF Min

LEMMA MaxIsGreatest ==
  ASSUME NEW n \in Nat, NEW T, T \subseteq 0..n, T # {}
  PROVE  Max(T) \in T /\ \A m \in T : m <= Max(T)
  BY FP!GreatestNumber DEF Max

LEMMA QuantityType ==
  ASSUME NEW k \in 1..MaxId, NEW l \in DOMAIN Change[k]
  PROVE  l \in Levels /\ Change[k][l] \in Nat
  BY ExchangeAssumption

LEMMA BookAtType ==
  ASSUME NEW n \in 0..MaxId
  PROVE  BookAt(n) \in [Levels -> Nat]
<1> SUFFICES ASSUME NEW l \in Levels, Setting(l, n) # {}
             PROVE  Change[Max(Setting(l, n))][l] \in Nat
  BY DEF BookAt
<1>1. MaxId \in Nat
  BY ExchangeAssumption
<1>2. Setting(l, n) \subseteq 0..n
  BY <1>1 DEF Setting
<1>3. Max(Setting(l, n)) \in Setting(l, n)
  BY <1>1, <1>2, MaxIsGreatest
<1> QED BY <1>1, <1>3, QuantityType DEF Setting

(* A message whose changes begin no later than the next one to come, laid  *)
(* over the book at s, gives the book at the message's last change.        *)
LEMMA OverlayIsExact ==
  ASSUME NEW s \in 0..MaxId, NEW d, d.first \in Nat, d.final \in 0..MaxId,
         d.first <= s + 1, s <= d.final
  PROVE  [l \in Levels |-> IF l \in Touched(d) THEN BookAt(d.final)[l] ELSE BookAt(s)[l]]
           = BookAt(d.final)
<1>1. MaxId \in Nat
  BY ExchangeAssumption
<1>2. ASSUME NEW l \in Levels, l \notin Touched(d)
      PROVE  BookAt(d.final)[l] = BookAt(s)[l]
  <2>1. Setting(l, s) \subseteq Setting(l, d.final)
    BY <1>1 DEF Setting
  <2>2. ASSUME NEW k \in Setting(l, d.final) PROVE k \in Setting(l, s)
    <3>1. k \in 1..d.final /\ l \in DOMAIN Change[k]
      BY DEF Setting
    <3>2. k \notin d.first..d.final
      BY <1>2, <3>1 DEF Touched
    <3> QED BY <1>1, <3>1, <3>2 DEF Setting
  <2>3. Setting(l, s) = Setting(l, d.final)
    BY <2>1, <2>2
  <2> QED BY <2>3 DEF BookAt
<1> QED BY <1>2 DEF BookAt

----------------------------------------------------------------------------
(* The session                                                             *)

Places == TryBody \cup {"loop", "failing", "finally", "after", "backoff", "ended"}
Owning == {"connected", "subscribing", "receiving", "handling", "failing", "finally"}
Underway == {"unsubscribing", "closing"}

STypeOK ==
    /\ run \in Places
    /\ stopped \in BOOLEAN /\ broken \in BOOLEAN /\ torn \in BOOLEAN
    /\ gen \in Nat
    /\ closing \in [Tasks -> {"idle", "done", "raised"} \cup Underway]

(* Where the tasks may be while they close. *)
ClosingPlaces ==
    /\ closing["stop"] # "idle" => stopped
    /\ closing["run"] \in Underway \cup {"done"} => run = "finally"
    /\ closing["run"] = "raised" => run = "ended"
    /\ torn => stopped \/ run = "ended"

(* Who owes the close of the open socket. *)
Owed ==
    /\ open \subseteq {gen}
    /\ active = None => open = {}
    /\ (active # None /\ closedGen # gen) =>
          run \in Owning /\ (run = "finally" => closing["run"] = "idle")
    /\ (open # {} /\ closedGen = gen) =>
          torn \/ \E t \in Tasks : closing[t] \in Underway

(* No socket is open where another would be opened. *)
NoneLeft ==
    /\ run = "connecting" => open = {}
    /\ (run \in {"loop", "after", "backoff"} /\ ~stopped) => open = {}
    /\ (closing["run"] = "done" /\ ~stopped) => open = {}

SInv == STypeOK /\ ClosingPlaces /\ Owed /\ NoneLeft

----------------------------------------------------------------------------
LEMMA SInvInit == SInit => SInv
<1> SUFFICES ASSUME SInit PROVE SInv
  OBVIOUS
<1>1. closing["run"] = "idle" /\ closing["stop"] = "idle"
  BY DEF SInit, Tasks
<1>2. STypeOK
  BY DEF SInit, STypeOK, Places, TryBody, Underway
<1>3. ClosingPlaces
  BY <1>1 DEF SInit, ClosingPlaces, Underway
<1>4. Owed /\ NoneLeft
  BY <1>1 DEF SInit, Owed, NoneLeft, None
<1> QED BY <1>2, <1>3, <1>4 DEF SInv

(* Steps of run that leave the transport and the closing alone. *)
LEMMA RunMoves ==
  ASSUME SInv, UNCHANGED <<stopped, transport, closing, broken, torn>>,
         run # "finally", run' \in Places,
         run \in Owning => run' \in Owning,
         run' \in {"loop", "after", "backoff"} => run \in {"loop", "after", "backoff"},
         run' = "connecting" => run = "connecting" \/ (run = "loop" /\ ~stopped),
         run # "ended"
  PROVE  SInv'
<1>1. closing["run"] = "idle"
  BY DEF SInv, ClosingPlaces, STypeOK, Tasks
<1>2. STypeOK'
  BY DEF SInv, STypeOK, transport
<1>3. ClosingPlaces'
  BY <1>1 DEF SInv, ClosingPlaces, transport
<1>4. Owed'
  <2>1. (active # None /\ closedGen # gen) =>
          run' \in Owning /\ (run' = "finally" => closing["run"] = "idle")
    BY <1>1 DEF SInv, Owed, STypeOK, Tasks, Owning, Underway
  <2> QED BY <2>1 DEF SInv, Owed, transport
<1>5. NoneLeft'
  BY DEF SInv, NoneLeft, transport
<1> QED BY <1>2, <1>3, <1>4, <1>5 DEF SInv

LEMMA SInvClose ==
  ASSUME SInv, NEW t \in Tasks, Unsubscribed(t) \/ SocketClosed(t)
  PROVE  SInv'
<1> USE DEF Tasks, Underway
<1>t. t = "run" \/ t = "stop"
  OBVIOUS
<1>1. CASE Unsubscribed(t) /\ closing' = [closing EXCEPT ![t] = "closing"]
                            /\ UNCHANGED <<run, raised, torn>>
  <2>1. UNCHANGED <<run, torn, stopped, gen, closedGen, active, open, broken>>
    BY <1>1 DEF Unsubscribed, transport
  <2>2. closing[t] = "unsubscribing" /\ closing'[t] = "closing"
    BY <1>1 DEF Unsubscribed, SInv, STypeOK
  <2>3. \A u \in Tasks : u # t => closing'[u] = closing[u]
    BY <1>1 DEF SInv, STypeOK
  <2>4. STypeOK'
    BY <1>1, <2>1 DEF SInv, STypeOK
  <2>5. ClosingPlaces'
    BY <1>t, <2>1, <2>2, <2>3 DEF SInv, ClosingPlaces
  <2>6. Owed' /\ NoneLeft'
    BY <1>t, <2>1, <2>2, <2>3 DEF SInv, Owed, NoneLeft
  <2> QED BY <2>4, <2>5, <2>6 DEF SInv
<1>2. CASE Unsubscribed(t) /\ closing' = [closing EXCEPT ![t] = "raised"] /\ torn'
  <2>1. UNCHANGED <<stopped, gen, closedGen, active, open, broken>>
    BY <1>2 DEF Unsubscribed, transport
  <2>2. closing[t] = "unsubscribing" /\ closing'[t] = "raised"
    BY <1>2 DEF Unsubscribed, SInv, STypeOK
  <2>3. \A u \in Tasks : u # t => closing'[u] = closing[u]
    BY <1>2 DEF SInv, STypeOK
  <2>4. torn' = TRUE /\ run' = (IF t = "run" THEN "ended" ELSE run)
    BY <1>2, <2>2 DEF Unsubscribed, Raise, SInv, STypeOK
  <2>5. STypeOK'
    BY <1>2, <2>1, <2>4 DEF SInv, STypeOK, Places
  <2>6. ClosingPlaces'
    BY <1>t, <2>1, <2>2, <2>3, <2>4 DEF SInv, ClosingPlaces
  <2>7. t = "run" => ~(active # None /\ closedGen # gen)
    BY <2>2 DEF SInv, Owed, ClosingPlaces
  <2>8. Owed' /\ NoneLeft'
    BY <1>t, <2>1, <2>2, <2>3, <2>4, <2>7 DEF SInv, Owed, NoneLeft, ClosingPlaces
  <2> QED BY <2>5, <2>6, <2>8 DEF SInv
<1>3. CASE SocketClosed(t)
  <2>1. UNCHANGED <<stopped, gen, closedGen, torn, broken>> /\ open' = {}
    BY <1>3 DEF SocketClosed, transport, SInv, Owed
  <2>2. closing[t] = "closing" /\ closing'[t] = (IF broken THEN "raised" ELSE "done")
    BY <1>3 DEF SocketClosed, SInv, STypeOK
  <2>3. \A u \in Tasks : u # t => closing'[u] = closing[u]
    BY <1>3 DEF SInv, STypeOK, SocketClosed
  <2>4. run' = (IF t = "run" /\ broken THEN "ended" ELSE run)
    BY <1>3 DEF SocketClosed, Raise
  <2>5. STypeOK'
    <3>1. closing' \in [Tasks -> {"idle", "done", "raised"} \cup Underway]
      BY <1>3 DEF SocketClosed, SInv, STypeOK
    <3> QED BY <3>1, <2>1, <2>4 DEF SInv, STypeOK, Places
  <2>6. ClosingPlaces'
    BY <1>t, <2>1, <2>2, <2>3, <2>4 DEF SInv, ClosingPlaces
  <2>7. active' = active \/ active' = None
    BY <1>3 DEF SocketClosed
  <2>8. t = "run" => ~(active # None /\ closedGen # gen)
    BY <2>2 DEF SInv, Owed, ClosingPlaces
  <2>9. Owed' /\ NoneLeft'
    BY <1>t, <2>1, <2>2, <2>3, <2>4, <2>7, <2>8 DEF SInv, Owed, NoneLeft, ClosingPlaces
  <2> QED BY <2>5, <2>6, <2>9 DEF SInv
<1> QED BY <1>1, <1>2, <1>3 DEF Unsubscribed

(* The transport becomes active only where no socket is left open. *)
LEMMA SInvOpened == SInv /\ Opened => SInv'
<1> SUFFICES ASSUME SInv, Opened PROVE SInv'
  OBVIOUS
<1>1. /\ run = "connecting" /\ run' = "connected" /\ gen' = gen + 1 /\ closedGen' = None
      /\ active' = gen + 1 /\ open' = {gen + 1}
      /\ UNCHANGED <<stopped, closing, broken, torn>>
  BY DEF Opened, Goto, SInv, NoneLeft
<1>2. closing["run"] = "idle"
  BY <1>1 DEF SInv, ClosingPlaces, STypeOK, Tasks, Underway
<1>3. STypeOK'
  BY <1>1 DEF SInv, STypeOK, Places, TryBody
<1>4. ClosingPlaces'
  BY <1>1, <1>2 DEF SInv, ClosingPlaces, Underway
<1>5. Owed' /\ NoneLeft'
  BY <1>1, <1>2 DEF SInv, STypeOK, Owed, NoneLeft, Owning, None
<1> QED BY <1>3, <1>4, <1>5 DEF SInv

(* Either task claims the active generation, or finds nothing to do. *)
LEMMA SInvBeginClose ==
  ASSUME SInv, NEW t \in Tasks, NEW graceful, BeginClose(t, graceful),
         UNCHANGED <<run, broken, torn>>,
         stopped' = (stopped \/ t = "stop"),
         t = "run" => run = "finally"
  PROVE  SInv'
<1> USE DEF Tasks, Underway
<1>t. t = "run" \/ t = "stop"
  OBVIOUS
<1>1. closing[t] = "idle" /\ UNCHANGED <<gen, active, open>>
  BY DEF BeginClose
<1>2. \A u \in Tasks : u # t => closing'[u] = closing[u]
  BY DEF BeginClose, SInv, STypeOK
<1>3. STypeOK'
  <2>1. closing' \in [Tasks -> {"idle", "done", "raised"} \cup Underway]
    BY DEF BeginClose, SInv, STypeOK
  <2> QED BY <2>1, <1>1 DEF SInv, STypeOK
<1>4. CASE AlreadyClosed
  <2>1. closing'[t] = "done" /\ closedGen' = closedGen
    BY <1>4 DEF BeginClose, SInv, STypeOK
  <2>2. ClosingPlaces'
    BY <1>t, <1>1, <1>2, <2>1 DEF SInv, STypeOK, ClosingPlaces
  <2>3. (closing["run"] = "idle" /\ ~stopped /\ run # "ended") => open = {}
    BY <1>4 DEF AlreadyClosed, SInv, Owed, ClosingPlaces
  <2>4. Owed'
    BY <1>t, <1>1, <1>2, <1>4, <2>1 DEF AlreadyClosed, SInv, Owed
  <2>5. NoneLeft'
    BY <1>t, <1>1, <1>2, <2>1, <2>3 DEF SInv, NoneLeft, STypeOK
  <2> QED BY <1>3, <2>2, <2>4, <2>5 DEF SInv
<1>5. CASE ~AlreadyClosed
  <2>1. closing'[t] \in Underway /\ closedGen' = gen
    BY <1>5 DEF BeginClose, SInv, STypeOK
  <2>2. active # None /\ closedGen # gen /\ run \in Owning
    BY <1>5 DEF AlreadyClosed, SInv, Owed
  <2>3. ClosingPlaces'
    BY <1>t, <1>1, <1>2, <2>1 DEF SInv, STypeOK, ClosingPlaces
  <2>4. Owed'
    BY <1>t, <1>1, <1>2, <2>1, <2>2 DEF SInv, Owed
  <2>5. NoneLeft'
    BY <1>t, <1>1, <1>2, <2>1, <2>2 DEF SInv, STypeOK, NoneLeft, Owning
  <2> QED BY <1>3, <2>3, <2>4, <2>5 DEF SInv
<1> QED BY <1>4, <1>5

LEMMA SInvFinished == SInv /\ Finished => SInv'
<1> SUFFICES ASSUME SInv, Finished PROVE SInv'
  OBVIOUS
<1> USE DEF Tasks, Underway
<1>1. /\ closing["run"] = "done" /\ run = "finally" /\ run' = "after"
      /\ UNCHANGED <<stopped, gen, closedGen, active, open, broken, torn>>
  BY DEF Finished, Goto, SInv, ClosingPlaces, transport
<1>2. closing'["run"] = "idle" /\ closing'["stop"] = closing["stop"]
  BY DEF Finished, SInv, STypeOK
<1>3. STypeOK'
  BY <1>1 DEF Finished, SInv, STypeOK, Places
<1>4. ClosingPlaces'
  BY <1>1, <1>2 DEF SInv, ClosingPlaces
<1>5. Owed' /\ NoneLeft'
  BY <1>1, <1>2 DEF SInv, Owed, NoneLeft
<1> QED BY <1>3, <1>4, <1>5 DEF SInv

(* A cancellation leaves the finally clause only while a close is under    *)
(* way, which it then cuts short.                                          *)
LEMMA SInvCancel == SInv /\ Cancel => SInv'
<1> SUFFICES ASSUME SInv, Cancel PROVE SInv'
  OBVIOUS
<1> USE DEF Tasks, Underway
<1>1. UNCHANGED <<gen, closedGen, active, open, broken>>
  BY DEF Cancel, transport
<1>2. CASE run \in TryBody \cup {"failing"}
  <2>1. /\ run' = "finally" /\ closing' = closing
        /\ stopped' = (stopped \/ run \in TryBody)
    BY <1>2 DEF Cancel
  <2>2. closing["run"] = "idle"
    BY <1>2 DEF SInv, STypeOK, ClosingPlaces, TryBody
  <2>3. torn' = torn
    BY <2>2 DEF Cancel, SInv, STypeOK
  <2>4. STypeOK'
    BY <1>1, <2>1, <2>3 DEF SInv, STypeOK, Places
  <2>5. ClosingPlaces'
    BY <1>1, <1>2, <2>1, <2>2, <2>3 DEF SInv, ClosingPlaces, TryBody
  <2>6. Owed' /\ NoneLeft'
    BY <1>1, <2>1, <2>2, <2>3 DEF SInv, Owed, NoneLeft, Owning
  <2> QED BY <2>4, <2>5, <2>6 DEF SInv
<1>3. CASE run \notin TryBody \cup {"failing"}
  <2>1. /\ run' = "ended" /\ closing' = [closing EXCEPT !["run"] = "idle"]
        /\ stopped' = stopped
    BY <1>3 DEF Cancel, SInv, STypeOK
  <2>2. closing'["run"] = "idle" /\ closing'["stop"] = closing["stop"]
    BY <2>1 DEF SInv, STypeOK
  <2>3. torn' = (torn \/ closing["run"] \in {"unsubscribing", "closing"})
    BY DEF Cancel
  <2>4. ~(active # None /\ closedGen # gen)
    BY <1>3 DEF Cancel, SInv, Owed, Owning, TryBody
  <2>5. STypeOK'
    BY <1>1, <2>1, <2>3 DEF SInv, STypeOK, Places
  <2>6. ClosingPlaces'
    BY <1>1, <2>1, <2>2 DEF SInv, ClosingPlaces
  <2>7. Owed' /\ NoneLeft'
    BY <1>1, <2>1, <2>2, <2>3, <2>4 DEF SInv, Owed, NoneLeft
  <2> QED BY <2>5, <2>6, <2>7 DEF SInv
<1> QED BY <1>2, <1>3

LEMMA SInvWriterFails == SInv /\ WriterFails => SInv'
  BY DEF SInv, STypeOK, ClosingPlaces, Owed, NoneLeft, WriterFails, transport

LEMMA SInvStutter == SInv /\ UNCHANGED svars => SInv'
  BY DEF SInv, STypeOK, ClosingPlaces, Owed, NoneLeft, svars, transport

(* Every other step of run only moves it on. *)
LEMMA SInvMoves ==
  ASSUME SInv,
         \/ Connecting \/ LoopEnds \/ ConnectFails \/ Connected \/ Subscribed \/ Received
         \/ Heartbeat \/ (\E outcome \in {"ok", "protocol error"} : Handled(outcome))
         \/ SocketFails \/ Disconnected \/ Rescheduled \/ Elapsed \/ Woken
  PROVE  SInv'
<1> USE DEF Places, TryBody, Owning, Goto, Raise, HandOver, ReceiveLoop
<1>1. CASE Connecting
  BY <1>1, RunMoves DEF Connecting
<1>2. CASE LoopEnds
  BY <1>2, RunMoves DEF LoopEnds
<1>3. CASE ConnectFails
  BY <1>3, RunMoves DEF ConnectFails
<1>4. CASE Connected
  BY <1>4, RunMoves DEF Connected
<1>5. CASE Subscribed
  BY <1>5, RunMoves DEF Subscribed
<1>6. CASE Received
  BY <1>6, RunMoves DEF Received
<1>7. CASE Heartbeat
  BY <1>7, RunMoves DEF Heartbeat
<1>8. CASE \E outcome \in {"ok", "protocol error"} : Handled(outcome)
  BY <1>8, RunMoves DEF Handled
<1>9. CASE SocketFails
  BY <1>9, RunMoves DEF SocketFails
<1>10. CASE Disconnected
  BY <1>10, RunMoves DEF Disconnected
<1>11. CASE Rescheduled
  BY <1>11, RunMoves DEF Rescheduled
<1>12. CASE Elapsed
  BY <1>12, RunMoves DEF Elapsed
<1>13. CASE Woken
  BY <1>13, RunMoves DEF Woken
<1> QED
  BY <1>1, <1>2, <1>3, <1>4, <1>5, <1>6, <1>7, <1>8, <1>9, <1>10, <1>11, <1>12, <1>13

LEMMA SInvAlone == SInv /\ (RunAlone \/ StopAlone \/ Outside) => SInv'
<1> SUFFICES ASSUME SInv, RunAlone \/ StopAlone \/ Outside PROVE SInv'
  OBVIOUS
<1>1. CASE Finally
  <2>1. /\ BeginClose("run", stopped) /\ UNCHANGED <<run, broken, torn>>
        /\ stopped' = (stopped \/ "run" = "stop") /\ run = "finally"
    BY <1>1 DEF Finally, SInv, STypeOK
  <2>2. "run" \in Tasks
    BY DEF Tasks
  <2> QED BY <2>1, <2>2, SInvBeginClose
<1>2. CASE Stop
  <2>1. /\ BeginClose("stop", TRUE) /\ UNCHANGED <<run, broken, torn>>
        /\ stopped' = (stopped \/ "stop" = "stop")
    BY <1>2 DEF Stop, SInv, STypeOK
  <2>2. "stop" \in Tasks /\ "stop" # "run"
    BY DEF Tasks
  <2> QED BY <2>1, <2>2, SInvBeginClose
<1>3. "run" \in Tasks /\ "stop" \in Tasks
  BY DEF Tasks
<1> QED
  BY <1>1, <1>2, <1>3, SInvMoves, SInvOpened, SInvClose, SInvFinished, SInvCancel,
     SInvWriterFails DEF RunAlone, StopAlone, Outside

(* A step of the feed is a step of the session, or leaves it alone. *)
LEMMA SInvNext == SInv /\ [ONext]_ovars => SInv'
<1> SUFFICES ASSUME SInv, [ONext]_ovars PROVE SInv'
  OBVIOUS
<1>1. CASE HandleConnected \/ HandleDisconnected \/ HandleSubscribed \/ ReceiveMessage
  BY <1>1, SInvMoves DEF HandleConnected, HandleDisconnected, HandleSubscribed,
                         ReceiveMessage
<1>2. ASSUME NEW m \in inHand, HandleMessage(m) PROVE SInv'
  <2>1. \E outcome \in {"ok", "protocol error"} : Handled(outcome)
    BY <1>2 DEF HandleMessage
  <2> QED BY <2>1, SInvMoves
<1>3. CASE SendOther \/ DisconnectReturns \/ \E valid \in BOOLEAN : SendSnapshot(valid)
  BY <1>3, SInvStutter DEF SendOther, DisconnectReturns, SendSnapshot
<1>4. ASSUME NEW valid \in BOOLEAN, NEW upto \in sent.upto..MaxId,
             NEW delivered \in BOOLEAN, NEW restart \in BOOLEAN,
             SendUpdate(upto, delivered, restart, valid)
      PROVE  SInv'
  BY <1>4, SInvStutter DEF SendUpdate
<1>5. CASE RunAlone \/ StopAlone \/ Outside
  BY <1>5, SInvAlone
<1>6. CASE UNCHANGED ovars
  BY <1>6, SInvStutter DEF ovars
<1> QED BY <1>1, <1>2, <1>3, <1>4, <1>5, <1>6 DEF ONext

LEMMA SInvSockets == SInv => SocketsClosed
<1> SUFFICES ASSUME SInv PROVE SocketsClosed
  OBVIOUS
<1>1. Cardinality(open) <= 1
  <2>1. IsFiniteSet({gen}) /\ Cardinality({gen}) = 1
    BY FS_Singleton
  <2>2. Cardinality(open) <= Cardinality({gen})
    BY <2>1, FS_Subset DEF SInv, Owed
  <2> QED BY <2>1, <2>2
<1>2. ASSUME run = "ended", closing["stop"] \notin {"unsubscribing", "closing"}, ~torn,
             open # {}
      PROVE  FALSE
  <2>1. closedGen = gen
    BY <1>2 DEF SInv, Owed, Owning
  <2>2. closing["run"] \in Underway
    BY <1>2, <2>1 DEF SInv, Owed, Tasks, Underway
  <2> QED BY <1>2, <2>2 DEF SInv, ClosingPlaces
<1> QED BY <1>1, <1>2 DEF SocketsClosed

(* At most one socket of the OKX session is open at a time, and none once  *)
(* run has ended and stop is no longer closing, unless closing was itself  *)
(* cut short: for every number of reconnections and whatever stop, a       *)
(* cancellation and a failing event handler interrupt.                     *)
THEOREM NoSocketLeft == OSpec => []SocketsClosed
<1>1. OInit => SInv
  BY SInvInit DEF OInit
<1>2. SInv /\ [ONext]_ovars => SInv'
  BY SInvNext
<1>3. SInv => SocketsClosed
  BY SInvSockets
<1> QED BY <1>1, <1>2, <1>3, PTL DEF OSpec

----------------------------------------------------------------------------
(* The book that the health registry reports.                              *)
(*                                                                         *)
(* The invariant rests on the points <<sequence id, change>> that the      *)
(* messages and the book name: a sequence id names one change, since the   *)
(* ids rise with the changes and restart below all those in use.  So an    *)
(* update that continues the book's sequence id continues its changes.     *)
(* What the deduplicator and the feature book hold of the book's           *)
(* generation lies, until the ids restart in it, behind the book, and the  *)
(* messages on their way lie before it, in order.                          *)

Messages ==
    {m \in [kind : {"snapshot", "update", "other"}, first : Nat, final : Nat, prev : Int,
            seq : Int, valid : BOOLEAN] :
        /\ m.kind # "other" => m.final \in 1..MaxId /\ m.seq \in Nat
        /\ m.kind = "snapshot" => m.first = 1
        /\ m.kind = "update" => m.first - 1 \in 1..m.final /\ m.prev \in Nat}

LocalBooks ==
    [status : {"BUFFERING", "LIVE", "RESYNC_REQUIRED"}, gen : Nat, seq : {None} \cup Nat,
     upto : 0..MaxId, levels : [Levels -> Nat]]

FeedTypeOK ==
    /\ sent \in [upto : 1..MaxId, seq : Nat] /\ resets \in 0..MaxResets
    /\ wire \in Seq(Messages) /\ inHand \in SUBSET Messages
    /\ book \in LocalBooks
    /\ health \in [connected : BOOLEAN, resyncing : BOOLEAN, gap : BOOLEAN, gen : Nat]
    /\ dedupe \in Seq(FP!BookEvents(Nat))
    /\ resetGen \in {None} \cup Nat

IsLive == book.status = "LIVE"
Reading == run \in {"subscribing", "receiving", "handling"}
Clean == resetGen # book.gen

Circulating == {m \in inHand \cup {wire[i] : i \in 1..Len(wire)} : m.kind # "other"}

Points ==
    {<<sent.seq, sent.upto>>}
      \cup {<<m.seq, m.final>> : m \in Circulating}
      \cup {<<m.prev, m.first - 1>> : m \in {c \in Circulating : c.kind = "update"}}
      \cup (IF IsLive THEN {<<book.seq, book.upto>>} ELSE {})

(* Within a restart the ids run along with the changes; a point of an      *)
(* earlier one lies above them all.                                        *)
Numbering(P, s, r) ==
    /\ s.seq >= FirstId(r) /\ s.seq - FirstId(r) <= s.upto - 1
    /\ \A p \in P : /\ p \in Nat \X (1..s.upto) /\ p[1] >= FirstId(r)
                    /\ p[1] < FirstId(r) + MaxId => s.seq - p[1] = s.upto - p[2]
    /\ \A p, q \in P : p[1] = q[1] => p[2] = q[2]

Ordered ==
    /\ inHand # {} => run = "handling"
    /\ Clean /\ Reading =>
        /\ IsLive => book.seq <= sent.seq
        /\ \A m \in Circulating : m.seq <= sent.seq /\ (IsLive => book.seq <= m.seq)
        /\ \A m \in inHand : \A i \in 1..Len(wire) :
              m.kind # "other" /\ wire[i].kind # "other" => m.seq <= wire[i].seq
        /\ \A i, j \in 1..Len(wire) :
              i <= j /\ wire[i].kind # "other" /\ wire[j].kind # "other"
                => wire[i].seq <= wire[j].seq

Remembered ==
    \A i \in 1..Len(dedupe) :
        /\ dedupe[i].gen <= book.gen
        /\ dedupe[i].gen = book.gen /\ Clean => IsLive /\ dedupe[i].seq <= book.seq

Honest ==
    /\ IsLive => book.levels = BookAt(book.upto)
    /\ health.connected /\ ~health.resyncing => IsLive /\ health.gen = book.gen /\ ~health.gap

AnyBook == Nat \X [Levels -> Nat]

Following ==
    /\ fbook \in FP!Books(Nat) /\ Len(fbook.pending) <= PendingCapacity
    /\ FP!Exact(AnyBook, Nat, fbook)
    /\ fbook.gen <= book.gen /\ resetGen <= book.gen
    /\ Clean /\ IsLive => fbook \in FP!Behind(book.gen, book.levels, book.seq)
    /\ Clean /\ ~IsLive /\ fbook.gen = book.gen => ~fbook.sync /\ fbook.pending = <<>>

FeedInv ==
    FeedTypeOK /\ Numbering(Points, sent, resets) /\ Ordered /\ Remembered /\ Honest /\ Following

----------------------------------------------------------------------------
(* The sequence ids.                                                       *)

LEMMA FirstIdFacts ==
  ASSUME NEW n \in 0..MaxResets
  PROVE  /\ FirstId(n) \in Nat /\ FirstId(n) >= 1
         /\ n < MaxResets => FirstId(n + 1) = FirstId(n) - MaxId
<1>1. MaxId \in Nat /\ MaxResets \in Nat
  BY ExchangeAssumption, OkxAssumption
<1>2. PICK k \in Nat : k = MaxResets - n
  BY <1>1
<1>3. PICK d \in Nat : d = MaxId
  BY <1>1
<1>4. k * d \in Nat
  OBVIOUS
<1>5. FirstId(n) = k * d + 1
  BY <1>2, <1>3 DEF FirstId
<1>6. ASSUME n < MaxResets PROVE FirstId(n + 1) = FirstId(n) - d
  <2>1. MaxResets - (n + 1) = k - 1 /\ k - 1 \in Nat
    BY <1>1, <1>2, <1>6
  <2>2. FirstId(n + 1) = (k - 1) * d + 1
    BY <1>3, <2>1 DEF FirstId
  <2>3. (k - 1) * d = k * d - d
    OBVIOUS
  <2> QED BY <1>5, <2>2, <2>3
<1> QED BY <1>3, <1>4, <1>5, <1>6

LEMMA FewerPoints ==
  ASSUME NEW P, NEW Q, Q \subseteq P, NEW s, NEW r, Numbering(P, s, r)
  PROVE  Numbering(Q, s, r)
  BY DEF Numbering

(* The exchange numbers its next changes, or restarts.                     *)
LEMMA NextPoint ==
  ASSUME NEW P, NEW s \in [upto : 1..MaxId, seq : Nat], NEW r \in 0..MaxResets,
         Numbering(P, s, r), NEW upto \in s.upto..MaxId, NEW restart \in BOOLEAN,
         restart => r < MaxResets /\ upto > s.upto,
         NEW t, t = [upto |-> upto,
                     seq |-> IF restart THEN FirstId(r + 1) ELSE s.seq + (upto - s.upto)],
         NEW q, q = IF restart THEN r + 1 ELSE r
  PROVE  /\ Numbering(P \cup {<<t.seq, t.upto>>}, t, q)
         /\ t \in [upto : 1..MaxId, seq : Nat] /\ q \in 0..MaxResets
         /\ ~restart => t.seq >= s.seq
<1>1. MaxId \in Nat \ {0} /\ MaxResets \in Nat /\ s.seq \in Nat /\ s.upto \in 1..MaxId
  BY ExchangeAssumption, OkxAssumption
<1>2. FirstId(r) \in Nat /\ FirstId(r) >= 1
  BY FirstIdFacts
<1>3. t.upto = upto /\ t.upto \in 1..MaxId
  BY <1>1
<1>p. \A p \in P : /\ p[1] \in Nat /\ p[2] \in 1..s.upto /\ p[1] >= FirstId(r)
                   /\ p[1] < FirstId(r) + MaxId => s.seq - p[1] = s.upto - p[2]
                   /\ p = <<p[1], p[2]>>
  BY DEF Numbering
<1>q. \A p, o \in P : p[1] = o[1] => p[2] = o[2]
  BY DEF Numbering
<1>4. CASE restart
  <2>1. FirstId(q) = FirstId(r) - MaxId /\ FirstId(q) \in Nat /\ q = r + 1 /\ q \in 0..MaxResets
    <3>1. q = r + 1 /\ r + 1 \in 0..MaxResets /\ FirstId(r + 1) = FirstId(r) - MaxId
      BY <1>1, <1>4, FirstIdFacts
    <3>2. FirstId(r + 1) \in Nat
      BY <3>1, FirstIdFacts
    <3> QED BY <3>1, <3>2
  <2>2. t.seq = FirstId(q)
    BY <1>4, <2>1
  <2>3. \A p \in P : p[1] >= FirstId(q) + MaxId /\ p[1] # t.seq /\ p[2] \in 1..t.upto
    BY <1>1, <1>2, <1>3, <1>p, <2>1, <2>2
  <2> HIDE DEF FirstId
  <2>4. Numbering(P \cup {<<t.seq, t.upto>>}, t, q)
    <3>1. t.seq >= FirstId(q) /\ t.seq - FirstId(q) <= t.upto - 1
      BY <1>3, <2>1, <2>2
    <3>2. ASSUME NEW p \in P \cup {<<t.seq, t.upto>>}
          PROVE  /\ p \in Nat \X (1..t.upto) /\ p[1] >= FirstId(q)
                 /\ p[1] < FirstId(q) + MaxId => t.seq - p[1] = t.upto - p[2]
      <4>1. CASE p \in P
        BY <1>1, <1>p, <2>1, <2>3, <4>1
      <4>2. CASE p = <<t.seq, t.upto>>
        BY <1>3, <2>1, <2>2, <4>2
      <4> QED BY <4>1, <4>2
    <3>3. ASSUME NEW p \in P \cup {<<t.seq, t.upto>>}, NEW o \in P \cup {<<t.seq, t.upto>>},
                 p[1] = o[1]
          PROVE  p[2] = o[2]
      BY <1>q, <2>3, <3>3
    <3> QED BY <3>1, <3>2, <3>3 DEF Numbering
  <2>5. t \in [upto : 1..MaxId, seq : Nat]
    BY <1>3, <2>1, <2>2
  <2> QED BY <1>4, <2>1, <2>4, <2>5
<1>5. CASE ~restart
  <2>0. s.seq >= FirstId(r) /\ s.seq - FirstId(r) <= s.upto - 1
    BY DEF Numbering
  <2>1. q = r /\ t.seq = s.seq + (upto - s.upto) /\ t.seq \in Nat /\ t.seq >= s.seq
    BY <1>1, <1>5
  <2>2. t.seq - FirstId(r) <= t.upto - 1 /\ t.seq < FirstId(r) + MaxId
    BY <1>1, <1>2, <1>3, <2>0, <2>1
  <2>3. \A p \in P : /\ p[2] \in 1..t.upto
                     /\ p[1] < FirstId(r) + MaxId => t.seq - p[1] = t.upto - p[2]
                     /\ p[1] = t.seq => p[2] = t.upto
    <3> TAKE p \in P
    <3>1. PICK a \in Nat, b \in 1..s.upto :
            /\ a = p[1] /\ b = p[2]
            /\ a < FirstId(r) + MaxId => s.seq - a = s.upto - b
      BY <1>p
    <3>2. b \in 1..t.upto
      BY <1>1, <1>3, <3>1
    <3>3. a < FirstId(r) + MaxId => t.seq - a = t.upto - b
      BY <1>1, <1>2, <1>3, <2>1, <3>1
    <3>4. a = t.seq => b = t.upto
      BY <1>1, <1>2, <1>3, <2>1, <2>2, <3>1, <3>3
    <3> QED BY <3>1, <3>2, <3>3, <3>4
  <2>4. Numbering(P \cup {<<t.seq, t.upto>>}, t, q)
    <3>1. t.seq >= FirstId(q) /\ t.seq - FirstId(q) <= t.upto - 1
      BY <1>1, <1>2, <2>0, <2>1, <2>2
    <3>2. ASSUME NEW p \in P \cup {<<t.seq, t.upto>>}
          PROVE  /\ p \in Nat \X (1..t.upto) /\ p[1] >= FirstId(q)
                 /\ p[1] < FirstId(q) + MaxId => t.seq - p[1] = t.upto - p[2]
      <4>1. CASE p \in P
        BY <1>1, <1>p, <2>1, <2>3, <4>1
      <4>2. CASE p = <<t.seq, t.upto>>
        BY <1>3, <2>1, <3>1, <4>2
      <4> QED BY <4>1, <4>2
    <3>3. ASSUME NEW p \in P \cup {<<t.seq, t.upto>>}, NEW o \in P \cup {<<t.seq, t.upto>>},
                 p[1] = o[1]
          PROVE  p[2] = o[2]
      BY <1>q, <2>3, <3>3
    <3> QED BY <3>1, <3>2, <3>3 DEF Numbering
  <2>5. t \in [upto : 1..MaxId, seq : Nat]
    BY <1>3, <1>5, <2>1
  <2> QED BY <2>1, <2>4, <2>5
<1> QED BY <1>4, <1>5

----------------------------------------------------------------------------
(* The connector's book.                                                   *)

(* A message laid over the book it continues gives the exchange's book.    *)
LEMMA AppliedIsExact ==
  ASSUME NEW m \in Messages, m.kind # "other", NEW n \in 0..MaxId,
         m.first <= n + 1, n <= m.final
  PROVE  Applied(BookAt(n), m) = BookAt(m.final)
<1>1. m.first \in Nat /\ m.final \in 0..MaxId /\ MaxId \in Nat
  BY ExchangeAssumption DEF Messages
<1> QED BY <1>1, OverlayIsExact DEF Applied

LEMMA NoLevelsAtFirst == BookAt(0) = NoLevels
<1>1. \A l \in Levels : Setting(l, 0) = {}
  BY DEF Setting
<1> QED BY <1>1 DEF BookAt, NoLevels

(* What ingest leaves of a message it accepts *)
Accepting(b, m) ==
    /\ m.kind = "update" => b.status = "LIVE" /\ Continues(b, m)
    /\ m.valid

LEMMA IngestAccepts ==
  ASSUME NEW b \in LocalBooks, NEW m \in Messages, m.kind # "other",
         b.status = "LIVE" => b.levels = BookAt(b.upto),
         b.status = "LIVE" /\ m.kind = "update" /\ m.prev = b.seq => m.first - 1 = b.upto,
         Accepting(b, m)
  PROVE  LET d == Ingest(b, m).book
         IN  /\ d \in LocalBooks /\ d.status = "LIVE" /\ d.gen = b.gen /\ d.seq = m.seq
             /\ d.upto = m.final /\ d.levels = BookAt(m.final)
             /\ Ingest(b, m).transition \in {"SNAPSHOT_APPLIED", "UPDATE_APPLIED"}
<1> DEFINE base == IF m.kind = "snapshot" THEN NoLevels ELSE b.levels
           a == [b EXCEPT !.status = "LIVE", !.seq = m.seq, !.upto = m.final,
                          !.levels = Applied(base, m)]
<1>1. m.kind \in {"snapshot", "update"} /\ m.first \in Nat /\ m.final \in 1..MaxId /\ MaxId \in Nat
  BY ExchangeAssumption DEF Messages
<1>2. Applied(base, m) = BookAt(m.final)
  <2>1. CASE m.kind = "snapshot"
    <3>1. 0 \in 0..MaxId /\ m.first <= 0 + 1 /\ 0 <= m.final
      BY <1>1, <2>1 DEF Messages
    <3> QED BY <2>1, <3>1, AppliedIsExact, NoLevelsAtFirst
  <2>2. CASE m.kind = "update"
    <3>1. b.status = "LIVE" /\ m.prev = b.seq
      BY <2>2 DEF Accepting, Continues
    <3>2. b.levels = BookAt(b.upto) /\ m.first - 1 = b.upto /\ b.upto \in 0..MaxId
      BY <2>2, <3>1 DEF LocalBooks
    <3>3. m.first <= b.upto + 1 /\ b.upto <= m.final
      BY <1>1, <2>2, <3>2 DEF Messages
    <3> QED BY <2>2, <3>2, <3>3, AppliedIsExact
  <2> QED BY <1>1, <2>1, <2>2
<1>3. /\ a \in LocalBooks /\ a.status = "LIVE" /\ a.gen = b.gen /\ a.seq = m.seq
      /\ a.upto = m.final /\ a.levels = BookAt(m.final)
  <2>1. BookAt(m.final) \in [Levels -> Nat] /\ m.final \in 0..MaxId /\ m.seq \in Nat
    BY <1>1, BookAtType DEF Messages
  <2> QED BY <1>2, <2>1 DEF LocalBooks
<1>4. Ingest(b, m) = Result(a, IF m.kind = "snapshot" THEN "SNAPSHOT_APPLIED"
                               ELSE "UPDATE_APPLIED")
  BY DEF Ingest, Accepting
<1> HIDE DEF a
<1> QED BY <1>3, <1>4 DEF Result

LEMMA IngestRefuses ==
  ASSUME NEW b \in LocalBooks, NEW m \in Messages, m.kind # "other", ~Accepting(b, m)
  PROVE  LET d == Ingest(b, m).book
         IN  /\ d \in LocalBooks /\ d.status # "LIVE" /\ Failure(Ingest(b, m))
             /\ d.gen = b.gen + 1 \/ (d.gen = b.gen /\ b.status # "LIVE")
<1>1. PICK c : c = [b EXCEPT !.status = "RESYNC_REQUIRED"]
  OBVIOUS
<1>2. c \in LocalBooks /\ c.status = "RESYNC_REQUIRED" /\ c.gen = b.gen
  BY <1>1 DEF LocalBooks
<1>3. PICK d : d = Invalidated(b)
  OBVIOUS
<1>4. d \in LocalBooks /\ d.status = "RESYNC_REQUIRED" /\ d.gen = b.gen + 1
  <2>1. b.gen \in Nat /\ 0 \in 0..MaxId /\ NoLevels \in [Levels -> Nat]
    BY ExchangeAssumption DEF LocalBooks, NoLevels
  <2> QED BY <1>3, <2>1 DEF Invalidated, LocalBooks
<1>5. \/ Ingest(b, m) = Result(c, "SEQUENCE_GAP") /\ b.status # "LIVE"
      \/ Ingest(b, m) = Result(d, "SEQUENCE_GAP")
      \/ Ingest(b, m) = Result(d, "CHECKSUM_MISMATCH")
  BY <1>1, <1>3 DEF Ingest, Accepting
<1> QED BY <1>2, <1>4, <1>5 DEF Result, Failure

----------------------------------------------------------------------------
(* The deduplicator.                                                       *)

LEMMA RemoveFirstType ==
  ASSUME NEW S, NEW s \in Seq(S), NEW t
  PROVE  RemoveFirst(s, t) \in Seq(S)
<1>1. CASE ~\E i \in 1..Len(s) : s[i] = t
  BY <1>1 DEF RemoveFirst
<1>2. CASE \E i \in 1..Len(s) : s[i] = t
  <2> DEFINE I == {i \in 1..Len(s) : s[i] = t}
  <2>1. RemoveFirst(s, t) = RemoveAt(s, Min(I))
    BY <1>2 DEF RemoveFirst, SelectInSeq
  <2>2. I \subseteq Nat /\ I # {}
    BY <1>2
  <2>3. PICK k \in 1..Len(s) : k = Min(I)
    <3>1. Min(I) \in I
      <4> HIDE DEF I
      <4> QED BY <2>2, MinIsLeast
    <3> QED BY <3>1
  <2> HIDE DEF I
  <2>4. SubSeq(s, 1, k - 1) \in Seq(S) /\ SubSeq(s, k + 1, Len(s)) \in Seq(S)
    BY <2>3
  <2> QED BY <2>1, <2>3, <2>4 DEF RemoveAt
<1> QED BY <1>1, <1>2

(* What it holds afterwards it held before, or is the event.               *)
LEMMA SeenOrAddKeeps ==
  ASSUME NEW S, NEW entries \in Seq(S), NEW e \in S
  PROVE  LET s == SeenOrAdd(entries, e)
         IN  /\ s.entries \in Seq(S)
             /\ \A i \in 1..Len(s.entries) :
                   s.entries[i] = e \/ \E j \in 1..Len(entries) : s.entries[i] = entries[j]
             /\ s.seen => \E j \in 1..Len(entries) : entries[j] = e
<1> DEFINE T == {entries[j] : j \in 1..Len(entries)} \cup {e}
<1>0. Len(entries) \in Nat
  OBVIOUS
<1>1. T \subseteq S /\ entries \in Seq(T) /\ e \in T
  OBVIOUS
<1>2. ASSUME NEW u \in Seq(T), SeenOrAdd(entries, e).entries = u
      PROVE  /\ u \in Seq(S)
             /\ \A i \in 1..Len(u) : u[i] = e \/ \E j \in 1..Len(entries) : u[i] = entries[j]
  <2>1. ASSUME NEW i \in 1..Len(u)
        PROVE  u[i] = e \/ \E j \in 1..Len(entries) : u[i] = entries[j]
    <3>1. u[i] \in T
      <4> HIDE DEF T
      <4> QED OBVIOUS
    <3> QED BY <3>1
  <2>2. u \in Seq(S)
    <3> HIDE DEF T
    <3>1. Len(u) \in Nat /\ \A i \in 1..Len(u) : u[i] \in S
      BY <1>1
    <3> QED BY <3>1
  <2> QED BY <2>1, <2>2
<1>3. CASE Contains(entries, e)
  <2>1. SeenOrAdd(entries, e) = [seen |-> TRUE,
                                 entries |-> Append(RemoveFirst(entries, e), e)]
    BY <1>3 DEF SeenOrAdd
  <2>2. \E j \in 1..Len(entries) : entries[j] = e
    BY <1>3 DEF Contains
  <2> HIDE DEF T
  <2>3. RemoveFirst(entries, e) \in Seq(T)
    BY <1>1, RemoveFirstType
  <2>4. PICK rest \in Seq(T) : rest = RemoveFirst(entries, e)
    BY <2>3
  <2>5. PICK u \in Seq(T) : u = Append(rest, e)
    <3>1. Append(rest, e) \in Seq(T)
      BY <1>1
    <3> QED BY <3>1, Zenon
  <2>6. SeenOrAdd(entries, e).entries = u
    BY <2>1, <2>4, <2>5
  <2> QED BY <1>2, <2>2, <2>6
<1>4. CASE ~Contains(entries, e)
  <2> DEFINE grown == Append(entries, e)
             u == IF Len(grown) > DedupeCapacity THEN Tail(grown) ELSE grown
  <2>1. SeenOrAdd(entries, e) = [seen |-> FALSE, entries |-> u]
    BY <1>4 DEF SeenOrAdd
  <2>2. u \in Seq(T)
    <3> HIDE DEF T
    <3>1. grown \in Seq(T) /\ grown # <<>>
      BY <1>1
    <3> QED BY <3>1
  <2> HIDE DEF u
  <2> QED BY <1>2, <2>1, <2>2
<1> QED BY <1>3, <1>4

----------------------------------------------------------------------------
(* The operators of the feature book are those its proofs are about.       *)
LEMMA SameSound == \A levels : FB!Sound(levels) = FP!Sound(levels)
  BY DEF FB!Sound, FB!TwoSided, FB!Side, FP!Sound, FP!TwoSided, FP!Side

LEMMA SameLoop == \A o, u : FB!Replayed(o, u) = FP!Replayed(o, u)
  BY DEF FB!Replayed, FB!ReplayStep, FB!Applied, FB!Outcome, FB!Desynchronized, FB!Overlay,
         FB!Sound, FB!TwoSided, FB!Side, FB!None,
         FP!Replayed, FP!ReplayStep, FP!Applied, FP!Outcome, FP!Desynchronized, FP!Overlay,
         FP!Sound, FP!TwoSided, FP!Side, FP!None

LEMMA SameSort == \A u : FB!BySequence(u) = FP!BySequence(u)
  BY Zenon DEF FB!BySequence, FP!BySequence, FB!InsertAt, FP!InsertAt, FB!Cardinality,
               FP!Cardinality

LEMMA SameUpdate == \A f, e : FB!ApplyUpdate(f, e) = FP!ApplyUpdate(f, e)
  BY DEF FB!ApplyUpdate, FB!Buffered, FB!Applied, FB!Outcome, FB!Desynchronized, FB!Reset,
         FB!Overlay, FB!Sound, FB!TwoSided, FB!Side, FB!NoLevels, FB!None,
         FP!ApplyUpdate, FP!Buffered, FP!Applied, FP!Outcome, FP!Desynchronized, FP!Reset,
         FP!Overlay, FP!Sound, FP!TwoSided, FP!Side, FP!NoLevels, FP!None

LEMMA SameSnapshot == \A f, e : FB!ApplySnapshot(f, e) = FP!ApplySnapshot(f, e)
  BY SameLoop, SameSort, SameSound
     DEF FB!ApplySnapshot, FB!Outcome, FB!Desynchronized, FB!Reset, FB!Overlay, FB!NoLevels,
         FB!None, FB!Continuing, FB!TwoSided, FB!Side,
         FP!ApplySnapshot, FP!Outcome, FP!Desynchronized, FP!Reset, FP!Overlay, FP!NoLevels,
         FP!None, FP!Continuing, FP!TwoSided, FP!Side

LEMMA SameApply == \A f, e : FB!Apply(f, e) = FP!Apply(f, e)
  BY SameUpdate, SameSnapshot DEF FB!Apply, FP!Apply

(* The event of a message carries the levels that take the book from the   *)
(* message before to this one.                                             *)
LEMMA EventFacts ==
  ASSUME NEW m \in Messages, m.kind # "other", NEW g \in Nat, NEW e \in Events(m, g)
  PROVE  /\ e \in FP!BookEvents(Nat) /\ e.kind = m.kind /\ e.gen = g /\ e.seq = m.seq
         /\ FP!Fits(AnyBook, e)
         /\ m.kind = "snapshot" => FP!Overlay(FP!NoLevels, e.levels) = BookAt(m.final)
         /\ m.kind = "update" => \A levels : FP!Overlay(levels, e.levels) = Applied(levels, m)
<1> DEFINE changed == IF m.kind = "snapshot" THEN BookAt(m.final)
                      ELSE [l \in Touched(m) |-> BookAt(m.final)[l]]
<1>1. /\ m.kind \in {"snapshot", "update"} /\ m.first \in Nat /\ m.final \in 1..MaxId
      /\ m.seq \in Nat /\ m.prev \in Int /\ MaxId \in Nat /\ m.final \in 0..MaxId
  BY ExchangeAssumption DEF Messages
<1>2. BookAt(m.final) \in [Levels -> Nat]
  BY <1>1, BookAtType
<1>3. m.kind = "update" => Touched(m) \subseteq Levels
  <2> SUFFICES ASSUME m.kind = "update", NEW k \in m.first..m.final
               PROVE  DOMAIN Change[k] \subseteq Levels
    BY DEF Touched
  <2>1. k \in 1..MaxId
    BY <1>1 DEF Messages
  <2> QED BY <2>1, ExchangeAssumption
<1>4. changed \in FP!Changes
  <2>1. CASE m.kind = "snapshot"
    BY <1>2, <2>1 DEF FP!Changes
  <2>2. CASE m.kind = "update"
    <3>1. changed \in [Touched(m) -> Nat] /\ Touched(m) \in SUBSET Levels
      BY <1>2, <1>3, <2>2
    <3> HIDE DEF changed
    <3> QED BY <3>1 DEF FP!Changes
  <2> QED BY <1>1, <2>1, <2>2
<1>5. e = [kind |-> m.kind, gen |-> g, seq |-> m.seq, prev |-> m.prev, at |-> 0,
           levels |-> changed]
  BY DEF Events
<1>6. /\ m.kind = "snapshot" => FP!Overlay(FP!NoLevels, changed) = BookAt(m.final)
      /\ m.kind = "update" => \A levels : FP!Overlay(levels, changed) = Applied(levels, m)
  <2>1. CASE m.kind = "snapshot"
    BY <1>2, <2>1 DEF FP!Overlay
  <2>2. CASE m.kind = "update"
    BY <1>2, <2>2 DEF FP!Overlay, Applied
  <2> QED BY <1>1, <2>1, <2>2
<1> HIDE DEF changed
<1>7. /\ e \in FP!BookEvents(Nat) /\ e.kind = m.kind /\ e.gen = g /\ e.seq = m.seq
      /\ e.levels = changed
  BY <1>1, <1>4, <1>5 DEF FP!BookEvents
<1>8. FP!Fits(AnyBook, e)
  <2>1. FP!Overlay(FP!NoLevels, changed) \in [Levels -> Nat]
    BY <1>4, FP!OverlayType, FP!ZeroLevels
  <2>2. \A levels \in [Levels -> Nat] : FP!Overlay(levels, changed) \in [Levels -> Nat]
    BY <1>4, FP!OverlayType
  <2> QED BY <1>1, <1>7, <2>1, <2>2 DEF FP!Fits, AnyBook
<1> QED BY <1>6, <1>7, <1>8

----------------------------------------------------------------------------
(* The invariant.                                                          *)

LEMMA FeedInvInit == OInit => FeedInv
<1> SUFFICES ASSUME OInit PROVE FeedInv
  OBVIOUS
<1>0. MaxId \in Nat \ {0} /\ MaxResets \in Nat /\ PendingCapacity \in Nat
  BY ExchangeAssumption, OkxAssumption
<1>1. FirstId(0) \in Nat /\ 0 \in 0..MaxResets
  BY <1>0, FirstIdFacts
<1>2. wire = <<>> /\ inHand = {} /\ dedupe = <<>> /\ resets = 0 /\ resetGen = -1
  BY DEF OInit, None
<1>3. sent.upto = 1 /\ sent.seq = FirstId(0) /\ sent \in [upto : 1..MaxId, seq : Nat]
  BY <1>0, <1>1 DEF OInit
<1>4. book \in LocalBooks /\ book.status = "BUFFERING" /\ book.gen = 0
  <2>1. NoLevels \in [Levels -> Nat] /\ 0 \in 0..MaxId
    BY <1>0 DEF NoLevels
  <2> QED BY <2>1 DEF OInit, LocalBooks
<1>5. /\ health \in [connected : BOOLEAN, resyncing : BOOLEAN, gap : BOOLEAN, gen : Nat]
      /\ ~health.connected
  BY DEF OInit
<1>6. FeedTypeOK
  <2>1. <<>> \in Seq(Messages) /\ <<>> \in Seq(FP!BookEvents(Nat))
    OBVIOUS
  <2> QED BY <1>1, <1>2, <1>3, <1>4, <1>5, <2>1 DEF FeedTypeOK, None
<1>7. Len(wire) = 0 /\ Len(dedupe) = 0
  BY <1>2
<1>8. Circulating = {} /\ ~IsLive
  BY <1>2, <1>4, <1>7 DEF Circulating, IsLive
<1>9. Numbering(Points, sent, resets)
  <2>1. Points = {<<sent.seq, sent.upto>>}
    BY <1>8 DEF Points
  <2> QED BY <1>0, <1>1, <1>2, <1>3, <2>1 DEF Numbering
<1>10. Ordered /\ Remembered /\ Honest
  BY <1>2, <1>5, <1>7, <1>8 DEF Ordered, Remembered, Honest
<1>11. Following
  <2>1. fbook = [gen |-> 0, epoch |-> 0, seq |-> -1, sync |-> FALSE, since |-> -1,
                 levels |-> [l \in Levels |-> 0], pending |-> <<>>]
    BY DEF OInit, FB!NewBook, FB!None, FB!NoLevels
  <2>2. fbook \in FP!Books(Nat)
    BY <2>1 DEF FP!Books, FP!None
  <2>3. ~fbook.sync /\ fbook.pending = <<>> /\ Len(fbook.pending) = 0 /\ fbook.gen = 0
    BY <2>1
  <2> QED BY <1>0, <1>2, <1>4, <1>8, <2>2, <2>3 DEF Following, FP!Exact
<1> QED BY <1>6, <1>9, <1>10, <1>11 DEF FeedInv

LEMMA PointFacts ==
  ASSUME FeedInv
  PROVE  /\ IsLive => book.seq \in Nat
         /\ \A c \in Circulating : c \in Messages /\ c.kind # "other" /\ c.seq \in Nat
<1>1. ASSUME IsLive PROVE book.seq \in Nat
  <2>1. <<book.seq, book.upto>> \in Points
    BY <1>1 DEF Points
  <2>2. <<book.seq, book.upto>> \in Nat \X (1..sent.upto)
    BY <2>1 DEF FeedInv, Numbering
  <2> QED BY <2>2
<1>2. ASSUME NEW c \in Circulating PROVE c \in Messages /\ c.kind # "other" /\ c.seq \in Nat
  <2>1. wire \in Seq(Messages) /\ inHand \in SUBSET Messages
    BY DEF FeedInv, FeedTypeOK
  <2>2. c \in Messages /\ c.kind # "other"
    BY <2>1 DEF Circulating
  <2> QED BY <2>2 DEF Messages
<1> QED BY <1>1, <1>2

LEMMA FollowingFrame ==
  ASSUME Following, UNCHANGED <<book, fbook, resetGen>>
  PROVE  Following'
  BY DEF Following, Clean, IsLive

LEMMA RememberedFrame ==
  ASSUME Remembered, UNCHANGED <<book, dedupe, resetGen>>
  PROVE  Remembered'
  BY DEF Remembered, Clean, IsLive

(* A step that leaves the book alone and at most forgets messages.         *)
LEMMA QuietKeeps ==
  ASSUME FeedInv, UNCHANGED <<exchangeVars, book, dedupe, fbook>>,
         wire' \in {wire, <<>>}, inHand' \in {inHand, {}},
         Reading' => Reading, inHand' # {} => run' = "handling",
         health' \in [connected : BOOLEAN, resyncing : BOOLEAN, gap : BOOLEAN, gen : Nat],
         health'.connected /\ ~health'.resyncing =>
            IsLive /\ health'.gen = book.gen /\ ~health'.gap
  PROVE  FeedInv'
<1>1. sent' = sent /\ resets' = resets /\ resetGen' = resetGen
  BY DEF exchangeVars
<1>2. Len(<<>>) = 0
  OBVIOUS
<1>3. 1..Len(wire') \subseteq 1..Len(wire) /\ \A i \in 1..Len(wire') : wire'[i] = wire[i]
  BY <1>2
<1>4. Circulating' \subseteq Circulating
  BY <1>3 DEF Circulating
<1>5. FeedTypeOK'
  <2>1. <<>> \in Seq(Messages)
    OBVIOUS
  <2>2. wire' \in Seq(Messages) /\ inHand' \in SUBSET Messages
    BY <2>1 DEF FeedInv, FeedTypeOK
  <2> QED BY <1>1, <2>2 DEF FeedInv, FeedTypeOK
<1>6. Numbering(Points, sent, resets)'
  <2>1. Points' \subseteq Points
    BY <1>1, <1>4 DEF Points, IsLive
  <2> QED BY <1>1, <2>1, FewerPoints DEF FeedInv
<1>7. Ordered'
  BY <1>1, <1>3, <1>4 DEF FeedInv, Ordered, Clean, IsLive
<1>8. Honest'
  BY DEF FeedInv, Honest, IsLive
<1>9. Remembered' /\ Following'
  BY <1>1, RememberedFrame, FollowingFrame DEF FeedInv
<1> QED BY <1>5, <1>6, <1>7, <1>8, <1>9 DEF FeedInv

(* The exchange sends a message, or loses it.                              *)
LEMMA SendKeeps ==
  ASSUME FeedInv, UNCHANGED <<svars, inHand, connectorVars>>, NEW m \in Messages,
         wire' \in {wire, Append(wire, m)},
         sent' \in [upto : 1..MaxId, seq : Nat], resets' \in 0..MaxResets,
         Numbering(Points \cup {<<sent'.seq, sent'.upto>>}, sent', resets'),
         m.kind # "other" => m.seq = sent'.seq /\ m.final = sent'.upto,
         m.kind = "update" => m.prev = sent.seq /\ m.first - 1 = sent.upto,
         resetGen' = book.gen \/ (resetGen' = resetGen /\ sent'.seq >= sent.seq)
  PROVE  FeedInv'
<1>0. UNCHANGED <<run, inHand, book, health, dedupe, fbook>>
  BY DEF svars, connectorVars
<1>t. /\ wire \in Seq(Messages) /\ Len(wire) \in Nat /\ book \in LocalBooks /\ sent.seq \in Nat
      /\ book.gen \in Nat /\ inHand \in SUBSET Messages /\ sent'.seq \in Nat
  <2>1. wire \in Seq(Messages) /\ book \in LocalBooks /\ inHand \in SUBSET Messages
    BY DEF FeedInv, FeedTypeOK
  <2> QED BY <2>1 DEF FeedInv, FeedTypeOK, LocalBooks
<1>1. /\ wire' \in Seq(Messages)
      /\ \A i \in 1..Len(wire') : (i \in 1..Len(wire) /\ wire'[i] = wire[i])
                                    \/ (i = Len(wire) + 1 /\ i = Len(wire') /\ wire'[i] = m)
  <2>1. CASE wire' = wire
    BY <1>t, <2>1
  <2>2. CASE wire' = Append(wire, m)
    <3>1. wire' \in Seq(Messages) /\ Len(wire') = Len(wire) + 1
      BY <1>t, <2>2
    <3>2. ASSUME NEW i \in 1..Len(wire'), i # Len(wire) + 1
          PROVE  i \in 1..Len(wire) /\ wire'[i] = wire[i]
      BY <1>t, <2>2, <3>1, <3>2
    <3>3. wire'[Len(wire) + 1] = m
      BY <1>t, <2>2
    <3> QED BY <3>1, <3>2, <3>3
  <2> QED BY <2>1, <2>2
<1>2. Circulating' \subseteq Circulating \cup {c \in {m} : c.kind # "other"}
  BY <1>0, <1>1 DEF Circulating
<1>3. FeedTypeOK'
  <2>1. resetGen' \in {None} \cup Nat
    BY <1>t DEF FeedInv, FeedTypeOK
  <2> QED BY <1>0, <1>1, <2>1 DEF FeedInv, FeedTypeOK
<1>4. Numbering(Points, sent, resets)'
  <2>1. Points' \subseteq Points \cup {<<sent'.seq, sent'.upto>>}
    <3> SUFFICES ASSUME NEW p \in Points', p # <<sent'.seq, sent'.upto>> PROVE p \in Points
      OBVIOUS
    <3>1. CASE \E c \in Circulating' : p = <<c.seq, c.final>>
      BY <1>2, <3>1 DEF Points
    <3>2. CASE \E c \in Circulating' : c.kind = "update" /\ p = <<c.prev, c.first - 1>>
      BY <1>2, <3>2 DEF Points
    <3>3. CASE IsLive' /\ p = <<book'.seq, book'.upto>>
      BY <1>0, <3>3 DEF Points, IsLive
    <3> QED BY <3>1, <3>2, <3>3 DEF Points
  <2> QED BY <2>1, FewerPoints
<1>5. Ordered'
  <2>1. inHand' # {} => run' = "handling"
    BY <1>0 DEF FeedInv, Ordered
  <2> SUFFICES ASSUME Clean', Reading'
               PROVE  /\ IsLive' => book'.seq <= sent'.seq
                      /\ \A c \in Circulating' :
                            c.seq <= sent'.seq /\ (IsLive' => book'.seq <= c.seq)
                      /\ \A c \in inHand' : \A i \in 1..Len(wire') :
                            c.kind # "other" /\ wire'[i].kind # "other" => c.seq <= wire'[i].seq
                      /\ \A i, j \in 1..Len(wire') :
                            i <= j /\ wire'[i].kind # "other" /\ wire'[j].kind # "other"
                              => wire'[i].seq <= wire'[j].seq
    BY <2>1 DEF Ordered
  <2>2. resetGen' = resetGen /\ sent'.seq >= sent.seq /\ Clean /\ Reading
    BY <1>0 DEF Clean, Reading
  <2>3. /\ IsLive => book.seq <= sent.seq
        /\ \A c \in Circulating : c.seq <= sent.seq /\ (IsLive => book.seq <= c.seq)
        /\ \A c \in inHand : \A i \in 1..Len(wire) :
              c.kind # "other" /\ wire[i].kind # "other" => c.seq <= wire[i].seq
        /\ \A i, j \in 1..Len(wire) :
              i <= j /\ wire[i].kind # "other" /\ wire[j].kind # "other"
                => wire[i].seq <= wire[j].seq
    BY <2>2 DEF FeedInv, Ordered
  <2>4. IsLive => book.seq \in Nat
    BY PointFacts
  <2>5. \A c \in Circulating : c.seq \in Nat
    BY PointFacts
  <2>6. IsLive' = IsLive /\ (IsLive => book.seq <= sent'.seq)
    BY <1>0, <1>t, <2>2, <2>3, <2>4 DEF IsLive
  <2>7. ASSUME NEW c \in Circulating'
        PROVE  c.seq <= sent'.seq /\ (IsLive => book.seq <= c.seq)
    BY <1>2, <1>t, <2>2, <2>3, <2>4, <2>5, <2>6
  <2>8. ASSUME NEW c \in inHand, NEW i \in 1..Len(wire'), c.kind # "other",
               wire'[i].kind # "other"
        PROVE  c.seq <= wire'[i].seq
    <3>1. c \in Circulating
      BY <2>8 DEF Circulating
    <3>2. c.seq <= sent'.seq
      BY <1>t, <2>2, <2>3, <2>5, <3>1
    <3> QED BY <1>1, <2>3, <2>8, <3>2
  <2>9. ASSUME NEW i \in 1..Len(wire'), NEW j \in 1..Len(wire'), i <= j,
               wire'[i].kind # "other", wire'[j].kind # "other"
        PROVE  wire'[i].seq <= wire'[j].seq
    <3>1. CASE j \in 1..Len(wire) /\ wire'[j] = wire[j]
      <4>1. i \in 1..Len(wire) /\ wire'[i] = wire[i]
        BY <1>1, <1>t, <2>9, <3>1
      <4> QED BY <2>3, <2>9, <3>1, <4>1
    <3>2. CASE wire'[j] = m
      <4>1. wire'[i] \in Circulating'
        BY <2>9 DEF Circulating
      <4>2. wire'[i].seq <= sent'.seq
        BY <2>7, <4>1
      <4> QED BY <2>9, <3>2, <4>2
    <3> QED BY <1>1, <3>1, <3>2
  <2> QED BY <1>0, <2>6, <2>7, <2>8, <2>9
<1>6. Honest'
  BY <1>0 DEF FeedInv, Honest, IsLive
<1>7. Clean' => Clean
  BY <1>0 DEF Clean
<1>8. Remembered'
  BY <1>0, <1>7 DEF FeedInv, Remembered, IsLive
<1>9. Following'
  <2>1. resetGen' <= book.gen
    BY <1>t DEF FeedInv, Following
  <2> QED BY <1>0, <1>7, <2>1 DEF FeedInv, Following, IsLive
<1> QED BY <1>3, <1>4, <1>5, <1>6, <1>8, <1>9 DEF FeedInv

LEMMA ReceiveKeeps ==
  ASSUME FeedInv, ReceiveMessage
  PROVE  FeedInv'
<1>0. /\ UNCHANGED <<sent, resets, resetGen, book, health, dedupe, fbook>>
      /\ wire # <<>> /\ wire' = Tail(wire) /\ Reading
      /\ inHand' = IF broken THEN {} ELSE {Head(wire)}
      /\ run' = IF broken THEN "finally" ELSE "handling"
  BY DEF ReceiveMessage, Received, HandOver, Raise, Goto, exchangeVars, connectorVars, Reading
<1>t. wire \in Seq(Messages) /\ Len(wire) \in Nat
  BY DEF FeedInv, FeedTypeOK
<1>1. /\ wire' \in Seq(Messages) /\ Len(wire) >= 1 /\ Len(wire') = Len(wire) - 1
      /\ Head(wire) = wire[1] /\ wire[1] \in Messages
      /\ \A i \in 1..Len(wire') : wire'[i] = wire[i + 1]
  BY <1>0, <1>t
<1>2. inHand' \subseteq {wire[1]} /\ (inHand' # {} => run' = "handling")
  BY <1>0, <1>1
<1>3. \A i \in 1..Len(wire') : i + 1 \in 1..Len(wire)
  BY <1>t, <1>1
<1>4. 1 \in 1..Len(wire)
  BY <1>t, <1>1
<1>5. Circulating' \subseteq Circulating
  BY <1>1, <1>2, <1>3, <1>4 DEF Circulating
<1>6. FeedTypeOK'
  BY <1>0, <1>1, <1>2 DEF FeedInv, FeedTypeOK
<1>7. Numbering(Points, sent, resets)'
  <2>1. Points' \subseteq Points
    BY <1>0, <1>5 DEF Points, IsLive
  <2> QED BY <1>0, <2>1, FewerPoints DEF FeedInv
<1>8. Ordered'
  <2> SUFFICES ASSUME Clean', Reading'
               PROVE  /\ IsLive' => book'.seq <= sent'.seq
                      /\ \A c \in Circulating' :
                            c.seq <= sent'.seq /\ (IsLive' => book'.seq <= c.seq)
                      /\ \A c \in inHand' : \A i \in 1..Len(wire') :
                            c.kind # "other" /\ wire'[i].kind # "other" => c.seq <= wire'[i].seq
                      /\ \A i, j \in 1..Len(wire') :
                            i <= j /\ wire'[i].kind # "other" /\ wire'[j].kind # "other"
                              => wire'[i].seq <= wire'[j].seq
    BY <1>2 DEF Ordered
  <2>1. Clean /\ Reading
    BY <1>0 DEF Clean
  <2>2. /\ IsLive => book.seq <= sent.seq
        /\ \A c \in Circulating : c.seq <= sent.seq /\ (IsLive => book.seq <= c.seq)
        /\ \A i, j \in 1..Len(wire) :
              i <= j /\ wire[i].kind # "other" /\ wire[j].kind # "other"
                => wire[i].seq <= wire[j].seq
    BY <2>1 DEF FeedInv, Ordered
  <2>3. ASSUME NEW i \in 1..Len(wire'), wire[1].kind # "other", wire'[i].kind # "other"
        PROVE  wire[1].seq <= wire'[i].seq
    BY <1>1, <1>3, <1>4, <2>2, <2>3
  <2>4. ASSUME NEW i \in 1..Len(wire'), NEW j \in 1..Len(wire'), i <= j,
               wire'[i].kind # "other", wire'[j].kind # "other"
        PROVE  wire'[i].seq <= wire'[j].seq
    <3>1. i + 1 <= j + 1 /\ i + 1 \in 1..Len(wire) /\ j + 1 \in 1..Len(wire)
      BY <1>3, <2>4
    <3> QED BY <1>1, <2>2, <2>4, <3>1
  <2>5. IsLive' = IsLive
    BY <1>0 DEF IsLive
  <2> QED BY <1>0, <1>2, <1>5, <2>2, <2>3, <2>4, <2>5
<1>9. Honest'
  BY <1>0 DEF FeedInv, Honest, IsLive
<1>10. Remembered' /\ Following'
  BY <1>0, RememberedFrame, FollowingFrame DEF FeedInv
<1> QED BY <1>6, <1>7, <1>8, <1>9, <1>10 DEF FeedInv

(* A book that leaves its generation, on a new connection or on a failure, *)
(* is not live: nothing of the new generation has been emitted.            *)
LEMMA NewGenerationKeeps ==
  ASSUME FeedInv, UNCHANGED <<sent, resets, resetGen, dedupe, fbook>>,
         book' \in LocalBooks, book'.status # "LIVE",
         book'.gen = book.gen + 1 \/ (book'.gen = book.gen /\ ~IsLive),
         wire' \in {wire, <<>>}, inHand' = {},
         ~Reading' \/ wire' = <<>>,
         health' \in [connected : BOOLEAN, resyncing : BOOLEAN, gap : BOOLEAN, gen : Nat],
         health'.resyncing
  PROVE  FeedInv'
<1>t. /\ book.gen \in Nat /\ fbook.gen \in Nat /\ resetGen \in {-1} \cup Nat
      /\ dedupe \in Seq(FP!BookEvents(Nat))
  BY DEF FeedInv, FeedTypeOK, LocalBooks, Following, FP!Books, None
<1>0. ~IsLive'
  BY DEF IsLive
<1>1. Len(<<>>) = 0
  OBVIOUS
<1>2. 1..Len(wire') \subseteq 1..Len(wire) /\ \A i \in 1..Len(wire') : wire'[i] = wire[i]
  BY <1>1
<1>3. Circulating' \subseteq Circulating
  BY <1>2 DEF Circulating
<1>4. FeedTypeOK'
  <2>1. <<>> \in Seq(Messages)
    OBVIOUS
  <2>2. wire' \in Seq(Messages) /\ inHand' \in SUBSET Messages
    BY <2>1 DEF FeedInv, FeedTypeOK
  <2> QED BY <2>2 DEF FeedInv, FeedTypeOK
<1>5. Numbering(Points, sent, resets)'
  <2>1. Points' \subseteq Points
    BY <1>0, <1>3 DEF Points
  <2> QED BY <2>1, FewerPoints DEF FeedInv
<1>6. Ordered'
  <2>1. wire' = <<>> => Circulating' = {} /\ 1..Len(wire') = {}
    BY <1>1 DEF Circulating
  <2> QED BY <1>0, <2>1 DEF Ordered
<1>7. Honest'
  BY <1>0 DEF Honest
<1>8. Remembered'
  <2> SUFFICES ASSUME NEW i \in 1..Len(dedupe)
               PROVE  /\ dedupe[i].gen <= book'.gen
                      /\ ~(dedupe[i].gen = book'.gen /\ Clean')
    BY DEF Remembered
  <2>1. PICK e \in FP!BookEvents(Nat) : e = dedupe[i]
    BY <1>t
  <2>2. /\ e.gen \in Nat /\ e.gen <= book.gen
        /\ e.gen = book.gen /\ Clean => IsLive
    BY <2>1 DEF FeedInv, Remembered, FP!BookEvents
  <2> QED BY <1>t, <2>1, <2>2 DEF Clean
<1>9. Following'
  <2>1. /\ fbook.gen <= book.gen /\ resetGen <= book.gen
        /\ Clean /\ ~IsLive /\ fbook.gen = book.gen => ~fbook.sync /\ fbook.pending = <<>>
    BY DEF FeedInv, Following
  <2>2. fbook.gen <= book'.gen /\ resetGen <= book'.gen
    BY <1>t, <2>1
  <2>3. Clean' /\ fbook.gen = book'.gen => ~fbook.sync /\ fbook.pending = <<>>
    BY <1>t, <2>1 DEF Clean
  <2> QED BY <1>0, <2>2, <2>3 DEF FeedInv, Following
<1> QED BY <1>4, <1>5, <1>6, <1>7, <1>8, <1>9 DEF FeedInv

LEMMA ConnectedKeeps ==
  ASSUME FeedInv, HandleConnected
  PROVE  FeedInv'
<1>0. /\ UNCHANGED <<sent, resets, resetGen, inHand, dedupe, fbook>> /\ run = "connected"
      /\ wire' = <<>> /\ book' = Invalidated(book)
      /\ health' = [health EXCEPT !.connected = TRUE, !.resyncing = TRUE, !.gen = book'.gen]
  BY DEF HandleConnected, Connected, exchangeVars
<1>1. inHand' = {}
  BY <1>0 DEF FeedInv, Ordered
<1>2. book' \in LocalBooks /\ book'.status # "LIVE" /\ book'.gen = book.gen + 1
  <2>1. book.gen \in Nat /\ 0 \in 0..MaxId /\ NoLevels \in [Levels -> Nat]
    BY ExchangeAssumption DEF FeedInv, FeedTypeOK, LocalBooks, NoLevels
  <2> QED BY <1>0, <2>1 DEF Invalidated, LocalBooks
<1>3. /\ health' \in [connected : BOOLEAN, resyncing : BOOLEAN, gap : BOOLEAN, gen : Nat]
      /\ health'.resyncing
  <2>1. book'.gen \in Nat
    BY <1>2 DEF LocalBooks
  <2> QED BY <1>0, <2>1 DEF FeedInv, FeedTypeOK
<1> QED BY <1>0, <1>1, <1>2, <1>3, NewGenerationKeeps

(* The feature book, told of the book's next state by an event that is not *)
(* a repetition.                                                           *)
LEMMA EventFollowed ==
  ASSUME FeedInv, NEW m \in Circulating, Accepting(book, m),
         Clean /\ IsLive => book.seq <= m.seq,
         IsLive /\ book.seq = m.seq => book.levels = BookAt(m.final),
         m.kind = "update" => BookAt(m.final) = Applied(book.levels, m),
         NEW e \in Events(m, book.gen), NEW f, f = FB!Apply(fbook, e).book
  PROVE  /\ f \in FP!Books(Nat) /\ Len(f.pending) <= PendingCapacity
         /\ FP!Exact(AnyBook, Nat, f) /\ f.gen <= book.gen
         /\ Clean => f \in FP!Behind(book.gen, BookAt(m.final), m.seq)
<1>0. m \in Messages /\ m.kind # "other" /\ m.seq \in Nat /\ (IsLive => book.seq \in Nat)
  BY PointFacts
<1>1. book.gen \in Nat /\ book \in LocalBooks /\ PendingCapacity \in Nat \ {0}
  BY OkxAssumption DEF FeedInv, FeedTypeOK, LocalBooks
<1>2. /\ e \in FP!BookEvents(Nat) /\ e.kind = m.kind /\ e.gen = book.gen /\ e.seq = m.seq
      /\ FP!Fits(AnyBook, e)
      /\ m.kind = "snapshot" => FP!Overlay(FP!NoLevels, e.levels) = BookAt(m.final)
      /\ m.kind = "update" => \A levels : FP!Overlay(levels, e.levels) = Applied(levels, m)
  BY <1>0, <1>1, EventFacts
<1>3. f = FP!Apply(fbook, e).book
  BY SameApply
<1>4. /\ fbook \in FP!Books(Nat) /\ Len(fbook.pending) <= PendingCapacity
      /\ FP!Exact(AnyBook, Nat, fbook) /\ fbook.gen <= book.gen
  BY DEF FeedInv, Following
<1>5. /\ FP!Follows(Nat, fbook, f) /\ FP!Exact(AnyBook, Nat, f) /\ f.gen \in {fbook.gen, e.gen}
  <2>1. Nat \subseteq Nat
    OBVIOUS
  <2> QED BY <1>1, <1>2, <1>3, <1>4, <2>1, FP!ApplyKeeps
<1>6. ASSUME Clean PROVE f \in FP!Behind(book.gen, BookAt(m.final), m.seq)
  <2>1. m.kind \in {"snapshot", "update"}
    BY <1>0 DEF Messages
  <2>2. CASE IsLive
    <3>1. fbook \in FP!Behind(book.gen, book.levels, book.seq)
      BY <1>6, <2>2 DEF FeedInv, Following
    <3>2. BookAt(m.final)
            = FP!Overlay(IF e.kind = "snapshot" THEN FP!NoLevels ELSE book.levels, e.levels)
      BY <1>2, <2>1
    <3>3. book.seq \in Int /\ book.seq <= e.seq /\ (e.seq = book.seq => book.levels = BookAt(m.final))
      BY <1>0, <1>2, <1>6, <2>2
    <3>4. FP!Apply(fbook, e).book \in FP!Behind(book.gen, BookAt(m.final), e.seq)
      BY <1>1, <1>2, <1>4, <3>1, <3>2, <3>3, FP!ApplyTracks
    <3> QED BY <1>2, <1>3, <3>4
  <2>3. CASE ~IsLive
    <3>1. m.kind = "snapshot"
      BY <2>1, <2>3 DEF Accepting, IsLive
    <3>2. fbook.gen = book.gen => ~fbook.sync /\ Len(fbook.pending) = 0
      BY <1>6, <2>3 DEF FeedInv, Following
    <3>3. fbook \in FP!Behind(book.gen, BookAt(m.final), m.seq)
      BY <1>4, <3>2 DEF FP!Behind
    <3>4. BookAt(m.final)
            = FP!Overlay(IF e.kind = "snapshot" THEN FP!NoLevels ELSE BookAt(m.final), e.levels)
      BY <1>2, <3>1
    <3>5. m.seq \in Int /\ m.seq <= e.seq
      BY <1>0, <1>2
    <3>6. FP!Apply(fbook, e).book \in FP!Behind(book.gen, BookAt(m.final), e.seq)
      BY <1>1, <1>2, <1>4, <3>3, <3>4, <3>5, FP!ApplyTracks
    <3> QED BY <1>2, <1>3, <3>6
  <2> QED BY <2>2, <2>3
<1> QED BY <1>1, <1>2, <1>4, <1>5, <1>6 DEF FP!Follows

(* A message is accepted and its event emitted.                            *)
LEMMA AcceptedKeeps ==
  ASSUME FeedInv, NEW m \in inHand, m.kind # "other", Accepting(book, m),
         UNCHANGED <<sent, resets, resetGen, wire>>, inHand' = {},
         book' = Ingest(book, m).book, EmitEvents(Events(m, book'.gen)),
         health' \in [connected : BOOLEAN, resyncing : BOOLEAN, gap : BOOLEAN, gen : Nat],
         health'.gen = book'.gen, ~health'.gap
  PROVE  FeedInv'
<1>0. m \in Circulating /\ m \in Messages /\ m.seq \in Nat /\ (IsLive => book.seq \in Nat)
  <2>1. m \in Circulating
    BY DEF Circulating
  <2> QED BY <2>1, PointFacts
<1>t. /\ wire \in Seq(Messages) /\ book \in LocalBooks /\ book.gen \in Nat
      /\ dedupe \in Seq(FP!BookEvents(Nat)) /\ book.levels \in [Levels -> Nat]
  BY DEF FeedInv, FeedTypeOK, LocalBooks
<1>p. \A p, q \in Points : p[1] = q[1] => p[2] = q[2]
  BY DEF FeedInv, Numbering
<1>u. /\ <<m.seq, m.final>> \in Points /\ (IsLive => <<book.seq, book.upto>> \in Points)
      /\ m.kind = "update" => <<m.prev, m.first - 1>> \in Points
  BY <1>0 DEF Points
<1>e. IsLive => book.levels = BookAt(book.upto)
  BY DEF FeedInv, Honest
<1>1. /\ book' \in LocalBooks /\ book'.status = "LIVE" /\ book'.gen = book.gen
      /\ book'.seq = m.seq /\ book'.upto = m.final /\ book'.levels = BookAt(m.final)
  <2>1. IsLive /\ m.kind = "update" /\ m.prev = book.seq => m.first - 1 = book.upto
    BY <1>p, <1>u
  <2> QED BY <1>0, <1>t, <1>e, <2>1, IngestAccepts DEF IsLive
<1>2. IsLive' /\ (Clean' <=> Clean)
  BY <1>1 DEF IsLive, Clean
<1>3. /\ Clean => m.seq <= sent.seq
      /\ Clean /\ IsLive => book.seq <= m.seq
      /\ Clean => \A i \in 1..Len(wire) : wire[i].kind # "other" => m.seq <= wire[i].seq
      /\ Clean => \A c \in Circulating : c.seq <= sent.seq
      /\ Clean => \A i, j \in 1..Len(wire) :
                     i <= j /\ wire[i].kind # "other" /\ wire[j].kind # "other"
                       => wire[i].seq <= wire[j].seq
  <2>1. Reading
    BY DEF FeedInv, Ordered, Reading
  <2> QED BY <1>0, <2>1 DEF FeedInv, Ordered
<1>4. IsLive /\ book.seq = m.seq => book.levels = BookAt(m.final)
  BY <1>p, <1>u, <1>e
<1>5. m.kind = "update" => IsLive /\ BookAt(m.final) = Applied(book.levels, m)
  <2> SUFFICES ASSUME m.kind = "update"
               PROVE  IsLive /\ BookAt(m.final) = Applied(book.levels, m)
    OBVIOUS
  <2>1. IsLive /\ m.prev = book.seq
    BY DEF Accepting, Continues, IsLive
  <2>2. m.first - 1 = book.upto
    BY <1>p, <1>u, <2>1
  <2>3. book.upto \in 0..MaxId /\ m.first <= book.upto + 1 /\ book.upto <= m.final
    BY <1>0, <1>t, <2>2 DEF LocalBooks, Messages
  <2>4. Applied(BookAt(book.upto), m) = BookAt(m.final)
    BY <1>0, <2>3, AppliedIsExact
  <2> QED BY <1>e, <2>1, <2>4
<1>6. Circulating' \subseteq Circulating
  BY DEF Circulating
<1>7. Numbering(Points, sent, resets)'
  <2>1. Points' \subseteq Points
    BY <1>1, <1>6, <1>u DEF Points
  <2> QED BY <2>1, FewerPoints DEF FeedInv
<1>8. Ordered'
  <2>1. ASSUME Clean, NEW c \in Circulating' PROVE c.seq <= sent.seq /\ m.seq <= c.seq
    <3>1. c.seq <= sent.seq
      BY <1>3, <1>6, <2>1
    <3>2. PICK i \in 1..Len(wire) : c = wire[i] /\ wire[i].kind # "other"
      BY DEF Circulating
    <3> QED BY <1>3, <2>1, <3>1, <3>2
  <2> QED BY <1>1, <1>2, <1>3, <2>1 DEF Ordered
<1>9. Honest'
  BY <1>1 DEF Honest, IsLive
<1>10. FeedTypeOK' /\ Remembered' /\ Following'
  <2>1. dedupe' \in Seq(FP!BookEvents(Nat)) => FeedTypeOK'
    BY <1>1 DEF FeedInv, FeedTypeOK
  <2>2. resetGen' <= book'.gen /\ fbook.gen <= book'.gen
    BY <1>1 DEF FeedInv, Following
  <2>3. ASSUME NEW i \in 1..Len(dedupe)
        PROVE  /\ dedupe[i].gen <= book'.gen
               /\ dedupe[i].gen = book'.gen /\ Clean => dedupe[i].seq <= m.seq
    <3>1. PICK e \in FP!BookEvents(Nat) : e = dedupe[i]
      BY <1>t
    <3>2. /\ e.gen <= book.gen /\ e.seq \in Nat
          /\ e.gen = book.gen /\ Clean => IsLive /\ e.seq <= book.seq
      BY <3>1 DEF FeedInv, Remembered, FP!BookEvents
    <3> QED BY <1>0, <1>1, <1>3, <3>1, <3>2
  <2>4. CASE Events(m, book'.gen) = {}
    <3>1. UNCHANGED <<dedupe, fbook>>
      BY <2>4 DEF EmitEvents
    <3>2. m.kind = "update" /\ Touched(m) = {}
      BY <1>0, <2>4 DEF Events, Messages
    <3>3. Applied(book.levels, m) = book.levels
      BY <1>t, <3>2 DEF Applied
    <3>4. IsLive /\ book.levels = BookAt(m.final)
      BY <1>5, <3>2, <3>3
    <3>5. Remembered'
      BY <1>1, <1>2, <2>3, <3>1 DEF Remembered
    <3>6. ASSUME Clean PROVE fbook \in FP!Behind(book.gen, BookAt(m.final), m.seq)
      <4>1. fbook \in FP!Behind(book.gen, BookAt(m.final), book.seq)
        BY <3>4, <3>6 DEF FeedInv, Following
      <4>2. book.seq \in Int /\ m.seq \in Int /\ book.seq <= m.seq
        BY <1>0, <1>3, <3>4, <3>6
      <4> QED BY <4>1, <4>2, FP!BehindStill
    <3>7. Following'
      BY <1>1, <1>2, <2>2, <3>1, <3>6 DEF FeedInv, Following
    <3> QED BY <1>t, <2>1, <3>1, <3>5, <3>7
  <2>5. CASE Events(m, book'.gen) # {}
    <3>1. PICK e \in Events(m, book.gen), expired \in 0..Len(dedupe) :
            LET s == SeenOrAdd(SubSeq(dedupe, expired + 1, Len(dedupe)), e)
            IN  /\ dedupe' = s.entries
                /\ fbook' = IF s.seen THEN fbook ELSE FB!Apply(fbook, e).book
      BY <1>1, <2>5 DEF EmitEvents
    <3>2. e \in FP!BookEvents(Nat) /\ e.gen = book.gen /\ e.seq = m.seq
      BY <1>0, <1>t, EventFacts
    <3>3. PICK kept \in Seq(FP!BookEvents(Nat)) :
            /\ kept = SubSeq(dedupe, expired + 1, Len(dedupe))
            /\ \A i \in 1..Len(kept) : \E j \in 1..Len(dedupe) : kept[i] = dedupe[j]
      <4>1. Len(dedupe) \in Nat
        BY <1>t
      <4>2. SubSeq(dedupe, expired + 1, Len(dedupe)) \in Seq(FP!BookEvents(Nat))
        BY <1>t, <4>1
      <4>3. Len(SubSeq(dedupe, expired + 1, Len(dedupe))) = Len(dedupe) - expired
        BY <1>t, <4>1
      <4>4. ASSUME NEW i \in 1..Len(dedupe) - expired
            PROVE  /\ expired + i \in 1..Len(dedupe)
                   /\ SubSeq(dedupe, expired + 1, Len(dedupe))[i] = dedupe[expired + i]
        BY <1>t, <4>1
      <4> QED BY <4>2, <4>3, <4>4
    <3>4. PICK s : s = SeenOrAdd(kept, e)
      OBVIOUS
    <3>5. dedupe' = s.entries /\ fbook' = IF s.seen THEN fbook ELSE FB!Apply(fbook, e).book
      BY <3>1, <3>3, <3>4
    <3>6. /\ dedupe' \in Seq(FP!BookEvents(Nat))
          /\ \A i \in 1..Len(dedupe') :
                dedupe'[i] = e \/ \E j \in 1..Len(dedupe) : dedupe'[i] = dedupe[j]
          /\ s.seen => \E j \in 1..Len(dedupe) : dedupe[j] = e
      <4>1. /\ s.entries \in Seq(FP!BookEvents(Nat))
            /\ \A i \in 1..Len(s.entries) :
                  s.entries[i] = e \/ \E j \in 1..Len(kept) : s.entries[i] = kept[j]
            /\ s.seen => \E j \in 1..Len(kept) : kept[j] = e
        <5>1. /\ SeenOrAdd(kept, e).entries \in Seq(FP!BookEvents(Nat))
              /\ \A i \in 1..Len(SeenOrAdd(kept, e).entries) :
                    \/ SeenOrAdd(kept, e).entries[i] = e
                    \/ \E j \in 1..Len(kept) : SeenOrAdd(kept, e).entries[i] = kept[j]
              /\ SeenOrAdd(kept, e).seen => \E j \in 1..Len(kept) : kept[j] = e
          BY <3>2, SeenOrAddKeeps
        <5> QED BY <3>4, <5>1
      <4> QED BY <3>3, <3>5, <4>1, SMTT(30)
    <3>7. Remembered'
      <4> SUFFICES ASSUME NEW i \in 1..Len(dedupe')
                   PROVE  /\ dedupe'[i].gen <= book'.gen
                          /\ dedupe'[i].gen = book'.gen /\ Clean => dedupe'[i].seq <= m.seq
        BY <1>1, <1>2 DEF Remembered
      <4>1. CASE dedupe'[i] = e
        <5>1. e.gen <= book'.gen /\ e.seq <= m.seq
          BY <1>0, <1>1, <1>t, <3>2
        <5> QED BY <4>1, <5>1
      <4>2. CASE \E j \in 1..Len(dedupe) : dedupe'[i] = dedupe[j]
        BY <2>3, <4>2
      <4> QED BY <3>6, <4>1, <4>2
    <3>8. CASE ~s.seen
      <4>1. fbook' = FB!Apply(fbook, e).book
        BY <3>5, <3>8
      <4>2. /\ fbook' \in FP!Books(Nat) /\ Len(fbook'.pending) <= PendingCapacity
            /\ FP!Exact(AnyBook, Nat, fbook') /\ fbook'.gen <= book.gen
            /\ Clean => fbook' \in FP!Behind(book.gen, BookAt(m.final), m.seq)
        BY <1>0, <1>3, <1>4, <1>5, <4>1, EventFollowed
      <4>3. Following'
        BY <1>1, <1>2, <2>2, <4>2 DEF Following
      <4> QED BY <2>1, <3>6, <3>7, <4>3
    <3>9. CASE s.seen
      <4>1. fbook' = fbook
        BY <3>5, <3>9
      <4>2. PICK j \in 1..Len(dedupe) : dedupe[j] = e
        BY <3>6, <3>9
      <4>3. ASSUME Clean PROVE fbook \in FP!Behind(book.gen, BookAt(m.final), m.seq)
        <5>1. IsLive /\ m.seq <= book.seq
          BY <3>2, <4>2, <4>3 DEF FeedInv, Remembered
        <5>2. book.seq = m.seq
          BY <1>0, <1>3, <4>3, <5>1
        <5> QED BY <1>4, <4>3, <5>1, <5>2 DEF FeedInv, Following
      <4>4. Following'
        BY <1>1, <1>2, <2>2, <4>1, <4>3 DEF FeedInv, Following
      <4> QED BY <2>1, <3>6, <3>7, <4>4
    <3> QED BY <3>8, <3>9
  <2> QED BY <2>4, <2>5
<1> QED BY <1>7, <1>8, <1>9, <1>10 DEF FeedInv

LEMMA HandleKeeps ==
  ASSUME FeedInv, NEW m \in inHand, HandleMessage(m)
  PROVE  FeedInv'
<1>0. /\ inHand' = {} /\ UNCHANGED <<sent, resets, resetGen, wire>>
      /\ run = "handling" /\ Reading
  BY DEF HandleMessage, Handled, exchangeVars, Reading
<1>t. /\ book \in LocalBooks /\ m \in Messages
      /\ health \in [connected : BOOLEAN, resyncing : BOOLEAN, gap : BOOLEAN, gen : Nat]
  BY DEF FeedInv, FeedTypeOK
<1>1. CASE broken \/ m.kind = "other"
  <2>1. UNCHANGED <<book, health, dedupe, fbook>>
    BY <1>1 DEF HandleMessage, connectorVars
  <2>2. health.connected /\ ~health.resyncing => IsLive /\ health.gen = book.gen /\ ~health.gap
    BY DEF FeedInv, Honest
  <2>3. UNCHANGED <<exchangeVars, book, dedupe, fbook>>
    BY <1>0, <2>1 DEF exchangeVars
  <2> QED BY <1>0, <1>t, <2>1, <2>2, <2>3, QuietKeeps
<1>2. CASE ~broken /\ m.kind # "other"
  <2>1. PICK r : r = Ingest(book, m)
    OBVIOUS
  <2>2. /\ book' = r.book /\ health' = HealthAfter(health, r)
        /\ Failure(r) => Handled("protocol error") /\ UNCHANGED <<dedupe, fbook>>
        /\ ~Failure(r) => EmitEvents(Events(m, r.book.gen))
    BY <1>2, <2>1 DEF HandleMessage
  <2>3. CASE Accepting(book, m)
    <3>1. book' \in LocalBooks /\ r.transition \in {"SNAPSHOT_APPLIED", "UPDATE_APPLIED"}
      <4>1. IsLive => book.levels = BookAt(book.upto)
        BY DEF FeedInv, Honest
      <4>2. IsLive /\ m.kind = "update" /\ m.prev = book.seq => m.first - 1 = book.upto
        <5>1. m.kind = "update" => <<m.prev, m.first - 1>> \in Points
          BY <1>2 DEF Points, Circulating
        <5>2. IsLive => <<book.seq, book.upto>> \in Points
          BY DEF Points
        <5> QED BY <5>1, <5>2 DEF FeedInv, Numbering
      <4> QED BY <1>2, <1>t, <2>1, <2>2, <2>3, <4>1, <4>2, IngestAccepts DEF IsLive
    <3>2. ~Failure(r)
      BY <3>1 DEF Failure
    <3>3. /\ health' \in [connected : BOOLEAN, resyncing : BOOLEAN, gap : BOOLEAN, gen : Nat]
          /\ health'.gen = book'.gen /\ ~health'.gap
      <4>1. health' = [health EXCEPT !.resyncing = Failure(r), !.gen = book'.gen, !.gap = FALSE]
        <5>1. CASE r.transition = "SNAPSHOT_APPLIED"
          BY <2>2, <5>1 DEF HealthAfter
        <5>2. CASE r.transition = "UPDATE_APPLIED"
          BY <2>2, <5>2 DEF HealthAfter
        <5> QED BY <3>1, <5>1, <5>2
      <4>2. book'.gen \in Nat /\ Failure(r) \in BOOLEAN
        BY <3>1 DEF LocalBooks, Failure
      <4> HIDE DEF Failure
      <4> QED BY <1>t, <4>1, <4>2
    <3>4. EmitEvents(Events(m, book'.gen)) /\ book' = Ingest(book, m).book
      BY <2>1, <2>2, <3>2
    <3> QED BY <1>0, <1>2, <2>3, <3>3, <3>4, AcceptedKeeps
  <2>4. CASE ~Accepting(book, m)
    <3>1. /\ book' \in LocalBooks /\ book'.status # "LIVE" /\ Failure(r)
          /\ book'.gen = book.gen + 1 \/ (book'.gen = book.gen /\ ~IsLive)
      BY <1>2, <1>t, <2>1, <2>2, <2>4, IngestRefuses DEF IsLive
    <3>2. ~Reading' /\ UNCHANGED <<dedupe, fbook>>
      BY <1>2, <2>2, <3>1 DEF Handled, Goto, Reading
    <3>3. /\ health' \in [connected : BOOLEAN, resyncing : BOOLEAN, gap : BOOLEAN, gen : Nat]
          /\ health'.resyncing
      <4>1. PICK gap \in BOOLEAN :
              health' = [health EXCEPT !.resyncing = TRUE, !.gen = book'.gen, !.gap = gap]
        <5>1. CASE r.transition = "SEQUENCE_GAP"
          BY <2>2, <5>1 DEF HealthAfter, Failure
        <5>2. CASE r.transition = "CHECKSUM_MISMATCH"
          BY <1>t, <2>2, <5>2 DEF HealthAfter, Failure
        <5> QED BY <3>1, <5>1, <5>2 DEF Failure
      <4>2. book'.gen \in Nat
        BY <3>1 DEF LocalBooks
      <4> QED BY <1>t, <4>1, <4>2
    <3> QED BY <1>0, <3>1, <3>2, <3>3, NewGenerationKeeps
  <2> QED BY <2>3, <2>4
<1> QED BY <1>1, <1>2

(* A message is sent: a snapshot, an update or another.                    *)
LEMMA SendsKeep ==
  ASSUME FeedInv,
         \/ SendOther
         \/ \E valid \in BOOLEAN : SendSnapshot(valid)
         \/ \E valid \in BOOLEAN, upto \in sent.upto..MaxId, delivered, restart \in BOOLEAN :
               SendUpdate(upto, delivered, restart, valid)
  PROVE  FeedInv'
<1>t. /\ sent \in [upto : 1..MaxId, seq : Nat] /\ resets \in 0..MaxResets
      /\ Numbering(Points, sent, resets) /\ MaxId \in Nat
      /\ sent.seq \in Nat /\ sent.upto \in 1..MaxId
  BY ExchangeAssumption DEF FeedInv, FeedTypeOK
<1>s. <<sent.seq, sent.upto>> \in Points
  BY DEF Points
<1>p. Points \cup {<<sent.seq, sent.upto>>} = Points
  BY <1>s
<1>1. CASE SendOther
  <2>1. PICK m : m = Message("other", 1, 0, None, None, TRUE)
    OBVIOUS
  <2>2. m \in Messages /\ m.kind = "other"
    BY <2>1 DEF Message, Messages, None
  <2>3. /\ UNCHANGED <<svars, inHand, connectorVars>> /\ wire' = Append(wire, m)
        /\ sent' = sent /\ resets' = resets /\ resetGen' = resetGen
    BY <1>1, <2>1 DEF SendOther, OnWire, exchangeVars
  <2>4. Numbering(Points \cup {<<sent'.seq, sent'.upto>>}, sent', resets') /\ sent'.seq >= sent.seq
    <3>1. Numbering(Points \cup {<<sent.seq, sent.upto>>}, sent, resets)
      BY <1>t, <1>p, Zenon
    <3>2. Numbering(Points \cup {<<sent'.seq, sent'.upto>>}, sent', resets')
      BY <2>3, <3>1, Zenon
    <3> QED BY <1>t, <2>3, <3>2
  <2> QED BY <1>t, <2>2, <2>3, <2>4, SendKeeps
<1>2. ASSUME NEW valid \in BOOLEAN, SendSnapshot(valid) PROVE FeedInv'
  <2>1. PICK m : m = Message("snapshot", 1, sent.upto, None, sent.seq, valid)
    OBVIOUS
  <2>2. m \in Messages /\ m.kind = "snapshot" /\ m.seq = sent.seq /\ m.final = sent.upto
    BY <1>t, <2>1 DEF Message, Messages, None
  <2>3. /\ UNCHANGED <<svars, inHand, connectorVars>> /\ wire' = Append(wire, m)
        /\ sent' = sent /\ resets' = resets /\ resetGen' = resetGen
    BY <1>2, <2>1 DEF SendSnapshot, OnWire, exchangeVars
  <2>4. Numbering(Points \cup {<<sent'.seq, sent'.upto>>}, sent', resets') /\ sent'.seq >= sent.seq
    <3>1. Numbering(Points \cup {<<sent.seq, sent.upto>>}, sent, resets)
      BY <1>t, <1>p, Zenon
    <3>2. Numbering(Points \cup {<<sent'.seq, sent'.upto>>}, sent', resets')
      BY <2>3, <3>1, Zenon
    <3> QED BY <1>t, <2>3, <3>2
  <2> QED BY <1>t, <2>2, <2>3, <2>4, SendKeeps
<1>3. ASSUME NEW valid \in BOOLEAN, NEW upto \in sent.upto..MaxId, NEW delivered \in BOOLEAN,
             NEW restart \in BOOLEAN, SendUpdate(upto, delivered, restart, valid)
      PROVE  FeedInv'
  <2>1. /\ restart => resets < MaxResets /\ upto > sent.upto
        /\ UNCHANGED <<svars, inHand, connectorVars>>
        /\ sent' = [upto |-> upto, seq |-> IF restart THEN FirstId(resets + 1)
                                           ELSE sent.seq + (upto - sent.upto)]
        /\ resets' = IF restart THEN resets + 1 ELSE resets
        /\ resetGen' = IF restart THEN book.gen ELSE resetGen
    BY <1>3 DEF SendUpdate
  <2>2. PICK m : m = Message("update", sent.upto + 1, sent'.upto, sent.seq, sent'.seq, valid)
    OBVIOUS
  <2>3. /\ Numbering(Points \cup {<<sent'.seq, sent'.upto>>}, sent', resets')
        /\ sent' \in [upto : 1..MaxId, seq : Nat] /\ resets' \in 0..MaxResets
        /\ ~restart => sent'.seq >= sent.seq
    BY <1>t, <2>1, NextPoint
  <2>4. wire' \in {wire, Append(wire, m)}
    BY <1>3, <2>1, <2>2 DEF SendUpdate, OnWire
  <2>5. sent'.upto = upto /\ sent'.seq \in Nat
    BY <2>1, <2>3
  <2>6. /\ m \in Messages /\ m.kind = "update" /\ m.seq = sent'.seq /\ m.final = sent'.upto
        /\ m.prev = sent.seq /\ m.first - 1 = sent.upto
    BY <1>t, <2>2, <2>5 DEF Message, Messages
  <2> QED BY <2>1, <2>3, <2>4, <2>6, SendKeeps
<1> QED BY <1>1, <1>2, <1>3

(* run reads messages only from a connection it has been told of.          *)
LEMMA ReadingBegins ==
  ASSUME RunAlone \/ StopAlone \/ Outside, Reading'
  PROVE  Reading
<1> USE DEF Goto, Raise, HandOver, ReceiveLoop, Reading, TryBody
<1>1. CASE Connecting \/ LoopEnds \/ Opened \/ ConnectFails \/ Heartbeat
  BY <1>1 DEF Connecting, LoopEnds, Opened, ConnectFails, Heartbeat
<1>2. CASE SocketFails \/ Finally \/ Finished \/ Rescheduled \/ Woken \/ Elapsed
  BY <1>2 DEF SocketFails, Finally, Finished, Rescheduled, Woken, Elapsed
<1>3. ASSUME NEW t \in Tasks, Unsubscribed(t) \/ SocketClosed(t) PROVE Reading
  BY <1>3 DEF Unsubscribed, SocketClosed
<1>4. CASE Stop \/ Cancel \/ WriterFails
  BY <1>4 DEF Stop, Cancel, WriterFails
<1>5. "run" \in Tasks /\ "stop" \in Tasks
  BY DEF Tasks
<1> QED BY <1>1, <1>2, <1>3, <1>4, <1>5 DEF RunAlone, StopAlone, Outside

LEMMA FeedInvNext == FeedInv /\ [ONext]_ovars => FeedInv'
<1> SUFFICES ASSUME FeedInv, [ONext]_ovars PROVE FeedInv'
  OBVIOUS
<1>t. /\ health \in [connected : BOOLEAN, resyncing : BOOLEAN, gap : BOOLEAN, gen : Nat]
      /\ health.connected /\ ~health.resyncing => IsLive /\ health.gen = book.gen /\ ~health.gap
      /\ inHand # {} => run = "handling"
  BY DEF FeedInv, FeedTypeOK, Honest, Ordered
<1>d. ASSUME health' = [health EXCEPT !.connected = FALSE, !.resyncing = FALSE]
      PROVE  /\ health' \in [connected : BOOLEAN, resyncing : BOOLEAN, gap : BOOLEAN, gen : Nat]
             /\ ~health'.connected
  BY <1>t, <1>d
<1>1. CASE HandleDisconnected
  <2>1. /\ UNCHANGED <<exchangeVars, inHand, book, dedupe, fbook>> /\ wire' = <<>>
        /\ run = "failing" /\ run' = "finally"
        /\ health' = health \/ health' = [health EXCEPT !.connected = FALSE, !.resyncing = FALSE]
    BY <1>1 DEF HandleDisconnected, Disconnected, HandOver, Goto, Raise
  <2>2. inHand' = {} /\ ~Reading'
    BY <1>t, <2>1 DEF Reading
  <2> QED BY <1>t, <1>d, <2>1, <2>2, QuietKeeps
<1>2. CASE HandleSubscribed
  <2>1. UNCHANGED <<exchangeVars, wire, inHand, book, health, dedupe, fbook>> /\ run = "subscribing"
    BY <1>2 DEF HandleSubscribed, Subscribed, connectorVars
  <2>2. inHand' = {} /\ Reading
    BY <1>t, <2>1 DEF Reading
  <2> QED BY <1>t, <2>1, <2>2, QuietKeeps
<1>3. CASE DisconnectReturns
  <2>1. /\ UNCHANGED <<exchangeVars, wire, inHand, book, dedupe, fbook, run>>
        /\ health' = [health EXCEPT !.connected = FALSE, !.resyncing = FALSE]
    BY <1>3 DEF DisconnectReturns, svars
  <2> QED BY <1>t, <1>d, <2>1, QuietKeeps DEF Reading
<1>4. CASE (RunAlone \/ StopAlone \/ Outside) /\ ConnectorIdle
  <2>1. /\ UNCHANGED <<exchangeVars, book, health, dedupe, fbook>>
        /\ wire' \in {wire, <<>>} /\ inHand' \in {inHand, {}}
        /\ inHand' # {} => run' = run /\ inHand # {}
    BY <1>4 DEF ConnectorIdle, connectorVars
  <2>2. Reading' => Reading
    BY <1>4, ReadingBegins
  <2> QED BY <1>t, <2>1, <2>2, QuietKeeps
<1>5. CASE UNCHANGED ovars
  <2>1. UNCHANGED <<exchangeVars, wire, inHand, book, health, dedupe, fbook, run>>
    BY <1>5 DEF ovars, svars, connectorVars
  <2> QED BY <1>t, <2>1, QuietKeeps DEF Reading
<1> QED
  BY <1>1, <1>2, <1>3, <1>4, <1>5, SendsKeep, ConnectedKeeps, ReceiveKeeps, HandleKeeps
     DEF ONext

(* Whatever is lost, repeated, restarted or fails its checksum, and at any *)
(* number of connections: a book the health registry reports as            *)
(* synchronized is the exchange's, and the feature book of its generation  *)
(* has the same levels until the sequence ids restart in it.               *)
THEOREM ReportedExact == OSpec => []ReportedBookIsExact
<1>1. FeedInv => ReportedBookIsExact
  <2> SUFFICES ASSUME FeedInv, health.connected, ~health.resyncing
               PROVE  /\ book.status = "LIVE" /\ health.gen = book.gen /\ ~health.gap
                      /\ book.levels = BookAt(book.upto)
                      /\ (fbook.sync /\ fbook.gen = book.gen /\ resetGen # book.gen)
                           => fbook.levels = book.levels
    BY DEF ReportedBookIsExact
  <2>1. IsLive /\ health.gen = book.gen /\ ~health.gap /\ book.levels = BookAt(book.upto)
    BY DEF FeedInv, Honest
  <2>2. Clean => fbook \in FP!Behind(book.gen, book.levels, book.seq)
    BY <2>1 DEF FeedInv, Following
  <2> QED BY <2>1, <2>2 DEF Clean, IsLive, FP!Behind
<1> QED BY <1>1, FeedInvInit, FeedInvNext, PTL DEF OSpec
=============================================================================
