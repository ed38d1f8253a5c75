------------------------------ MODULE OkxFeed ------------------------------
(***************************************************************************)
(* The OKX connector (exchanges/okx.py) on a WebSocket session, with the   *)
(* "books" channel of one symbol: the local order book (orderbook/okx.py), *)
(* the channel's health record, the deduplicator and the feature book that *)
(* receives the normalized events.                                         *)
(*                                                                         *)
(* A message is a snapshot or an update of the exchange's book, or "other":*)
(* a message that raises SessionProtocolError (not JSON, an error or a     *)
(* notice).  The sequence ids rise with the changes until the exchange     *)
(* restarts them, below every id it has used.                              *)
(***************************************************************************)
EXTENDS WebSocketSession, ExchangeBook

CONSTANTS
    MaxInFlight,     \* bound: messages on the wire
    MaxResets,       \* bound: restarts of the sequence ids
    DedupeCapacity,  \* duplicate_cache_size
    PendingCapacity  \* features.book_pending_updates

ASSUME OkxAssumption ==
    /\ MaxInFlight \in Nat \ {0} /\ MaxResets \in Nat
    /\ DedupeCapacity \in Nat \ {0} /\ PendingCapacity \in Nat \ {0}

VARIABLES
    sent,     \* exchange: last change sent and its sequence id
    resets,   \* exchange: restarts of the sequence ids
    wire,     \* messages on the open connection
    inHand,   \* the message run() is handling, as a set
    book,     \* OkxLocalOrderBook
    health,   \* the channel's entry of the health registry
    dedupe,   \* BoundedTTLDeduplicator, oldest first
    fbook,    \* FeatureOrderBookState
    resetGen  \* the connector book's generation when the ids restarted

FB == INSTANCE FeatureBook

exchangeVars == <<sent, resets, resetGen>>
connectorVars == <<book, health, dedupe, fbook>>
ovars == <<svars, exchangeVars, wire, inHand, connectorVars>>

(* The first sequence id after so many restarts *)
FirstId(n) == (MaxResets - n) * MaxId + 1

OInit ==
    /\ SInit
    /\ sent = [upto |-> 1, seq |-> FirstId(0)] /\ resets = 0
    /\ wire = <<>> /\ inHand = {}
    /\ book = [status |-> "BUFFERING", gen |-> 0, seq |-> None, upto |-> 0, levels |-> NoLevels]
    /\ health = [connected |-> FALSE, resyncing |-> FALSE, gap |-> FALSE, gen |-> 0]
    /\ dedupe = <<>>
    /\ fbook = FB!NewBook
    /\ resetGen = None

----------------------------------------------------------------------------
(* The exchange and the network: external. *)

Subscribing == run \in {"receiving", "handling"} /\ gen \in open

Message(kind, first, final, prev, seq, valid) ==
    [kind |-> kind, first |-> first, final |-> final, prev |-> prev, seq |-> seq,
     valid |-> valid]

OnWire(m) == Subscribing /\ Len(wire) < MaxInFlight /\ wire' = Append(wire, m)

(* A full book, at the start of a subscription or any time after it; its   *)
(* checksum may disagree.                                                  *)
SendSnapshot(valid) ==
    /\ OnWire(Message("snapshot", 1, sent.upto, None, sent.seq, valid))
    /\ UNCHANGED <<svars, exchangeVars, inHand, connectorVars>>

(* The changes up to one, or none: a keepalive.  The message may be lost,  *)
(* and may restart the sequence ids.                                       *)
SendUpdate(upto, delivered, restart, valid) ==
    LET seq == IF restart THEN FirstId(resets + 1) ELSE sent.seq + (upto - sent.upto)
        m == Message("update", sent.upto + 1, upto, sent.seq, seq, valid)
    IN  /\ restart => resets < MaxResets /\ upto > sent.upto
        /\ delivered \/ upto > sent.upto
        /\ IF delivered THEN OnWire(m) ELSE UNCHANGED wire
        /\ sent' = [upto |-> upto, seq |-> seq]
        /\ resets' = IF restart THEN resets + 1 ELSE resets
        /\ resetGen' = IF restart THEN book.gen ELSE resetGen
        /\ UNCHANGED <<svars, inHand, connectorVars>>

SendOther ==
    /\ OnWire(Message("other", 1, 0, None, None, TRUE))
    /\ UNCHANGED <<svars, exchangeVars, inHand, connectorVars>>

----------------------------------------------------------------------------
(* OkxLocalOrderBook *)

(* begin_resync, _checksum_failure and a sequence gap in a LIVE book *)
Invalidated(b) ==
    [status |-> "RESYNC_REQUIRED", gen |-> b.gen + 1, seq |-> None, upto |-> 0,
     levels |-> NoLevels]

(* _raw_side over nothing, _apply_raw_side over the book *)
Applied(levels, m) ==
    [l \in Levels |-> IF l \in Touched(m) THEN BookAt(m.final)[l] ELSE levels[l]]

Result(b, transition) == [book |-> b, transition |-> transition]

Continues_mutant(b, m) == m.prev <= b.seq

Continues(b, m) == m.prev = b.seq

(* ingest *)
Ingest(b, m) ==
    LET base == IF m.kind = "snapshot" THEN NoLevels ELSE b.levels
        applied == [b EXCEPT !.status = "LIVE", !.seq = m.seq, !.upto = m.final,
                             !.levels = Applied(base, m)]
    IN  IF m.kind = "update" /\ b.status # "LIVE"
        THEN Result([b EXCEPT !.status = "RESYNC_REQUIRED"], "SEQUENCE_GAP")
        ELSE IF m.kind = "update" /\ ~Continues(b, m)
        THEN Result(Invalidated(b), "SEQUENCE_GAP")
        ELSE IF ~m.valid THEN Result(Invalidated(b), "CHECKSUM_MISMATCH")
        ELSE Result(applied, IF m.kind = "snapshot" THEN "SNAPSHOT_APPLIED" ELSE "UPDATE_APPLIED")

(* seen_or_add, once the entries beyond their time to live have left: the  *)
(* deduplicator after it, with whether the identity was there              *)
SeenOrAdd(entries, identity) ==
    IF Contains(entries, identity)
    THEN [seen |-> TRUE, entries |-> Append(RemoveFirst(entries, identity), identity)]
    ELSE LET grown == Append(entries, identity)
         IN  [seen |-> FALSE,
              entries |-> IF Len(grown) > DedupeCapacity THEN Tail(grown) ELSE grown]

(* normalize, stamped with the book's generation; an update without levels *)
(* is no event                                                             *)
Events(m, bookGen) ==
    IF m.kind = "snapshot" \/ Touched(m) # {}
    THEN {[kind |-> m.kind, gen |-> bookGen, seq |-> m.seq, prev |-> m.prev, at |-> 0,
           levels |-> IF m.kind = "snapshot" THEN BookAt(m.final)
                      ELSE [l \in Touched(m) |-> BookAt(m.final)[l]]]}
    ELSE {}

(* _emit_events, to the feature book *)
EmitEvents(events) ==
    IF events = {} THEN UNCHANGED <<dedupe, fbook>>
    ELSE \E e \in events, expired \in 0..Len(dedupe) :
            LET s == SeenOrAdd(SubSeq(dedupe, expired + 1, Len(dedupe)), e)
            IN  /\ dedupe' = s.entries
                /\ fbook' = IF s.seen THEN fbook ELSE FB!Apply(fbook, e).book

----------------------------------------------------------------------------
(* The session's events, with _handle_session_event *)

(* CONNECTED: mark_connected, then begin_resync and mark_resyncing, all    *)
(* before the event is persisted *)
HandleConnected ==
    /\ Connected
    /\ book' = Invalidated(book)
    /\ health' = [health EXCEPT !.connected = TRUE, !.resyncing = TRUE, !.gen = book'.gen]
    /\ wire' = <<>>
    /\ UNCHANGED <<exchangeVars, inHand, dedupe, fbook>>

HandleDisconnected ==
    /\ Disconnected
    /\ health' = IF stopped THEN health
                 ELSE [health EXCEPT !.connected = FALSE, !.resyncing = FALSE]
    /\ wire' = <<>>
    /\ UNCHANGED <<exchangeVars, inHand, book, dedupe, fbook>>

HandleSubscribed ==
    /\ Subscribed
    /\ UNCHANGED <<exchangeVars, wire, inHand, connectorVars>>

ReceiveMessage ==
    /\ wire # <<>>
    /\ Received
    /\ wire' = Tail(wire)
    /\ inHand' = IF broken THEN {} ELSE {Head(wire)}
    /\ UNCHANGED <<exchangeVars, connectorVars>>

(* _handle_websocket_message: nothing happens unless the message has been  *)
(* persisted; the book's failures end the connection.                      *)
Failure(r) == r.transition \in {"SEQUENCE_GAP", "CHECKSUM_MISMATCH"}

HealthAfter(h, r) ==
    [h EXCEPT !.resyncing = Failure(r), !.gen = r.book.gen,
              !.gap = CASE r.transition = "SEQUENCE_GAP" -> TRUE
                        [] r.transition = "CHECKSUM_MISMATCH" -> @
                        [] OTHER -> FALSE]

HandleMessage(m) ==
    LET r == Ingest(book, m)
    IN  /\ m \in inHand
        /\ inHand' = {}
        /\ IF broken THEN Handled("ok") /\ UNCHANGED connectorVars
           ELSE IF m.kind = "other" THEN Handled("protocol error") /\ UNCHANGED connectorVars
           ELSE /\ book' = r.book
                /\ health' = HealthAfter(health, r)
                /\ IF Failure(r) THEN Handled("protocol error") /\ UNCHANGED <<dedupe, fbook>>
                   ELSE Handled("ok") /\ EmitEvents(Events(m, r.book.gen))
        /\ UNCHANGED <<exchangeVars, wire>>

(* disconnect, once stop has returned and run has ended *)
DisconnectReturns ==
    /\ run = "ended" /\ closing["stop"] = "done" /\ health.connected
    /\ health' = [health EXCEPT !.connected = FALSE, !.resyncing = FALSE]
    /\ UNCHANGED <<svars, exchangeVars, wire, inHand, book, dedupe, fbook>>

(* A step of the session's own; what run no longer reads is gone.          *)
ConnectorIdle ==
    /\ inHand' = IF run' # run THEN {} ELSE inHand
    /\ wire' = IF run' # run /\ run' # "receiving" THEN <<>> ELSE wire
    /\ UNCHANGED <<exchangeVars, connectorVars>>

----------------------------------------------------------------------------
ONext ==
    \/ SendOther
    \/ \E valid \in BOOLEAN :
          \/ SendSnapshot(valid)
          \/ \E upto \in sent.upto..MaxId, delivered, restart \in BOOLEAN :
                SendUpdate(upto, delivered, restart, valid)
    \/ HandleConnected \/ HandleDisconnected \/ HandleSubscribed \/ ReceiveMessage
    \/ \E m \in inHand : HandleMessage(m)
    \/ DisconnectReturns
    \/ (RunAlone \/ StopAlone \/ Outside) /\ ConnectorIdle

(* What the event loop and the timeouts of connect, recv and the heartbeat *)
(* guarantee: the tasks go on.  The backoff's timer is not among it.       *)
RunGoesOn ==
    \/ RunAlone /\ ConnectorIdle
    \/ HandleConnected \/ HandleDisconnected \/ HandleSubscribed
    \/ \E m \in inHand : HandleMessage(m)

OSpec ==
    /\ OInit /\ [][ONext]_ovars
    /\ WF_ovars(RunGoesOn)
    /\ WF_ovars(StopAlone /\ ConnectorIdle)

----------------------------------------------------------------------------
(* Properties *)

(* What the health registry reports as a synchronized book is the          *)
(* exchange's book at the sequence id of the connector's, of the same      *)
(* generation, through reconnects, lost updates, failed checksums,         *)
(* repeated snapshots and keepalives; and the feature book of the same     *)
(* generation agrees with it, as long as the sequence ids have not         *)
(* restarted in that generation (ingest, mark_book_live).                  *)
ReportedBookIsExact ==
    health.connected /\ ~health.resyncing =>
        /\ book.status = "LIVE" /\ health.gen = book.gen /\ ~health.gap
        /\ book.levels = BookAt(book.upto)
        /\ (fbook.sync /\ fbook.gen = book.gen /\ resetGen # book.gen)
             => fbook.levels = book.levels

(* At most one socket is open at a time, and none once run has ended, even *)
(* when stop, a reconnection and a cancellation meet; unless closing it    *)
(* was itself cut short by a cancellation or a failing event handler       *)
(* (_close_active, _closed_generation).                                    *)
SocketsClosed ==
    /\ Cardinality(open) <= 1
    /\ (run = "ended" /\ closing["stop"] \notin {"unsubscribing", "closing"} /\ ~torn)
          => open = {}

(* A stop is prompt: run ends although the backoff's timer may never fire, *)
(* and whatever it was doing when stop came (_sleep_until_reconnect_or_stop*)
(* and the checks of _stop).                                               *)
StopEndsSession == stopped ~> run = "ended"

(* docs/architecture.md: "the documented same-sequence keepalive and       *)
(* maintenance reset are accepted by the state machine", so the feature    *)
(* book, which is told of every update the connector's book accepts,       *)
(* follows a book whose sequence ids restart.                              *)
FeatureBookFollows ==
    (health.connected /\ ~health.resyncing /\ fbook.sync /\ fbook.gen = book.gen)
        => fbook.levels = book.levels
============================================================================
