---------------------------- MODULE BookPipeline ----------------------------
(***************************************************************************)
(* The Binance connector's book events on their way to the feature book.   *)
(*                                                                         *)
(* The feature driver orders events by local receive time (FeatureDriver), *)
(* so an event takes its place in the feed when its frame or REST response *)
(* is received, and can be delivered once the connector has emitted it.    *)
(* A live run stamps diffs with the connector book's generation; a replay  *)
(* of the raw records stamps nothing.                                      *)
(***************************************************************************)
EXTENDS BinanceBook

CONSTANTS
    PendingCapacity, \* features.book_pending_updates
    Paths,           \* {"live", "replay"}: ways the events reach the feature book
    MaxFeed          \* bound: events waiting for delivery

ASSUME PipelineAssumption ==
    /\ Paths \subseteq {"live", "replay"}
    /\ PendingCapacity \in Nat \ {0}
    /\ MaxFeed \in Nat \ {0}

VARIABLES
    path,    \* which of Paths this run is
    feed,    \* events in receive-time order
    emitted, \* identities the connector's deduplicator remembers
    fbook,   \* FeatureOrderBookState
    bookAt   \* watermark of the feature side's book_updates window

FB == INSTANCE FeatureBook

pvars == <<bvars, path, feed, emitted, fbook, bookAt>>
featureVars == <<path, emitted, fbook, bookAt>>

(* An event in the feed.  Its exchange time is its last change. *)
Slot(kind, first, prev, final) ==
    [kind |-> kind, first |-> first, prev |-> prev, final |-> final, gen |-> 0,
     emitted |-> FALSE]

Event(s) ==
    [kind |-> s.kind, gen |-> s.gen, seq |-> s.final, prev |-> s.prev, at |-> s.final,
     levels |-> IF s.kind = "snapshot" THEN BookAt(s.final)
                ELSE [l \in Touched(s) |-> BookAt(s.final)[l]]]

(* normalized_event_identity: everything but local processing metadata. *)
Identity(s) == [kind |-> s.kind, final |-> s.final, prev |-> s.prev, gen |-> s.gen]

(* The place of the event of this kind that the connector is at work on.   *)
InProcess(kind) == SelectInSeq(feed, LAMBDA s : s.kind = kind /\ ~s.emitted)

(* _emit_events of the event of this kind that is in processing: a live    *)
(* duplicate is dropped, unless the bounded deduplicator has forgotten it. *)
Emit(kind, gen) ==
    LET i == InProcess(kind)
        slot == [feed[i] EXCEPT !.gen = gen, !.emitted = TRUE]
    IN  IF path = "replay"
        THEN feed' = [feed EXCEPT ![i] = slot] /\ UNCHANGED emitted
        ELSE \/ /\ feed' = [feed EXCEPT ![i] = slot]
                /\ emitted' = emitted \cup {Identity(slot)}
             \/ /\ Identity(slot) \in emitted
                /\ feed' = RemoveAt(feed, i)
                /\ UNCHANGED emitted

PInit ==
    /\ Init
    /\ path \in Paths
    /\ feed = <<>>
    /\ emitted = {}
    /\ fbook = FB!NewBook /\ bookAt = None

(* The connector steps that concern no event. *)
Upstream ==
    /\ \/ ExchangeChanges
       \/ \E delivered \in BOOLEAN : SendDiff(delivered)
       \/ RepeatDiff \/ Connect \/ Disconnect
       \/ InstallSnapshot \/ (RefreshFails /\ task.phase = "requested")
    /\ UNCHANGED <<feed, featureVars>>

DiffReceived ==
    /\ ReceiveDiff
    /\ Len(feed) < MaxFeed
    /\ LET d == Head(wire)
       IN feed' = Append(feed, Slot("update", d.first, d.prev, d.final))
    /\ UNCHANGED featureVars

DiffGeneration == IF path = "live" THEN book'.gen ELSE 0

DiffEmitted ==
    /\ \E d \in inHand : IngestDiff(d)
    /\ Emit("update", DiffGeneration)
    /\ UNCHANGED <<path, fbook, bookAt>>

SnapshotReceived ==
    /\ Len(feed) < MaxFeed
    /\ \E last \in 1..MaxId :
        /\ FetchSnapshot(last)
        /\ feed' = Append(feed, Slot("snapshot", None, None, last))
    /\ UNCHANGED featureVars

(* _refresh_depth_snapshot emits the normalized event as it is: the        *)
(* generation keeps its default.                                           *)
SnapshotGeneration == 0

SnapshotEmitted ==
    /\ SnapshotDone
    /\ Emit("snapshot", SnapshotGeneration)
    /\ UNCHANGED <<path, fbook, bookAt>>

(* The snapshot cannot be stored, or not be emitted: the live feature book *)
(* never sees it, but the deduplicator may already remember it; a replay   *)
(* reads it if it was stored.                                              *)
SnapshotLost ==
    /\ RefreshFails /\ task.phase \in {"fetched", "emitting"}
    /\ LET i == InProcess("snapshot")
           seen == [feed[i] EXCEPT !.gen = SnapshotGeneration]
       IN  \/ feed' = RemoveAt(feed, i) /\ UNCHANGED emitted
           \/ /\ task.phase = "emitting" /\ path = "live"
              /\ feed' = RemoveAt(feed, i) /\ emitted' = emitted \cup {Identity(seen)}
           \/ task.phase = "emitting" /\ path = "replay" /\ Emit("snapshot", SnapshotGeneration)
    /\ UNCHANGED <<path, fbook, bookAt>>

(* MarketStateStore.ingest of a book event: late events are rejected, a    *)
(* new generation clears the window, an accepted event moves it.           *)
IngestBookEvent(e) ==
    IF bookAt # None /\ e.at < bookAt
    THEN UNCHANGED <<fbook, bookAt>>
    ELSE LET o == FB!Apply(fbook, e)
         IN  /\ fbook' = o.book
             /\ bookAt' = IF o.status = "ACCEPTED" THEN e.at
                          ELSE IF o.book.gen # fbook.gen THEN None
                          ELSE bookAt

(* FeatureStatePipeline.consume *)
Deliver ==
    /\ feed # <<>> /\ Head(feed).emitted
    /\ IngestBookEvent(Event(Head(feed)))
    /\ feed' = Tail(feed)
    /\ UNCHANGED <<bvars, path, emitted>>

PNext ==
    \/ Upstream
    \/ DiffReceived \/ DiffEmitted
    \/ SnapshotReceived \/ SnapshotEmitted \/ SnapshotLost
    \/ Deliver

PSpec == PInit /\ [][PNext]_pvars

----------------------------------------------------------------------------
(* Types, with the bound of the pending updates. *)
PTypeOK ==
    /\ path \in Paths
    /\ Len(feed) <= MaxFeed
    /\ fbook.gen \in Nat /\ fbook.epoch \in Nat
    /\ fbook.seq \in {None} \cup 1..MaxId
    /\ fbook.sync \in BOOLEAN
    /\ fbook.levels \in [Levels -> Nat]
    /\ Len(fbook.pending) <= PendingCapacity
    /\ bookAt \in {None} \cup 1..MaxId

(* Whatever the network and the two connector tasks do, a synchronized     *)
(* feature book holds exactly the exchange's book at its sequence id, with *)
(* both sides present and uncrossed.                                       *)
FeatureBookIsExact ==
    fbook.sync => fbook.levels = BookAt(fbook.seq) /\ FB!Sound(fbook.levels)

(* docs/architecture.md: the book is forward-only, a periodic snapshot     *)
(* keeps the warmup epoch, and a loss and later recovery of                *)
(* synchronization starts a new one.  Generation and epoch never fall;     *)
(* within one epoch synchronization, once lost, is not regained, its start *)
(* is fixed and the book moves only forward.                               *)
EpochsMarkContinuity ==
    [][/\ fbook'.gen >= fbook.gen /\ fbook'.epoch >= fbook.epoch
       /\ fbook'.epoch = fbook.epoch /\ fbook'.sync
            => fbook.sync /\ fbook'.since = fbook.since /\ fbook'.seq >= fbook.seq]_pvars

(* docs/architecture.md: "Updates arriving before a snapshot are bounded   *)
(* and replayed after that snapshot."  A snapshot that reaches a feature   *)
(* book waiting for one, in the generation of the connector's LIVE book,   *)
(* leaves no update pending.                                               *)
SnapshotReplaysPending ==
    [][Deliver /\ Head(feed).kind = "snapshot"
         /\ book.status = "LIVE" /\ fbook.gen = book.gen /\ ~fbook.sync
         => fbook'.pending = <<>>]_pvars
============================================================================
