---------------------------- MODULE BinanceBook ----------------------------
(***************************************************************************)
(* One symbol's Binance local order book (orderbook/binance.py), kept by   *)
(* the connector (exchanges/binance.py): the depth stream of the WebSocket *)
(* session, the REST snapshot task and the depth stream's health record.   *)
(*                                                                         *)
(* The session task handles one frame at a time; a frame is persisted      *)
(* between its receipt and its ingestion, and a snapshot between its       *)
(* response and its installation, so the two tasks interleave there.       *)
(*                                                                         *)
(* A diff is the range of changes it carries and a snapshot the number of  *)
(* the last change it contains; the levels they bring follow.              *)
(***************************************************************************)
EXTENDS ExchangeBook

CONSTANTS
    MaxBuffer,     \* max_buffer_events
    MaxInFlight,   \* bound: frames on the wire
    MaxRepeats,    \* bound: frames the network delivers twice
    MaxGeneration  \* bound: the session no longer reconnects from here on

ASSUME BookAssumption ==
    /\ MaxBuffer \in Nat \ {0}
    /\ MaxInFlight \in Nat \ {0}
    /\ MaxRepeats \in Nat
    /\ MaxGeneration \in Nat

VARIABLES
    exId,      \* exchange: number of its latest change
    sentId,    \* exchange: last change put in a diff
    repeats,   \* network: frames delivered twice so far
    wire,      \* diffs sent on the open connection, not yet received
    connected, \* the session's WebSocket is open
    inHand,    \* the frame the session task is persisting, as a set
    book,      \* BinanceLocalOrderBook
    task,      \* the depth snapshot task and the snapshot it holds
    health     \* the depth stream's entry of the health registry

exchangeVars == <<exId, sentId, repeats>>
sessionVars == <<wire, connected, inHand>>
bookVars == <<book, task, health>>
bvars == <<exchangeVars, sessionVars, bookVars>>

None == -1
Diffs == [first : 1..MaxId, final : 1..MaxId, prev : 0..MaxId]

----------------------------------------------------------------------------
(* BinanceLocalOrderBook *)

(* _apply_update: absolute quantities replace, zero removes. *)
ApplyUpdate(b, d) ==
    [b EXCEPT !.seq = d.final,
              !.levels = [l \in Levels |-> IF l \in Touched(d) THEN BookAt(d.final)[l]
                                           ELSE @[l]]]

InvalidatedInPlace_mutant(b, buffer) ==
    [status |-> "RESYNC_REQUIRED", gen |-> b.gen, seq |-> None,
     levels |-> NoLevels, buffer |-> buffer, pending |-> None]

InvalidatedKeeping_mutant(b, buffer) ==
    [status |-> "RESYNC_REQUIRED", gen |-> b.gen + 1, seq |-> None,
     levels |-> NoLevels, buffer |-> buffer, pending |-> b.pending]

(* What begin_resync, _overflow and both sequence gaps do; they differ in  *)
(* the updates they keep.                                                  *)
Invalidated(b, buffer) ==
    [status |-> "RESYNC_REQUIRED", gen |-> b.gen + 1, seq |-> None,
     levels |-> NoLevels, buffer |-> buffer, pending |-> None]

(* A BookApplyResult: the new book, the transition and needs_snapshot. *)
Result(b, transition, needs) == [book |-> b, transition |-> transition, needs |-> needs]

(* The documented overlap of the first diff applied to a snapshot. *)
Bridges(d, last) == d.first <= last /\ d.final >= last

(* One buffered update of the chain behind the bridging one.  A gap stops  *)
(* the loop: rest collects the updates from there on.                      *)
ChainStep_mutant(c, d) ==
    IF d.final <= c.book.seq THEN c ELSE [c EXCEPT !.book = ApplyUpdate(@, d)]

ChainStep(c, d) ==
    IF c.rest # <<>> THEN [c EXCEPT !.rest = Append(@, d)]
    ELSE IF d.final <= c.book.seq THEN c
    ELSE IF d.prev # c.book.seq THEN [c EXCEPT !.rest = <<d>>]
    ELSE [c EXCEPT !.book = ApplyUpdate(@, d)]

(* The chain at each place of the buffer, from the bridging update on. *)
Chain(b, first) ==
    LET chain[k \in first..Len(b.buffer)] ==
            IF k = first THEN [book |-> ApplyUpdate(b, b.buffer[first]), rest |-> <<>>]
            ELSE ChainStep(chain[k - 1], b.buffer[k])
    IN  chain

(* _try_activate_snapshot, for a book with a pending snapshot. *)
TryActivate(b) ==
    LET last == b.pending
        keep == SelectInSeq(b.buffer, LAMBDA d : d.final >= last)
        buffer == IF keep = 0 THEN <<>> ELSE SubSeq(b.buffer, keep, Len(b.buffer))
        first == SelectInSeq(buffer, LAMBDA d : Bridges(d, last))
        trimmed == [b EXCEPT !.buffer = buffer]
        chain == Chain(trimmed, first)[Len(buffer)]
    IN  IF buffer = <<>> THEN Result(trimmed, "BUFFERED", FALSE)
        ELSE IF first = 0 THEN
            IF buffer[1].first > last
            THEN Result([trimmed EXCEPT !.status = "RESYNC_REQUIRED"],
                        "RETRY_SNAPSHOT", TRUE)
            ELSE Result(trimmed, "BUFFERED", FALSE)
        ELSE IF chain.rest # <<>>
        THEN Result(Invalidated(chain.book, chain.rest), "SEQUENCE_GAP", TRUE)
        ELSE Result([chain.book EXCEPT !.status = "LIVE", !.pending = None, !.buffer = <<>>],
                    "SNAPSHOT_APPLIED", FALSE)

(* _buffer_update *)
BufferUnbounded_mutant(b, d) ==
    LET appended == [b EXCEPT !.buffer = Append(@, d)]
    IN  IF b.pending # None THEN TryActivate(appended)
        ELSE Result(appended, "BUFFERED", TRUE)

BufferSilently_mutant(b, d) ==
    LET appended == [b EXCEPT !.buffer = Append(@, d)]
    IN  IF Len(b.buffer) >= MaxBuffer
        THEN Result(Invalidated(b, <<d>>), "BUFFER_OVERFLOW", TRUE)
        ELSE IF b.pending # None THEN TryActivate(appended)
        ELSE Result(appended, "BUFFERED", FALSE)

BufferUpdate(b, d) ==
    LET appended == [b EXCEPT !.buffer = Append(@, d)]
    IN  IF Len(b.buffer) >= MaxBuffer
        THEN Result(Invalidated(b, <<d>>), "BUFFER_OVERFLOW", TRUE)
        ELSE IF b.pending # None THEN TryActivate(appended)
        ELSE Result(appended, "BUFFERED", TRUE)

(* ingest *)
Ingest(b, d) ==
    IF b.status # "LIVE" THEN BufferUpdate(b, d)
    ELSE IF d.final <= b.seq THEN Result(b, "STALE_IGNORED", FALSE)
    ELSE IF d.prev # b.seq THEN Result(Invalidated(b, <<d>>), "SEQUENCE_GAP", TRUE)
    ELSE Result(ApplyUpdate(b, d), "UPDATE_APPLIED", FALSE)

(* install_snapshot *)
Install(b, last) ==
    TryActivate([b EXCEPT !.pending = last, !.seq = last, !.levels = BookAt(last),
                          !.status = "BUFFERING"])

----------------------------------------------------------------------------
(* StreamHealthRegistry, the fields about the book *)

MarkResyncing(h, gen) == [h EXCEPT !.resyncing = TRUE, !.gen = gen]
RecordGap(h, gen) == [MarkResyncing(h, gen) EXCEPT !.gap = TRUE]
MarkLive(h, gen) == [h EXCEPT !.resyncing = FALSE, !.gap = FALSE, !.gen = gen]

HealthAfterIngest_mutant(h, r) ==
    IF r.book.status = "LIVE" THEN MarkLive(h, r.book.gen)
    ELSE IF r.transition = "RETRY_SNAPSHOT" THEN MarkResyncing(h, r.book.gen)
    ELSE h

(* The marks after a book result; install_snapshot's caller has no branch  *)
(* of its own for a gap.                                                   *)
HealthAfterIngest(h, r) ==
    IF r.transition \in {"SEQUENCE_GAP", "BUFFER_OVERFLOW"} THEN RecordGap(h, r.book.gen)
    ELSE IF r.needs THEN MarkResyncing(h, r.book.gen)
    ELSE IF r.book.status = "LIVE" THEN MarkLive(h, r.book.gen)
    ELSE h

HealthAfterInstall(h, r) ==
    IF r.book.status = "LIVE" THEN MarkLive(h, r.book.gen)
    ELSE IF r.needs THEN MarkResyncing(h, r.book.gen)
    ELSE h

----------------------------------------------------------------------------
NoTask == [phase |-> "none", last |-> None]

Init ==
    /\ exId = 1
    /\ sentId = 1
    /\ repeats = 0
    /\ wire = <<>>
    /\ connected = FALSE
    /\ inHand = {}
    /\ book = [status |-> "BUFFERING", gen |-> 0, seq |-> None, levels |-> NoLevels,
               buffer |-> <<>>, pending |-> None]
    /\ task = NoTask
    /\ health = [connected |-> FALSE, resyncing |-> FALSE, gap |-> FALSE, gen |-> 0,
                 rest |-> TRUE]

(* _schedule_depth_snapshot: one task at a time, and a task that is still  *)
(* emitting its snapshot counts.                                           *)
Scheduled(t) == IF t.phase # "none" THEN t ELSE [phase |-> "requested", last |-> None]

----------------------------------------------------------------------------
(* The exchange and the network: external, as the code relies on them. *)

ExchangeChanges ==
    /\ exId < MaxId
    /\ exId' = exId + 1
    /\ UNCHANGED <<sentId, repeats, sessionVars, bookVars>>

(* A diff carries every change since the previous one; it is delivered on  *)
(* an open connection, or lost.                                            *)
SendDiff(delivered) ==
    /\ sentId < exId
    /\ delivered => connected /\ Len(wire) < MaxInFlight
    /\ sentId' = exId
    /\ wire' = IF delivered
               THEN Append(wire, [first |-> sentId + 1, final |-> exId, prev |-> sentId])
               ELSE wire
    /\ UNCHANGED <<exId, repeats, connected, inHand, bookVars>>

(* A frame may arrive twice; the book has a branch for it. *)
RepeatDiff ==
    /\ wire # <<>> /\ Len(wire) < MaxInFlight
    /\ repeats < MaxRepeats
    /\ repeats' = repeats + 1
    /\ wire' = Append(wire, Last(wire))
    /\ UNCHANGED <<exId, sentId, connected, inHand, bookVars>>

----------------------------------------------------------------------------
(* The session task. *)

(* handle, CONNECTED *)
Connect ==
    /\ ~connected
    /\ book.gen < MaxGeneration
    /\ connected' = TRUE
    /\ book' = Invalidated(book, <<>>)
    /\ health' = MarkResyncing([health EXCEPT !.connected = TRUE], book'.gen)
    /\ task' = Scheduled(task)
    /\ UNCHANGED <<exchangeVars, wire, inHand>>

(* handle, DISCONNECTED: frames still on the wire are gone. *)
Disconnect ==
    /\ connected /\ inHand = {}
    /\ connected' = FALSE
    /\ wire' = <<>>
    /\ health' = [health EXCEPT !.connected = FALSE, !.resyncing = FALSE]
    /\ UNCHANGED <<exchangeVars, inHand, book, task>>

(* _handle_websocket_message up to the await of _persist_payload ... *)
ReceiveDiff ==
    /\ connected /\ inHand = {} /\ wire # <<>>
    /\ inHand' = {Head(wire)}
    /\ wire' = Tail(wire)
    /\ UNCHANGED <<exchangeVars, connected, bookVars>>

(* ... and from there on. *)
IngestDiff(d) ==
    /\ d \in inHand
    /\ inHand' = {}
    /\ LET r == Ingest(book, d)
       IN  /\ book' = r.book
           /\ health' = HealthAfterIngest(health, r)
           /\ task' = IF r.needs THEN Scheduled(task) ELSE task
    /\ UNCHANGED <<exchangeVars, wire, connected>>

----------------------------------------------------------------------------
(* The snapshot task, _refresh_depth_snapshot. *)

(* The response; the REST endpoint may lag behind the stream. *)
FetchSnapshot(last) ==
    /\ task.phase = "requested"
    /\ last <= exId
    /\ task' = [phase |-> "fetched", last |-> last]
    /\ UNCHANGED <<exchangeVars, sessionVars, book, health>>

(* The request, the storing or the emission of the snapshot fails: the     *)
(* task ends, and nothing schedules another.  An error other than those    *)
(* it expects leaves no mark.                                              *)
RefreshFails ==
    /\ task.phase # "none"
    /\ task' = NoTask
    /\ health' \in {health, [health EXCEPT !.rest = FALSE]}
    /\ UNCHANGED <<exchangeVars, sessionVars, book>>

(* install_snapshot, once the payload has been persisted. *)
InstallSnapshot ==
    /\ task.phase = "fetched"
    /\ LET r == Install(book, task.last)
       IN  book' = r.book /\ health' = HealthAfterInstall(health, r)
    /\ task' = [task EXCEPT !.phase = "emitting"]
    /\ UNCHANGED <<exchangeVars, sessionVars>>

(* The snapshot event has been emitted: the task is done. *)
SnapshotDone ==
    /\ task.phase = "emitting"
    /\ task' = NoTask
    /\ health' = [health EXCEPT !.rest = TRUE]
    /\ UNCHANGED <<exchangeVars, sessionVars, book>>

----------------------------------------------------------------------------
Next ==
    \/ ExchangeChanges
    \/ \E delivered \in BOOLEAN : SendDiff(delivered)
    \/ RepeatDiff
    \/ Connect \/ Disconnect
    \/ ReceiveDiff
    \/ \E d \in inHand : IngestDiff(d)
    \/ \E last \in 1..MaxId : FetchSnapshot(last)
    \/ RefreshFails \/ InstallSnapshot \/ SnapshotDone

Spec == Init /\ [][Next]_bvars

----------------------------------------------------------------------------
(* Types, with the bound of the diff buffer. *)
TypeOK ==
    /\ exId \in 1..MaxId /\ sentId \in 1..exId /\ repeats \in 0..MaxRepeats
    /\ wire \in Seq(Diffs) /\ Len(wire) <= MaxInFlight
    /\ connected \in BOOLEAN /\ inHand \subseteq Diffs
    /\ book \in [status : {"BUFFERING", "LIVE", "RESYNC_REQUIRED"}, gen : Nat,
                 seq : {None} \cup 1..MaxId, levels : [Levels -> Nat],
                 buffer : Seq(Diffs), pending : {None} \cup 1..MaxId]
    /\ Len(book.buffer) <= MaxBuffer
    /\ task \in [phase : {"none", "requested", "fetched", "emitting"},
                 last : {None} \cup 1..MaxId]
    /\ health \in [connected : BOOLEAN, resyncing : BOOLEAN, gap : BOOLEAN, gen : Nat,
                   rest : BOOLEAN]

(* A LIVE book holds exactly the exchange's book at its sequence id,       *)
(* whatever was lost, repeated, buffered or fetched on the way there.      *)
LiveBookIsExact == book.status = "LIVE" => book.levels = BookAt(book.seq)

(* Continuity is never lost silently: within one generation a LIVE book    *)
(* stays LIVE and only moves forward (data_dictionary: generation          *)
(* "increments whenever local continuity is invalidated").                 *)
ContinuityWithinGeneration ==
    [][book.status = "LIVE" /\ book'.gen = book.gen
         => book'.status = "LIVE" /\ book'.seq >= book.seq]_bvars

(* No snapshot is ever installed over a LIVE book, although reconnects and *)
(* gaps request snapshots while an older request is still under way.       *)
NoInstallOverLive == task.phase = "fetched" => book.status # "LIVE"

(* The health registry never reports an open depth stream as synchronized  *)
(* unless the book is LIVE, nor under another generation than the book's.  *)
HealthIsHonest ==
    health.connected /\ ~health.resyncing =>
        book.status = "LIVE" /\ health.gen = book.gen /\ ~health.gap

(* A failed or superseded snapshot never strands the book: after each diff *)
(* the book is LIVE, a snapshot still to be installed is under way, or an  *)
(* installed one waits for the diffs that follow it.  One exception: while *)
(* the task is still emitting a snapshot it has installed, a diff that     *)
(* asks for the next one is not heard (_schedule_depth_snapshot); the book *)
(* then says that it needs one, and the first diff after the emission is   *)
(* held to the rest of this property.                                      *)
DiffRevivesBook ==
    [][\A d \in inHand : IngestDiff(d) =>
         \/ book'.status = "LIVE"
         \/ task'.phase \in {"requested", "fetched"}
         \/ task.phase = "emitting" /\ book'.status = "RESYNC_REQUIRED"
         \/ book'.status = "BUFFERING" /\ book'.pending # None /\ book'.buffer = <<>>]_bvars
============================================================================
