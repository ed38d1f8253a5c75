# CVF-01: a TLA+ verification project

CVF-01 collects market data of one contract from two venues (Binance and OKX),
keeps local order books, turns the normalized events into features on a
deterministic timeline, and persists both the raw payloads and the features, so
that a run can be replayed and give the same features. Paths below are relative
to the repository root; the package is `src/cvf`.

## 1. Inventory

| Component | State it keeps | Operations | Talks to | Correct when |
|---|---|---|---|---|
| Binance book `orderbook/binance.py` | status, generation, sequence id, levels, diff buffer, pending snapshot | `ingest`, `install_snapshot`, `begin_resync` | called by the connector's two tasks | a LIVE book equals the exchange's book |
| Binance connector `exchanges/binance.py` | one book, one snapshot task and one health entry per symbol | session callbacks, `_handle_websocket_message`, `_refresh_depth_snapshot` | session, REST, raw writer, event sink | no stale snapshot is installed; a broken book is revived |
| OKX book and connector `orderbook/okx.py`, `exchanges/okx.py` | the same with `prevSeqId`/`seqId` | the same, snapshots come on the stream | session, raw writer, sink | what health reports as live is the exchange's book |
| WebSocket session `exchanges/session.py` | transport, generation, stop flag | `run`, `stop`, `_close_active`, heartbeat, backoff | connector callbacks | stops when asked, leaves no socket open |
| Deduplicator `exchanges/deduplication.py` | bounded TTL map | `seen_or_add` | connectors | drops only what was emitted |
| Health registry `monitoring/health.py` | one entry per stream | marks, `snapshot` | connectors, status log | never reports a broken book as healthy |
| Raw writer `storage/parquet.py` | queue, batch, counters | `write`, `close`, worker | connectors, collector | every accepted record is in a file |
| Event bus `pipeline/event_bus.py` | one bounded queue and task per consumer | `publish`, `drain`, `close` | driver, feature state | order, no loss, failures surface, no deadlock |
| Feature driver `features/runtime.py` | reorder heap, watermark, scheduler, failure latch | `publish`, `advance_to`, `finish` | bus, runtime | one timeline without lookahead |
| Scheduler `clock/scheduler.py` | next FEATURE and SIGNAL boundary | `advance_to` | driver | every boundary once, FEATURE first |
| Market state `features/state.py`, `rolling.py` | feature book, checkpoints, windows per venue | `ingest`, `update_health` | bus consumer | a synchronized book is exact; windows answer as of any time |
| Feature engines `features/single_venue.py`, `cross_venue.py` | price index, metric histories | `calculate` | runtime tick | a value depends on the sources its lineage names and on nothing later |
| Feature runtime `features/runtime.py` | book generations, snapshot history | `consume_event`, `consume_tick` | bus, engines, feature writer | histories cover their lookback |
| Feature writer `storage/features.py` | queue, SQLite index, Parquet files, root claim | `start`, `write`, `close`, worker | runtime | each snapshot id durable once |
| Collector `collector.py`, manifest `storage/collection_manifest.py` | manifest, journal, counters | `run`, `_shutdown_collection` | everything above | CLEAN_END only for a complete collection |
| Compaction `storage/compact.py` | partition files, sentinel | `compact_raw_tree` | files | no record lost or doubled, half a tree is not read |
| Replay `replay/*` | sorted raw records | select, order, normalize, feed | driver | the same events as the live run |
| Acceptance `acceptance/*` | reports | offline checks | files | - |

Everything runs on one asyncio loop: interleavings happen at the awaits. What is
hard: a transition of the driver awaits the bus while the consumer runs and may
die; a connector persists a frame or a snapshot between receiving it and
applying it, so two tasks race on one book; frames are lost, repeated and
reconnected; REST snapshots lag or fail; a session is stopped or cancelled at
any await, also while it closes; writers race cancellation, failure and close;
the collector shuts down in the middle of all this and must say truthfully
whether the result is complete; the process may stop between any two durable
steps; exchange clocks disagree with the receive order, so the feature state
already holds events from after the decision it is asked about. `PROJECT.json`
lists these hazards at their lines, with the properties that cover them.

## 2. Modules

| Module | Models | Composes |
|---|---|---|
| `Timeline` | what the feature side promises: one timeline of events and ticks | - |
| `FeatureDriver` | `ReceiveTimeFeatureDriver`, `DecisionScheduler`, the queue and task of the one bus consumer behind it | implements `Timeline` |
| `FeatureDriverProofs` | theorems about `FeatureDriver` | - |
| `ExchangeBook` | an exchange's book as numbered changes (external) | - |
| `BinanceBook` | `BinanceLocalOrderBook`, the connector's depth path and snapshot task, the book fields of the health entry; network as environment | `ExchangeBook` |
| `FeatureBook` | `FeatureOrderBookState`, as operators on a value | - |
| `FeatureBookProofs` | lemmas about `FeatureBook`, for any source of events | - |
| `BookPipeline` | the Binance connector's book events on their way to the feature book, live and replayed | `BinanceBook`, `FeatureBook` |
| `BookPipelineProofs` | theorems about `BinanceBook` and `BookPipeline` | `FeatureBookProofs` |
| `WebSocketSession` | `PublicWebSocketSession`: the tasks of `run` and `stop`, the sockets | - |
| `OkxFeed` | OKX connector, `OkxLocalOrderBook`, health, deduplicator | `WebSocketSession`, `ExchangeBook`, `FeatureBook` |
| `OkxFeedProofs` | theorems about `OkxFeed` and its session | `FeatureBookProofs` |
| `BoundedQueue` | `asyncio.Queue` with tasks waiting for room (external) | - |
| `EventBus` | `NormalizedEventBus` with several consumers, `drain`, `close` | `BoundedQueue` |
| `EventBusProofs` | theorems about `EventBus` | - |
| `FeatureWriter` | `AsyncFeatureParquetWriter`: start, write, worker, close, crash, root claim | - |
| `FeatureWriterProofs` | theorems about `FeatureWriter` | - |
| `RawTree` | a raw tree as the offline tools read it: audits, manifest, source selection, order, replay | - |
| `RawWriter` | `AsyncPartitionedParquetWriter` | `BoundedQueue`, `RawTree` |
| `Collection` | `MarketDataCollector`: producers, journal transaction, `run`, shutdown, promotion of the manifest | `RawWriter` |
| `Compaction` | `compact_raw_tree` on what a collection, or an older version, left | `Collection` |
| `CollectionProofs` | theorems about `RawWriter`, `Collection` and `Compaction`, and about the replay of `RawTree` | - |
| `TimeWindow` | `BoundedTimeWindow` | - |
| `PriceCache` | `_PriceHistoryCache` and `SourceLineage`, with the scan it must agree with | `TimeWindow` |
| `VenueState` | `MarketStateStore.ingest` and the state of a venue | `PriceCache`, `FeatureBook` |
| `SingleVenue` | `SingleVenueFeatureEngine`: as-of view, availability, values, metric histories, lineage | `VenueState` |
| `CrossVenue` | `CrossVenueFeatureEngine`: selection, alignment, spread history | `SingleVenue` |
| `FeatureRuntime` | `FeatureRuntime` between event streams and ticks | `CrossVenue` |
| `FeatureRuntimeProofs` | theorems about `FeatureRuntime` and lemmas about the windows | `FeatureBookProofs` |

Each `MC*` module gives constants to the module of its name. Names ending in
`_mutant` are plausible faults of the definition that follows them. The
specifications never use them; they show that a property notices such a fault.

### FeatureDriver

The asyncio lock admits one transition; `op` is the transition that holds it,
and its steps end where the code awaits: `ReleaseEvent` (heappop and
`event_bus.publish`), `DeliverTick` (`drain`, then `consume_tick`), `PushEvent`,
`PushOverflow`, `AdvanceReturns`, `Seal`. `Consume` and `ConsumeFails` are the
consumer's task and interleave anywhere. Any error latches `failed`
(`_run_transition`). Callers may be cancelled, but `await_task_completion`
finishes the transition first, so cancellation is no action. `accepted`,
`consumed` and `ticks` are history variables.

### BinanceBook and BookPipeline

`book`, `task` and `health` are the connector's state for one symbol. A frame is
persisted between `ReceiveDiff` and `IngestDiff`, a REST response between
`FetchSnapshot` and `InstallSnapshot`; the two tasks interleave there. The
exchange's book is a fixed list of numbered changes, so a diff is a range of
numbers and a snapshot one number: exactness of a book is an equation. Frames
are lost (`SendDiff(FALSE)`, `Disconnect`) and repeated, REST lags or fails. A
snapshot is the book to the depth the request asks for (`book_snapshot_depth`,
`exchanges/binance.py:561`): `Levels` are the levels within that depth, and a book is
exact to that depth. A level that lies deeper when the snapshot is taken and is not
touched by a later diff is in neither the snapshot nor the local book.

The snapshot task can fail at each of its awaits, while it requests, stores or emits
(`RefreshFails`); `DiffRevivesBook` says what revives the book. While the task still
emits a snapshot it has installed, a diff that needs another one schedules none
(`exchanges/binance.py:539-542`): the property allows exactly this, and holds the next
diff to account. In `BookPipeline` such a failure also takes the snapshot out of the
live feed, before or after the deduplicator has seen it (`SnapshotLost`); a replay
still reads it if it was stored. A diff that cannot be stored or emitted ends the
session and with it the collection; that is `Collection`'s subject.

In `BookPipeline` an event takes its place in the receive-time order when it is
received and is delivered when it has been emitted. `path` chooses whether the
run is live (diffs stamped with the book generation, duplicates dropped as far as
the deduplicator remembers) or a replay.

### WebSocketSession and OkxFeed

`run` is the place of the session's task, `closing` where `run()` and `stop()`
are inside `_close_active`. `stop()` sets the flag and runs to the first await of
`_close_active` in one step (`Stop`). Every lifecycle event is handed to the
connector, which persists it: once the raw writer has failed (`broken`) each
hand-over raises, and where that leads depends on the `try` around it. A
cancellation inside the `try` stops and closes; inside the `except` clause the
`finally` clause still follows; elsewhere it leaves at once. Two ways leave a
socket open and are recorded in `torn`: an UNSUBSCRIBED event that cannot be
persisted, and a cancellation inside `_close_active`. An answered heartbeat
changes nothing.

`OkxFeed` joins each hand-over with the connector's handler. A message carries a
range of changes, or none (keepalive), and may restart the sequence ids; restarted
ids never meet earlier ones. The deduplicator's expiry by time is a choice of how
many of its oldest entries have left. The event sink is immediate here: the order
between emission and delivery is `BookPipeline`'s and `FeatureDriver`'s subject. OKX
exchange times are taken not to decrease along the stream, so every event has time 0
and the feature store's test for late events (`features/state.py:556`) refuses none;
late book events are `BookPipeline`'s and `FeatureRuntime`'s subject.

### EventBus

A put that finds room does not suspend, so `PublishOn` runs to the first full
queue in one step; there a putter waits (`Putting`), and the publisher resumes
later (`PublishResumes`), is cancelled, or finds its consumer gone. `BoundedQueue`
keeps the difference between a putter that was woken and one that has run. A
close may begin while publishes wait; `CloseDrains` is about every publish that
had returned when it began.

### FeatureWriter

`Start` takes the root claim, `Started` opens the index rebuilt from the files.
A caller takes the write lock (`Refused`, `Deduplicated`, `Accepted`, `Blocked`),
and holds it while it waits for room, so one put at most is waiting. The worker
writes one file per partition (`WriteFile`) and then commits (`Commit`); any
error rolls back all pending reservations. `Crash` may hit between any two steps
and leaves the files. Other processes use the root under the claim; they are
modelled by what the writer promises (`OtherWrites`). The lock is granted in any
order, which includes asyncio's first-come order.

### RawWriter, Collection, RawTree and Compaction

`write` counts a record when its put succeeded, also when the write is cancelled
or its worker dies at that moment (`Abandon`). Four producers stand for the
tasks that use the writer: a connector's session (raw record, then perhaps a
normalized event), its REST poller, the Binance depth-snapshot request, and the status
loop (events only). The session starts a snapshot request when the book cannot place a
diff (`ScheduleSnapshot`), it handles one answer, and nobody awaits its outcome:
neither `wait` nor the status loop sees it fail. `disconnect` cancels and awaits the
requests it finds; one that a session, not yet ended, starts afterwards is left
behind (`Disconnected`). It may still be stored and published until the driver is
sealed and the writer closes, and does nothing after that. A
normalized event is a transaction, journal then `driver.publish` then the count
(`_record_event`), that a cancellation cannot cut; a raw write can be cut. Of the
driver the collector sees only accept, refuse, fail and seal. `main` is `run()`
with its shutdown task, one step per await: `disconnect`, `gather`, `join`,
`join2` (after cancellation), `finish`, `marker`, `close`, `release`, `verify`. A
cancellation of `run` during the shutdown is held back and raised at its end
(`RunCancelled`). `release` is the close of the bus and of the feature runtime, several
turns of the loop, so a write woken by the end of the writer's worker has given up
before `verify` (`CloseServices`).
`Crash` keeps the files and the manifest.

A row is a record `[kind, at]`, its own identity; rows of a kind share a
partition. `RawTree` is the reader's side: the audits compare counts, end time
and content; `ReplaySource` chooses RAW, JOURNAL or refuses; `Replay` folds the
runner over the sorted records. `Compaction` copies a tree in steps with a crash
between any two.

### TimeWindow, PriceCache, VenueState, SingleVenue, CrossVenue, FeatureRuntime

Values and operators on them; only `FeatureRuntime` has variables. Times are
small integers, a price step replaces a log return, a ratio is a pair of
integers, and the sum and xor of source digests is the bag of the sources, which
is exactly what those two numbers are meant to tell apart. `PriceCache` follows
the code's index (prefix sums, one-second buckets, the logical and the physical
trim) and `AnswersExactly` states the scan of the window it replaces.

Events carry an exchange time up to `Skew` ahead of the receive order and up to
`MaxDelay` behind. A decision is due every `FeatureUpdate` time units. The runs
have one decision per time unit; how the interval divides the lookback
(`HistoryItems`) is covered by the theorem, for every interval. `FeatureTick` is
`consume_tick`: bring the index up to date, record the metrics, compute both snapshots
and the cross-venue one. `genSince` and `log` are history variables.

## 3. Runs

| Run | Checks | Bounds, and what they make happen |
|---|---|---|
| `feature_driver` | no lookahead, order, boundaries, sealing, refinement of `Timeline`, termination | 5 events, four within the reorder window, heap 3, queue 2, intervals 3 and 6: late and out-of-order events, shared boundaries, a full heap and a full queue |
| `binance_book` | a LIVE book is exact, no install over a LIVE book, honest health, continuity, revival | 5 changes, buffer 2, 2 frames in flight, 1 repeat, 2 connections: overflow, gaps, stale snapshots |
| `book_pipeline` | the feature book is exact, epochs mark continuity | 4 changes of both sides, the first of which leaves a side empty, 2 pending updates, 2 events in the feed, both paths: a snapshot without a two-sided book, buffered updates sorted and replayed |
| `event_bus` | order, drain, close, termination | 2 consumers, queue 1, 1 publisher with 3 events, 1 drain, close at any time |
| `feature_writer` | one row per id, durable acknowledgements, consistent content, statistics | 4 snapshots of 3 ids in 2 partitions, 2 callers, queue 1, batch 2, cache 1: eviction, conflict, blocked puts |
| `feature_writer_live` | writes and close end | 3 snapshots, batch 1 |
| `collection` | raw records accounted for, CLEAN_END only for a complete collection, exact replay of collected and compacted trees, shutdown never stuck | 2 messages from any of 4 producers, queue 1, batch 2, target 2: full queue, waiting writes and stop marker, partial batches, two partitions; a legacy tree of 3 rows in 2 files |
| `features` | index against scan, lineage, no look-ahead, covered histories, complete spread history | window 3 items, retention 3, trim batch 2, skew and delay 1, both late-event policies; nine feeds, each with the kinds of events whose meeting matters. 5 trades with two prices and 6 with one: the index moves its logical boundary with the physical trim deferred, compacts, appends to what it compacted, and is rebuilt by a late insertion while its boundary has moved. 6 decisions on books of both venues: the history, bounded to 5 snapshots, drops one while the spread has its samples. The others have up to 4 events or 4 decisions |
| `okx` | reported book exact, sockets closed, stop ends the session | 3 changes, 1 frame in flight, 1 reset, 2 connections, deduplicator 1, pending 1 |
| `live_snapshot_generation` | violation, finding 1 | live path, 3 events in the feed |
| `spread_generation` | violation, finding 2 | snapshots of both venues, 3 events, 4 decisions |
| `maintenance_reset` | violation, finding 3 | 1 connection, 1 reset |

Deadlock is not checked: every one of these systems may stop (a sealed or failed
driver, a closed bus, a finished collection, an exchange that has made its last
change), and the liveness properties and `ShutdownNeverStuck` say what must not be
left waiting.

The bounds are on the data the properties distinguish. Three or four events
suffice for every relative order of two events and a tick, and the feeds for the
price index and the spread history have as many as it takes to pass their bounds; the
queue and buffer
bounds are 1 to 3 so that each is reached with the events at hand. Two messages
in `collection` let one be journaled while another is refused, waits or is cut.

### Fairness

The asyncio loop runs every ready task, so a driver transition that has begun,
the bus consumers, putters and the close task are weakly fair. Handlers are
assumed to return: the feature-state handler never suspends. `asyncio.Lock` is
granted in order, hence strong fairness of entering the write lock and of close.
In `OkxFeed` the session's own steps and `stop` are weakly fair, because connect,
recv and the heartbeat have timeouts; the backoff's timer is not, so that a stop
has to wake it. Nothing obliges anyone to publish, finish, close, cancel, fail or
crash. `ShutdownNeverStuck` needs no fairness: every step of a shutdown is bounded
in number, so it is enough that one is always enabled. It counts neither a fault
nor a timeout: the producers must come to their end by themselves, also when the
worker of the raw writer has died or the queue is full.

### Findings

1. `live_snapshot_generation`: in a live run the REST snapshot is emitted with
   generation 0 (`exchanges/binance.py:591`) while diffs carry the book's
   generation, so the feature book rejects the snapshot as stale and keeps
   waiting; `docs/architecture.md:119` says pending updates are replayed after
   the snapshot. A replay stamps neither and does not show this.
2. `spread_generation`: `consume_event` clears the snapshot history when the
   book's generation changes (`features/runtime.py:436`), but a decision before
   the new book's exchange time still sees the old generation and appends to the
   cleared history; later spread z-scores mix generations
   (`docs/architecture.md:136`, `tests/unit/test_feature_runtime.py:400`). The
   metric histories of the single-venue engine do not have this fault: they are
   cleared by the generation of the as-of view (`ReadyMetricsAreCovered`).
3. `maintenance_reset`: after a reset of the sequence ids the OKX book goes on in
   the same generation; the feature book rejects every later update as stale
   (`features/state.py:314`) and stays synchronized on its old levels
   (`docs/architecture.md:254`, `tests/unit/test_okx_orderbook.py:121`).
   `ReportedBookIsExact` therefore leaves the generation of a reset out of what it
   says about the feature book.

Observations that no run is about: a Binance snapshot older than the buffered
diffs is retried within the same generation (`orderbook/binance.py:194-205`)
although `docs/architecture.md:249` says retry conditions increment it; a publish
still waiting for room when `close` begins can return normally although its event
ends behind the stop marker (`pipeline/event_bus.py:162`; the collector ends its
producers first); `run` accepts a CLEAN_END with no normalized event, which
`validate_clean_collection` then refuses.

On one point `features` follows the code and its test rather than the documents:
`docs/architecture.md:135` and `README.md:68` say that a book which includes a
post-decision update is rejected, while the engine answers from the checkpoint before
the decision, as `tests/unit/test_single_venue_features.py:645` asserts.
`DecisionsIgnoreTheFuture` is about exactly this: the answer is the one the engine
would give had the later events not arrived, as long as they pushed nothing out of a
window.

## 4. Proofs

A run checks one instance; the theorems below hold for every value of the
constants that satisfies the module's ASSUME, which asks only that capacities,
intervals and bounds are positive, as the settings validate, and that an exchange's
change is a function on levels. The bounds that keep TLC's state space finite
(`MaxGeneration`, `MaxConnections`, `MaxResets`, `MaxInFlight`, `MaxFeed`) are
constants too, so no theorem depends on one being small. Every theorem follows
one scheme: an inductive invariant, a lemma that it holds initially, a lemma for
each action, and a last step that combines them.

| Module | Theorems | Inductive invariant |
|---|---|---|
| `FeatureDriverProofs` | `TypeCorrect`, `NoLookahead`, `SealedIsComplete`, `OrderedIngestion`, `CompleteBoundaries`, `FeatureFirst`, `Refinement` | `IndInv`, `Grid` |
| `BookPipelineProofs` | of `BinanceBook`: `BookTypeCorrect`, `LiveIsExact`, `NeverOverLive`, `HonestHealth`, `Continuity`, `DiffsRevive` | `BookInv` |
| | of `BookPipeline`: `PipelineTypeCorrect`, `FeatureBookExact`, `EpochContinuity` | `PInv` |
| `OkxFeedProofs` | `NoSocketLeft`, `ReportedExact` | `SInv`, `FeedInv` |
| `EventBusProofs` | `BusTypeCorrect`, `EventsInOrder`, `DrainWaits`, `CloseLosesNothing` | `BusInv` |
| `FeatureWriterProofs` | `TypeCorrect`, `OneRowPerIdAlways`, `AcksConsistent`, `CleanCloseDurable`, `CountsAgreeAlways` | `IndInv`, `Counted` |
| `CollectionProofs` | `RawRecordsAreAccounted`, `CleanEndsAreComplete`, `ReplaysAreExact` | `CollInv`, `CopyInv` |
| `FeatureRuntimeProofs` | `SpreadHistoriesComplete`, `MetricsAreCovered` | `HistoryInv`, `CoverInv` |

`FeatureBookProofs` holds the lemmas that several of these share. The assumption on
`FeatureRuntime`, that `Skew` and `MaxDelay` are natural numbers, only says that
exchange clocks are bounded both ways; no theorem depends on the bounds.

**Driver.** `IndInv` says where each accepted event is (heap, queue, consumed or
lost by a failure), that the three are separated by the horizon of the running
transition, that the queue is in key order and after everything consumed, and
that the ticks delivered lie before the next boundary and before everything not
yet released. A tick can then see no later event, and an event accepted later
than a tick has a later timestamp, because the watermark is at least the tick's
time. `Grid` adds that the scheduler's next boundaries are multiples of their
intervals and that every earlier one since the first event has had its tick.

**Binance book.** A LIVE book is exact only because the diffs that are buffered,
in hand and on the wire keep the exchange's order, and each carries exactly the
changes behind its predecessor (`Streaming`). The delicate part is a snapshot that
is installed and has not met its diff: it is exact (`ExactBook`), and once a diff
has shown it to be too old, every diff still to come begins behind it
(`GivenUp`). Without that, the book could go LIVE on the old snapshot while the
task that replaces it is about to install over a LIVE book. A task that is emitting
has installed its snapshot, so a buffering book then has one pending (`Settled`):
with it `DiffsRevive` can tell the diff that is not heard from one that strands the
book. `Continuity` and
`DiffsRevive` are action properties and follow from the same invariant.

**Feature book.** `FeatureBookProofs` does not know the exchange. A set `G` holds
the pairs of a sequence id and the levels a correct book may have there; an event
fits `G` if it leads from one such pair to another. If every event fits, then
whatever is buffered, sorted, replayed, refused or dropped at the capacity, a
synchronized book is in `G`, two-sided and uncrossed (`ApplyKeeps`). A second set of
lemmas states when it also keeps up with a book that applies the same events
(`Behind`, `ApplyTracks`). `BookPipelineProofs` takes for `G` the books of the
exchange, so that neither generation, path, deduplication nor order of delivery
matters for exactness.

**OKX.** `SInv` says who still owes the close of an open socket. `FeedInv` follows
points, pairs of a sequence id and the change it stands for, in the messages, the
book and the exchange. Two points with the same id are the same change
(`Numbering`), across any number of restarts, because restarted ids never meet
earlier ones; this is what makes `prevSeqId = seqId` evidence that nothing is
missing. Until a restart in the book's generation the ids order everything on the
connection (`Ordered`), the deduplicator remembers only events the book already
contains (`Remembered`), and the feature book is behind the book by nothing
(`Following`). The proof needs the restriction that `ReportedBookIsExact` makes for the
generation of a restart (finding 3): `Ordered` is false there.

**Bus.** `BusInv` sees each consumer as one line, handled events, the one in hand, the
queue. Each publisher's events are in order along the line (`Lined`), a publish
under way has reached exactly the consumers behind it (`Ahead`, `Reached`), and
STOP is behind everything that close has to drain (`Stops`). Consumers that failed
are exempt; `drain` and `close` report those.

**Feature writer.** While the worker has not failed, the index is an exact picture
(`IndexExact`): a pending row is with the one caller whose put waits, in the queue
or in the part of the batch not yet written; a committed one is in a file; a row in
a file is committed or in the partition between its file and its commit. `Kept`
and `Counted` say the same of acknowledgements and of the statistics. A crash
leaves only the files, from which the next start rebuilds the index.

**Collection.** `RawRecordsAccounted` counts rows over files, batch, queue and
waiting puts, so its strengthening `WInv` says where each record is: the four
places are disjoint, a file's rows are in no other file, and a put that has
succeeded is counted as soon as its write returns or is abandoned. `Producing` and
`Marking` add that a producer's record is new until it is put, because no other
task has its receive time, and that there is no end marker before `run` writes it;
`Journaled`, that what the driver accepted is already held by the writer. From
`Joining`, that a shutdown which has recorded no error has seen every producer but a
snapshot request end before it goes on, that the driver is sealed before the marker
is written and that no write is left once the writer is closed (`Closed`), follows what a CLEAN_END promises: nothing is in the queue or
the batch any more, so what is held is in the files; `Verify` finds as many
journal rows as ingested events, and since each ingested event is among them the two
sets are equal (`VerifiedIsComplete`).

**Replay.** `CopyInv` says that the compacted tree shows its sentinel until its rows
and manifest are those of the source; a finished collection, with a snapshot request
left behind or not, changes neither its files nor its manifest (`Final`), so they
stay those. What a replay reads is a fold over sorted records.
`Sorted` chooses a sequence; one exists (`IncreasingExists`, by the least size
for which it does not) and on distinct times it is unique (`IncreasingUnique`),
so the sorted journal is the events in the order of their times, then the
marker (`SortedJournal`), and the runner's loop on it is computed place by place
(`ReplayOfJournal`). Everything else is a case of `resolve_replay_source`: a
tree whose manifest is not CLEAN_END is replayed only when it has no trace of a
journal, and then it is empty or a legacy tree.

**Feature runtime.** `HistoryInv` says that the kept snapshots are the last
`HistoryItems` of all since the last change of generation, and that the decisions
of these are `FeatureUpdate` apart. Whatever the engine selects or pairs lies within the
lookback, hence within what is kept. `CoverInv` says that the samples of every metric
are no older than the first decision of the generation that decisions now see. A
generation change clears them; the delicate case is the first generation, which
clears nothing and must find nothing, so the invariant has to say that a view
always has a generation. That in turn needs the shape of the feature book through
every branch of `Apply` (`ApplyShape`), of the checkpoints through late insertion and
eviction (`AppendItemKeeps`), and of the latest checkpoint a view takes
(`ViewGeneration`).

**Induction.** The library's induction theorems cannot be applied here, because they
take an operator. Where a loop has to be followed to its end (the chain of
buffered diffs, the sort and the replay of pending updates, the latest change of a
level, the replay of a journal) the proof takes the least index at which the claim fails
(`LeastNumber`, from the well-foundedness of the naturals). The loops are
functions on finite domains; that a function satisfying the defining equation exists
is proved in the same way, by extending one from place to place.

### What is only model-checked

- `TransitionsEnd`, `EveryoneReturns`, `NobodyHangs`, `StopEndsSession`: liveness under
  fairness, out of the prover's reach.
- `ShutdownNeverStuck`: it uses ENABLED.
- `PriceQueriesExact`, `SourcesCountedOnce`, `DecisionsIgnoreTheFuture`: they compare folds
  and selections over windows with scans of them, an induction over the data of each.

## 5. Plan

Done: all modules of section 2, and the proofs of the driver, both books, the
pipeline to the feature book, session, bus, feature writer, of the collection with
its raw writer, compaction and replay, and of the histories of the feature runtime.
Left, in order of importance:

1. Lemmas about `TimeWindow`: insertion keeps the order by time, pruning keeps the bound.
2. The priority of health statuses, lag and staleness; books5.
3. Agreement and confirmation scores of the cross-venue engine as operators.

## 6. Not modelled

Numeric formulas beyond what a value is computed from (depth walks and slippage,
microprice, realized volatility and z-scores as floating-point numbers, agreement
and confirmation scores), identifiers and fingerprints, counters and latency
statistics, the pipeline-backlog flag of availability, books5, contract
specifications and server-time polls, pacing of a replay, the field-by-field
normalization, pydantic models, configuration parsing, the command line, logging
and process metrics. Snapshots in which all seven metrics are warm at once need
more decisions than the bounds of `features` allow: there the funding,
liquidation and order-flow histories become warm, each in a feed of its own; the
other metrics use the same operators. Acceptance reports apply thresholds to measured numbers and keep no
state. The packages `strategy`, `risk`, `execution`, `paper_trading` and
`backtest` are empty at this commit.
