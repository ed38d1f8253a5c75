--------------------------- MODULE FeatureRuntime ---------------------------
(***************************************************************************)
(* FeatureRuntime (features/runtime.py): events of both venues update the  *)
(* market state, ticks compute the single-venue and cross-venue snapshots. *)
(* The receive-time driver (FeatureDriver) delivers events and ticks in    *)
(* receive-time order; exchange times are another clock, at most Skew      *)
(* ahead of it and at most MaxDelay behind.                                *)
(***************************************************************************)
EXTENDS CrossVenue

CONSTANTS
    FeatureUpdate, \* time units between two decisions (feature_update_seconds)
    Feeds,      \* which kinds of events each venue sends, with which prices and
                \* values, the late-event policies of the scalar windows and, as
                \* bounds, how many events there are and until when
    Statuses,   \* health statuses
    Skew,       \* how far exchange clocks run ahead
    MaxDelay    \* bound: how far behind an event's exchange time may be

ASSUME RuntimeAssumption == Skew \in Nat /\ MaxDelay \in Nat /\ FeatureUpdate \in Nat \ {0}

VARIABLES
    feed,     \* the behavior's choice of Feeds
    stream,   \* generation and last sequence id of each venue's book stream
    venues,   \* MarketStateStore
    caches,   \* _price_caches
    metrics,  \* _MetricHistory
    lastGen,  \* the engine's _book_generations
    bookGen,  \* the runtime's _book_generations
    history,  \* _history: snapshots for the cross-venue engine
    cross,    \* the last cross-venue snapshot
    failed,   \* a tick has raised: the driver stops
    now,      \* the last decision
    events,   \* number of events so far
    genSince, \* the first decision with the current as-of generation
    log       \* what history would be without its bound

engine == <<caches, metrics, lastGen, cross, now, genSince, failed>>
vars == <<feed, stream, venues, bookGen, history, events, log, engine>>

Init ==
    /\ feed \in Feeds
    /\ stream = [x \in Venues |-> [gen |-> 1, seq |-> 0]]
    /\ \E p \in feed.policies : venues = [x \in Venues |-> NewVenue(p)]
    /\ caches = [x \in Venues |-> EmptyCache]
    /\ metrics = [x \in Venues |-> [m \in Metrics |-> NewMetric]]
    /\ lastGen = [x \in Venues |-> NoTime] /\ bookGen = [x \in Venues |-> NoTime]
    /\ history = [x \in Venues |-> <<>>] /\ log = history
    /\ cross = [decision |-> 0, status |-> "UNAVAILABLE", pairs |-> {},
                warm |-> FALSE, healthy |-> FALSE]
    /\ failed = FALSE /\ now = 0 /\ events = 0
    /\ genSince = [x \in Venues |-> 0]

----------------------------------------------------------------------------
(* consume_event *)

(* A generation change forgets the symbol's snapshots of both venues. *)
ConsumeEvent(x, e) ==
    LET v == Ingest(venues[x], e)
        rebuilt == /\ e.kind \in BookKinds
                   /\ bookGen[x] # NoTime /\ bookGen[x] # v.book.gen
    IN  /\ ~failed /\ events < feed.events
        /\ events' = events + 1
        /\ venues' = [venues EXCEPT ![x] = v]
        /\ bookGen' = IF e.kind \in BookKinds THEN [bookGen EXCEPT ![x] = v.book.gen] ELSE bookGen
        /\ history' = IF rebuilt THEN [y \in Venues |-> <<>>] ELSE history
        /\ log' = IF rebuilt THEN [y \in Venues |-> <<>>] ELSE log
        /\ UNCHANGED <<feed, engine>>

(* Events up to the next decision *)
Times == Max({1, now + 1 - MaxDelay})..(now + FeatureUpdate + Skew)

MarketEvents(x) ==
    {e \in [id : {events + 1}, kind : {"trade", "bba", "mark"}, at : Times,
            price : feed.values, side : {"buy"}]
           \cup [id : {events + 1}, kind : ScalarKinds, at : Times, value : feed.values]
           \cup [id : {events + 1}, kind : {"health"}, at : Times,
                 scope : {"exchange", "symbol"}, channel : {"book"}, status : Statuses] :
        e.kind \in feed.kinds[x]}

MarketEvent(x) ==
    /\ \E e \in MarketEvents(x) : ConsumeEvent(x, e)
    /\ UNCHANGED stream

(* A book event carries its exchange time as the quantity of its levels.   *)
BookEvent(x, kind, seq, at, levels) ==
    [id |-> events + 1, kind |-> kind, gen |-> stream[x].gen, seq |-> seq, prev |-> seq - 1,
     at |-> at, levels |-> [l \in levels |-> at]]

TwoSided(levels) == \A side \in {"bid", "ask"} : \E l \in levels : l[1] = side

(* An update follows the last one; a snapshot may be older. *)
BookEvents(x) ==
    {BookEvent(x, "update", stream[x].seq + 1, at, s) : at \in Times, s \in {{l} : l \in Levels}}
    \cup {BookEvent(x, "snapshot", seq, at, s) :
             seq \in 1..Max({1, stream[x].seq}), at \in Times,
             s \in {t \in SUBSET Levels : TwoSided(t)}}

BookMessage(x, kind) ==
    /\ kind \in feed.kinds[x]
    /\ \E e \in {f \in BookEvents(x) : f.kind = kind} :
          /\ ConsumeEvent(x, e)
          /\ stream' = [stream EXCEPT ![x].seq = Max({@, e.seq})]

(* The connector's book loses continuity. *)
NewGeneration(x) ==
    /\ feed.kinds[x] \cap BookKinds # {} /\ stream[x].gen < 2 /\ stream[x].seq > 0
    /\ stream' = [stream EXCEPT ![x] = [gen |-> @.gen + 1, seq |-> 0]]
    /\ UNCHANGED <<feed, venues, bookGen, history, events, log, engine>>

----------------------------------------------------------------------------
(* consume_tick *)

(* _history_items, the bound of _history *)
HistoryItems_mutant == Max({2, MinimumSamples})

HistoryItems == Max({2, (ZscoreLookback \div FeatureUpdate) + 2})

Bounded(snapshots) == SubSeq(snapshots, Max({1, Len(snapshots) - HistoryItems + 1}), Len(snapshots))

(* _record_snapshot: a source after the decision raises *)
SourceInFuture(s) == s.lineage.newest > s.decision

FeatureTick ==
    /\ ~failed /\ now < feed.until
    /\ now' = now + FeatureUpdate
    /\ caches' = [x \in Venues |-> UpdateCache(caches[x], venues[x].prices)]
    /\ metrics' = [x \in Venues |->
                      RecordMetrics(metrics[x], lastGen[x], venues[x], caches'[x], now')]
    /\ lastGen' = [x \in Venues |-> BookViewAsOf(venues[x], now').gen]
    /\ genSince' = [x \in Venues |-> IF lastGen'[x] = lastGen[x] THEN genSince[x] ELSE now']
    /\ LET single == [x \in Venues |-> Snapshot(venues[x], caches'[x], metrics'[x], now')]
       IN  /\ log' = [x \in Venues |-> Append(log[x], single[x])]
           /\ history' = [x \in Venues |-> Bounded(Append(history[x], single[x]))]
           /\ failed' = \E x \in Venues : SourceInFuture(single[x])
    /\ cross' = Cross(history', now')
    /\ UNCHANGED <<feed, stream, venues, bookGen, events>>

Next ==
    \/ FeatureTick
    \/ \E x \in Venues :
            \/ MarketEvent(x)
            \/ \E kind \in BookKinds : BookMessage(x, kind)
            \/ NewGeneration(x)

Spec == Init /\ [][Next]_vars

----------------------------------------------------------------------------
(* Properties *)

Cache(x) == UpdateCache(caches[x], venues[x].prices)

(* The price index answers every query over (start, end] as a scan of the  *)
(* window would, whatever mix of late insertions, expiry, eviction at the  *)
(* window's bound and batched trimming it has been through, at whichever   *)
(* ticks it was brought up to date (_PriceHistoryCache.update).            *)
PriceQueriesExact ==
    \A x \in Venues : AnswersExactly(Cache(x), venues[x].prices)

(* What a snapshot's formulas read. *)
SourcesRead(v, decision) ==
    LET start == decision - Window
        Latest(w, at) == {i.value : i \in LatestAtOrBefore(w, at)}
    IN  UNION {Values(ItemsBetween(v.prices, PriceStart(decision), decision)),
               Values(ItemsBetween(v.trades, start - Window, decision)),
               Latest(v.marks, decision),
               Latest(v.scalars["oi"], start), Latest(v.scalars["oi"], decision),
               Latest(v.scalars["funding"], decision), Latest(v.scalars["index"], decision),
               Values(ItemsBetween(v.scalars["liquidation"], start, decision)),
               HealthSources(v, decision)}

(* The lineage of a snapshot counts each source its formulas read once: a  *)
(* trade that the price index covers is not hashed again, one that has     *)
(* been evicted from the prices but not from the trades is not forgotten   *)
(* (_source_lineage, covers_source).                                       *)
SourcesCountedOnce ==
    \A x \in Venues, decision \in 1..feed.until :
        LET view == BookViewAsOf(venues[x], decision)
            sources == SourceLineage(venues[x], Cache(x), view, decision).sources
        IN  sources = SetToBag({e.id : e \in SourcesRead(venues[x], decision)}
                                 \cup BagToSet(view.lineage.sources))

(* The items of a venue's windows, each with its window's name. *)
Windows(v) ==
    [k \in ScalarKinds |-> v.scalars[k]] @@ v.health
        @@ [trades |-> v.trades, prices |-> v.prices, marks |-> v.marks, book |-> v.history]

Held(v) == UNION {{<<w, i>> : i \in ToSet(Windows(v)[w].items)} : w \in DOMAIN Windows(v)}

(* No look-ahead: an event whose exchange time is after a decision, and    *)
(* that pushes nothing out of a window, leaves everything a snapshot for   *)
(* that decision says as it was: values, book, warmth, health and lineage, *)
(* even though the book and the windows already hold the event             *)
(* (_book_view_as_of, items_between, latest_at_or_before).                 *)
DecisionsIgnoreTheFuture ==
    events < feed.events =>
        \A x \in Venues : \A e \in MarketEvents(x) \cup {f \in BookEvents(x) : f.kind \in feed.kinds[x]} :
            LET v == Ingest(venues[x], e)
            IN  Held(venues[x]) \subseteq Held(v) =>
                    \A decision \in 1..(e.at - 1) :
                        Snapshot(v, UpdateCache(caches[x], v.prices), metrics[x], decision)
                          = Snapshot(venues[x], Cache(x), metrics[x], decision)

(* A z-score counts as warm only when its samples cover the lookback       *)
(* within the book generation the decisions have seen: a change of the     *)
(* generation, or of the view from none to one, restarts every history     *)
(* (clear_scope, record).                                                  *)
ReadyMetricsAreCovered ==
    \A x \in Venues, m \in Metrics :
        metrics[x][m].ready => genSince[x] <= metrics[x][m].at - ZscoreLookback

(* The bound on the snapshots kept for the cross-venue engine never costs  *)
(* the spread's z-score a sample within its lookback (_history_items).     *)
SpreadHistoryComplete == Cross(history, now) = Cross(log, now)

(* The spreads of a z-score come from one generation of each book: a       *)
(* generation change rewarms the spread history (consume_event, which      *)
(* clears _history, and _spread_zscore, which reads it).                   *)
SpreadsOfOneGeneration == \A p, q \in cross.pairs : p.gens = q.gens
=============================================================================
