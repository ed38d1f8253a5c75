---------------------------- MODULE SingleVenue ----------------------------
(***************************************************************************)
(* SingleVenueFeatureEngine (features/single_venue.py): the feature        *)
(* snapshot of a venue v as of a decision time, from v and the price cache *)
(* c, and the metric histories behind its z-scores.  A ratio is a pair of  *)
(* integers; what is unavailable is the empty set, what is available a     *)
(* singleton.                                                              *)
(***************************************************************************)
EXTENDS VenueState

CONSTANTS
    Window,            \* a feature window
    AtrPeriod,         \* features.atr_period_seconds
    BreakoutLookback,  \* features.breakout_lookback_seconds
    ZscoreLookback,    \* features.zscore_lookback_seconds
    StaleAfter,        \* health.open_interest_stale_after_ms
    BlockedStatuses    \* health.block_entry_statuses

ASSUME SingleVenueAssumption ==
    /\ {Window, AtrPeriod, BreakoutLookback, ZscoreLookback} \subseteq Nat \ {0}
    /\ Retention >= Max({Window, AtrPeriod, BreakoutLookback, ZscoreLookback})

NoView ==
    [gen |-> 0, epoch |-> 0, seq |-> NoTime, sync |-> FALSE, since |-> NoTime,
     levels |-> FB!NoLevels, lineage |-> NoLineage, changes |-> {}]

(* _book_view_as_of: the checkpoint at the decision, never the book itself *)
BookViewAsOf_mutant(v, decision) ==
    IF v.history.items = <<>> THEN NoView ELSE Last(v.history.items).value

BookViewAsOf(v, decision) ==
    LET found == LatestAtOrBefore(v.history, decision)
    IN  IF found = {} THEN NoView ELSE (CHOOSE i \in found : TRUE).value

(* evaluate_availability with the book's part as of the decision *)
Unavailable(v, view, decision) ==
    LET oi == LatestAtOrBefore(v.scalars["oi"], decision)
    IN  {r \in {"NO_TRADES", "OPEN_INTEREST_MISSING", "OPEN_INTEREST_STALE",
                "HEALTH_BLOCKED", "BOOK_UNSYNCHRONIZED", "BOOK_GENERATION_WARMUP"} :
            CASE r = "NO_TRADES" -> LatestAtOrBefore(v.trades, decision) = {}
              [] r = "OPEN_INTEREST_MISSING" -> oi = {}
              [] r = "OPEN_INTEREST_STALE" -> \E i \in oi : decision - i.at > StaleAfter
              [] r = "HEALTH_BLOCKED" -> \E h \in HealthSources(v, decision) :
                                             h.status \in BlockedStatuses
              [] r = "BOOK_UNSYNCHRONIZED" -> ~view.sync
              [] r = "BOOK_GENERATION_WARMUP" ->
                     view.since = NoTime \/ view.since > decision - Window}

WarmCodes == {"NO_TRADES", "BOOK_GENERATION_WARMUP", "OPEN_INTEREST_MISSING"}
HealthCodes == {"BOOK_UNSYNCHRONIZED", "OPEN_INTEREST_STALE", "HEALTH_BLOCKED"}

----------------------------------------------------------------------------
(* Values *)

Values(items) == {items[i].value : i \in DOMAIN items}
Ratio(n, d) == IF d = 0 THEN {} ELSE {<<n, d>>}
SameRatio(p, q) == p[1] * q[2] = q[1] * p[2]
Only(s) == CHOOSE x \in s : TRUE

(* calculate: taker imbalance *)
TakerImbalance(v, decision) ==
    LET trades == Values(ItemsBetween(v.trades, decision - Window, decision))
        Notional(side) == MapThenSumSet(LAMBDA e : e.price, {e \in trades : e.side = side})
    IN  Ratio(Notional("buy") - Notional("sell"), Notional("buy") + Notional("sell"))

Best(view, side) ==
    LET prices == {l[2] : l \in {m \in Levels : m[1] = side /\ view.levels[m] > 0}}
    IN  IF side = "bid" THEN Max(prices) ELSE Min(prices)

(* _order_book_values: twice the mid price; and the order flow of the      *)
(* checkpoints in the window that belong to the view's generation and epoch*)
MidPrice(view) == IF view.sync THEN {Best(view, "bid") + Best(view, "ask")} ELSE {}

OrderFlowImbalance(v, view, decision) ==
    LET changed == {i \in ToSet(ItemsBetween(v.history, decision - Window, decision)) :
                       /\ i.value.changes # {}
                       /\ i.value.gen = view.gen /\ i.value.epoch = view.epoch}
    IN  IF ~view.sync THEN {}
        ELSE {<<MapThenSumSet(LAMBDA i : Only(i.value.changes), changed), 1>>}

(* _price_values *)
Return(c, decision) ==
    LET range == PriceRange(c, decision - Window, decision)
    IN  IF range.count = 0 THEN {} ELSE Ratio(range.last - range.first, range.first)

(* _open_interest_values *)
OpenInterestChange(v, decision) ==
    UNION {Ratio(l.value.value - a.value.value, a.value.value) :
              l \in LatestAtOrBefore(v.scalars["oi"], decision),
              a \in LatestAtOrBefore(v.scalars["oi"], decision - Window)}

(* _crowding_values *)
Premium(v, decision) ==
    UNION {Ratio(m.value.price - i.value.value, i.value.value) :
              m \in LatestAtOrBefore(v.marks, decision),
              i \in LatestAtOrBefore(v.scalars["index"], decision)}

Funding(v, decision) ==
    {<<i.value.value, 1>> : i \in LatestAtOrBefore(v.scalars["funding"], decision)}

(* _liquidation_values *)
LiquidationActivity(v, decision) ==
    {<<MapThenSumSet(LAMBDA e : e.value,
          Values(ItemsBetween(v.scalars["liquidation"], decision - Window, decision))), 1>>}

Metrics == {"taker", "ofi", "return", "oi", "premium", "funding", "liquidation"}

MetricValue(metric, v, c, view, decision) ==
    CASE metric = "taker" -> TakerImbalance(v, decision)
      [] metric = "ofi" -> OrderFlowImbalance(v, view, decision)
      [] metric = "return" -> Return(c, decision)
      [] metric = "oi" -> OpenInterestChange(v, decision)
      [] metric = "premium" -> Premium(v, decision)
      [] metric = "funding" -> Funding(v, decision)
      [] metric = "liquidation" -> LiquidationActivity(v, decision)

----------------------------------------------------------------------------
(* _MetricHistory *)

NewMetric == [window |-> NewWindow(DropLate(ZscoreLookback)), at |-> NoTime, ready |-> FALSE]

(* record, for a decision later than the last: a z-score takes two earlier *)
(* values that differ, and is ready once they cover the lookback           *)
Recorded(m, decision, value) ==
    LET samples == m.window.items
        spread == \E i, j \in DOMAIN samples : ~SameRatio(samples[i].value, samples[j].value)
    IN  [window |-> IF value = {} THEN m.window ELSE AppendItem(m.window, decision, Only(value)),
         at |-> decision,
         ready |-> /\ value # {} /\ spread
                   /\ samples[1].at <= decision - ZscoreLookback]

(* clear_scope when the as-of generation is not the one of the last        *)
(* decision, then a record per metric; without any open interest its       *)
(* change is not recorded                                                  *)
ClearScope_mutant(metrics, lastGen, gen) == metrics

ClearScope(metrics, lastGen, gen) ==
    IF lastGen # NoTime /\ lastGen # gen THEN [m \in Metrics |-> NewMetric] ELSE metrics

RecordMetrics(metrics, lastGen, v, c, decision) ==
    LET view == BookViewAsOf(v, decision)
        scoped == ClearScope(metrics, lastGen, view.gen)
    IN  [m \in Metrics |->
            IF m = "oi" /\ LatestAtOrBefore(v.scalars["oi"], decision) = {}
            THEN [scoped[m] EXCEPT !.ready = FALSE]
            ELSE Recorded(scoped[m], decision, MetricValue(m, v, c, view, decision))]

----------------------------------------------------------------------------
(* _source_lineage *)

PriceStart(decision) ==
    Min({decision - Window, decision - AtrPeriod, decision - BreakoutLookback})

(* The sources that are hashed one by one; the price cache speaks for those*)
(* it covers.                                                              *)
DirectSources(v, c, decision) ==
    LET start == decision - Window
        Covered(e) == CoversSource(c, e, PriceStart(decision), decision)
        Latest(w, at) == {i.value : i \in LatestAtOrBefore(w, at)}
    IN  {e \in Values(ItemsBetween(v.trades, start - Window, decision))
                \cup Latest(v.marks, decision) : ~Covered(e)}
        \cup Latest(v.scalars["oi"], start) \cup Latest(v.scalars["oi"], decision)
        \cup Latest(v.scalars["funding"], decision) \cup Latest(v.scalars["index"], decision)
        \cup Values(ItemsBetween(v.scalars["liquidation"], start, decision))
        \cup HealthSources(v, decision)

(* _direct_lineage *)
DirectLineage(sources) ==
    FoldLeft(LAMBDA l, e : Combine(l, FromSource(e)), NoLineage,
             SetToSortSeq(sources, LAMBDA a, b : a.id < b.id))

SourceLineage(v, c, view, decision) ==
    Combine(Combine(PriceLineage(c, PriceStart(decision), decision), view.lineage),
            DirectLineage(DirectSources(v, c, decision)))

(* calculate *)
Snapshot(v, c, metrics, decision) ==
    LET view == BookViewAsOf(v, decision)
        reasons == Unavailable(v, view, decision)
        trades == ItemsBetween(v.trades, decision - Window, decision)
    IN  [decision |-> decision, gen |-> view.gen, seq |-> view.seq,
         lineage |-> SourceLineage(v, c, view, decision),
         warm |-> /\ reasons \cap WarmCodes = {} /\ trades # <<>>
                  /\ \A m \in Metrics : metrics[m].ready,
         healthy |-> reasons \cap HealthCodes = {},
         reasons |-> reasons,
         mid |-> MidPrice(view),
         values |-> [m \in Metrics |-> MetricValue(m, v, c, view, decision)]]
=============================================================================
