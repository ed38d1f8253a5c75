----------------------------- MODULE PriceCache -----------------------------
(***************************************************************************)
(* _PriceHistoryCache (features/single_venue.py): an index over a window   *)
(* of prices that answers queries over (start, end] from prefix sums and   *)
(* one-second buckets instead of scanning the window.                      *)
(*                                                                         *)
(* A source is an event with an id, a time and a price.  A squared log     *)
(* return is abstracted to a squared price step, and the sum and the xor   *)
(* of source digests to the bag of source ids.                             *)
(***************************************************************************)
EXTENDS TimeWindow, Bags, Folds

CONSTANTS
    TrimBatch,       \* _TRIM_BATCH
    TicksPerSecond   \* time units in a second

ASSUME PriceCacheAssumption == TrimBatch \in Nat /\ TicksPerSecond \in Nat \ {0}

Second(at) == at \div TicksPerSecond
Leaf(source) == SetToBag({source.id})

(* SourceLineage *)
NoLineage == [sources |-> EmptyBag, oldest |-> NoTime, newest |-> NoTime]
FromSource(source) == [sources |-> Leaf(source), oldest |-> source.at, newest |-> source.at]

(* SourceLineage.combine *)
Combine(a, b) ==
    IF a = NoLineage THEN b ELSE IF b = NoLineage THEN a
    ELSE [sources |-> a.sources (+) b.sources,
          oldest |-> Min({a.oldest, b.oldest}), newest |-> Max({a.newest, b.newest})]

EmptyCache ==
    [points |-> <<>>, active |-> 0, last |-> 0,
     base |-> [squared |-> 0, digest |-> EmptyBag],
     buckets |-> <<>>, covers |-> {}]

Bucket(second, prices) ==
    [second |-> second, high |-> Max(ToSet(prices)), low |-> Min(ToSet(prices)),
     close |-> Last(prices)]

Prices(seq) == [i \in DOMAIN seq |-> seq[i].price]

(* _append *)
AppendPoint(c, item) ==
    LET first == c.points = <<>>
        before == IF first THEN c.base ELSE Last(c.points)
        step == IF first THEN 0 ELSE item.value.price - before.price
        point == [at |-> item.at, ordinal |-> item.ordinal, price |-> item.value.price,
                  source |-> item.value,
                  squared |-> before.squared + step * step,
                  returns |-> IF first THEN 0 ELSE before.returns + 1,
                  digest |-> before.digest (+) Leaf(item.value)]
        old == Last(c.buckets)
    IN  [c EXCEPT
            !.points = Append(@, point),
            !.covers = @ \cup {item.value},
            !.buckets =
                IF @ # <<>> /\ old.second = Second(item.at)
                THEN Append(Front(@), [second |-> old.second,
                                       high |-> Max({old.high, point.price}),
                                       low |-> Min({old.low, point.price}),
                                       close |-> point.price])
                ELSE Append(@, Bucket(Second(item.at), <<point.price>>))]

(* _rebuild *)
Rebuild(w) == [FoldLeft(AppendPoint, EmptyCache, w.items) EXCEPT !.last = w.ordinal]

(* _trim_to_retained_window, the physical part: the inactive points leave, *)
(* their prefixes become the base, the first bucket is made anew.          *)
Compact(c) ==
    LET points == SubSeq(c.points, c.active + 1, Len(c.points))
        second == Second(points[1].at)
        removed == c.points[c.active]
        later == SelectSeq(c.buckets, LAMBDA b : b.second > second)
    IN  [c EXCEPT
            !.points = points, !.active = 0,
            !.base = [squared |-> removed.squared, digest |-> removed.digest],
            !.buckets = <<Bucket(second, Prices(SelectSeq(points,
                                    LAMBDA p : Second(p.at) = second)))>> \o later]

(* _trim_to_retained_window: the logical part comes first. *)
Trim_mutant(c, w) ==
    LET kept == {i \in DOMAIN c.points : c.points[i].ordinal = Earliest(w).ordinal}
        logical == [c EXCEPT !.active = Min(kept) - 1]
    IN  IF w.items = <<>> THEN (IF c.points = <<>> THEN c ELSE Rebuild(w))
        ELSE IF kept = {} THEN Rebuild(w)
        ELSE IF logical.active < TrimBatch /\ Len(c.points) <= MaxItems + TrimBatch THEN logical
        ELSE IF logical.active = 0 THEN logical
        ELSE Compact(logical)

Trim(c, w) ==
    LET at == Earliest(w).at
        beyond == Len(c.points) + 1
        start == Min({beyond} \cup {i \in c.active + 1 .. Len(c.points) : c.points[i].at >= at})
        trim == Min({beyond} \cup {i \in start..Len(c.points) :
                        c.points[i].at # at \/ c.points[i].ordinal = Earliest(w).ordinal})
        logical == [c EXCEPT
                      !.covers = @ \ {c.points[i].source : i \in c.active + 1 .. trim - 1},
                      !.active = trim - 1]
    IN  IF w.items = <<>> THEN (IF c.points = <<>> THEN c ELSE Rebuild(w))
        ELSE IF trim = beyond \/ c.points[trim].ordinal # Earliest(w).ordinal THEN Rebuild(w)
        ELSE IF logical.active < TrimBatch /\ Len(c.points) <= MaxItems + TrimBatch THEN logical
        ELSE IF logical.active = 0 THEN logical
        ELSE Compact(logical)

(* update: a late insertion forces a rebuild *)
InOrder(items) == \A i, j \in DOMAIN items : i < j => items[i].at <= items[j].at

UpdateCache(c, w) ==
    LET new == AppendedAfter(w, c.last)
        tail == SubSeq(c.points, Max({1, Len(c.points)}), Len(c.points))
        grown == [FoldLeft(AppendPoint, c, new) EXCEPT !.last = w.ordinal]
    IN  IF InOrder([i \in DOMAIN tail |-> [at |-> tail[i].at]] \o [i \in DOMAIN new |-> [at |-> new[i].at]])
        THEN Trim(grown, w) ELSE Rebuild(w)

----------------------------------------------------------------------------
(* Queries over (start, end] *)

(* _bounds: the active points up to a time *)
Bound_mutant(c, at) == Cardinality({i \in DOMAIN c.points : c.points[i].at <= at})

Bound(c, at) ==
    c.active + Cardinality({i \in c.active + 1 .. Len(c.points) : c.points[i].at <= at})

Between(c, start, end) == SubSeq(c.points, Bound(c, start) + 1, Bound(c, end))

NoRange == [count |-> 0, first |-> NoTime, last |-> NoTime, volatility |-> NoTime]

(* range *)
PriceRange(c, start, end) ==
    LET points == Between(c, start, end)
        first == Head(points)
        last == Last(points)
    IN  IF points = <<>> THEN NoRange
        ELSE [count |-> Len(points), first |-> first.price, last |-> last.price,
              volatility |-> IF last.returns - first.returns < 2 THEN NoTime
                             ELSE last.squared - first.squared]

(* lineage *)
PriceLineage(c, start, end) ==
    LET points == Between(c, start, end)
        left == Bound(c, start)
        before == IF left = 0 THEN c.base.digest ELSE c.points[left].digest
    IN  IF points = <<>> THEN NoLineage
        ELSE [sources |-> Last(points).digest (-) before,
              oldest |-> Head(points).at, newest |-> Last(points).at]

(* covers_source *)
CoversSource(c, source, start, end) ==
    source \in c.covers /\ start < source.at /\ source.at <= end

(* buckets, with the first and the last second taken from the points *)
Buckets(c, start, end) ==
    LET points == Between(c, start, end)
        first == Second(Head(points).at)
        last == Second(Last(points).at)
        Partial(s) == Bucket(s, Prices(SelectSeq(points, LAMBDA p : Second(p.at) = s)))
        inside == SelectSeq(c.buckets, LAMBDA b : first <= b.second /\ b.second <= last)
    IN  IF points = <<>> THEN <<>>
        ELSE [i \in DOMAIN inside |->
                 IF inside[i].second \in {first, last} THEN Partial(inside[i].second)
                 ELSE inside[i]]

(* high_low *)
HighLow(c, start, end) ==
    LET buckets == Buckets(c, start, end)
    IN  IF buckets = <<>> THEN <<NoTime, NoTime>>
        ELSE <<Max({buckets[i].high : i \in DOMAIN buckets}),
               Min({buckets[i].low : i \in DOMAIN buckets})>>

Distance(a, b) == Max({a - b, b - a})

(* The true ranges of a sequence of buckets, summed; atr divides by their  *)
(* number.                                                                 *)
TrueRanges(buckets) ==
    LET TrueRange(i) ==
            LET b == buckets[i]
            IN  IF i = 1 THEN b.high - b.low
                ELSE Max({b.high - b.low, Distance(b.high, buckets[i - 1].close),
                          Distance(b.low, buckets[i - 1].close)})
    IN  MapThenSumSet(TrueRange, DOMAIN buckets)

(* atr *)
Atr(c, start, end) ==
    IF Bound(c, end) - Bound(c, start) < 2 THEN <<NoTime, 0>>
    ELSE <<TrueRanges(Buckets(c, start, end)), Len(Buckets(c, start, end))>>

----------------------------------------------------------------------------
(* The same answers by scanning the window *)

(* _one_second_atr *)
OneSecondBuckets(items) ==
    LET seconds == SetToSortSeq({Second(items[i].at) : i \in DOMAIN items}, <)
        In(s) == SelectSeq(items, LAMBDA x : Second(x.at) = s)
    IN  [k \in DOMAIN seconds |->
            Bucket(seconds[k], [i \in DOMAIN In(seconds[k]) |-> In(seconds[k])[i].value.price])]

OneSecondAtr(items) ==
    IF Len(items) < 2 THEN <<NoTime, 0>>
    ELSE <<TrueRanges(OneSecondBuckets(items)), Len(OneSecondBuckets(items))>>

ScannedRange(items) ==
    LET Step(i) == items[i + 1].value.price - items[i].value.price
        n == Len(items)
    IN  IF n = 0 THEN NoRange
        ELSE [count |-> n, first |-> items[1].value.price, last |-> items[n].value.price,
              volatility |-> IF n < 3 THEN NoTime
                             ELSE MapThenSumSet(LAMBDA i : Step(i) * Step(i), 1..(n - 1))]

ScannedLineage(items) ==
    FoldLeft(LAMBDA l, i : Combine(l, FromSource(i.value)), NoLineage, items)

(* An answer over (start, end] changes only where start or end passes the  *)
(* time of a point or an item.                                             *)
Instants(c, w) ==
    {0} \cup {c.points[i].at : i \in DOMAIN c.points} \cup {i.at : i \in ToSet(w.items)}

(* The index answers every query over (start, end] as a scan of the window *)
(* would, whatever mix of late insertions, expiry, capacity eviction and   *)
(* batched trimming it has been through (_PriceHistoryCache.update,        *)
(* docs/architecture.md: "preserve exact (start, end] behavior").          *)
AnswersExactly(c, w) ==
    \A start, end \in Instants(c, w) : start <= end =>
        LET items == ItemsBetween(w, start, end)
        IN  /\ PriceRange(c, start, end) = ScannedRange(items)
            /\ PriceLineage(c, start, end) = ScannedLineage(items)
            /\ Atr(c, start, end) = OneSecondAtr(items)
            /\ HighLow(c, start, end) =
                   IF items = <<>> THEN <<NoTime, NoTime>>
                   ELSE LET prices == {items[i].value.price : i \in DOMAIN items}
                        IN  <<Max(prices), Min(prices)>>
=============================================================================
