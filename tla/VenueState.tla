----------------------------- MODULE VenueState -----------------------------
(***************************************************************************)
(* VenueSymbolState and MarketStateStore.ingest (features/state.py): one   *)
(* venue's event-time windows, its feature book and the history of book    *)
(* checkpoints, as a value v and the operations on it.                     *)
(*                                                                         *)
(* An event has an id, a kind and an exchange time; a price ("trade",      *)
(* "bba", "mark"), a value ("oi", "funding", "index", "liquidation"), a    *)
(* channel and a status ("health"), or a book's generation, sequence ids   *)
(* and levels ("snapshot", "update").                                      *)
(***************************************************************************)
EXTENDS PriceCache

CONSTANTS
    Retention,        \* features.state_retention_seconds
    Levels,           \* book levels, <<side, price>> pairs
    PendingCapacity   \* features.book_pending_updates

ASSUME VenueAssumption == Retention \in Nat \ {0} /\ PendingCapacity \in Nat \ {0}

FB == INSTANCE FeatureBook

BookKinds == {"snapshot", "update"}
ScalarKinds == {"oi", "funding", "index", "liquidation"}

(* _create_state, with the policy of the scalar windows *)
NewVenue(policy) ==
    [trades |-> NewWindow(policy), prices |-> NewWindow(policy), marks |-> NewWindow(policy),
     scalars |-> [k \in ScalarKinds |-> NewWindow(policy)],
     health |-> [scope \in {"exchange", "symbol"} |-> NewWindow(policy)],
     book |-> FB!NewBook, bookAt |-> NoTime, lineage |-> NoLineage,
     history |-> NewWindow(InsertLate(Retention, Retention))]

(* _record_lineage: what shaped the book, or waits to, in this generation  *)
BookLineage(v, e) ==
    IF e.gen # v.book.gen THEN FromSource(e) ELSE Combine(v.lineage, FromSource(e))

(* _measure_change, as order-flow imbalance *)
OrderFlow(book, e) ==
    LET Delta(l) == e.levels[l] - book.levels[l]
        Flow(side) == MapThenSumSet(Delta, {l \in DOMAIN e.levels : l[1] = side})
    IN  Flow("bid") - Flow("ask")

(* FeatureBookCheckpoint: the view, and the change an accepted update made *)
Checkpoint(v, e, o, lineage) ==
    [gen |-> o.book.gen, epoch |-> o.book.epoch, seq |-> o.book.seq, sync |-> o.book.sync,
     since |-> o.book.since, levels |-> o.book.levels, lineage |-> lineage,
     changes |-> IF e.kind = "update" /\ o.status = "ACCEPTED"
                 THEN {OrderFlow(v.book, e)} ELSE {}]

(* ingest of a book event: forward-only, then a checkpoint *)
IngestBook(v, e) ==
    LET o == FB!Apply(v.book, e)
        lineage == BookLineage(v, e)
    IN  IF e.at < v.bookAt \/ o.status \in {"STALE_GENERATION", "STALE_SEQUENCE"} THEN v
        ELSE [v EXCEPT
                !.book = o.book,
                !.lineage = lineage,
                !.bookAt = IF o.status = "ACCEPTED" THEN e.at
                           ELSE IF o.book.gen # v.book.gen THEN NoTime ELSE @,
                !.history = AppendItem(@, e.at, Checkpoint(v, e, o, lineage))]

(* A trade or mark price that its own window takes is a price, too. *)
IngestPrice(v, e) ==
    LET own == IF e.kind = "trade" THEN v.trades ELSE v.marks
        taken == e.kind = "bba" \/ Admissibility(own, e.at) = "ACCEPTED"
    IN  [v EXCEPT !.trades = IF e.kind = "trade" THEN AppendItem(@, e.at, e) ELSE @,
                  !.marks = IF e.kind = "mark" THEN AppendItem(@, e.at, e) ELSE @,
                  !.prices = IF taken THEN AppendItem(@, e.at, e) ELSE @]

(* ingest, update_health *)
Ingest(v, e) ==
    CASE e.kind \in BookKinds -> IngestBook(v, e)
      [] e.kind \in {"trade", "bba", "mark"} -> IngestPrice(v, e)
      [] e.kind \in ScalarKinds -> [v EXCEPT !.scalars[e.kind] = AppendItem(@, e.at, e)]
      [] e.kind = "health" -> [v EXCEPT !.health[e.scope] = AppendItem(@, e.at, e)]

(* health_sources_at_or_before: the latest of each channel; of one time,   *)
(* the symbol's own                                                        *)
HealthSources(v, decision) ==
    LET upto == {i \in ToSet(v.health["exchange"].items) \cup ToSet(v.health["symbol"].items) :
                    i.at <= decision}
        Later(i, j) == \/ i.at > j.at
                       \/ /\ i.at = j.at
                          /\ IF i.value.scope = j.value.scope THEN i.ordinal > j.ordinal
                             ELSE i.value.scope = "symbol"
    IN  {i.value : i \in {j \in upto : ~\E k \in upto :
                              k.value.channel = j.value.channel /\ Later(k, j)}}
=============================================================================
