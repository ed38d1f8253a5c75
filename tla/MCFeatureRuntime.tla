-------------------------- MODULE MCFeatureRuntime --------------------------
(* Feeds that each reach a part of the engines, with small bounds.         *)
EXTENDS FeatureRuntime

One(kinds) == [x \in Venues |-> IF x = "BINANCE" THEN kinds ELSE {}]
Both(kinds) == [x \in Venues |-> kinds]

Drop == DropLate(Retention)
Insert == InsertLate(Retention, 1)

(* Books are not in scalar windows: one policy stands for both. *)
Feed(kinds, values, number, until) ==
    [kinds |-> kinds, values |-> values, events |-> number, until |-> until,
     policies |-> IF \A x \in Venues : kinds[x] \subseteq BookKinds THEN {Drop} ELSE {Drop, Insert}]

(* The first two give the price index as many prices as make it trim,      *)
(* compact and go on; the last is longer than _history.                    *)
MCFeeds ==
    {Feed(One({"trade"}), {1, 2}, 5, 2), Feed(One({"trade"}), {1}, 6, 2),
     Feed(One({"trade", "bba"}), {1}, 4, 2), Feed(One({"bba", "mark"}), {1, 2}, 3, 2),
     Feed(One({"mark", "index", "oi"}), {1, 2}, 2, 4),
     Feed(One({"oi", "funding", "health"}), {1, 2}, 2, 4),
     Feed(One({"liquidation", "update"}), {1}, 2, 4), Feed(One(BookKinds), {}, 2, 4),
     Feed(Both({"snapshot"}), {}, 2, 6)}

MCBookFeeds == {Feed(Both({"snapshot"}), {}, 3, 4)}

MCLevels == {<<"bid", 1>>, <<"bid", 2>>, <<"ask", 3>>}
=============================================================================
