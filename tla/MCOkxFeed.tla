----------------------------- MODULE MCOkxFeed -----------------------------
(* Two bid levels and an ask; changes 2 and 3 touch different levels, so a *)
(* lost change leaves a wrong book.                                        *)
EXTENDS OkxFeed

MCLevels == {<<"bid", 1>>, <<"bid", 2>>, <<"ask", 3>>}
MCChange == <<
    [l \in {<<"bid", 1>>, <<"ask", 3>>} |-> 1],
    [l \in {<<"bid", 2>>} |-> 2],
    [l \in {<<"bid", 2>>, <<"ask", 3>>} |-> IF l[1] = "bid" THEN 0 ELSE 3]>>
============================================================================
