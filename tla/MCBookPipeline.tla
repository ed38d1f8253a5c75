--------------------------- MODULE MCBookPipeline ---------------------------
(* Four changes of a book with two levels on each side: the first leaves a *)
(* side empty, the third moves the market up.                              *)
EXTENDS BookPipeline

Bid(p) == <<"bid", p>>
Ask(p) == <<"ask", p>>
MCLevels == {Bid(1), Bid(2), Ask(2), Ask(3)}
MCChange == <<
    (Bid(1) :> 1),
    (Ask(2) :> 1) @@ (Ask(3) :> 1),
    (Ask(2) :> 0) @@ (Bid(2) :> 3),
    (Bid(1) :> 2) @@ (Ask(3) :> 4)>>
============================================================================
