--------------------------- MODULE MCBinanceBook ---------------------------
(* Two bid and two ask levels; the exchange's book is never empty or       *)
(* crossed.  Change 3 moves the market up (removing an ask and adding a    *)
(* bid at its price), change 5 moves it back, so skipped or repeated       *)
(* changes leave a wrong book.                                             *)
EXTENDS BinanceBook

Bid(p) == <<"bid", p>>
Ask(p) == <<"ask", p>>
MCLevels == {Bid(1), Bid(2), Ask(2), Ask(3)}
MCChange == <<
    (Bid(1) :> 1) @@ (Ask(2) :> 1) @@ (Ask(3) :> 1),
    (Bid(1) :> 2),
    (Ask(2) :> 0) @@ (Bid(2) :> 3),
    (Ask(3) :> 4),
    (Bid(2) :> 0) @@ (Ask(2) :> 5)>>
============================================================================
