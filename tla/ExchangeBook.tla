---------------------------- MODULE ExchangeBook ----------------------------
(***************************************************************************)
(* An exchange's order book, as the connectors rely on it: the sequence of *)
(* its numbered changes.  A message carries a range of changes, a snapshot *)
(* the number of the last change it contains.                              *)
(*                                                                         *)
(* Levels are the levels within the depth that a snapshot is asked for     *)
(* (book_snapshot_depth at Binance): what lies deeper is in no snapshot,   *)
(* and nothing here is about it.                                           *)
(***************************************************************************)
EXTENDS Integers, Sequences, SequencesExt

CONSTANTS
    Levels,  \* book levels, <<side, price>> pairs
    Change   \* Change[n]: the levels change n sets, with new quantities

MaxId == Len(Change)
NoLevels == [l \in Levels |-> 0]

ASSUME ExchangeAssumption ==
    /\ MaxId \in Nat \ {0}
    /\ \A n \in 1..MaxId : \E set \in SUBSET Levels : Change[n] \in [set -> Nat]

(* The changes up to n that set level l *)
Setting(l, n) == {k \in 1..n : l \in DOMAIN Change[k]}

(* The exchange's book after change n: each level as the latest change     *)
(* that sets it left it; a quantity of 0 is no level.                      *)
BookAt(n) ==
    [l \in Levels |-> IF Setting(l, n) = {} THEN 0 ELSE Change[Max(Setting(l, n))][l]]

(* The levels that a message touches, with its changes first to final. *)
Touched(d) == UNION {DOMAIN Change[k] : k \in d.first .. d.final}
=============================================================================
