----------------------------- MODULE CrossVenue -----------------------------
(***************************************************************************)
(* CrossVenueFeatureEngine (features/cross_venue.py): which snapshots of   *)
(* the two venues a decision pairs, how well they align, and the history   *)
(* of paired spreads behind the spread's z-score.                          *)
(***************************************************************************)
EXTENDS SingleVenue

CONSTANTS
    MaxSnapshotAge,    \* features.cross_venue_max_snapshot_age_ms
    MaxTimeDifference, \* features.cross_venue_max_time_difference_ms
    MinimumSamples     \* features.cross_venue_zscore_minimum_samples

ASSUME CrossVenueAssumption == MinimumSamples \in Nat \ {0, 1}

Venues == {"BINANCE", "OKX"}

(* _select_snapshot: the latest at or before the decision; the venues'     *)
(* snapshots are given as a function from Venues to sequences              *)
SelectSnapshot(snapshots, x, decision) ==
    LET eligible == {s \in ToSet(snapshots[x]) : s.decision <= decision}
    IN  {s \in eligible : \A t \in eligible : t.decision <= s.decision}

(* _align *)
Source(s) == s.lineage.newest
Age(s, decision) == Max({0, decision - Source(s)})

Align(b, o, decision) ==
    IF b = {} \/ o = {} THEN "UNAVAILABLE"
    ELSE LET pair == {Only(b), Only(o)}
             Unknown(s) == Source(s) = NoTime
             Stale(s) == ~Unknown(s) /\ Age(s, decision) > MaxSnapshotAge
             apart == /\ \A s \in pair : ~Unknown(s)
                      /\ Distance(Source(Only(b)), Source(Only(o))) > MaxTimeDifference
         IN  CASE Stale(Only(b)) /\ Stale(Only(o)) -> "UNAVAILABLE"
               [] Stale(Only(b)) /\ ~Stale(Only(o)) -> "STALE_BINANCE"
               [] ~Stale(Only(b)) /\ Stale(Only(o)) -> "STALE_OKX"
               [] OTHER -> IF apart \/ \E s \in pair : Unknown(s) \/ ~s.warm \/ ~s.healthy
                           THEN "DEGRADED" ELSE "ALIGNED"

(* _spread_zscore: the earlier decisions within the lookback at which both *)
(* venues had a mid price; a spread is the pair of mid prices              *)
SpreadHistory(snapshots, decision) ==
    LET Paired(b, o) == /\ b.decision = o.decision
                        /\ decision - ZscoreLookback < b.decision /\ b.decision < decision
                        /\ b.mid # {} /\ o.mid # {}
        Spread(b, o) == [decision |-> b.decision, spread |-> <<Only(b.mid), Only(o.mid)>>,
                         gens |-> <<b.gen, o.gen>>]
        pairs == ToSet(snapshots["BINANCE"]) \X ToSet(snapshots["OKX"])
    IN  {Spread(p[1], p[2]) : p \in {q \in pairs : Paired(q[1], q[2])}}

(* A z-score takes enough earlier spreads, not all the same. *)
SpreadReady(pairs) ==
    /\ Cardinality(pairs) >= MinimumSamples
    /\ \E p, q \in pairs : ~SameRatio(p.spread, q.spread)

(* calculate *)
Cross(snapshots, decision) ==
    LET b == SelectSnapshot(snapshots, "BINANCE", decision)
        o == SelectSnapshot(snapshots, "OKX", decision)
        status == Align(b, o, decision)
        spread == /\ status # "UNAVAILABLE"
                  /\ Only(b).mid # {} /\ Only(o).mid # {}
        pairs == IF spread THEN SpreadHistory(snapshots, decision) ELSE {}
    IN  [decision |-> decision, status |-> status, pairs |-> pairs,
         warm |-> /\ status # "UNAVAILABLE" /\ Only(b).warm /\ Only(o).warm
                  /\ SpreadReady(pairs),
         healthy |-> status = "ALIGNED" /\ Only(b).healthy /\ Only(o).healthy]
=============================================================================
