--------------------------- MODULE MCFeatureDriver ---------------------------
(* The instance of FeatureDriver for TLC.  Two events share a timestamp    *)
(* that is a feature and a signal boundary, and one lies on a feature       *)
(* boundary alone; the reorder window (4) spans four of the five events, so *)
(* they are accepted in almost any order and a heap of 3 overflows; the     *)
(* bus queue of 2 exerts backpressure.                                      *)
EXTENDS FeatureDriver

MCEvents == 1..5
MCTs == <<4, 6, 6, 7, 9>>
MCKey == <<1, 2, 1, 1, 1>>
MCClockTimes == 1..9
==============================================================================
