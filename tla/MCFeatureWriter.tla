-------------------------- MODULE MCFeatureWriter --------------------------
(* Three ids in two partitions; the first has two contents.  The   *)
(* liveness run uses three snapshots of one partition.                     *)
EXTENDS FeatureWriter

MCSnapshots == {[id |-> "i", content |-> 1], [id |-> "i", content |-> 2],
                [id |-> "j", content |-> 1], [id |-> "k", content |-> 1]}
SmallSnapshots == [id : {"i", "j", "k"}, content : {1}]
MCPartition == [s \in MCSnapshots |-> IF s.id = "j" THEN 1 ELSE 2]
SmallPartition == [s \in SmallSnapshots |-> 1]
=============================================================================
