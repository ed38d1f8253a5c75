---------------------------- MODULE MCCompaction ----------------------------
(* Two messages, a legacy tree of three rows in two files.                 *)
EXTENDS Compaction

MCTasks == Producers \cup {Main}
Raw(at) == [kind |-> "raw", at |-> at]
MCLegacyFiles == {[kind |-> "raw", rows |-> {Raw(1), Raw(3)}],
                  [kind |-> "raw", rows |-> {Raw(2)}]}
=============================================================================
