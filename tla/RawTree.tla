------------------------------ MODULE RawTree ------------------------------
(***************************************************************************)
(* A raw collection tree as the offline tools read it: its Parquet files,  *)
(* the collection manifest and the compaction sentinel.  A row is a record *)
(* [kind, at]: "raw" (a venue payload), "event" (a normalized event in the *)
(* journal) or "end" (the marker that ends the journal), with its receive  *)
(* time.  Rows of one kind share a partition; a row is its own identity.   *)
(***************************************************************************)
EXTENDS Integers, Sequences, SequencesExt, FiniteSets

NoManifest == [terminal |-> "NONE"]
InProgress == [terminal |-> "IN_PROGRESS"]
EmptyTree == [files |-> {}, manifest |-> NoManifest, sentinel |-> FALSE]

Rows(tree) == UNION {f.rows : f \in tree.files}
RowsOf(tree, kind) == {r \in Rows(tree) : r.kind = kind}

(* Rows counted file by file: a row in two files counts twice.             *)
RowCount(fs) == Cardinality(UNION {{f} \X f.rows : f \in fs})

(* audit_raw_tree: what does not depend on file boundaries or row order.   *)
(* The sum of row hashes stands for the set of rows.                       *)
RawAudit(tree) ==
    [ok |-> RowCount(tree.files) = Cardinality(Rows(tree)),
     rows |-> Rows(tree),
     partitions |-> {f.kind : f \in tree.files}]

(* audit_normalized_journal *)
JournalAudit(tree) ==
    LET events == RowsOf(tree, "event")
        ends == RowsOf(tree, "end")
    IN  [ok |-> Cardinality(ends) = 1 /\ \A e \in events, m \in ends : e.at <= m.at,
         count |-> Cardinality(events),
         end |-> IF Cardinality(ends) = 1 THEN (CHOOSE m \in ends : TRUE).at ELSE -1]

(* complete_collection_manifest *)
CleanEnd(tree, count, end) ==
    [terminal |-> "CLEAN_END", count |-> count, end |-> end, audit |-> RawAudit(tree)]

(* validate_clean_collection *)
CleanCollection(tree) ==
    /\ ~tree.sentinel
    /\ tree.manifest.terminal = "CLEAN_END"
    /\ RawAudit(tree).ok /\ tree.manifest.audit = RawAudit(tree)
    /\ LET journal == JournalAudit(tree)
       IN  /\ journal.ok /\ journal.count > 0
           /\ journal.count = tree.manifest.count
           /\ journal.end = tree.manifest.end

(* inspect_collection_evidence *)
Evidence_mutant(tree) ==
    \/ RowsOf(tree, "event") \cup RowsOf(tree, "end") # {}
    \/ tree.manifest # NoManifest

Evidence(tree) ==
    \/ RowsOf(tree, "event") \cup RowsOf(tree, "end") # {}
    \/ tree.manifest # NoManifest
    \/ tree.sentinel

----------------------------------------------------------------------------
(* Replay *)

Modes == {"AUTO", "RAW", "JOURNAL"}

(* resolve_replay_source *)
ReplaySource(tree, mode) ==
    IF mode = "RAW" \/ (mode = "AUTO" /\ ~Evidence(tree)) THEN "RAW"
    ELSE IF CleanCollection(tree) THEN "JOURNAL" ELSE "REFUSED"

(* run_replay: the journal alone, or everything but the journal *)
Selected(tree, source) ==
    {r \in Rows(tree) : (r.kind # "raw") <=> (source = "JOURNAL")}

(* stable_record_key: the marker follows everything, then receive time *)
RecordPrecedes(r, s) ==
    \/ r.kind # "end" /\ s.kind = "end"
    \/ (r.kind = "end") = (s.kind = "end") /\ r.at < s.at

(* The elements of a finite set, sorted. *)
Sorted(S, Precedes(_, _)) ==
    CHOOSE s \in [1..Cardinality(S) -> S] :
        \A i, j \in 1..Cardinality(S) : i < j => s[i] # s[j] /\ ~Precedes(s[j], s[i])

(* RawParquetReader.iter_records *)
IterRecords(tree, source) == Sorted(Selected(tree, source), RecordPrecedes)

Unread == [ok |-> TRUE, events |-> <<>>, end |-> -1, ends |-> 0]

(* ReplayRunner.run: one record *)
ReplayRecord(run, r) ==
    CASE ~run.ok -> run
      [] r.kind = "end" -> [run EXCEPT !.ends = @ + 1, !.end = r.at, !.ok = run.ends = 0]
      [] run.ends > 0 -> [run EXCEPT !.ok = FALSE]
      [] OTHER -> [run EXCEPT !.events = Append(@, r.at)]

(* ReplayRunner.run: the state after each record *)
ReplayRun(records) ==
    LET after[k \in 0..Len(records)] ==
            IF k = 0 THEN Unread ELSE ReplayRecord(after[k - 1], records[k])
    IN  after[Len(records)]

(* run_replay: what a replay of the tree hands to the feature driver, and  *)
(* the time it finishes the timeline with                                  *)
Replay(tree, mode) ==
    LET source == ReplaySource(tree, mode)
        run == ReplayRun(IterRecords(tree, source))
    IN  [run EXCEPT !.ok = /\ source # "REFUSED"
                           /\ @
                           /\ run.events # <<>>
                           /\ run.ends > 0 => Last(run.events) <= run.end
                           /\ source = "JOURNAL" => run.ends = 1]
=============================================================================
