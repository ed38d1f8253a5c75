----------------------------- MODULE Compaction -----------------------------
(***************************************************************************)
(* compact_raw_tree (storage/compact.py) on the tree a collection left, or *)
(* on a legacy tree that has neither journal nor manifest, into a new tree *)
(* beside it, with a crash between any two of its durable steps; and what  *)
(* replays of either tree read.                                            *)
(***************************************************************************)
EXTENDS Collection

CONSTANTS
    TargetRows,   \* target_rows
    LegacyFiles   \* the files of a legacy tree

ASSUME CompactionAssumption ==
    /\ TargetRows \in Nat \ {0}
    /\ IsFiniteSet(LegacyFiles)
    /\ \A f \in LegacyFiles : /\ f.kind = "raw" /\ IsFiniteSet(f.rows)
                              /\ f.rows \subseteq [kind : {"raw"}, at : Nat]

VARIABLES
    out,      \* durable: the output tree
    compact   \* the compaction: its step and the rows not yet copied

compactionVars == <<out, compact>>
vars == <<collectionVars, compactionVars>>

Init ==
    /\ CollectionInit
    /\ out = EmptyTree
    /\ compact = [pc |-> "none", todo |-> {}]

(* The tree was collected by a version that kept no journal and manifest.  *)
LegacyTree ==
    /\ main.pc = "new"
    /\ main' = [main EXCEPT !.pc = "legacy"]
    /\ files' = LegacyFiles
    /\ stats' = [accepted |-> RowCount(LegacyFiles), written |-> RowCount(LegacyFiles)]
    /\ UNCHANGED <<queue, write, worker, batch, closing, manifest, job, monitor, stop,
                   driver, counted, next, compactionVars>>

(* The source is validated, the output is empty; the sentinel comes first. *)
CompactBegins ==
    /\ compact.pc = "none"
    /\ Ended
    /\ CleanCollection(SourceTree) \/ (~Evidence(SourceTree) /\ RawAudit(SourceTree).ok)
    /\ out' = [out EXCEPT !.sentinel = TRUE]
    /\ compact' = [pc |-> "copy", todo |-> Rows(SourceTree)]
    /\ UNCHANGED collectionVars

(* _write_rows: the next rows of a partition, in path order; a partition's *)
(* last rows make a smaller file.                                          *)
CopyRows ==
    /\ compact.pc = "copy" /\ compact.todo # {}
    /\ \E kind \in {r.kind : r \in compact.todo} :
         LET left == {r \in compact.todo : r.kind = kind}
         IN  \E rows \in kSubset(Min({TargetRows, Cardinality(left)}), left) :
               /\ out' = [out EXCEPT !.files = @ \cup {[kind |-> kind, rows |-> rows]}]
               /\ compact' = [compact EXCEPT !.todo = @ \ rows]
    /\ UNCHANGED collectionVars

(* The output's audit, and preserve_clean_collection_manifest *)
PreserveManifest ==
    /\ compact.pc = "copy" /\ compact.todo = {}
    /\ RawAudit(out) = RawAudit(SourceTree)
    /\ out' = IF manifest = NoManifest THEN out ELSE [out EXCEPT !.manifest = manifest]
    /\ compact' = [compact EXCEPT !.pc = "unlink"]
    /\ UNCHANGED collectionVars

RemoveSentinel ==
    /\ compact.pc = "unlink"
    /\ out' = [out EXCEPT !.sentinel = FALSE]
    /\ compact' = [compact EXCEPT !.pc = "done"]
    /\ UNCHANGED collectionVars

CompactCrash ==
    /\ compact.pc \in {"copy", "unlink"}
    /\ compact' = [pc |-> "crashed", todo |-> {}]
    /\ UNCHANGED <<out, collectionVars>>

Next ==
    \/ CollectionNext /\ UNCHANGED compactionVars
    \/ LegacyTree
    \/ CompactBegins \/ CopyRows \/ PreserveManifest \/ RemoveSentinel \/ CompactCrash

Spec == Init /\ [][Next]_vars

----------------------------------------------------------------------------
(* Properties *)

(* A manifest says CLEAN_END only for a complete collection: the journal   *)
(* holds exactly the events the feature driver ingested, so none that was  *)
(* journaled and then refused (_record_event_transaction); one marker ends *)
(* it; every payload a producer was told is stored is in a file; and no    *)
(* producer is still at work, but for a snapshot request that a session    *)
(* started after the others were cancelled: disconnect() leaves it behind, *)
(* and it can store and publish nothing more (_shutdown_collection, run).  *)
CleanEndIsComplete ==
    manifest.terminal = "CLEAN_END" =>
        /\ {r.at : r \in RowsOf(SourceTree, "event")} = driver.accepted
        /\ RowsOf(SourceTree, "end") = {EndMarker}
        /\ Cardinality(Rows(SourceTree)) = stats.accepted
        /\ \A p \in Producers \ {"snapshot"} : Finished(p)

(* A replay that is not the explicit raw recovery reads a whole timeline   *)
(* or nothing: from a collection, live or compacted, the events the live   *)
(* driver ingested in receive order, up to the live end; from a compacted  *)
(* legacy tree what the legacy tree gives, whenever compaction was cut     *)
(* short (resolve_replay_source, compact_raw_tree).                        *)
ReplayIsExact ==
    \A tree \in {SourceTree, out}, mode \in Modes \ {"RAW"} :
        ReplaySource(tree, mode) # "REFUSED" /\ Replay(tree, mode).ok =>
            IF main.pc = "legacy" THEN Replay(tree, mode) = Replay(SourceTree, mode)
            ELSE /\ Replay(tree, mode).events = Sorted(driver.accepted, <)
                 /\ Replay(tree, mode).end = main.end

(* Work that does not depend on a fault, a timeout or new input: without   *)
(* WriteFileFails, PublishFails, DisconnectRaises, JoinTimeout and         *)
(* CancelTimeout, and with FinishFails only once the driver has failed.    *)
Progress ==
    \/ /\ \/ WorkerTakes \/ FlushIsDue \/ CloseSteps
          \/ \E part \in worker.todo : WriteFile(part)
          \/ \E t \in Tasks \cup {Closer} : PutterRuns(t)
       /\ UNCHANGED <<manifest, run>>
    \/ RunWakes \/ SessionsStop \/ Disconnected \/ ProducersJoin
    \/ FinishTicks \/ (driver.state = "failed" /\ FinishFails)
    \/ WriteMarker \/ CloseWriter \/ CloseServices \/ Verify
    \/ \E p \in Producers :
          \/ Submit(p) \/ Resume(p) \/ Cancelled(p) \/ (p # "snapshot" /\ Return(p))
          \/ PublishAccepted(p) \/ (driver.state # "open" /\ PublishRefused(p))

(* Once run() has been told to stop, or one of its tasks has ended, it     *)
(* never waits for something that will not happen: a full queue whose      *)
(* worker died, a stop marker that finds no room, a cancelled producer     *)
(* (_put_or_worker_failure, _close_lifecycle, _shutdown_collection).  All  *)
(* steps are bounded in number, so run() ends.                             *)
ShutdownNeverStuck ==
    (main.pc \in {"disconnect", "gather", "join", "join2", "finish", "marker",
                  "close", "release", "verify"} \/ (main.pc = "running" /\ stop))
        => ENABLED Progress
=============================================================================
