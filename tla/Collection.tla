----------------------------- MODULE Collection -----------------------------
(***************************************************************************)
(* MarketDataCollector (collector.py): four producers (a connector's       *)
(* WebSocket session, its REST poller, the request for a depth snapshot    *)
(* that the session starts, and the collector's status loop) write raw     *)
(* records and hand normalized events to the journal and then to the       *)
(* feature driver; run() starts everything, waits, shuts down in a fixed   *)
(* order and promotes the manifest to CLEAN_END if everything reconciles.  *)
(* An event is named by its receive time.                                  *)
(*                                                                         *)
(* Of the driver only what the collector sees is kept: it accepts, refuses *)
(* (an event behind the watermark), fails for good, or is sealed.          *)
(***************************************************************************)
EXTENDS RawWriter

CONSTANTS
    MaxEvents   \* bound: messages received in a run

Producers == {"session", "poller", "snapshot", "status"}
Main == "main"

ASSUME CollectionAssumption == Tasks = Producers \cup {Main} /\ MaxEvents \in Nat

VARIABLES
    manifest,  \* durable: _collection_manifest.json
    main,      \* run() and its shutdown task
    job,       \* the producers' tasks
    monitor,   \* connector.wait(): the gather over session and poller
    stop,      \* stop_event
    driver,    \* the feature driver: state and accepted events
    counted,   \* _event_counts
    next       \* the clock: the next receive time

run == <<main, job, monitor, stop, driver, counted, next>>
collectionVars == <<writerVars, manifest, run>>

Idle == [pc |-> "idle", at |-> 0, cancel |-> FALSE]
Off == [Idle EXCEPT !.pc = "off"]
Finished(p) == job[p].pc \in {"off", "returned", "raised", "cancelled"}
Ended == main.pc \in {"clean", "failed", "crashed", "legacy"}
SourceTree == [files |-> files, manifest |-> manifest, sentinel |-> FALSE]

CollectionInit ==
    /\ WriterInit
    /\ manifest = NoManifest
    /\ main = [pc |-> "new", err |-> FALSE, end |-> -1]
    /\ job = [p \in Producers |-> Off]
    /\ monitor = "none"
    /\ stop = FALSE
    /\ driver = [state |-> "open", accepted |-> {}]
    /\ counted = 0
    /\ next = 1

----------------------------------------------------------------------------
(* Producers *)

(* What the gather of connector.wait() makes of a task of the connector    *)
(* that ends: the first error or cancellation is its outcome.              *)
MonitorAfter(p, pc) ==
    LET other == CHOOSE q \in {"session", "poller"} : q # p
    IN  IF monitor # "watching" \/ p \notin {"session", "poller"} THEN monitor
        ELSE CASE pc = "raised" -> "error"
               [] pc = "cancelled" -> "cancelled"
               [] pc = "returned" /\ job[other].pc = "returned" -> "returned"
               [] OTHER -> monitor

(* A snapshot request ends with its one answer, and nobody looks how.      *)
Goto(p, pc) ==
    /\ LET more == pc \in {"journal", "publish"}
       IN  job' = [job EXCEPT ![p] = [pc |-> IF p = "snapshot" /\ ~more THEN "off" ELSE pc,
                                      at |-> IF more THEN job[p].at ELSE 0,
                                      cancel |-> more /\ job[p].cancel]]
    /\ monitor' = MonitorAfter(p, pc)

(* The end of one message: a cancellation absorbed meanwhile takes effect. *)
EndMessage(p) == Goto(p, IF job[p].cancel THEN "cancelled" ELSE "idle")

StopSeen(p) ==
    CASE p = "status" -> stop
      [] p = "snapshot" -> FALSE
      [] OTHER -> main.pc \notin {"running", "connecting"}

Receive(p) ==
    /\ job[p].pc = "idle" /\ ~job[p].cancel /\ ~StopSeen(p)
    /\ next <= MaxEvents
    /\ job' = [job EXCEPT ![p] = [@ EXCEPT !.pc = IF p = "status" THEN "journal" ELSE "raw",
                                           !.at = next]]
    /\ next' = next + 1
    /\ UNCHANGED <<writerVars, manifest, main, monitor, stop, driver, counted>>

Record(p) == [kind |-> IF job[p].pc = "raw" THEN "raw" ELSE "event", at |-> job[p].at]

(* _schedule_depth_snapshot, for a diff that the book cannot place: a      *)
(* request, unless one is under way; then the diff goes to the journal.    *)
ScheduleSnapshot ==
    /\ Finished("snapshot")
    /\ job' = [job EXCEPT !["session"].pc = "journal", !["snapshot"] = Idle]
    /\ UNCHANGED monitor

(* A payload that is stored may hold an event or none (a control message,  *)
(* a duplicate); a journaled event goes to the driver.                     *)
Stored(p) ==
    \/ job[p].pc = "raw" /\ (Goto(p, "journal") \/ EndMessage(p))
    \/ job[p].pc = "journal" /\ Goto(p, "publish")
    \/ job[p].pc = "raw" /\ p = "session" /\ ScheduleSnapshot

Writing(p) == job[p].pc \in {"raw", "journal"}
Interrupted(p) == job[p].cancel /\ job[p].pc = "raw"

Submit(p) ==
    /\ Writing(p) /\ ~Interrupted(p) /\ write[p] = NoWrite
    /\ \/ WriteNow(Record(p)) /\ Stored(p)
       \/ WriteWaits(p, Record(p)) /\ UNCHANGED <<job, monitor>>
       \/ Refuses /\ Goto(p, "raised") /\ UNCHANGED writerVars
    /\ UNCHANGED <<manifest, main, stop, driver, counted, next>>

Resume(p) ==
    /\ Writing(p) /\ ~Interrupted(p)
    /\ \/ WriteReturns(p) /\ Stored(p)
       \/ WriteRaises(p) /\ Goto(p, "raised")
    /\ UNCHANGED <<manifest, main, stop, driver, counted, next>>

(* A transaction (journal, then publish) finishes before a cancellation is *)
(* delivered; a raw write does not.                                        *)
Cancelled(p) ==
    /\ job[p].cancel /\ job[p].pc \in {"idle", "raw"}
    /\ IF write[p] = NoWrite THEN UNCHANGED writerVars ELSE WriteCancelled(p)
    /\ Goto(p, "cancelled")
    /\ UNCHANGED <<manifest, main, stop, driver, counted, next>>

(* driver.publish, then the count *)
PublishAccepted(p) ==
    /\ job[p].pc = "publish" /\ driver.state = "open"
    /\ driver' = [driver EXCEPT !.accepted = @ \cup {job[p].at}]
    /\ counted' = counted + 1
    /\ EndMessage(p)
    /\ UNCHANGED <<writerVars, manifest, main, stop, next>>

(* Refused: behind the watermark, after the seal, or after a failure.      *)
PublishRefused(p) ==
    /\ job[p].pc = "publish"
    /\ Goto(p, "raised")
    /\ UNCHANGED <<writerVars, manifest, main, stop, driver, counted, next>>

(* The transition fails and latches; the poller's loop and the snapshot    *)
(* request swallow a ValueError of it as a failed request.                 *)
PublishFails(p) ==
    /\ job[p].pc = "publish" /\ driver.state = "open"
    /\ driver' = [driver EXCEPT !.state = "failed"]
    /\ Goto(p, "raised") \/ (p \in {"poller", "snapshot"} /\ EndMessage(p))
    /\ UNCHANGED <<writerVars, manifest, main, stop, counted, next>>

(* The stop has been seen, or the snapshot request fails. *)
Return(p) ==
    /\ job[p].pc = "idle" /\ ~job[p].cancel /\ (StopSeen(p) \/ p = "snapshot")
    /\ Goto(p, "returned")
    /\ UNCHANGED <<writerVars, manifest, main, stop, driver, counted, next>>

ProducerSteps(p) ==
    \/ Submit(p) \/ Resume(p) \/ Cancelled(p) \/ Return(p)
    \/ PublishAccepted(p) \/ PublishRefused(p) \/ PublishFails(p)

(* Steps of the writer's own tasks. *)
WriterStep ==
    /\ WorkerSteps \/ CloseSteps \/ \E t \in Tasks \cup {Closer} : PutterRuns(t)
    /\ UNCHANGED <<manifest, run>>

----------------------------------------------------------------------------
(* run() *)

MainTo(pc) == main' = [main EXCEPT !.pc = pc]
MainErr(pc, err) == main' = [main EXCEPT !.pc = pc, !.err = @ \/ err]

(* begin_collection_manifest: the exclusive claim of an empty output *)
BeginManifest ==
    /\ main.pc = "new"
    /\ manifest' = InProgress
    /\ MainTo("starting")
    /\ UNCHANGED <<writerVars, job, monitor, stop, driver, counted, next>>

(* The bus, the writer and the feature runtime start, or everything is     *)
(* closed again.                                                           *)
StartServices ==
    /\ main.pc = "starting"
    /\ \/ StartWriter /\ MainTo("connecting")
       \/ closing' = "ok" /\ MainTo("failed") /\ UNCHANGED <<files, queue, write, worker, batch, stats>>
    /\ UNCHANGED <<manifest, job, monitor, stop, driver, counted, next>>

ConnectorsConnect ==
    /\ main.pc = "connecting"
    /\ MainTo("running")
    /\ job' = [p \in Producers |-> IF p = "snapshot" THEN Off ELSE Idle]
    /\ monitor' = "watching"
    /\ UNCHANGED <<writerVars, manifest, stop, driver, counted, next>>

(* One connector fails to connect; the tasks of another may be running.    *)
ConnectFails ==
    /\ main.pc = "connecting"
    /\ MainErr("disconnect", TRUE)
    /\ \E others \in {Off, Idle} :
           job' = [p \in Producers |-> IF p \in {"snapshot", "status"} THEN Off ELSE others]
    /\ stop' = TRUE
    /\ UNCHANGED <<writerVars, manifest, monitor, driver, counted, next>>

(* A signal, or the end of the requested duration. *)
StopRequested ==
    /\ main.pc = "running" /\ ~stop
    /\ stop' = TRUE
    /\ UNCHANGED <<writerVars, manifest, main, job, monitor, driver, counted, next>>

(* The first task ends; without a stop request that is an error. *)
RunWakes ==
    /\ main.pc = "running"
    /\ stop \/ monitor # "watching" \/ Finished("status")
    /\ MainErr("disconnect", ~stop)
    /\ stop' = TRUE
    /\ UNCHANGED <<writerVars, manifest, job, monitor, driver, counted, next>>

(* The task of run() is cancelled; a shutdown under way finishes first,    *)
(* and the cancellation is raised when it is over.                         *)
RunCancelled ==
    /\ \/ main.pc = "running" /\ MainErr("disconnect", TRUE) /\ stop' = TRUE
       \/ main.pc = "verify" /\ MainTo("failed") /\ UNCHANGED stop
    /\ UNCHANGED <<writerVars, manifest, job, monitor, driver, counted, next>>

----------------------------------------------------------------------------
(* _shutdown_collection *)

CancelTask(p) ==
    [job[p] EXCEPT !.cancel = ~Finished(p)]

(* disconnect(): the sessions stop, then the pollers and the snapshot      *)
(* requests are cancelled.                                                 *)
SessionsStop ==
    /\ main.pc = "disconnect"
    /\ MainTo("gather")
    /\ job' = [job EXCEPT !["poller"] = CancelTask("poller"),
                          !["snapshot"] = CancelTask("snapshot")]
    /\ UNCHANGED <<writerVars, manifest, monitor, stop, driver, counted, next>>

(* Storing the end of the session fails: disconnect() raises half-way.     *)
DisconnectRaises ==
    /\ main.pc = "disconnect" /\ Refuses
    /\ MainErr("join", TRUE)
    /\ UNCHANGED <<writerVars, manifest, job, monitor, stop, driver, counted, next>>

(* gather(..., return_exceptions=True); a request that a session starts    *)
(* meanwhile is not among the gathered, and left behind.                   *)
Disconnected ==
    /\ main.pc = "gather"
    /\ Finished("session") /\ Finished("poller")
    /\ Finished("snapshot") \/ ~job["snapshot"].cancel
    /\ MainTo("join")
    /\ UNCHANGED <<writerVars, manifest, job, monitor, stop, driver, counted, next>>

Joined == monitor # "watching" /\ Finished("status")
ProducerErrors == monitor = "error" \/ job["status"].pc \in {"raised", "cancelled"}

ProducersJoin ==
    /\ main.pc \in {"join", "join2"} /\ Joined
    /\ MainErr("finish", ProducerErrors)
    /\ UNCHANGED <<writerVars, manifest, job, monitor, stop, driver, counted, next>>

(* Producers that do not end in time are cancelled, and then left behind.  *)
JoinTimeout ==
    /\ main.pc = "join" /\ ~Joined
    /\ MainErr("join2", TRUE)
    /\ job' = [p \in Producers |->
                  IF p = "status" \/ (p # "snapshot" /\ monitor = "watching")
                  THEN CancelTask(p) ELSE job[p]]
    /\ UNCHANGED <<writerVars, manifest, monitor, stop, driver, counted, next>>

CancelTimeout ==
    /\ main.pc = "join2" /\ ~Joined
    /\ MainErr("finish", ProducerErrors)
    /\ UNCHANGED <<writerVars, manifest, job, monitor, stop, driver, counted, next>>

(* _finish_feature_ticks: the end of the timeline is now; the marker is    *)
(* written only when nothing has gone wrong so far.                        *)
FinishTicks ==
    /\ main.pc = "finish" /\ driver.state = "open"
    /\ driver' = [driver EXCEPT !.state = "sealed"]
    /\ main' = [main EXCEPT !.end = next, !.pc = IF main.err THEN "close" ELSE "marker"]
    /\ UNCHANGED <<writerVars, manifest, job, monitor, stop, counted, next>>

FinishFails ==
    /\ main.pc = "finish"
    /\ driver' = [driver EXCEPT !.state = "failed"]
    /\ MainErr("close", TRUE)
    /\ UNCHANGED <<writerVars, manifest, job, monitor, stop, counted, next>>

EndMarker == [kind |-> "end", at |-> main.end]

WriteMarker ==
    /\ main.pc = "marker"
    /\ \/ write[Main] = NoWrite /\ WriteNow(EndMarker) /\ MainTo("close")
       \/ write[Main] = NoWrite /\ WriteWaits(Main, EndMarker) /\ UNCHANGED main
       \/ write[Main] = NoWrite /\ Refuses /\ MainErr("close", TRUE) /\ UNCHANGED writerVars
       \/ WriteReturns(Main) /\ MainTo("close")
       \/ WriteRaises(Main) /\ MainErr("close", TRUE)
    /\ UNCHANGED <<manifest, job, monitor, stop, driver, counted, next>>

CloseWriter ==
    /\ main.pc = "close"
    /\ \/ CloseBegins /\ UNCHANGED main
       \/ closing = "ok" /\ MainTo("release") /\ UNCHANGED writerVars
       \/ closing = "failed" /\ MainErr("release", TRUE) /\ UNCHANGED writerVars
    /\ UNCHANGED <<manifest, job, monitor, stop, driver, counted, next>>

(* The bus and the feature runtime close: turns of the loop in which every *)
(* write that the end of the writer's worker woke has given up.            *)
CloseServices ==
    /\ main.pc = "release"
    /\ \A p \in Producers : write[p] = NoWrite
    /\ \E failed \in BOOLEAN : MainErr("verify", failed)
    /\ UNCHANGED <<writerVars, manifest, job, monitor, stop, driver, counted, next>>

(* _validate_success_invariants *)
SuccessInvariants ==
    /\ stats.accepted = stats.written /\ queue.items = <<>> /\ worker.phase # "failed"
    /\ counted = Cardinality(driver.accepted)

(* The audits after it, and complete_collection_manifest *)
JournalReconciles_mutant == RawAudit(SourceTree).ok /\ JournalAudit(SourceTree).ok

JournalReconciles ==
    /\ RawAudit(SourceTree).ok
    /\ LET journal == JournalAudit(SourceTree)
       IN  journal.ok /\ journal.count = counted /\ journal.end = main.end

Verify ==
    /\ main.pc = "verify"
    /\ IF ~main.err /\ SuccessInvariants /\ JournalReconciles
       THEN MainTo("clean") /\ manifest' = CleanEnd(SourceTree, counted, main.end)
       ELSE MainTo("failed") /\ UNCHANGED manifest
    /\ UNCHANGED <<writerVars, job, monitor, stop, driver, counted, next>>

ShutdownSteps ==
    \/ SessionsStop \/ DisconnectRaises \/ Disconnected
    \/ ProducersJoin \/ JoinTimeout \/ CancelTimeout
    \/ FinishTicks \/ FinishFails \/ WriteMarker \/ CloseWriter \/ CloseServices \/ Verify

(* The process stops: only the files and the manifest remain.              *)
Crash ==
    /\ main.pc # "new" /\ ~Ended
    /\ main' = [pc |-> "crashed", err |-> FALSE, end |-> -1]
    /\ queue' = EmptyQueue /\ batch' = <<>>
    /\ write' = [t \in Tasks \cup {Closer} |-> NoWrite]
    /\ worker' = NoWorker /\ closing' = "none"
    /\ stats' = [accepted |-> RowCount(files), written |-> RowCount(files)]
    /\ job' = [p \in Producers |-> Off] /\ monitor' = "none" /\ stop' = TRUE
    /\ driver' = [state |-> "open", accepted |-> {}] /\ counted' = 0 /\ next' = MaxEvents + 1
    /\ UNCHANGED <<files, manifest>>

CollectionNext ==
    \/ BeginManifest \/ StartServices \/ ConnectorsConnect \/ ConnectFails
    \/ StopRequested \/ RunWakes \/ RunCancelled \/ ShutdownSteps \/ Crash
    \/ WriterStep
    \/ \E p \in Producers : Receive(p) \/ ProducerSteps(p)
=============================================================================
