----------------------------- MODULE RawWriter -----------------------------
(***************************************************************************)
(* AsyncPartitionedParquetWriter (storage/parquet.py): tasks enqueue raw   *)
(* records, a worker turns batches into one file per partition, close puts *)
(* a stop marker and joins the worker.  The module describes the writer's  *)
(* steps; what the writing tasks do with an answer is left to the module   *)
(* that extends it.                                                        *)
(***************************************************************************)
EXTENDS BoundedQueue, RawTree

CONSTANTS
    Tasks,          \* tasks that write
    QueueCapacity,  \* parquet_queue_capacity
    BatchRows       \* parquet_batch_rows

ASSUME RawWriterAssumption ==
    /\ QueueCapacity \in Nat \ {0}
    /\ BatchRows \in Nat \ {0}

VARIABLES
    files,    \* durable: the Parquet files, records [kind, rows]
    queue,    \* _queue
    write,    \* each task's write while it waits for room
    worker,   \* the worker's task
    batch,    \* its batch
    closing,  \* the close task
    stats     \* accepted_records and written_records

writerMemory == <<queue, write, worker, batch, closing, stats>>
writerVars == <<files, writerMemory>>

Closer == "close"
STOP == [kind |-> "stop", at |-> 0]
NoWrite == [pc |-> "none", rec |-> STOP]
Waiting(rec) == [pc |-> "waiting", rec |-> rec]
NoWorker == [phase |-> "off", todo |-> {}, stopping |-> FALSE]

WriterInit ==
    /\ files = {}
    /\ queue = EmptyQueue
    /\ write = [t \in Tasks \cup {Closer} |-> NoWrite]
    /\ worker = NoWorker /\ batch = <<>>
    /\ closing = "none"
    /\ stats = [accepted |-> 0, written |-> 0]

WorkerDone == worker.phase \in {"done", "failed"}

(* start *)
StartWriter ==
    /\ worker' = [NoWorker EXCEPT !.phase = "get"]
    /\ UNCHANGED <<files, queue, write, batch, closing, stats>>

----------------------------------------------------------------------------
(* write *)

Refuses == closing # "none" \/ worker.phase \in {"off", "failed"}

Accepted(n) == stats' = [stats EXCEPT !.accepted = @ + n]

(* There is room: put_nowait, and the write returns. *)
WriteNow(rec) ==
    /\ ~Refuses /\ ~Full(queue, QueueCapacity)
    /\ queue' = PutNowait(queue, rec)
    /\ Accepted(1)
    /\ UNCHANGED <<files, write, worker, batch, closing>>

(* There is none: the write waits for a putter or for the worker's end. *)
WriteWaits(t, rec) ==
    /\ ~Refuses /\ Full(queue, QueueCapacity)
    /\ queue' = StartPut(queue, t)
    /\ write' = [write EXCEPT ![t] = Waiting(rec)]
    /\ UNCHANGED <<files, worker, batch, closing, stats>>

PutterRuns(t) ==
    /\ t \in Runnable(queue)
    /\ queue' = RunPut(queue, t, write[t].rec, QueueCapacity)
    /\ write' = IF Full(queue, QueueCapacity) THEN write
                ELSE [write EXCEPT ![t].pc = "put"]
    /\ UNCHANGED <<files, worker, batch, closing, stats>>

WriteReturns(t) ==
    /\ write[t].pc = "put" /\ ~WorkerDone
    /\ write' = [write EXCEPT ![t] = NoWrite]
    /\ Accepted(1)
    /\ UNCHANGED <<files, queue, worker, batch, closing>>

(* The write gives up: a putter still waiting is cancelled; a record that  *)
(* is already in the queue counts as accepted.                             *)
Abandon_mutant(t) ==
    /\ write[t].pc \in {"waiting", "put"}
    /\ queue' = IF write[t].pc = "waiting" THEN CancelPut(queue, t, QueueCapacity) ELSE queue
    /\ write' = [write EXCEPT ![t] = NoWrite]
    /\ Accepted(0)
    /\ UNCHANGED <<files, worker, batch, closing>>

Abandon(t) ==
    /\ write[t].pc \in {"waiting", "put"}
    /\ queue' = IF write[t].pc = "waiting" THEN CancelPut(queue, t, QueueCapacity) ELSE queue
    /\ write' = [write EXCEPT ![t] = NoWrite]
    /\ Accepted(IF write[t].pc = "put" THEN 1 ELSE 0)
    /\ UNCHANGED <<files, worker, batch, closing>>

WriteRaises_mutant(t) == WorkerDone /\ write[t].pc = "put" /\ Abandon(t)

WriteRaises(t) == WorkerDone /\ Abandon(t)

WriteCancelled(t) == Abandon(t)

----------------------------------------------------------------------------
(* close *)

CloseBegins ==
    /\ closing = "none"
    /\ closing' = CASE worker.phase = "off" -> "ok"
                    [] worker.phase = "failed" -> "failed"
                    [] Full(queue, QueueCapacity) -> "stop"
                    [] OTHER -> "join"
    /\ queue' = CASE closing' = "join" -> PutNowait(queue, STOP)
                  [] closing' = "stop" -> StartPut(queue, Closer)
                  [] OTHER -> queue
    /\ write' = IF closing' = "stop" THEN [write EXCEPT ![Closer] = Waiting(STOP)] ELSE write
    /\ UNCHANGED <<files, worker, batch, stats>>

StopIsPut ==
    /\ closing = "stop"
    /\ write[Closer].pc = "put" /\ ~WorkerDone
    /\ write' = [write EXCEPT ![Closer] = NoWrite]
    /\ closing' = "join"
    /\ UNCHANGED <<files, queue, worker, batch, stats>>

StopIsNotPut ==
    /\ closing = "stop" /\ WorkerDone
    /\ queue' = IF write[Closer].pc = "waiting" THEN CancelPut(queue, Closer, QueueCapacity)
                ELSE queue
    /\ write' = [write EXCEPT ![Closer] = NoWrite]
    /\ closing' = IF worker.phase = "done" THEN "ok" ELSE "failed"
    /\ UNCHANGED <<files, worker, batch, stats>>

CloseJoins ==
    /\ closing = "join" /\ WorkerDone
    /\ closing' = IF worker.phase = "done" THEN "ok" ELSE "failed"
    /\ UNCHANGED <<files, queue, write, worker, batch, stats>>

----------------------------------------------------------------------------
(* _run: the worker *)

(* _flush of the records b: one file per partition, each in a thread. *)
Flushing(b, stopping) ==
    IF b = <<>> THEN [worker EXCEPT !.phase = IF stopping THEN "done" ELSE "get"]
    ELSE [phase |-> "flush", todo |-> {r.kind : r \in ToSet(b)}, stopping |-> stopping]

BatchIsFull(b) == Len(b) >= BatchRows

WorkerTakes ==
    /\ worker.phase = "get" /\ queue.items # <<>>
    /\ LET item == Head(queue.items)
           grown == Append(batch, item)
       IN  IF item = STOP
           THEN worker' = Flushing(batch, TRUE) /\ UNCHANGED batch
           ELSE /\ batch' = grown
                /\ worker' = IF BatchIsFull(grown) THEN Flushing(grown, FALSE) ELSE worker
    /\ queue' = Get(queue)
    /\ UNCHANGED <<files, write, closing, stats>>

FlushIsDue ==
    /\ worker.phase = "get" /\ batch # <<>>
    /\ worker' = Flushing(batch, FALSE)
    /\ UNCHANGED <<files, queue, write, batch, closing, stats>>

PartitionRows(part) == {r \in ToSet(batch) : r.kind = part}

(* _write_partition_file: a temporary file replaces a new name. *)
NewFile(part) == files \cup {[kind |-> part, rows |-> PartitionRows(part)]}

WriteFile(part) ==
    /\ worker.phase = "flush" /\ part \in worker.todo
    /\ files' = NewFile(part)
    /\ stats' = [stats EXCEPT !.written = @ + Cardinality(PartitionRows(part))]
    /\ LET left == worker.todo \ {part}
       IN  IF left # {} THEN worker' = [worker EXCEPT !.todo = left] /\ UNCHANGED batch
           ELSE /\ batch' = <<>>
                /\ worker' = [worker EXCEPT !.todo = {},
                                            !.phase = IF worker.stopping THEN "done" ELSE "get"]
    /\ UNCHANGED <<queue, write, closing>>

WriteFileFails ==
    /\ worker.phase = "flush"
    /\ worker' = [worker EXCEPT !.phase = "failed"]
    /\ UNCHANGED <<files, queue, write, batch, closing, stats>>

WorkerSteps ==
    \/ WorkerTakes \/ FlushIsDue \/ WriteFileFails
    \/ \E part \in worker.todo : WriteFile(part)

CloseSteps == StopIsPut \/ StopIsNotPut \/ CloseJoins

(* Records of the batch that no file holds yet. *)
Unwritten ==
    IF worker.phase \in {"flush", "failed"}
    THEN {r \in ToSet(batch) : r.kind \in worker.todo}
    ELSE ToSet(batch)

(* Every record a write reported as accepted is in the queue, in the batch *)
(* or in a file, and nothing else is: a write that is cancelled, or whose  *)
(* worker dies, at the moment its putter succeeds is counted exactly when  *)
(* its record is going to be written (_put_or_worker_failure, write).      *)
RawRecordsAccounted ==
    /\ stats.accepted + Cardinality({t \in Tasks : write[t].pc = "put"})
         = Cardinality(ToSet(queue.items) \ {STOP}) + Cardinality(Unwritten) + stats.written
    /\ stats.written = RowCount(files)
=============================================================================
