--------------------------- MODULE FeatureWriter ---------------------------
(***************************************************************************)
(* AsyncFeatureParquetWriter (storage/features.py) on one feature root:    *)
(* callers reserve a snapshot id in the index and enqueue the snapshot, a  *)
(* worker turns batches into Parquet files and commits the reservations,   *)
(* close stops the worker.  Parquet is the truth that survives a crash;    *)
(* the index is rebuilt from it whenever a writer starts.                  *)
(*                                                                         *)
(* The write lock is held from reservation to enqueue or rollback, and by  *)
(* close, so at most one put ever waits for room in the queue.  Writers of *)
(* other processes use the same root under the same exclusive claim.       *)
(***************************************************************************)
EXTENDS Integers, Sequences, SequencesExt, FiniteSets

CONSTANTS
    Snapshots,     \* feature snapshots: records [id, content]
    Partition,     \* Partition[s]: rank of the snapshot's partition directory
    Callers,       \* tasks that write
    QueueCapacity, \* feature_parquet_queue_capacity
    BatchRows,     \* feature_parquet_batch_rows
    CacheCapacity  \* feature_deduplication_capacity

ASSUME WriterAssumption ==
    /\ \A s \in Snapshots : {"id", "content"} \subseteq DOMAIN s
    /\ Partition \in [Snapshots -> Nat]
    /\ QueueCapacity \in Nat \ {0}
    /\ BatchRows \in Nat \ {0}
    /\ CacheCapacity \in Nat \ {0}
    /\ Callers \cap {"free", "close"} = {}

VARIABLES
    files,    \* durable: the Parquet files, each a set of rows
    claim,    \* owner of the root claim: "free", "mine" or "other"
    life,     \* "new", "starting", "running" or "closed"
    index,    \* rows of the SQLite index
    cache,    \* the hot deduplication cache, oldest first
    queue,    \* _queue
    lock,     \* holder of the write lock
    caller,   \* each caller's write
    worker,   \* the worker's task
    batch,    \* its batch
    close,    \* the close task
    acked,    \* history: snapshots reported ACCEPTED or DEDUPLICATED
    counts    \* the accepted and written statistics

durable == <<files, claim>>
memory == <<index, cache, queue>>
tasks == <<lock, caller, worker, batch, close>>
vars == <<durable, life, memory, tasks, acked, counts>>

Free == "free"
Closer == "close"
STOP == [id |-> "stop"]
NoSnapshot == [id |-> "none"]
Rows == UNION files
Pending(s) == [snap |-> s, state |-> "PENDING"]
Committed(s) == [snap |-> s, state |-> "COMMITTED"]
WorkerDone == worker.phase \in {"done", "failed"}
HasRoom_mutant == Len(queue) <= QueueCapacity
HasRoom == Len(queue) < QueueCapacity

IdleCaller == [pc |-> "idle", snap |-> NoSnapshot]
NoWorker == [phase |-> "none", todo |-> {}, stopping |-> FALSE]
NotClosing == [pc |-> "none", ok |-> FALSE]

Init ==
    /\ files = {} /\ claim = Free
    /\ life = "new"
    /\ index = {} /\ cache = <<>> /\ queue = <<>>
    /\ lock = Free
    /\ caller = [c \in Callers |-> IdleCaller]
    /\ worker = NoWorker /\ batch = <<>>
    /\ close = NotClosing
    /\ acked = {}
    /\ counts = [accepted |-> 0, written |-> 0]

----------------------------------------------------------------------------
(* start *)

(* Up to the rebuild, which runs in a thread under the claim. *)
Start ==
    /\ life = "new" /\ close.pc = "none"
    /\ claim = Free
    /\ claim' = "mine"
    /\ life' = "starting"
    /\ UNCHANGED <<files, memory, tasks, acked, counts>>

RebuiltIndex_mutant == {}

(* _rebuild_feature_index *)
RebuiltIndex == {Committed(s) : s \in Rows}

(* The rebuild refuses a tree in which an id occurs twice. *)
OneRowPerId ==
    \A f, g \in files : \A r \in f, q \in g : r.id = q.id => f = g /\ r = q

Started ==
    /\ life = "starting" /\ close.pc = "none"
    /\ OneRowPerId
    /\ life' = "running"
    /\ index' = RebuiltIndex
    /\ worker' = [NoWorker EXCEPT !.phase = "idle"]
    /\ UNCHANGED <<durable, cache, queue, lock, caller, batch, close, acked, counts>>

(* An error, the caller's cancellation, or a close that began meanwhile. *)
StartFails ==
    /\ life = "starting"
    /\ life' = "new"
    /\ claim' = Free
    /\ UNCHANGED <<files, memory, tasks, acked, counts>>

----------------------------------------------------------------------------
(* write *)

Remembered(s) ==
    LET others == RemoveFirstMatch(cache, LAMBDA r : r.id = s.id)
        longer == Append(others, s)
    IN  IF Len(longer) > CacheCapacity THEN Tail(longer) ELSE longer

Known_mutant(s) == {cache[i] : i \in {j \in DOMAIN cache : cache[j].id = s.id}}

(* The identity known for the id of s: the cache's, else the index's. *)
Known(s) ==
    LET hot == {cache[i] : i \in {j \in DOMAIN cache : cache[j].id = s.id}}
    IN  IF hot # {} THEN hot ELSE {r.snap : r \in {q \in index : q.snap.id = s.id}}

(* _rollback_reservation *)
RolledBack_mutant(s) ==
    /\ index' = index \ {r \in index : r.snap.id = s.id /\ r.state = "PENDING"}
    /\ UNCHANGED cache

RolledBack(s) ==
    /\ index' = index \ {r \in index : r.snap.id = s.id /\ r.state = "PENDING"}
    /\ cache' = RemoveFirst(cache, s)

(* The caller passes the checks before the lock. *)
Write(c, s) ==
    /\ life = "running" /\ close.pc = "none"
    /\ caller[c].pc = "idle"
    /\ caller' = [caller EXCEPT ![c] = [pc |-> "locking", snap |-> s]]
    /\ UNCHANGED <<durable, life, memory, lock, worker, batch, close, acked, counts>>

CanEnter(c) == caller[c].pc = "locking" /\ lock = Free

Returns(c) == caller' = [caller EXCEPT ![c] = IdleCaller]

(* Under the lock: the checks again, and content that differs from what    *)
(* the id is known for, raise.                                             *)
Refused(c) ==
    /\ CanEnter(c)
    /\ \/ close.pc # "none" \/ worker.phase = "failed"
       \/ \E r \in Known(caller[c].snap) : r # caller[c].snap
    /\ Returns(c)
    /\ UNCHANGED <<durable, life, memory, lock, worker, batch, close, acked, counts>>

MayWrite(c) == CanEnter(c) /\ close.pc = "none" /\ worker.phase # "failed"

Deduplicated(c) ==
    /\ MayWrite(c)
    /\ Known(caller[c].snap) = {caller[c].snap}
    /\ cache' = Remembered(caller[c].snap)
    /\ acked' = acked \cup {caller[c].snap}
    /\ Returns(c)
    /\ UNCHANGED <<durable, life, index, queue, lock, worker, batch, close, counts>>

(* _reserve, and the snapshot is enqueued at once. *)
Accepted(c) ==
    LET s == caller[c].snap
    IN  /\ MayWrite(c) /\ Known(s) = {}
        /\ HasRoom
        /\ index' = index \cup {Pending(s)}
        /\ cache' = Remembered(s)
        /\ queue' = Append(queue, s)
        /\ acked' = acked \cup {s}
        /\ counts' = [counts EXCEPT !.accepted = @ + 1]
        /\ Returns(c)
        /\ UNCHANGED <<durable, life, lock, worker, batch, close>>

(* _reserve, and the queue is full; the backpressure callback may raise,   *)
(* which undoes the reservation (and may have evicted another id).         *)
Blocked(c) ==
    LET s == caller[c].snap
    IN  /\ MayWrite(c) /\ Known(s) = {}
        /\ ~HasRoom
        /\ \/ /\ index' = index \cup {Pending(s)}
              /\ cache' = Remembered(s)
              /\ caller' = [caller EXCEPT ![c].pc = "putting"]
              /\ lock' = c
           \/ /\ cache' = RemoveFirst(Remembered(s), s)
              /\ Returns(c)
              /\ UNCHANGED <<index, lock>>
        /\ UNCHANGED <<durable, life, queue, worker, batch, close, acked, counts>>

(* The putter's task finds room. *)
PutRuns(c) ==
    /\ caller[c].pc = "putting" /\ HasRoom
    /\ queue' = Append(queue, caller[c].snap)
    /\ caller' = [caller EXCEPT ![c].pc = "put"]
    /\ UNCHANGED <<durable, life, index, cache, lock, worker, batch, close, acked, counts>>

Unlocks(c) == lock' = (IF lock = c THEN Free ELSE lock)

(* The caller resumes, enqueued; an error is raised if the worker ended.   *)
WriteResumes(c) ==
    /\ caller[c].pc = "put"
    /\ acked' = IF WorkerDone THEN acked ELSE acked \cup {caller[c].snap}
    /\ counts' = [counts EXCEPT !.accepted = @ + 1]
    /\ Returns(c) /\ Unlocks(c)
    /\ UNCHANGED <<durable, life, memory, worker, batch, close>>

WorkerGone_mutant(c) ==
    /\ caller[c].pc = "putting" /\ worker.phase = "done"
    /\ RolledBack(caller[c].snap)
    /\ Returns(c) /\ Unlocks(c)
    /\ UNCHANGED <<durable, life, queue, worker, batch, close, acked, counts>>

(* The worker ends while the put still waits. *)
WorkerGone(c) ==
    /\ caller[c].pc = "putting" /\ WorkerDone
    /\ RolledBack(caller[c].snap)
    /\ Returns(c) /\ Unlocks(c)
    /\ UNCHANGED <<durable, life, queue, worker, batch, close, acked, counts>>

(* The caller is cancelled.  A put that is already done counts. *)
WriteCancelled_mutant(c) ==
    /\ caller[c].pc \in {"locking", "putting", "put"}
    /\ IF caller[c].pc = "putting" THEN RolledBack(caller[c].snap)
       ELSE UNCHANGED <<index, cache>>
    /\ Returns(c) /\ Unlocks(c)
    /\ UNCHANGED <<durable, life, queue, worker, batch, close, acked, counts>>

WriteCancelled(c) ==
    /\ caller[c].pc \in {"locking", "putting", "put"}
    /\ IF caller[c].pc = "putting" THEN RolledBack(caller[c].snap)
       ELSE UNCHANGED <<index, cache>>
    /\ counts' = IF caller[c].pc = "put" THEN [counts EXCEPT !.accepted = @ + 1]
                 ELSE counts
    /\ Returns(c) /\ Unlocks(c)
    /\ UNCHANGED <<durable, life, queue, worker, batch, close, acked>>

----------------------------------------------------------------------------
(* The worker, _run and _flush *)

InBatch(b) == {b[i] : i \in DOMAIN b}

(* A flush of batch b begins, or has nothing to do. *)
Flushing(b, stopping) ==
    IF b = <<>>
    THEN [NoWorker EXCEPT !.phase = IF stopping THEN "done" ELSE "idle"]
    ELSE [phase |-> "flushing", todo |-> {Partition[s] : s \in InBatch(b)},
          stopping |-> stopping]

Take ==
    /\ worker.phase = "idle" /\ queue # <<>>
    /\ queue' = Tail(queue)
    /\ IF Head(queue) = STOP
       THEN batch' = batch /\ worker' = Flushing(batch, TRUE)
       ELSE /\ batch' = Append(batch, Head(queue))
            /\ worker' = IF Len(batch') >= BatchRows THEN Flushing(batch', FALSE)
                         ELSE worker
    /\ UNCHANGED <<durable, life, index, cache, lock, caller, close, acked, counts>>

(* The flush interval has passed. *)
FlushTimer ==
    /\ worker.phase = "idle" /\ batch # <<>>
    /\ worker' = Flushing(batch, FALSE)
    /\ UNCHANGED <<durable, life, memory, lock, caller, batch, close, acked, counts>>

(* The partitions are written in sorted order. *)
Current == CHOOSE p \in worker.todo : \A q \in worker.todo : p <= q
CurrentRows == {s \in InBatch(batch) : Partition[s] = Current}

(* _write_partition_file in its thread: the file appears atomically. *)
WriteFile ==
    /\ worker.phase = "flushing"
    /\ files' = files \cup {CurrentRows}
    /\ worker' = [worker EXCEPT !.phase = "written"]
    /\ UNCHANGED <<claim, life, memory, lock, caller, batch, close, acked, counts>>

Reserved == \A s \in CurrentRows : Pending(s) \in index

(* _mark_committed, the statistics, and the next partition or item. *)
Commit ==
    /\ worker.phase = "written" /\ Reserved
    /\ index' = (index \ {Pending(s) : s \in CurrentRows})
                \cup {Committed(s) : s \in CurrentRows}
    /\ counts' = [counts EXCEPT !.written = @ + Cardinality(CurrentRows)]
    /\ LET todo == worker.todo \ {Current}
       IN  IF todo # {}
           THEN /\ worker' = [worker EXCEPT !.phase = "flushing", !.todo = todo]
                /\ UNCHANGED batch
           ELSE /\ worker' = Flushing(<<>>, worker.stopping)
                /\ batch' = <<>>
    /\ UNCHANGED <<durable, life, cache, queue, lock, caller, close, acked>>

(* A file cannot be written, or a reservation not be committed: the worker *)
(* rolls back every pending reservation and ends.                          *)
WorkerFails ==
    /\ worker.phase \in {"flushing", "written"}
    /\ index' = {r \in index : r.state = "COMMITTED"}
    /\ worker' = [worker EXCEPT !.phase = "failed"]
    /\ UNCHANGED <<durable, life, cache, queue, lock, caller, batch, close, acked, counts>>

----------------------------------------------------------------------------
(* close and its shared task *)

CloseBegins ==
    /\ close.pc = "none" /\ life # "closed"
    /\ close' = [close EXCEPT !.pc = "scheduled"]
    /\ UNCHANGED <<durable, life, memory, lock, caller, worker, batch, acked, counts>>

(* The finally clauses: pending reservations go, with the whole index. *)
CloseFinishes(ok) ==
    /\ close' = [pc |-> "done", ok |-> ok]
    /\ life' = "closed"
    /\ index' = {}
    /\ claim' = IF claim = "mine" THEN Free ELSE claim
    /\ UNCHANGED <<files, cache, caller, worker, batch, acked, counts>>

(* Both locks are free: STOP is enqueued, or waits for room; a writer that *)
(* never started, or whose worker failed, is closed at once.               *)
CloseRuns ==
    /\ close.pc = "scheduled" /\ life # "starting" /\ lock = Free
    /\ \/ /\ worker.phase \in {"none", "failed"}
          /\ CloseFinishes(worker.phase = "none")
          /\ UNCHANGED <<queue, lock>>
       \/ /\ worker.phase \notin {"none", "failed"}
          /\ lock' = Closer
          /\ close' = [close EXCEPT !.pc = IF HasRoom THEN "joining" ELSE "stopping"]
          /\ queue' = IF HasRoom THEN Append(queue, STOP) ELSE queue
          /\ UNCHANGED <<durable, life, index, cache, caller, worker, batch, acked, counts>>

StopRuns ==
    /\ close.pc = "stopping" /\ HasRoom
    /\ queue' = Append(queue, STOP)
    /\ close' = [close EXCEPT !.pc = "joining"]
    /\ UNCHANGED <<durable, life, index, cache, lock, caller, worker, batch, acked, counts>>

(* The worker has ended, normally or not. *)
CloseEnds ==
    /\ close.pc \in {"stopping", "joining"} /\ WorkerDone
    /\ CloseFinishes(worker.phase = "done")
    /\ lock' = Free
    /\ UNCHANGED queue

----------------------------------------------------------------------------
(* The process dies, or makes a new writer after a close: the files remain *)
(* and the operating system frees the claim.                               *)

Fresh ==
    /\ life' = "new"
    /\ index' = {} /\ cache' = <<>> /\ queue' = <<>>
    /\ lock' = Free
    /\ caller' = [c \in Callers |-> IdleCaller]
    /\ worker' = NoWorker /\ batch' = <<>>
    /\ close' = NotClosing
    /\ acked' = {}
    /\ counts' = [accepted |-> 0, written |-> 0]
    /\ claim' = IF claim = "mine" THEN Free ELSE claim
    /\ UNCHANGED files

Crash == life \in {"starting", "running"} /\ Fresh

NewWriter ==
    /\ life = "closed"
    /\ \A c \in Callers : caller[c].pc = "idle"
    /\ Fresh

(* A writer in another process, by what this module says of one: under the *)
(* claim it adds rows whose ids are not in the tree yet.                   *)
OtherClaims ==
    /\ claim = Free
    /\ claim' = "other"
    /\ UNCHANGED <<files, life, memory, tasks, acked, counts>>

OtherWrites(s) ==
    /\ claim = "other"
    /\ \A r \in Rows : r.id # s.id
    /\ files' = files \cup {{s}}
    /\ UNCHANGED <<claim, life, memory, tasks, acked, counts>>

OtherReleases ==
    /\ claim = "other"
    /\ claim' = Free
    /\ UNCHANGED <<files, life, memory, tasks, acked, counts>>

----------------------------------------------------------------------------
StartStep == Started \/ StartFails

Entering(c) == Refused(c) \/ Deduplicated(c) \/ Accepted(c) \/ Blocked(c)

CallerStep(c) == Entering(c) \/ PutRuns(c) \/ WriteResumes(c) \/ WorkerGone(c)

WorkerStep == Take \/ FlushTimer \/ WriteFile \/ Commit \/ WorkerFails

CloseStep == CloseRuns \/ StopRuns \/ CloseEnds

Next ==
    \/ Start \/ StartStep
    \/ \E c \in Callers :
        (\E s \in Snapshots : Write(c, s)) \/ CallerStep(c) \/ WriteCancelled(c)
    \/ WorkerStep
    \/ CloseBegins \/ CloseStep
    \/ Crash \/ NewWriter
    \/ OtherClaims \/ (\E s \in Snapshots : OtherWrites(s)) \/ OtherReleases

Spec == Init /\ [][Next]_vars

(* Every task that is ready runs, threads finish, and the write lock is    *)
(* granted in the order it was asked for.                                  *)
Fairness ==
    /\ WF_vars(StartStep)
    /\ \A c \in Callers : SF_vars(Entering(c))
    /\ \A c \in Callers : WF_vars(CallerStep(c))
    /\ WF_vars(WorkerStep)
    /\ SF_vars(CloseRuns) /\ WF_vars(CloseStep)

FairSpec == Spec /\ Fairness

----------------------------------------------------------------------------
(* Types, with the bounds of the queue, the batch and the hot cache. *)
TypeOK ==
    /\ files \subseteq SUBSET Snapshots
    /\ claim \in {Free, "mine", "other"}
    /\ life \in {"new", "starting", "running", "closed"}
    /\ index \subseteq [snap : Snapshots, state : {"PENDING", "COMMITTED"}]
    /\ cache \in Seq(Snapshots) /\ Len(cache) <= CacheCapacity
    /\ queue \in Seq(Snapshots \cup {STOP}) /\ Len(queue) <= QueueCapacity
    /\ batch \in Seq(Snapshots) /\ Len(batch) <= BatchRows
    /\ lock \in Callers \cup {Free, Closer}
    /\ caller \in [Callers -> [pc : {"idle", "locking", "putting", "put"},
                               snap : Snapshots \cup {NoSnapshot}]]
    /\ worker \in [phase : {"none", "idle", "flushing", "written", "done", "failed"},
                   todo : SUBSET Nat, stopping : BOOLEAN]
    /\ close \in [pc : {"none", "scheduled", "stopping", "joining", "done"}, ok : BOOLEAN]
    /\ acked \subseteq Snapshots
    /\ counts \in [accepted : Nat, written : Nat]

(* OneRowPerId above is the promise of the feature tree: no snapshot id is *)
(* ever persisted twice, across crashes between a file and its commit,     *)
(* cancelled and failed writes, cache evictions, restarts and other        *)
(* writers of the root.                                                    *)

(* A clean close has made every acknowledged snapshot durable, those       *)
(* acknowledged as duplicates of a write that was still pending included.  *)
CleanCloseIsDurable == close.ok => acked \subseteq Rows

(* feature_persistence.md: "the same ID with different content fails       *)
(* closed after cache eviction and across writer restarts."  What is       *)
(* acknowledged never contradicts the tree or another acknowledgement of   *)
(* this writer.                                                            *)
AcksAreConsistent ==
    claim = "mine" => \A s \in acked : \A r \in acked \cup Rows : r.id = s.id => r = s

(* After a clean close with every write returned the statistics agree: a   *)
(* write cancelled while its snapshot was being enqueued is counted exactly *)
(* if the snapshot is written.                                             *)
CountsAgree ==
    close.ok /\ (\A c \in Callers : caller[c].pc = "idle")
        => counts.accepted = counts.written

(* Every write returns or raises and every close ends, although writes     *)
(* wait for the lock and for room, and the worker may fail at any time.    *)
NobodyHangs ==
    /\ \A c \in Callers : (caller[c].pc # "idle") ~> (caller[c].pc = "idle")
    /\ (close.pc # "none") ~> (close.pc \in {"none", "done"})
=============================================================================
