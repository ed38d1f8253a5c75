------------------------ MODULE FeatureWriterProofs ------------------------
(***************************************************************************)
(* Theorems about FeatureWriter for every set of snapshots and partitions, *)
(* any number of callers and every capacity.                               *)
(***************************************************************************)
EXTENDS FeatureWriter, FiniteSetTheorems, SequenceTheorems, TLAPS

(***************************************************************************)
(* The inductive invariant.  While a writer runs and its worker has not    *)
(* failed, the index is an exact picture of where every snapshot is:       *)
(* pending ones are with a caller whose put waits, in the queue or in the  *)
(* part of the batch that is not written; committed ones are in a file.    *)
(***************************************************************************)
Queued == InBatch(queue) \ {STOP}

AtPut(pc) == {caller[c].snap : c \in {d \in Callers : caller[d].pc = pc}}

Unwritten ==
    {s \in InBatch(batch) :
        worker.phase \in {"flushing", "written"} => Partition[s] \in worker.todo}

(* What a writer that never started, or has not yet, holds: nothing. *)
Empty ==
    /\ index = {} /\ cache = <<>> /\ queue = <<>> /\ batch = <<>>
    /\ lock = Free /\ acked = {}
    /\ \A c \in Callers : caller[c].pc = "idle"
    /\ counts.accepted = 0 /\ counts.written = 0

Lifecycle ==
    /\ claim = "mine" <=> life \in {"starting", "running"}
    /\ life \in {"new", "starting"} => worker.phase = "none"
    /\ worker.phase = "none" => Empty /\ life # "running"
    /\ life = "closed" <=> close.pc = "done"
    /\ life = "closed" => worker.phase \in {"none", "done", "failed"}
    /\ close.ok => life = "closed" /\ worker.phase # "failed"

(* The write lock covers a put that waits, and close from STOP on. *)
Locking ==
    /\ \A c \in Callers : caller[c].pc \in {"putting", "put"} => lock = c
    /\ \A c \in Callers : caller[c].pc # "idle" => caller[c].snap \in Snapshots
    /\ lock = Closer <=> close.pc \in {"stopping", "joining"}
    /\ close.pc = "done" => lock = Free

(* Nothing follows STOP in the queue. *)
Stopping ==
    /\ \A i \in 1..Len(queue) : 
        queue[i] = STOP => i = Len(queue) /\ close.pc \in {"joining", "done"}
    /\ worker.stopping \/ worker.phase = "done" =>
        queue = <<>> /\ close.pc \in {"joining", "done"}
    /\ worker.phase = "done" => batch = <<>>
    /\ worker.phase \in {"flushing", "written"} => worker.todo # {}
    /\ worker.phase = "idle" => Len(batch) < BatchRows

(* No snapshot is at two places. *)
Distinct ==
    worker.phase # "failed" =>
        /\ \A i, j \in 1..Len(queue) : queue[i] = queue[j] => i = j
        /\ \A i \in 1..Len(queue) : queue[i] \notin InBatch(batch)
        /\ AtPut("putting") \cap (InBatch(queue) \cup InBatch(batch)) = {}
        /\ \A i, j \in 1..Len(batch) : batch[i] = batch[j] => i = j

CacheUnique == \A i, j \in 1..Len(cache) : cache[i].id = cache[j].id => i = j

IndexUnique == \A r, q \in index : r.snap.id = q.snap.id => r = q

IndexExact ==
    life = "running" /\ worker.phase # "failed" =>
        /\ \A s \in Snapshots :
            Pending(s) \in index <=> s \in Queued \cup Unwritten \cup AtPut("putting")
        /\ \A s \in Snapshots : Committed(s) \in index => s \in Rows
        /\ \A s \in Rows : \/ Committed(s) \in index
                           \/ worker.phase = "written" /\ s \in CurrentRows
        /\ \A i \in 1..Len(cache) :
            Pending(cache[i]) \in index \/ Committed(cache[i]) \in index

(* What has been acknowledged, or enqueued, is durable or will be. *)
Kept ==
    worker.phase # "failed" =>
        /\ acked \cup AtPut("put") \subseteq Rows \cup Queued \cup InBatch(batch)
        /\ InBatch(batch) \subseteq Rows \cup Unwritten
        /\ worker.phase = "written" => CurrentRows \subseteq Rows

(* Every snapshot counted as accepted, or enqueued by a caller that has    *)
(* yet to count it, is written, queued or in the batch.                    *)
Uncounted == IF AtPut("put") = {} THEN 0 ELSE 1

Counted ==
    worker.phase # "failed" =>
        counts.accepted + Uncounted =
            counts.written + Cardinality(Queued) + Cardinality(Unwritten)

IndInv ==
    /\ TypeOK
    /\ Lifecycle
    /\ Locking
    /\ Stopping
    /\ Distinct
    /\ CacheUnique
    /\ IndexUnique
    /\ IndexExact
    /\ Kept
    /\ OneRowPerId
    /\ AcksAreConsistent

----------------------------------------------------------------------------
(* Facts about the operators the model is built from. *)

(* A non-empty set of natural numbers has a least element. *)
LEMMA LeastNat ==
    ASSUME NEW T, T \subseteq Nat, T # {}
    PROVE  \E n \in T : \A m \in T : n <= m
<1> DEFINE R == {p \in Nat \X Nat : p[1] < p[2]}
<1>1. R = OpToRel(<, Nat)
  BY DEF OpToRel
<1>2. IsWellFoundedOn(R, Nat)
  BY <1>1, NatLessThanWellFounded
<1>3. PICK x \in T : \A y \in T : <<y, x>> \notin R
  <2> HIDE DEF R
  <2> QED
    BY <1>2, WFMin
<1>4. ASSUME NEW y \in T PROVE x <= y
  <2>1. x \in Nat /\ y \in Nat
    OBVIOUS
  <2>2. <<y, x>> \in Nat \X Nat /\ <<y, x>>[1] = y /\ <<y, x>>[2] = x
    BY <2>1
  <2>3. ~(y < x)
    BY <1>3, <2>2
  <2> QED
    BY <2>1, <2>3
<1> QED
  BY <1>4

(* The stop marker is no snapshot: it has no content. *)
LEMMA StopIsNoSnapshot == STOP \notin Snapshots
<1>1. "content" \notin DOMAIN STOP
  BY DEF STOP
<1> QED
  BY <1>1, WriterAssumption

(* Removing one position of a sequence. *)
LEMMA RemoveAtFacts ==
    ASSUME NEW S, NEW q \in Seq(S), NEW i \in 1..Len(q)
    PROVE  /\ RemoveAt(q, i) \in Seq(S)
           /\ Len(RemoveAt(q, i)) = Len(q) - 1
           /\ \A j \in 1..Len(q) - 1 :
                RemoveAt(q, i)[j] = IF j < i THEN q[j] ELSE q[j + 1]
<1> DEFINE a == SubSeq(q, 1, i - 1)
           b == SubSeq(q, i + 1, Len(q))
<1>1. a \in Seq(S) /\ Len(a) = i - 1 /\ \A j \in 1..(i - 1) : a[j] = q[j]
  OBVIOUS
<1>2. b \in Seq(S) /\ Len(b) = Len(q) - i /\ \A j \in 1..(Len(q) - i) : b[j] = q[i + j]
  OBVIOUS
<1> HIDE DEF a, b
<1>3. /\ a \o b \in Seq(S) /\ Len(a \o b) = Len(q) - 1
      /\ \A j \in 1..Len(q) - 1 : (a \o b)[j] = IF j < i THEN q[j] ELSE q[j + 1]
  <2>1. /\ a \o b \in Seq(S) /\ Len(a \o b) = Len(a) + Len(b)
        /\ \A j \in 1..Len(a) + Len(b) :
             (a \o b)[j] = IF j <= Len(a) THEN a[j] ELSE b[j - Len(a)]
    BY <1>1, <1>2, ConcatProperties
  <2>2. ASSUME NEW j \in 1..Len(q) - 1
        PROVE  (a \o b)[j] = IF j < i THEN q[j] ELSE q[j + 1]
    <3>1. CASE j < i
      BY <1>1, <1>2, <2>1, <3>1
    <3>2. CASE ~(j < i)
      <4>1. j - (i - 1) \in 1..Len(q) - i /\ i + (j - (i - 1)) = j + 1
        BY <3>2
      <4>2. b[j - (i - 1)] = q[i + (j - (i - 1))]
        BY <1>2, <4>1
      <4> QED
        BY <1>1, <1>2, <2>1, <3>2, <4>1, <4>2
    <3> QED
      BY <3>1, <3>2
  <2> QED
    BY <1>1, <1>2, <2>1, <2>2
<1> QED
  BY <1>3 DEF RemoveAt, a, b

(* Dropping the entry of an id from a cache that has one entry per id. *)
OnePerId(q) == \A i, j \in 1..Len(q) : q[i].id = q[j].id => i = j

(* Dropping the first entry of a sequence that passes a test leaves the    *)
(* others, in order.                                                       *)
LEMMA RemovePositionFacts ==
    ASSUME NEW q \in Seq(Snapshots), OnePerId(q), NEW k \in 1..Len(q)
    PROVE  /\ RemoveAt(q, k) \in Seq(Snapshots)
           /\ Len(RemoveAt(q, k)) = Len(q) - 1
           /\ OnePerId(RemoveAt(q, k))
           /\ \A i \in 1..Len(RemoveAt(q, k)) :
                /\ RemoveAt(q, k)[i].id # q[k].id
                /\ \E j \in 1..Len(q) : RemoveAt(q, k)[i] = q[j]
<1> DEFINE r == RemoveAt(q, k)
<1>1. /\ r \in Seq(Snapshots) /\ Len(r) = Len(q) - 1
      /\ \A j \in 1..Len(q) - 1 : r[j] = IF j < k THEN q[j] ELSE q[j + 1]
  BY RemoveAtFacts
<1> HIDE DEF r
<1>2. OnePerId(r)
  BY <1>1, SMTT(30) DEF OnePerId
<1>3. \A i \in 1..Len(r) : r[i].id # q[k].id /\ \E j \in 1..Len(q) : r[i] = q[j]
  BY <1>1 DEF OnePerId
<1> QED
  BY <1>1, <1>2, <1>3 DEF r

(* The first position that passes a test, if there is one. *)
LEMMA FirstPosition ==
    ASSUME NEW I, NEW n \in Nat, I \subseteq 1..n, I # {}
    PROVE  Min(I) \in I
<1>1. I \subseteq Nat
  OBVIOUS
<1>2. PICK x \in I : \A y \in I : x <= y
  BY <1>1, LeastNat
<1> QED
  BY <1>2 DEF Min

(* move_to_end and eviction: the cache stays within its capacity and keeps *)
(* one entry per id, the new one among them.                               *)
LEMMA RememberedFacts ==
    ASSUME cache \in Seq(Snapshots), Len(cache) <= CacheCapacity, CacheUnique,
           NEW s \in Snapshots
    PROVE  /\ Remembered(s) \in Seq(Snapshots)
           /\ Len(Remembered(s)) <= CacheCapacity
           /\ OnePerId(Remembered(s))
           /\ \A i \in 1..Len(Remembered(s)) :
                \/ Remembered(s)[i] = s
                \/ \E j \in 1..Len(cache) : Remembered(s)[i] = cache[j]
<1> DEFINE I == {i \in 1..Len(cache) : cache[i].id = s.id}
           others == RemoveFirstMatch(cache, LAMBDA r : r.id = s.id)
           longer == Append(others, s)
<1>0. OnePerId(cache) /\ CacheCapacity \in Nat /\ CacheCapacity > 0
  BY WriterAssumption DEF CacheUnique, OnePerId
<1>1. others = IF I # {} THEN RemoveAt(cache, Min(I)) ELSE cache
  BY DEF RemoveFirstMatch, SelectInSeq
<1>2. /\ others \in Seq(Snapshots) /\ Len(others) <= Len(cache) /\ OnePerId(others)
      /\ \A i \in 1..Len(others) : /\ others[i].id # s.id
                                   /\ \E j \in 1..Len(cache) : others[i] = cache[j]
  <2>1. CASE I = {}
    <3>1. others = cache /\ \A i \in 1..Len(cache) : cache[i].id # s.id
      BY <2>1, <1>1
    <3> HIDE DEF others
    <3> QED
      BY <3>1, <1>0
  <2>2. CASE I # {}
    <3>1. I \subseteq 1..Len(cache) /\ Len(cache) \in Nat
      OBVIOUS
    <3>2. Min(I) \in I
      <4> HIDE DEF I
      <4> QED
        BY <2>2, <3>1, FirstPosition
    <3> DEFINE k == Min(I)
    <3>3. k \in 1..Len(cache) /\ cache[k].id = s.id /\ others = RemoveAt(cache, k)
      BY <1>1, <2>2, <3>2
    <3> HIDE DEF others, k, I
    <3>4. others \in Seq(Snapshots) /\ Len(others) = Len(cache) - 1 /\ OnePerId(others)
      BY <3>3, <1>0, RemovePositionFacts
    <3>5. \A i \in 1..Len(RemoveAt(cache, k)) :
            /\ RemoveAt(cache, k)[i].id # cache[k].id
            /\ \E j \in 1..Len(cache) : RemoveAt(cache, k)[i] = cache[j]
      BY <3>3, <1>0, RemovePositionFacts
    <3>6. \A i \in 1..Len(others) :
            others[i].id # s.id /\ \E j \in 1..Len(cache) : others[i] = cache[j]
      BY <3>3, <3>5
    <3> QED
      BY <3>4, <3>6
  <2> QED
    BY <2>1, <2>2
<1> HIDE DEF others
<1>3. /\ longer \in Seq(Snapshots) /\ Len(longer) = Len(others) + 1
      /\ longer[Len(others) + 1] = s
      /\ \A i \in 1..Len(others) : longer[i] = others[i]
  BY <1>2
<1>4. OnePerId(longer)
  BY <1>2, <1>3 DEF OnePerId
<1> HIDE DEF longer
<1>5. /\ Tail(longer) \in Seq(Snapshots) /\ Len(Tail(longer)) = Len(others)
      /\ \A i \in 1..Len(others) : Tail(longer)[i] = longer[i + 1]
  BY <1>2, <1>3
<1>6. OnePerId(Tail(longer))
  <2>1. ASSUME NEW i \in 1..Len(others), NEW j \in 1..Len(others),
               Tail(longer)[i].id = Tail(longer)[j].id
        PROVE  i = j
    <3>1. i + 1 \in 1..Len(longer) /\ j + 1 \in 1..Len(longer)
      BY <1>2, <1>3
    <3>2. longer[i + 1].id = longer[j + 1].id
      BY <1>5, <2>1
    <3>3. i + 1 = j + 1
      BY <1>4, <3>1, <3>2 DEF OnePerId
    <3> QED
      BY <1>2, <3>3
  <2> QED
    BY <1>5, <2>1 DEF OnePerId
<1>7. Remembered(s) = IF Len(longer) > CacheCapacity THEN Tail(longer) ELSE longer
  BY DEF Remembered, longer, others
<1>8. ASSUME NEW i \in 1..Len(longer)
      PROVE  longer[i] = s \/ \E j \in 1..Len(cache) : longer[i] = cache[j]
  <2>1. i = Len(others) + 1 \/ i \in 1..Len(others)
    BY <1>2, <1>3
  <2> QED
    BY <2>1, <1>2, <1>3
<1>9. \A i \in 1..Len(others) : i + 1 \in 1..Len(longer)
  BY <1>2, <1>3
<1>10. CASE Len(longer) > CacheCapacity
  <2>1. Remembered(s) = Tail(longer)
    BY <1>7, <1>10
  <2>2. Len(others) <= CacheCapacity
    BY <1>0, <1>2
  <2> QED
    BY <2>1, <2>2, <1>5, <1>6, <1>8, <1>9
<1>11. CASE ~(Len(longer) > CacheCapacity)
  BY <1>0, <1>2, <1>3, <1>4, <1>7, <1>8, <1>11, SMTT(30)
<1> QED
  BY <1>10, <1>11

(* Dropping a snapshot leaves none of it. *)
LEMMA ForgottenFacts ==
    ASSUME NEW q \in Seq(Snapshots), OnePerId(q), NEW s \in Snapshots
    PROVE  /\ RemoveFirst(q, s) \in Seq(Snapshots)
           /\ Len(RemoveFirst(q, s)) <= Len(q)
           /\ OnePerId(RemoveFirst(q, s))
           /\ \A i \in 1..Len(RemoveFirst(q, s)) :
                /\ RemoveFirst(q, s)[i] # s
                /\ \E j \in 1..Len(q) : RemoveFirst(q, s)[i] = q[j]
<1> DEFINE I == {i \in 1..Len(q) : q[i] = s}
           r == RemoveFirst(q, s)
<1>1. r = IF I # {} THEN RemoveAt(q, Min(I)) ELSE q
  BY DEF RemoveFirst, SelectInSeq
<1>2. CASE I = {}
  BY <1>1, <1>2
<1>3. CASE I # {}
  <2>1. I \subseteq 1..Len(q) /\ Len(q) \in Nat
    OBVIOUS
  <2>2. Min(I) \in I
    <3> HIDE DEF I
    <3> QED
      BY <1>3, <2>1, FirstPosition
  <2> DEFINE k == Min(I)
  <2>3. k \in 1..Len(q) /\ q[k] = s /\ r = RemoveAt(q, k)
    BY <1>1, <1>3, <2>2
  <2> HIDE DEF r, k, I
  <2>4. r \in Seq(Snapshots) /\ Len(r) = Len(q) - 1 /\ OnePerId(r)
    BY <2>3, RemovePositionFacts
  <2>5. \A i \in 1..Len(RemoveAt(q, k)) :
          /\ RemoveAt(q, k)[i].id # q[k].id
          /\ \E j \in 1..Len(q) : RemoveAt(q, k)[i] = q[j]
    BY <2>3, RemovePositionFacts
  <2>6. \A i \in 1..Len(r) : r[i].id # s.id /\ \E j \in 1..Len(q) : r[i] = q[j]
    BY <2>3, <2>5
  <2> QED
    BY <2>4, <2>6, SMTT(30) DEF r
<1> QED
  BY <1>2, <1>3

(* The elements of a sequence as items are appended and taken. *)
LEMMA InBatchFacts ==
    ASSUME NEW S, NEW q \in Seq(S)
    PROVE  /\ InBatch(q) \subseteq S
           /\ \A x : x \in InBatch(q) <=> \E i \in 1..Len(q) : q[i] = x
           /\ \A x \in S : InBatch(Append(q, x)) = InBatch(q) \cup {x}
           /\ q # <<>> => InBatch(q) = {Head(q)} \cup InBatch(Tail(q))
<1>1. InBatch(q) \subseteq S /\ \A x : x \in InBatch(q) <=> \E i \in 1..Len(q) : q[i] = x
  BY DEF InBatch
<1>2. ASSUME NEW x \in S PROVE InBatch(Append(q, x)) = InBatch(q) \cup {x}
  <2>1. /\ Append(q, x) \in Seq(S) /\ Len(Append(q, x)) = Len(q) + 1
        /\ Append(q, x)[Len(q) + 1] = x
        /\ \A i \in 1..Len(q) : Append(q, x)[i] = q[i]
    OBVIOUS
  <2> QED
    BY <2>1 DEF InBatch
<1>3. ASSUME q # <<>> PROVE InBatch(q) = {Head(q)} \cup InBatch(Tail(q))
  <2>1. /\ Len(q) \in Nat /\ Len(q) > 0 /\ Head(q) = q[1]
        /\ Tail(q) \in Seq(S) /\ Len(Tail(q)) = Len(q) - 1
        /\ \A i \in 1..Len(q) - 1 : Tail(q)[i] = q[i + 1]
    BY <1>3
  <2>2. \A i \in 1..Len(q) : i = 1 \/ (i - 1 \in 1..Len(q) - 1 /\ Tail(q)[i - 1] = q[i])
    BY <2>1
  <2>3. \A i \in 1..Len(q) - 1 : i + 1 \in 1..Len(q)
    BY <2>1
  <2>4. DOMAIN q = 1..Len(q) /\ DOMAIN Tail(q) = 1..Len(q) - 1
    BY <2>1
  <2>5. ASSUME NEW x \in InBatch(q) PROVE x = Head(q) \/ x \in InBatch(Tail(q))
    <3>1. PICK i \in 1..Len(q) : q[i] = x
      BY <2>4 DEF InBatch
    <3> QED
      BY <3>1, <2>1, <2>2, <2>4 DEF InBatch
  <2>6. \A x \in InBatch(Tail(q)) : x \in InBatch(q)
    BY <2>1, <2>3, <2>4 DEF InBatch
  <2>7. Head(q) \in InBatch(q)
    BY <2>1, <2>4 DEF InBatch
  <2> QED
    BY <2>5, <2>6, <2>7
<1> QED
  BY <1>1, <1>2, <1>3

(* The queue with one more item. *)
LEMMA AppendFacts ==
    ASSUME NEW S, NEW q \in Seq(S), NEW x \in S
    PROVE  /\ Append(q, x) \in Seq(S) /\ Len(Append(q, x)) = Len(q) + 1 /\ Len(q) \in Nat
           /\ Append(q, x)[Len(q) + 1] = x
           /\ \A i \in 1..Len(q) : Append(q, x)[i] = q[i]
           /\ InBatch(Append(q, x)) = InBatch(q) \cup {x}
           /\ \A i \in 1..Len(q) : q[i] \in InBatch(q)
           /\ \A i \in 1..(Len(q) + 1) : i \in 1..Len(q) \/ i = Len(q) + 1
<1>1. InBatch(Append(q, x)) = InBatch(q) \cup {x}
  BY InBatchFacts
<1>2. \A i \in 1..Len(q) : q[i] \in InBatch(q)
  BY DEF InBatch
<1> QED
  BY <1>1, <1>2

(* The partition being written is one of those left. *)
LEMMA CurrentIsTodo ==
    ASSUME TypeOK, worker.todo # {}
    PROVE  Current \in worker.todo
<1>1. worker.todo \subseteq Nat
  BY DEF TypeOK
<1>2. PICK n \in worker.todo : \A m \in worker.todo : n <= m
  BY <1>1, LeastNat
<1> QED
  BY <1>2 DEF Current

----------------------------------------------------------------------------
(* Parts of the invariant that a step does not touch. *)

(* Callers move, but none from or to a given place. *)
LEMMA AtPutFrame ==
    ASSUME NEW pc,
           \A d \in Callers : caller'[d].pc = pc \/ caller[d].pc = pc => caller'[d] = caller[d]
    PROVE  AtPut(pc)' = AtPut(pc)
BY DEF AtPut

(* The index, the places it describes and the files stay as they are. *)
LEMMA PlacesFrame ==
    ASSUME IndInv, UNCHANGED <<files, index, queue, worker, batch>>,
           AtPut("putting")' = AtPut("putting")
    PROVE  /\ Distinct' /\ IndexUnique' /\ OneRowPerId'
           /\ UNCHANGED <<cache, life>> => IndexExact'
           /\ acked' \cup AtPut("put")' \subseteq acked \cup AtPut("put") => Kept'
<1> USE DEF IndInv
<1>1. Queued' = Queued /\ Unwritten' = Unwritten /\ Rows' = Rows /\ CurrentRows' = CurrentRows
  BY DEF Queued, Unwritten, Rows, CurrentRows, Current, InBatch
<1>2. Distinct'
  BY DEF Distinct, InBatch
<1>3. IndexUnique' /\ OneRowPerId'
  BY DEF IndexUnique, OneRowPerId
<1>4. ASSUME UNCHANGED <<cache, life>> PROVE IndexExact'
  BY <1>1, <1>4 DEF IndexExact, Pending, Committed
<1>5. ASSUME acked' \cup AtPut("put")' \subseteq acked \cup AtPut("put") PROVE Kept'
  BY <1>1, <1>5 DEF Kept, InBatch
<1> QED
  BY <1>2, <1>3, <1>4, <1>5

(* A step that only moves the claim, the lifecycle and the close task:     *)
(* what is left to show.                                                   *)
LEMMA LifecycleFrame ==
    ASSUME IndInv, UNCHANGED <<files, memory, lock, caller, worker, batch, acked, counts>>
    PROVE  /\ Distinct' /\ CacheUnique' /\ IndexUnique' /\ OneRowPerId' /\ Kept'
           /\ life' = life => IndexExact'
           /\ claim' # "mine" \/ claim' = claim => AcksAreConsistent'
<1> USE DEF memory
<1>1. AtPut("putting")' = AtPut("putting") /\ AtPut("put")' = AtPut("put")
  BY DEF AtPut
<1>2. /\ Distinct' /\ IndexUnique' /\ OneRowPerId' /\ Kept'
      /\ life' = life => IndexExact'
  BY <1>1, PlacesFrame
<1>3. CacheUnique'
  BY DEF IndInv, CacheUnique
<1>4. claim' # "mine" \/ claim' = claim => AcksAreConsistent'
  BY DEF IndInv, AcksAreConsistent, Rows
<1> QED
  BY <1>2, <1>3, <1>4

(* Taking the root claim. *)
LEMMA ClaimStep == ASSUME IndInv, Start PROVE IndInv'
<1> USE DEF IndInv, Start, tasks
<1>1. TypeOK'
  BY DEF TypeOK, memory
<1>2. Lifecycle' /\ Locking' /\ Stopping'
  BY DEF Lifecycle, Locking, Stopping, Empty, memory
<1>3. Distinct' /\ CacheUnique' /\ IndexUnique' /\ OneRowPerId' /\ Kept'
  BY LifecycleFrame
<1>4. IndexExact'
  BY DEF IndexExact
<1>5. AcksAreConsistent'
  BY DEF AcksAreConsistent, Empty, Lifecycle
<1> QED
  BY <1>1, <1>2, <1>3, <1>4, <1>5

(* The rebuilt index is exactly the tree. *)
LEMMA StartedStep == ASSUME IndInv, Started PROVE IndInv'
<1> USE DEF IndInv, Started, durable
<1>0. /\ worker.phase = "none" /\ Empty /\ close.pc = "none"
      /\ worker' = [phase |-> "idle", todo |-> {}, stopping |-> FALSE]
  BY DEF Lifecycle, NoWorker
<1>1. TypeOK'
  <2>1. index' \subseteq [snap : Snapshots, state : {"PENDING", "COMMITTED"}]
    BY DEF TypeOK, RebuiltIndex, Committed, Rows
  <2>2. worker' \in [phase : {"none", "idle", "flushing", "written", "done", "failed"},
                     todo : SUBSET Nat, stopping : BOOLEAN]
    <3> HIDE DEF Started, IndInv
    <3> QED
      BY <1>0
  <2>3. UNCHANGED <<files, claim, cache, queue, lock, caller, batch, close, acked, counts>>
    OBVIOUS
  <2>4. life' = "running"
    OBVIOUS
  <2> HIDE DEF Started
  <2> QED
    BY <2>1, <2>2, <2>3, <2>4 DEF TypeOK
<1>2. Lifecycle' /\ Locking' /\ Stopping'
  BY <1>0, WriterAssumption DEF Lifecycle, Locking, Stopping, Empty, TypeOK
<1>3. Distinct' /\ CacheUnique' /\ OneRowPerId'
  BY <1>0 DEF Distinct, CacheUnique, OneRowPerId, Empty, AtPut, InBatch
<1>4. IndexUnique'
  BY DEF IndexUnique, RebuiltIndex, OneRowPerId, Committed, Rows
<1>5. Queued' = {} /\ Unwritten' = {} /\ AtPut("putting")' = {} /\ AtPut("put")' = {}
  BY <1>0 DEF Empty, Queued, Unwritten, AtPut, InBatch
<1>6. IndexExact'
  <2>1. \A s \in Snapshots : Pending(s) \notin index'
    BY DEF RebuiltIndex, Pending, Committed
  <2>2. \A s \in Snapshots : Committed(s) \in index' <=> s \in Rows'
    BY DEF RebuiltIndex, Committed, Rows
  <2>3. Rows' \subseteq Snapshots
    BY DEF TypeOK, Rows
  <2>4. Len(cache') = 0
    BY <1>0 DEF Empty
  <2> QED
    BY <1>5, <2>1, <2>2, <2>3, <2>4 DEF IndexExact
<1>7. Kept' /\ AcksAreConsistent'
  BY <1>0, <1>5 DEF Kept, AcksAreConsistent, Empty, InBatch
<1> QED
  BY <1>1, <1>2, <1>3, <1>4, <1>6, <1>7

(* A start that fails gives the claim back. *)
LEMMA StartFailsStep == ASSUME IndInv, StartFails PROVE IndInv'
<1> USE DEF IndInv, StartFails, tasks
<1>1. TypeOK'
  BY DEF TypeOK, memory
<1>2. Lifecycle' /\ Locking' /\ Stopping'
  BY DEF Lifecycle, Locking, Stopping, Empty, memory, Free
<1>3. Distinct' /\ CacheUnique' /\ IndexUnique' /\ OneRowPerId' /\ Kept'
  BY LifecycleFrame
<1>4. IndexExact' /\ AcksAreConsistent'
  BY DEF IndexExact, AcksAreConsistent, Free
<1> QED
  BY <1>1, <1>2, <1>3, <1>4

(* The other processes' claim, and a scheduled close. *)
LEMMA ClaimsStep ==
    ASSUME IndInv, OtherClaims \/ OtherReleases \/ CloseBegins PROVE IndInv'
<1> USE DEF IndInv, tasks
<1>0. UNCHANGED <<files, memory, lock, caller, worker, batch, acked, counts, life>>
  BY DEF OtherClaims, OtherReleases, CloseBegins, durable
<1>1. TypeOK'
  BY <1>0 DEF TypeOK, memory, OtherClaims, OtherReleases, CloseBegins, durable
<1>2. Lifecycle' /\ Locking' /\ Stopping'
  BY <1>0 DEF Lifecycle, Locking, Stopping, Empty, memory, Free, TypeOK,
              OtherClaims, OtherReleases, CloseBegins, durable
<1>3. Distinct' /\ CacheUnique' /\ IndexUnique' /\ OneRowPerId' /\ Kept' /\ IndexExact'
  BY <1>0, LifecycleFrame
<1>4. AcksAreConsistent'
  BY <1>0, LifecycleFrame DEF OtherClaims, OtherReleases, CloseBegins, durable, Free
<1> QED
  BY <1>1, <1>2, <1>3, <1>4

(* Another process adds a row under its claim. *)
LEMMA OtherWritesStep ==
    ASSUME IndInv, NEW s \in Snapshots, OtherWrites(s) PROVE IndInv'
<1> USE DEF IndInv, OtherWrites, tasks, memory
<1>0. life \notin {"starting", "running"} /\ Rows' = Rows \cup {s}
  BY DEF Lifecycle, Rows
<1>1. TypeOK'
  BY DEF TypeOK
<1>2. Lifecycle' /\ Locking' /\ Stopping' /\ CacheUnique' /\ IndexUnique'
  BY DEF Lifecycle, Locking, Stopping, Empty, CacheUnique, IndexUnique
<1>3. Distinct'
  BY SMTT(30) DEF Distinct, AtPut, InBatch
<1>4. IndexExact' /\ AcksAreConsistent'
  BY <1>0 DEF IndexExact, AcksAreConsistent
<1>5. Kept'
  <2>1. /\ CurrentRows' = CurrentRows /\ Queued' = Queued /\ Unwritten' = Unwritten
        /\ AtPut("put")' = AtPut("put") /\ InBatch(batch)' = InBatch(batch)
    BY DEF CurrentRows, Current, Queued, Unwritten, AtPut, InBatch
  <2> QED
    BY <1>0, <2>1 DEF Kept
<1>6. OneRowPerId'
  BY DEF OneRowPerId, Rows
<1> QED
  BY <1>1, <1>2, <1>3, <1>4, <1>5, <1>6

(* A caller passes the checks before the lock. *)
LEMMA WriteStep ==
    ASSUME IndInv, NEW c \in Callers, NEW s \in Snapshots, Write(c, s) PROVE IndInv'
<1> USE DEF IndInv, Write, durable, memory
<1>1. TypeOK'
  BY DEF TypeOK
<1>2. AtPut("putting")' = AtPut("putting") /\ AtPut("put")' = AtPut("put")
  <2>1. \A d \in Callers : d # c => caller'[d] = caller[d]
    BY DEF TypeOK
  <2>2. caller[c].pc = "idle" /\ caller'[c].pc = "locking"
    BY DEF TypeOK
  <2> HIDE DEF IndInv, Write
  <2> QED
    BY <2>1, <2>2, AtPutFrame
<1>3. Lifecycle'
  BY DEF Lifecycle
<1>4. Locking'
  BY DEF Locking, TypeOK
<1>5. Stopping'
  BY DEF Stopping
<1>6. Distinct' /\ IndexUnique' /\ IndexExact' /\ OneRowPerId' /\ Kept'
  BY <1>2, PlacesFrame
<1>7. CacheUnique'
  BY DEF CacheUnique
<1>8. AcksAreConsistent'
  BY DEF AcksAreConsistent, Rows
<1> QED
  BY <1>1, <1>3, <1>4, <1>5, <1>6, <1>7, <1>8

----------------------------------------------------------------------------
(* Callers. *)

(* Every snapshot the writer is responsible for has a row in the index. *)
LEMMA Indexed ==
    ASSUME IndInv, life = "running", worker.phase # "failed",
           NEW s \in acked \cup AtPut("put") \cup Rows \cup Queued \cup InBatch(batch)
                     \cup AtPut("putting"),
           s \in Snapshots
    PROVE  Pending(s) \in index \/ Committed(s) \in index
<1> USE DEF IndInv
<1>1. s \in Queued \cup Unwritten \cup AtPut("putting") => Pending(s) \in index
  BY DEF IndexExact
<1>2. worker.phase = "written" => CurrentRows \subseteq Unwritten
  BY CurrentIsTodo DEF Stopping, CurrentRows, Unwritten
<1>3. s \in Rows => Pending(s) \in index \/ Committed(s) \in index
  BY <1>1, <1>2 DEF IndexExact
<1>4. InBatch(batch) \subseteq Rows \cup Unwritten
  BY DEF Kept
<1>5. acked \cup AtPut("put") \subseteq Rows \cup Queued \cup InBatch(batch)
  BY DEF Kept
<1> QED
  BY <1>1, <1>3, <1>4, <1>5

(* What a caller inside the lock can rely on. *)
LEMMA InsideLock ==
    ASSUME IndInv, NEW c \in Callers, MayWrite(c)
    PROVE  /\ life = "running" /\ worker.phase \notin {"none", "failed", "done"}
           /\ ~worker.stopping
           /\ caller[c].snap \in Snapshots /\ caller[c].pc = "locking"
           /\ close.pc = "none" /\ lock = Free
           /\ AtPut("putting") = {} /\ AtPut("put") = {}
           /\ STOP \notin InBatch(queue)
<1> USE DEF IndInv, MayWrite, CanEnter
<1>1. worker.phase \notin {"none", "failed", "done"} /\ ~worker.stopping
  BY DEF Lifecycle, Empty, Stopping
<1>2. life = "running"
  BY <1>1 DEF Lifecycle, TypeOK
<1>3. \A d \in Callers : caller[d].pc \notin {"putting", "put"}
  BY WriterAssumption DEF Locking, Free
<1>4. STOP \notin InBatch(queue)
  BY DEF Stopping, InBatch, TypeOK
<1> QED
  BY <1>1, <1>2, <1>3, <1>4 DEF AtPut, Locking

(* An unknown id is in no row of the index and in no entry of the cache. *)
LEMMA UnknownIsNew ==
    ASSUME TypeOK, NEW s \in Snapshots, Known(s) = {}
    PROVE  /\ \A r \in index : r.snap.id # s.id
           /\ \A i \in 1..Len(cache) : cache[i].id # s.id
<1> DEFINE hot == {cache[i] : i \in {j \in DOMAIN cache : cache[j].id = s.id}}
<1>1. DOMAIN cache = 1..Len(cache)
  BY DEF TypeOK
<1>2. hot = {} /\ {r.snap : r \in {q \in index : q.snap.id = s.id}} = {}
  BY DEF Known
<1> QED
  BY <1>1, <1>2

(* An identity that is known has a row in the index. *)
LEMMA KnownIsIndexed ==
    ASSUME IndInv, life = "running", worker.phase # "failed",
           NEW s \in Snapshots, Known(s) = {s}
    PROVE  Pending(s) \in index \/ Committed(s) \in index
<1> USE DEF IndInv
<1> DEFINE hot == {cache[i] : i \in {j \in DOMAIN cache : cache[j].id = s.id}}
           cold == {r.snap : r \in {q \in index : q.snap.id = s.id}}
<1>1. s \in hot \/ s \in cold
  BY DEF Known
<1>2. CASE s \in hot
  <2>1. PICK i \in 1..Len(cache) : cache[i] = s
    BY <1>2 DEF TypeOK
  <2> QED
    BY <2>1 DEF IndexExact
<1>3. CASE s \in cold
  <2>1. PICK r \in index : r.snap = s
    BY <1>3
  <2>2. r \in [snap : Snapshots, state : {"PENDING", "COMMITTED"}]
    BY DEF TypeOK
  <2>3. r = Pending(s) \/ r = Committed(s)
    BY <2>1, <2>2 DEF Pending, Committed
  <2> QED
    BY <2>3
<1> QED
  BY <1>1, <1>2, <1>3

(* A caller leaves without having reserved anything. *)
LEMMA RefusedStep == ASSUME IndInv, NEW c \in Callers, Refused(c) PROVE IndInv'
<1> USE DEF IndInv, Refused, Returns, CanEnter, durable, memory
<1>0. /\ \A d \in Callers : d # c => caller'[d] = caller[d]
      /\ caller[c].pc = "locking" /\ caller'[c] = IdleCaller /\ IdleCaller.pc = "idle"
  BY DEF TypeOK, IdleCaller
<1>1. TypeOK'
  BY DEF TypeOK, IdleCaller
<1>2. AtPut("putting")' = AtPut("putting") /\ AtPut("put")' = AtPut("put")
  <2> HIDE DEF IndInv, Refused
  <2> QED
    BY <1>0, AtPutFrame
<1>3. Lifecycle' /\ Stopping' /\ CacheUnique'
  BY <1>0 DEF Lifecycle, Stopping, CacheUnique, Empty
<1>4. Locking'
  BY <1>0 DEF Locking
<1>5. Distinct' /\ IndexUnique' /\ IndexExact' /\ OneRowPerId' /\ Kept'
  BY <1>2, PlacesFrame
<1>6. AcksAreConsistent'
  BY DEF AcksAreConsistent, Rows
<1> QED
  BY <1>1, <1>3, <1>4, <1>5, <1>6

(* A duplicate is acknowledged only for a snapshot that is kept. *)
LEMMA DeduplicatedStep == ASSUME IndInv, NEW c \in Callers, Deduplicated(c) PROVE IndInv'
<1> DEFINE s == caller[c].snap
<1>a. /\ MayWrite(c) /\ Known(s) = {s}
      /\ cache' = Remembered(s) /\ acked' = acked \cup {s}
      /\ caller' = [caller EXCEPT ![c] = IdleCaller]
      /\ UNCHANGED <<files, claim, life, index, queue, lock, worker, batch, close, counts>>
  BY DEF Deduplicated, durable, Returns
<1>b. /\ life = "running" /\ worker.phase \notin {"none", "failed", "done"}
      /\ s \in Snapshots /\ caller[c].pc = "locking" /\ close.pc = "none" /\ lock = Free
      /\ AtPut("putting") = {} /\ AtPut("put") = {}
  BY <1>a, InsideLock
<1>c. Pending(s) \in index \/ Committed(s) \in index
  BY <1>a, <1>b, KnownIsIndexed
<1> USE DEF IndInv
<1>0. /\ \A d \in Callers : d # c => caller'[d] = caller[d]
      /\ caller'[c] = IdleCaller /\ IdleCaller.pc = "idle"
  BY <1>a DEF TypeOK, IdleCaller
<1>1. /\ cache' \in Seq(Snapshots) /\ Len(cache') <= CacheCapacity /\ OnePerId(cache')
      /\ \A i \in 1..Len(cache') : cache'[i] = s \/ \E j \in 1..Len(cache) : cache'[i] = cache[j]
  BY <1>a, <1>b, RememberedFacts DEF TypeOK
<1>2. TypeOK'
  BY <1>a, <1>b, <1>1 DEF TypeOK, IdleCaller
<1>3. AtPut("putting")' = AtPut("putting") /\ AtPut("put")' = AtPut("put")
  <2> HIDE DEF IndInv
  <2> QED
    BY <1>0, <1>b, AtPutFrame
<1>4. Lifecycle' /\ Stopping' /\ CacheUnique'
  BY <1>0, <1>1, <1>a, <1>b DEF Lifecycle, Stopping, CacheUnique, OnePerId
<1>5. Locking'
  BY <1>0, <1>a, <1>b DEF Locking
<1>6. Distinct' /\ IndexUnique' /\ OneRowPerId'
  BY <1>a, <1>3, PlacesFrame
<1>7. /\ Queued' = Queued /\ Unwritten' = Unwritten /\ Rows' = Rows
      /\ CurrentRows' = CurrentRows /\ InBatch(batch)' = InBatch(batch)
  BY <1>a DEF Queued, Unwritten, Rows, CurrentRows, Current, InBatch
<1>8. IndexExact'
  <2>1. \A i \in 1..Len(cache') : Pending(cache'[i]) \in index \/ Committed(cache'[i]) \in index
    BY <1>1, <1>b, <1>c DEF IndexExact
  <2> QED
    BY <1>a, <1>3, <1>7, <2>1 DEF IndexExact, Pending, Committed
<1>9. Kept'
  <2>1. s \in Rows \cup Queued \cup InBatch(batch)
    BY <1>b, <1>c DEF IndexExact, Unwritten
  <2> QED
    BY <1>a, <1>b, <1>3, <1>7, <2>1 DEF Kept
<1>10. AcksAreConsistent'
  <2>1. \A r \in acked \cup Rows : r \in Snapshots
    BY DEF TypeOK, Rows
  <2>2. \A r \in acked \cup Rows : Pending(r) \in index \/ Committed(r) \in index
    <3> HIDE DEF IndInv
    <3> QED
      BY <1>b, <2>1, Indexed
  <2>3. ASSUME NEW r \in acked \cup Rows, r.id = s.id PROVE r = s
    <3>1. Pending(r).snap = r /\ Committed(r).snap = r /\ Pending(s).snap = s /\ Committed(s).snap = s
      BY DEF Pending, Committed
    <3> QED
      BY <1>c, <2>2, <2>3, <3>1 DEF IndexUnique
  <2> QED
    BY <1>a, <1>7, <2>3 DEF AcksAreConsistent
<1> QED
  BY <1>2, <1>4, <1>5, <1>6, <1>8, <1>9, <1>10

(* The index rows of snapshots. *)
LEMMA IndexRows ==
    /\ \A s \in Snapshots : /\ Pending(s).snap = s /\ Committed(s).snap = s
                            /\ Pending(s).state = "PENDING" /\ Committed(s).state = "COMMITTED"
    /\ \A r, s \in Snapshots : Pending(r) # Committed(s)
    /\ \A r, s \in Snapshots : Pending(r) = Pending(s) \/ Committed(r) = Committed(s) => r = s
    /\ \A s \in Snapshots :
        {Pending(s), Committed(s)} \subseteq [snap : Snapshots, state : {"PENDING", "COMMITTED"}]
    /\ \A r \in [snap : Snapshots, state : {"PENDING", "COMMITTED"}] :
        /\ r.snap \in Snapshots
        /\ r = IF r.state = "PENDING" THEN Pending(r.snap) ELSE Committed(r.snap)
BY DEF Pending, Committed

(* A snapshot whose id is unknown is nowhere yet. *)
LEMMA NewId ==
    ASSUME IndInv, NEW c \in Callers, MayWrite(c), NEW s, s = caller[c].snap, Known(s) = {}
    PROVE  /\ \A r \in index : r.snap.id # s.id
           /\ \A i \in 1..Len(cache) : cache[i].id # s.id
           /\ \A r \in acked \cup Rows \cup Queued \cup InBatch(batch) : r.id # s.id
<1>b. /\ life = "running" /\ worker.phase \notin {"none", "failed", "done"}
      /\ s \in Snapshots
  BY InsideLock
<1>c. /\ \A r \in index : r.snap.id # s.id
      /\ \A i \in 1..Len(cache) : cache[i].id # s.id
  BY <1>b, UnknownIsNew DEF IndInv
<1>1. \A r \in acked \cup Rows \cup Queued \cup InBatch(batch) : r \in Snapshots
  BY StopIsNoSnapshot DEF IndInv, TypeOK, Rows, Queued, InBatch
<1>2. \A r \in acked \cup Rows \cup Queued \cup InBatch(batch) :
          Pending(r) \in index \/ Committed(r) \in index
  BY <1>b, <1>1, Indexed
<1>3. \A r \in acked \cup Rows \cup Queued \cup InBatch(batch) : r.id # s.id
  BY <1>c, <1>1, <1>2, IndexRows
<1> QED
  BY <1>c, <1>3

(* A new id is reserved and enqueued at once. *)
LEMMA AcceptedStep == ASSUME IndInv, NEW c \in Callers, Accepted(c) PROVE IndInv'
<1> DEFINE s == caller[c].snap
<1>a. /\ MayWrite(c) /\ Known(s) = {} /\ Len(queue) < QueueCapacity
      /\ index' = index \cup {Pending(s)}
      /\ cache' = Remembered(s) /\ queue' = Append(queue, s) /\ acked' = acked \cup {s}
      /\ counts' = [counts EXCEPT !.accepted = @ + 1]
      /\ caller' = [caller EXCEPT ![c] = IdleCaller]
      /\ UNCHANGED <<files, claim, life, lock, worker, batch, close>>
  BY DEF Accepted, durable, Returns, HasRoom
<1>b. /\ life = "running" /\ worker.phase \notin {"none", "failed", "done"}
      /\ ~worker.stopping
      /\ s \in Snapshots /\ caller[c].pc = "locking" /\ close.pc = "none" /\ lock = Free
      /\ AtPut("putting") = {} /\ AtPut("put") = {} /\ STOP \notin InBatch(queue)
  BY <1>a, InsideLock
<1>c. /\ \A r \in index : r.snap.id # s.id
      /\ \A i \in 1..Len(cache) : cache[i].id # s.id
      /\ \A r \in acked \cup Rows \cup Queued \cup InBatch(batch) : r.id # s.id
  BY <1>a, NewId
<1> USE DEF IndInv
<1>0. /\ \A d \in Callers : d # c => caller'[d] = caller[d]
      /\ caller'[c] = IdleCaller /\ IdleCaller.pc = "idle"
  BY <1>a DEF TypeOK, IdleCaller
<1>1. /\ cache' \in Seq(Snapshots) /\ Len(cache') <= CacheCapacity /\ OnePerId(cache')
      /\ \A i \in 1..Len(cache') : cache'[i] = s \/ \E j \in 1..Len(cache) : cache'[i] = cache[j]
  BY <1>a, <1>b, RememberedFacts DEF TypeOK
<1>2. /\ queue' \in Seq(Snapshots \cup {STOP}) /\ Len(queue') = Len(queue) + 1
      /\ Len(queue) \in Nat
      /\ queue'[Len(queue) + 1] = s /\ \A i \in 1..Len(queue) : queue'[i] = queue[i]
      /\ InBatch(queue') = InBatch(queue) \cup {s}
      /\ \A i \in 1..Len(queue) : queue[i] \in InBatch(queue)
      /\ \A i \in 1..(Len(queue) + 1) : i \in 1..Len(queue) \/ i = Len(queue) + 1
  <2>1. queue \in Seq(Snapshots \cup {STOP}) /\ s \in Snapshots \cup {STOP}
    BY <1>b DEF TypeOK
  <2> HIDE DEF IndInv, s
  <2> QED
    BY <1>a, <2>1, AppendFacts
<1>3. TypeOK'
  <2>1. counts' \in [accepted : Nat, written : Nat]
    BY <1>a DEF TypeOK
  <2>2. caller' \in [Callers -> [pc : {"idle", "locking", "putting", "put"},
                                 snap : Snapshots \cup {NoSnapshot}]]
    BY <1>a DEF TypeOK, IdleCaller
  <2>3. Len(queue') <= QueueCapacity
    BY <1>a, <1>2, WriterAssumption
  <2> QED
    BY <1>a, <1>b, <1>1, <1>2, <2>1, <2>2, <2>3, IndexRows DEF TypeOK
<1>4. AtPut("putting")' = AtPut("putting") /\ AtPut("put")' = AtPut("put")
  <2> HIDE DEF IndInv
  <2> QED
    BY <1>0, <1>b, AtPutFrame
<1>5. Lifecycle' /\ CacheUnique'
  BY <1>0, <1>1, <1>a, <1>b DEF Lifecycle, CacheUnique, OnePerId
<1>6. Stopping'
  <2>1. \A i \in 1..Len(queue') : queue'[i] # STOP
    BY <1>2, <1>b, StopIsNoSnapshot
  <2> QED
    BY <1>a, <1>b, <2>1 DEF Stopping
<1>7. Locking'
  BY <1>0, <1>a, <1>b DEF Locking
<1>8. Distinct'
  <2>1. s \notin InBatch(queue) /\ s \notin InBatch(batch)
    BY <1>c, <1>b, StopIsNoSnapshot DEF Queued
  <2>3. \A i, j \in 1..Len(queue') : queue'[i] = queue'[j] => i = j
    BY <1>2, <1>b, <2>1 DEF Distinct
  <2>4. \A i \in 1..Len(queue') : queue'[i] \notin InBatch(batch)
    BY <1>2, <1>b, <2>1 DEF Distinct
  <2> QED
    BY <1>a, <1>b, <1>4, <2>3, <2>4 DEF Distinct, InBatch
<1>9. IndexUnique'
  BY <1>a, <1>b, <1>c, IndexRows DEF IndexUnique
<1>10. OneRowPerId'
  BY <1>a DEF OneRowPerId
<1>11. /\ Queued' = Queued \cup {s} /\ Unwritten' = Unwritten /\ Rows' = Rows
      /\ CurrentRows' = CurrentRows /\ InBatch(batch)' = InBatch(batch)
  BY <1>a, <1>b, <1>2, StopIsNoSnapshot DEF Queued, Unwritten, Rows, CurrentRows, Current, InBatch
<1>12. IndexExact'
  <2>1. \A i \in 1..Len(cache') : Pending(cache'[i]) \in index' \/ Committed(cache'[i]) \in index'
    BY <1>a, <1>1, <1>b DEF IndexExact
  <2>2. \A r \in Snapshots : Pending(r) \in index' <=> Pending(r) \in index \/ r = s
    BY <1>a, <1>b, IndexRows
  <2>3. \A r \in Snapshots : Committed(r) \in index' <=> Committed(r) \in index
    BY <1>a, <1>b, IndexRows
  <2>4. Rows \subseteq Snapshots
    BY DEF TypeOK, Rows
  <2> QED
    BY <1>a, <1>b, <1>4, <1>11, <2>1, <2>2, <2>3, <2>4 DEF IndexExact, Pending, Committed
<1>13. Kept'
  BY <1>a, <1>b, <1>4, <1>11 DEF Kept
<1>14. AcksAreConsistent'
  BY <1>a, <1>c, <1>11 DEF AcksAreConsistent
<1> QED
  BY <1>3, <1>5, <1>6, <1>7, <1>8, <1>9, <1>10, <1>12, <1>13, <1>14

(* The queue is full: the reservation waits with its caller, under the     *)
(* lock, or is undone at once.                                             *)
LEMMA BlockedStep == ASSUME IndInv, NEW c \in Callers, Blocked(c) PROVE IndInv'
<1> DEFINE s == caller[c].snap
           Waits == /\ index' = index \cup {Pending(s)}
                    /\ cache' = Remembered(s)
                    /\ caller' = [caller EXCEPT ![c].pc = "putting"]
                    /\ lock' = c
           Undone == /\ cache' = RemoveFirst(Remembered(s), s)
                     /\ caller' = [caller EXCEPT ![c] = IdleCaller]
                     /\ UNCHANGED <<index, lock>>
<1>a. /\ MayWrite(c) /\ Known(s) = {} /\ (Waits \/ Undone)
      /\ UNCHANGED <<files, claim, life, queue, worker, batch, close, acked, counts>>
  BY DEF Blocked, durable, Returns
<1>b. /\ life = "running" /\ worker.phase \notin {"none", "failed", "done"}
      /\ ~worker.stopping
      /\ s \in Snapshots /\ caller[c].pc = "locking" /\ close.pc = "none" /\ lock = Free
      /\ AtPut("putting") = {} /\ AtPut("put") = {} /\ STOP \notin InBatch(queue)
  BY <1>a, InsideLock
<1>c. /\ \A r \in index : r.snap.id # s.id
      /\ \A i \in 1..Len(cache) : cache[i].id # s.id
      /\ \A r \in acked \cup Rows \cup Queued \cup InBatch(batch) : r.id # s.id
  BY <1>a, NewId
<1> USE DEF IndInv
<1>d. /\ Remembered(s) \in Seq(Snapshots) /\ Len(Remembered(s)) <= CacheCapacity
      /\ OnePerId(Remembered(s))
      /\ \A i \in 1..Len(Remembered(s)) :
            Remembered(s)[i] = s \/ \E j \in 1..Len(cache) : Remembered(s)[i] = cache[j]
  BY <1>b, RememberedFacts DEF TypeOK
<1>e. Lifecycle' /\ Stopping' /\ OneRowPerId' /\ AcksAreConsistent'
  BY <1>a, <1>b DEF Lifecycle, Stopping, OneRowPerId, AcksAreConsistent, Rows
<1>f. /\ Queued' = Queued /\ Unwritten' = Unwritten /\ Rows' = Rows
      /\ CurrentRows' = CurrentRows /\ InBatch(batch)' = InBatch(batch)
      /\ InBatch(queue)' = InBatch(queue)
  BY <1>a DEF Queued, Unwritten, Rows, CurrentRows, Current, InBatch
<1>g. s \notin Queued \cup InBatch(batch) \cup InBatch(queue)
  BY <1>b, <1>c DEF Queued
<1>h. Rows \subseteq Snapshots
  BY DEF TypeOK, Rows
<1>1. CASE Waits
  <2>0. /\ \A d \in Callers : d # c => caller'[d] = caller[d]
        /\ caller'[c].pc = "putting" /\ caller'[c].snap = s
    BY <1>1 DEF TypeOK
  <2>1. AtPut("putting")' = {s} /\ AtPut("put")' = {}
    BY <1>b, <2>0 DEF AtPut
  <2>2. TypeOK'
    <3>1. caller' \in [Callers -> [pc : {"idle", "locking", "putting", "put"},
                                   snap : Snapshots \cup {NoSnapshot}]]
      BY <1>1, <1>b DEF TypeOK
    <3> QED
      BY <1>1, <1>a, <1>b, <1>d, <3>1, IndexRows DEF TypeOK
  <2>3. Locking'
    BY <1>1, <1>a, <1>b, <2>0, WriterAssumption DEF Locking, Free, Closer
  <2>4. Distinct'
    BY <1>a, <1>b, <1>f, <1>g, <2>1 DEF Distinct
  <2>5. CacheUnique' /\ IndexUnique'
    BY <1>1, <1>b, <1>c, <1>d, IndexRows DEF CacheUnique, OnePerId, IndexUnique
  <2>6. IndexExact'
    <3>1. \A i \in 1..Len(cache') : Pending(cache'[i]) \in index' \/ Committed(cache'[i]) \in index'
      BY <1>1, <1>b, <1>d DEF IndexExact
    <3>2. \A r \in Snapshots : Pending(r) \in index' <=> Pending(r) \in index \/ r = s
      BY <1>1, <1>b, IndexRows
    <3>3. \A r \in Snapshots : Committed(r) \in index' <=> Committed(r) \in index
      BY <1>1, <1>b, IndexRows
    <3> QED
      BY <1>a, <1>b, <1>f, <1>h, <2>1, <3>1, <3>2, <3>3 DEF IndexExact, Pending, Committed
  <2>7. Kept'
    BY <1>a, <1>b, <1>f, <2>1 DEF Kept
  <2> QED
    BY <1>e, <2>2, <2>3, <2>4, <2>5, <2>6, <2>7
<1>2. CASE Undone
  <2>0. /\ \A d \in Callers : d # c => caller'[d] = caller[d]
        /\ caller'[c] = IdleCaller /\ IdleCaller.pc = "idle"
    BY <1>2 DEF TypeOK, IdleCaller
  <2>1. AtPut("putting")' = AtPut("putting") /\ AtPut("put")' = AtPut("put")
    BY <1>b, <2>0 DEF AtPut
  <2>2. /\ cache' \in Seq(Snapshots) /\ Len(cache') <= CacheCapacity /\ OnePerId(cache')
        /\ \A i \in 1..Len(cache') : \E j \in 1..Len(cache) : cache'[i] = cache[j]
    <3> DEFINE q == Remembered(s)
    <3>1. /\ cache' = RemoveFirst(q, s)
          /\ RemoveFirst(q, s) \in Seq(Snapshots) /\ Len(RemoveFirst(q, s)) <= Len(q)
          /\ OnePerId(RemoveFirst(q, s))
          /\ \A i \in 1..Len(RemoveFirst(q, s)) :
                /\ RemoveFirst(q, s)[i] # s
                /\ \E j \in 1..Len(q) : RemoveFirst(q, s)[i] = q[j]
      <4> HIDE DEF q, IndInv
      <4> QED
        BY <1>2, <1>b, <1>d, ForgottenFacts DEF q
    <3>2. Len(q) \in Nat /\ Len(q) <= CacheCapacity /\ CacheCapacity \in Nat
      BY <1>d, WriterAssumption
    <3> HIDE DEF q, IndInv
    <3>3. Len(RemoveFirst(q, s)) \in Nat
      BY <3>1
    <3>4. \A i \in 1..Len(RemoveFirst(q, s)) : \E j \in 1..Len(cache) : RemoveFirst(q, s)[i] = cache[j]
      BY <3>1, <1>d DEF q
    <3> QED
      BY <3>1, <3>2, <3>3, <3>4
  <2>3. TypeOK'
    <3>1. caller' \in [Callers -> [pc : {"idle", "locking", "putting", "put"},
                                   snap : Snapshots \cup {NoSnapshot}]]
      BY <1>2 DEF TypeOK, IdleCaller
    <3>2. UNCHANGED <<index, lock>>
      BY <1>2
    <3> HIDE DEF Undone
    <3> QED
      BY <1>a, <2>2, <3>1, <3>2 DEF TypeOK
  <2>4. Locking'
    BY <1>2, <1>a, <1>b, <2>0 DEF Locking
  <2>5. Distinct'
    BY <1>a, <1>f, <2>1 DEF Distinct
  <2>6. CacheUnique' /\ IndexUnique'
    BY <1>2, <2>2 DEF CacheUnique, OnePerId, IndexUnique
  <2>7. IndexExact'
    <3>1. \A i \in 1..Len(cache') : Pending(cache'[i]) \in index \/ Committed(cache'[i]) \in index
      BY <1>b, <2>2 DEF IndexExact
    <3>2. index' = index
      BY <1>2
    <3> HIDE DEF Undone
    <3> QED
      BY <1>a, <1>b, <1>f, <2>1, <3>1, <3>2 DEF IndexExact, Pending, Committed
  <2>8. Kept'
    BY <1>a, <1>b, <1>f, <2>1 DEF Kept
  <2> QED
    BY <1>e, <2>3, <2>4, <2>5, <2>6, <2>7, <2>8
<1> QED
  BY <1>a, <1>1, <1>2

(* What a caller that holds the lock can rely on. *)
LEMMA HoldsLock ==
    ASSUME IndInv, NEW c \in Callers, caller[c].pc \in {"putting", "put"}
    PROVE  /\ life = "running" /\ worker.phase \notin {"none", "done"} /\ ~worker.stopping
           /\ lock = c /\ close.pc \notin {"stopping", "joining", "done"}
           /\ caller[c].snap \in Snapshots
           /\ \A d \in Callers : d # c => caller[d].pc \notin {"putting", "put"}
           /\ STOP \notin InBatch(queue)
<1> USE DEF IndInv
<1>1. lock = c /\ caller[c].snap \in Snapshots
  BY DEF Locking
<1>2. close.pc \notin {"stopping", "joining", "done"}
  BY <1>1, WriterAssumption DEF Locking, Free, Closer
<1>3. worker.phase \notin {"none", "done"} /\ ~worker.stopping
  BY <1>2 DEF Lifecycle, Empty, Stopping
<1>4. life = "running"
  BY <1>2, <1>3 DEF Lifecycle, TypeOK
<1>5. \A d \in Callers : d # c => caller[d].pc \notin {"putting", "put"}
  BY <1>1 DEF Locking
<1>6. STOP \notin InBatch(queue)
  BY <1>2 DEF Stopping, InBatch, TypeOK
<1> QED
  BY <1>1, <1>2, <1>3, <1>4, <1>5, <1>6

(* What has a row in the index contradicts neither an acknowledgement nor  *)
(* the tree.                                                               *)
LEMMA IndexedIsConsistent ==
    ASSUME IndInv, life = "running", worker.phase # "failed",
           NEW s \in Snapshots, Pending(s) \in index \/ Committed(s) \in index
    PROVE  \A r \in acked \cup Rows : r.id = s.id => r = s
<1>1. \A r \in acked \cup Rows : r \in Snapshots
  BY DEF IndInv, TypeOK, Rows
<1>2. \A r \in acked \cup Rows : Pending(r) \in index \/ Committed(r) \in index
  BY <1>1, Indexed
<1>3. IndexUnique
  BY DEF IndInv
<1> QED
  BY <1>1, <1>2, <1>3, IndexRows DEF IndexUnique

(* The put finds room: the snapshot moves from its caller to the queue. *)
LEMMA PutRunsStep == ASSUME IndInv, NEW c \in Callers, PutRuns(c) PROVE IndInv'
<1> DEFINE s == caller[c].snap
<1>a. /\ caller[c].pc = "putting" /\ Len(queue) < QueueCapacity
      /\ queue' = Append(queue, s)
      /\ caller' = [caller EXCEPT ![c].pc = "put"]
      /\ UNCHANGED <<files, claim, life, index, cache, lock, worker, batch, close, acked, counts>>
  BY DEF PutRuns, HasRoom, durable
<1>b. /\ life = "running" /\ worker.phase \notin {"none", "done"} /\ ~worker.stopping
      /\ lock = c /\ close.pc \notin {"stopping", "joining", "done"} /\ s \in Snapshots
      /\ \A d \in Callers : d # c => caller[d].pc \notin {"putting", "put"}
      /\ STOP \notin InBatch(queue)
  BY <1>a, HoldsLock
<1> USE DEF IndInv
<1>0. /\ \A d \in Callers : d # c => caller'[d] = caller[d]
      /\ caller'[c].pc = "put" /\ caller'[c].snap = s
  BY <1>a DEF TypeOK
<1>1. /\ AtPut("putting") = {s} /\ AtPut("put") = {}
      /\ AtPut("putting")' = {} /\ AtPut("put")' = {s}
  BY <1>0, <1>a, <1>b DEF AtPut
<1>2. /\ queue' \in Seq(Snapshots \cup {STOP}) /\ Len(queue') = Len(queue) + 1
      /\ Len(queue) \in Nat
      /\ queue'[Len(queue) + 1] = s /\ \A i \in 1..Len(queue) : queue'[i] = queue[i]
      /\ InBatch(queue') = InBatch(queue) \cup {s}
      /\ \A i \in 1..Len(queue) : queue[i] \in InBatch(queue)
      /\ \A i \in 1..(Len(queue) + 1) : i \in 1..Len(queue) \/ i = Len(queue) + 1
  <2>1. queue \in Seq(Snapshots \cup {STOP}) /\ s \in Snapshots \cup {STOP}
    BY <1>b DEF TypeOK
  <2> HIDE DEF IndInv, s
  <2> QED
    BY <1>a, <2>1, AppendFacts
<1>3. TypeOK'
  <2>1. caller' \in [Callers -> [pc : {"idle", "locking", "putting", "put"},
                                 snap : Snapshots \cup {NoSnapshot}]]
    BY <1>a, SMTT(30) DEF TypeOK
  <2>2. Len(queue') <= QueueCapacity
    BY <1>a, <1>2, WriterAssumption
  <2> QED
    BY <1>a, <1>2, <2>1, <2>2 DEF TypeOK
<1>4. Lifecycle' /\ CacheUnique' /\ IndexUnique' /\ OneRowPerId' /\ AcksAreConsistent'
  BY <1>a, <1>b DEF Lifecycle, CacheUnique, IndexUnique, OneRowPerId, AcksAreConsistent, Rows
<1>5. Stopping'
  <2>1. \A i \in 1..Len(queue') : queue'[i] # STOP
    BY <1>2, <1>b, StopIsNoSnapshot
  <2> QED
    BY <1>a, <1>b, <2>1 DEF Stopping
<1>6. Locking'
  BY <1>0, <1>a, <1>b DEF Locking
<1>7. Distinct'
  <2>1. SUFFICES ASSUME worker.phase # "failed" PROVE Distinct'
    BY <1>a DEF Distinct
  <2>2. s \notin InBatch(queue) /\ s \notin InBatch(batch)
    BY <1>1, <2>1 DEF Distinct
  <2>3. \A i, j \in 1..Len(queue') : queue'[i] = queue'[j] => i = j
    BY <1>2, <2>1, <2>2 DEF Distinct
  <2>4. \A i \in 1..Len(queue') : queue'[i] \notin InBatch(batch)
    BY <1>2, <2>1, <2>2 DEF Distinct
  <2> QED
    BY <1>a, <1>1, <2>1, <2>3, <2>4 DEF Distinct, InBatch
<1>8. /\ Queued' = Queued \cup {s} /\ Unwritten' = Unwritten /\ Rows' = Rows
      /\ CurrentRows' = CurrentRows /\ InBatch(batch)' = InBatch(batch)
  BY <1>a, <1>b, <1>2, StopIsNoSnapshot, SMTT(30) DEF Queued, Unwritten, Rows, CurrentRows, Current, InBatch
<1>9. IndexExact'
  BY <1>a, <1>b, <1>1, <1>8 DEF IndexExact, Pending, Committed
<1>10. Kept'
  BY <1>a, <1>1, <1>8 DEF Kept
<1> QED
  BY <1>3, <1>4, <1>5, <1>6, <1>7, <1>9, <1>10

(* The caller resumes with its snapshot enqueued. *)
LEMMA WriteResumesStep == ASSUME IndInv, NEW c \in Callers, WriteResumes(c) PROVE IndInv'
<1> DEFINE s == caller[c].snap
<1>a. /\ caller[c].pc = "put"
      /\ acked' = acked \/ (worker.phase # "failed" /\ acked' = acked \cup {s})
      /\ counts' = [counts EXCEPT !.accepted = @ + 1]
      /\ caller' = [caller EXCEPT ![c] = IdleCaller]
      /\ lock' = IF lock = c THEN Free ELSE lock
      /\ UNCHANGED <<files, claim, life, index, cache, queue, worker, batch, close>>
  BY DEF WriteResumes, WorkerDone, Returns, Unlocks, durable, memory
<1>b. /\ life = "running" /\ worker.phase \notin {"none", "done"} /\ ~worker.stopping
      /\ lock = c /\ close.pc \notin {"stopping", "joining", "done"} /\ s \in Snapshots
      /\ \A d \in Callers : d # c => caller[d].pc \notin {"putting", "put"}
  BY <1>a, HoldsLock
<1> USE DEF IndInv
<1>0. /\ \A d \in Callers : d # c => caller'[d] = caller[d]
      /\ caller'[c] = IdleCaller /\ IdleCaller.pc = "idle"
  BY <1>a DEF TypeOK, IdleCaller
<1>1. /\ AtPut("putting") = {} /\ AtPut("put") = {s}
      /\ AtPut("putting")' = {} /\ AtPut("put")' = {}
  BY <1>0, <1>a, <1>b DEF AtPut
<1>2. TypeOK'
  <2>1. counts' \in [accepted : Nat, written : Nat]
    BY <1>a DEF TypeOK
  <2>2. caller' \in [Callers -> [pc : {"idle", "locking", "putting", "put"},
                                 snap : Snapshots \cup {NoSnapshot}]]
    BY <1>a DEF TypeOK, IdleCaller
  <2>3. acked' \subseteq Snapshots
    BY <1>a, <1>b DEF TypeOK
  <2> QED
    BY <1>a, <1>b, <2>1, <2>2, <2>3 DEF TypeOK
<1>3. Lifecycle' /\ CacheUnique' /\ Stopping'
  BY <1>a, <1>b DEF Lifecycle, CacheUnique, Stopping
<1>4. Locking'
  BY <1>0, <1>a, <1>b, WriterAssumption DEF Locking, Free, Closer
<1>5. Distinct' /\ IndexUnique' /\ OneRowPerId' /\ IndexExact' /\ Kept'
  <2>1. acked' \cup AtPut("put")' \subseteq acked \cup AtPut("put")
    BY <1>a, <1>1
  <2> HIDE DEF IndInv
  <2> QED
    BY <1>a, <1>1, <2>1, PlacesFrame
<1>6. AcksAreConsistent'
  <2>1. CASE acked' = acked
    BY <1>a, <2>1 DEF AcksAreConsistent, Rows
  <2>2. CASE worker.phase # "failed" /\ acked' = acked \cup {s}
    <3>1. Pending(s) \in index \/ Committed(s) \in index
      BY <1>b, <1>1, <2>2, Indexed
    <3>2. \A r \in acked \cup Rows : r.id = s.id => r = s
      BY <1>b, <2>2, <3>1, IndexedIsConsistent
    <3> QED
      BY <1>a, <2>2, <3>2 DEF AcksAreConsistent, Rows
  <2> QED
    BY <1>a, <2>1, <2>2
<1> QED
  BY <1>2, <1>3, <1>4, <1>5, <1>6

(* A caller leaves early, cancelled or because the worker has ended; a     *)
(* reservation that still waits is rolled back.                            *)
LEMMA LeavesStep ==
    ASSUME IndInv, NEW c \in Callers, caller[c].pc \in {"locking", "putting", "put"},
           IF caller[c].pc = "putting" THEN RolledBack(caller[c].snap)
           ELSE UNCHANGED <<index, cache>>,
           counts' \in [accepted : Nat, written : Nat],
           Returns(c), Unlocks(c),
           UNCHANGED <<files, claim, life, queue, worker, batch, close, acked>>
    PROVE  IndInv'
<1> DEFINE s == caller[c].snap
<1> USE DEF IndInv
<1>0. /\ \A d \in Callers : d # c => caller'[d] = caller[d]
      /\ caller'[c] = IdleCaller /\ IdleCaller.pc = "idle"
      /\ lock' = IF lock = c THEN Free ELSE lock
  BY DEF TypeOK, IdleCaller, Returns, Unlocks
<1>1. worker.phase # "none" /\ s \in Snapshots
  BY DEF Lifecycle, Empty, Locking
<1>2. lock' \in Callers \cup {Free, Closer} /\ Locking'
  BY <1>0, WriterAssumption DEF Locking, Free, Closer, TypeOK
<1>3. Lifecycle' /\ Stopping' /\ OneRowPerId' /\ AcksAreConsistent'
  BY <1>1 DEF Lifecycle, Stopping, OneRowPerId, AcksAreConsistent, Rows
<1>4. caller' \in [Callers -> [pc : {"idle", "locking", "putting", "put"},
                               snap : Snapshots \cup {NoSnapshot}]]
  BY DEF TypeOK, IdleCaller, Returns
<1>5. /\ Queued' = Queued /\ Unwritten' = Unwritten /\ Rows' = Rows
      /\ CurrentRows' = CurrentRows /\ InBatch(batch)' = InBatch(batch)
      /\ InBatch(queue)' = InBatch(queue)
  BY DEF Queued, Unwritten, Rows, CurrentRows, Current, InBatch
<1>6. /\ AtPut("put")' \subseteq AtPut("put") /\ AtPut("putting")' \subseteq AtPut("putting")
      /\ caller[c].pc # "putting" => AtPut("putting")' = AtPut("putting")
  BY <1>0 DEF AtPut
<1>7. Distinct' /\ Kept'
  BY <1>5, <1>6 DEF Distinct, Kept
<1>8. CASE caller[c].pc # "putting"
  <2>0. UNCHANGED <<index, cache>>
    BY <1>8
  <2>1. TypeOK'
    BY <1>2, <1>4, <2>0 DEF TypeOK
  <2>2. CacheUnique' /\ IndexUnique'
    BY <2>0 DEF CacheUnique, IndexUnique
  <2>3. IndexExact'
    BY <1>5, <1>6, <1>8, <2>0 DEF IndexExact, Pending, Committed
  <2> QED
    BY <1>2, <1>3, <1>7, <2>1, <2>2, <2>3
<1>9. CASE caller[c].pc = "putting"
  <2>0. /\ index' = index \ {r \in index : r.snap.id = s.id /\ r.state = "PENDING"}
        /\ cache' = RemoveFirst(cache, s)
    BY <1>9 DEF RolledBack
  <2>1. \A d \in Callers : d # c => caller[d].pc # "putting"
    BY <1>9 DEF Locking
  <2>2. AtPut("putting") = {s} /\ AtPut("putting")' = {}
    BY <1>0, <1>9, <2>1 DEF AtPut
  <2>3. /\ cache' \in Seq(Snapshots) /\ Len(cache') <= Len(cache) /\ OnePerId(cache')
        /\ \A i \in 1..Len(cache') :
             cache'[i] # s /\ \E j \in 1..Len(cache) : cache'[i] = cache[j]
    <3>1. cache \in Seq(Snapshots) /\ OnePerId(cache)
      BY DEF TypeOK, CacheUnique, OnePerId
    <3> HIDE DEF IndInv, s
    <3>2. /\ RemoveFirst(cache, s) \in Seq(Snapshots)
          /\ Len(RemoveFirst(cache, s)) <= Len(cache)
          /\ OnePerId(RemoveFirst(cache, s))
          /\ \A i \in 1..Len(RemoveFirst(cache, s)) :
                /\ RemoveFirst(cache, s)[i] # s
                /\ \E j \in 1..Len(cache) : RemoveFirst(cache, s)[i] = cache[j]
      BY <1>1, <3>1, ForgottenFacts
    <3> QED
      BY <2>0, <3>2
  <2>4. TypeOK'
    <3>1. index' \subseteq index /\ Len(cache') <= CacheCapacity
      <4>1. Len(cache') \in Nat /\ Len(cache) \in Nat /\ CacheCapacity \in Nat
        BY <2>3, WriterAssumption DEF TypeOK
      <4> QED
        BY <4>1, <2>0, <2>3 DEF TypeOK
    <3> QED
      BY <1>2, <1>4, <2>3, <3>1 DEF TypeOK
  <2>5. CacheUnique' /\ IndexUnique'
    BY <2>0, <2>3 DEF CacheUnique, OnePerId, IndexUnique
  <2>6. IndexExact'
    <3>1. SUFFICES ASSUME life = "running", worker.phase # "failed" PROVE IndexExact'
      BY DEF IndexExact
    <3>2. Pending(s) \in index
      BY <1>1, <2>2, <3>1 DEF IndexExact
    <3>3. \A r \in Snapshots : Pending(r) \in index' <=> Pending(r) \in index /\ r # s
      <4>1. \A r \in Snapshots : Pending(r) \in index /\ r # s => r.id # s.id
        BY <1>1, <3>2, IndexRows DEF IndexUnique
      <4> QED
        BY <1>1, <2>0, <4>1, IndexRows
    <3>4. \A r \in Snapshots : Committed(r) \in index' <=> Committed(r) \in index
      BY <2>0, IndexRows
    <3>5. \A i \in 1..Len(cache') : Pending(cache'[i]) \in index' \/ Committed(cache'[i]) \in index'
      <4>1. \A i \in 1..Len(cache') : cache'[i] \in Snapshots
        BY <2>3
      <4> QED
        BY <2>3, <3>1, <3>3, <3>4, <4>1 DEF IndexExact
    <3>6. Rows \subseteq Snapshots
      BY DEF TypeOK, Rows
    <3>7. s \notin Queued \cup Unwritten
      BY <2>2, <3>1 DEF Distinct, Queued, Unwritten
    <3>8. \A r \in Snapshots : Pending(r) \in index' <=> r \in Queued' \cup Unwritten' \cup AtPut("putting")'
      BY <1>5, <2>2, <3>1, <3>3, <3>7 DEF IndexExact
    <3>9. \A r \in Snapshots : Committed(r) \in index' => r \in Rows'
      BY <1>5, <3>1, <3>4 DEF IndexExact
    <3>10. \A r \in Rows' :
             Committed(r) \in index' \/ (worker'.phase = "written" /\ r \in CurrentRows')
      BY <1>5, <3>1, <3>4, <3>6 DEF IndexExact
    <3> HIDE DEF IndInv
    <3> QED
      BY <3>5, <3>8, <3>9, <3>10 DEF IndexExact, Pending, Committed
  <2> QED
    BY <1>2, <1>3, <1>7, <2>4, <2>5, <2>6
<1> QED
  BY <1>8, <1>9

(* The worker ends while a put waits. *)
LEMMA WorkerGoneStep == ASSUME IndInv, NEW c \in Callers, WorkerGone(c) PROVE IndInv'
<1>1. counts' \in [accepted : Nat, written : Nat]
  BY DEF IndInv, TypeOK, WorkerGone
<1> QED
  BY <1>1, LeavesStep DEF WorkerGone, durable

(* The caller is cancelled. *)
LEMMA WriteCancelledStep == ASSUME IndInv, NEW c \in Callers, WriteCancelled(c) PROVE IndInv'
<1>1. counts' \in [accepted : Nat, written : Nat]
  BY DEF IndInv, TypeOK, WriteCancelled
<1> QED
  BY <1>1, LeavesStep DEF WriteCancelled, durable

----------------------------------------------------------------------------
(* The worker. *)

(* The worker as a flush of a batch begins. *)
LEMMA FlushingFacts ==
    ASSUME NEW b \in Seq(Snapshots), NEW stop \in BOOLEAN
    PROVE  /\ Flushing(b, stop) \in
                [phase : {"none", "idle", "flushing", "written", "done", "failed"},
                 todo : SUBSET Nat, stopping : BOOLEAN]
           /\ b = <<>> => /\ Flushing(b, stop).phase = IF stop THEN "done" ELSE "idle"
                          /\ Flushing(b, stop).stopping = FALSE
           /\ b # <<>> => /\ Flushing(b, stop).phase = "flushing"
                          /\ Flushing(b, stop).todo # {}
                          /\ Flushing(b, stop).stopping = stop
                          /\ \A s \in InBatch(b) : Partition[s] \in Flushing(b, stop).todo
<1> DEFINE ps == {Partition[s] : s \in InBatch(b)}
<1>1. \A s \in InBatch(b) : s \in Snapshots
  BY DEF InBatch
<1>2. ps \subseteq Nat /\ \A s \in InBatch(b) : Partition[s] \in ps
  BY <1>1, WriterAssumption
<1>3. CASE b = <<>>
  <2>1. CASE stop
    <3>1. Flushing(b, stop) = [phase |-> "done", todo |-> {}, stopping |-> FALSE]
      BY <1>3, <2>1 DEF Flushing, NoWorker
    <3>2. /\ Flushing(b, stop) \in
                [phase : {"none", "idle", "flushing", "written", "done", "failed"},
                 todo : SUBSET Nat, stopping : BOOLEAN]
          /\ Flushing(b, stop).phase = "done" /\ Flushing(b, stop).stopping = FALSE
      BY <3>1
    <3> QED
      BY <1>3, <2>1, <3>2
  <2>2. CASE ~stop
    <3>1. Flushing(b, stop) = [phase |-> "idle", todo |-> {}, stopping |-> FALSE]
      BY <1>3, <2>2 DEF Flushing, NoWorker
    <3>2. /\ Flushing(b, stop) \in
                [phase : {"none", "idle", "flushing", "written", "done", "failed"},
                 todo : SUBSET Nat, stopping : BOOLEAN]
          /\ Flushing(b, stop).phase = "idle" /\ Flushing(b, stop).stopping = FALSE
      BY <3>1
    <3> QED
      BY <1>3, <2>2, <3>2
  <2> QED
    BY <2>1, <2>2
<1>4. CASE b # <<>>
  <2>1. Flushing(b, stop) = [phase |-> "flushing", todo |-> ps, stopping |-> stop]
    BY <1>4 DEF Flushing
  <2>2. b[1] \in InBatch(b)
    BY <1>4 DEF InBatch
  <2>3. ps # {}
    BY <1>2, <2>2
  <2> HIDE DEF ps
  <2> QED
    BY <1>2, <1>4, <2>1, <2>3
<1> QED
  BY <1>3, <1>4

(* Snapshots move from the queue to the batch, or stay where they are. *)
LEMMA MovesFrame ==
    ASSUME IndInv, worker.phase = "idle", worker'.phase \in {"idle", "flushing", "done"},
           UNCHANGED <<files, claim, life, index, cache, lock, caller, close, acked>>,
           Queued' \cup Unwritten' = Queued \cup Unwritten,
           InBatch(batch)' = Unwritten'
    PROVE  /\ Locking' /\ CacheUnique' /\ IndexUnique' /\ IndexExact'
           /\ Kept' /\ OneRowPerId' /\ AcksAreConsistent'
<1> USE DEF IndInv
<1>1. AtPut("putting")' = AtPut("putting") /\ AtPut("put")' = AtPut("put") /\ Rows' = Rows
  BY DEF AtPut, Rows
<1>2. Locking' /\ CacheUnique' /\ IndexUnique' /\ OneRowPerId' /\ AcksAreConsistent'
  BY <1>1 DEF Locking, CacheUnique, IndexUnique, OneRowPerId, AcksAreConsistent
<1>3. Unwritten = InBatch(batch)
  BY DEF Unwritten
<1>4. Kept'
  BY <1>1, <1>3 DEF Kept
<1>5. IndexExact'
  <2>1. life = "running" =>
          \A s \in Snapshots :
            Pending(s) \in index <=> s \in Queued \cup Unwritten \cup AtPut("putting")
    BY DEF IndexExact
  <2> QED
    BY <1>1, <2>1 DEF IndexExact, Pending, Committed
<1> QED
  BY <1>2, <1>4, <1>5

(* The queue without its first item. *)
LEMMA TailFacts ==
    ASSUME NEW S, NEW q \in Seq(S), q # <<>>
    PROVE  /\ Head(q) \in S /\ Head(q) = q[1] /\ Len(q) \in Nat /\ Len(q) > 0
           /\ Tail(q) \in Seq(S) /\ Len(Tail(q)) = Len(q) - 1
           /\ \A i \in 1..Len(q) - 1 : Tail(q)[i] = q[i + 1] /\ i + 1 \in 1..Len(q)
           /\ InBatch(q) = {Head(q)} \cup InBatch(Tail(q))
           /\ Len(q) = 1 => Tail(q) = <<>>
<1>1. InBatch(q) = {Head(q)} \cup InBatch(Tail(q))
  BY InBatchFacts
<1>2. /\ Head(q) \in S /\ Head(q) = q[1] /\ Len(q) \in Nat /\ Len(q) > 0
      /\ Tail(q) \in Seq(S) /\ Len(Tail(q)) = Len(q) - 1
      /\ \A i \in 1..Len(q) - 1 : Tail(q)[i] = q[i + 1] /\ i + 1 \in 1..Len(q)
  OBVIOUS
<1>3. Len(q) = 1 => Tail(q) = <<>>
  <2>1. Len(q) = 1 => Len(Tail(q)) = 0
    BY <1>2
  <2> QED
    BY <1>2, <2>1, EmptySeq
<1> QED
  BY <1>1, <1>2, <1>3

(* The flush interval has passed. *)
LEMMA FlushTimerStep == ASSUME IndInv, FlushTimer PROVE IndInv'
<1>a. /\ worker.phase = "idle" /\ batch # <<>> /\ worker' = Flushing(batch, FALSE)
      /\ UNCHANGED <<files, claim, life, index, cache, queue, lock, caller, batch, close,
                     acked, counts>>
  BY DEF FlushTimer, durable, memory
<1> USE DEF IndInv
<1>b. /\ worker' \in [phase : {"none", "idle", "flushing", "written", "done", "failed"},
                      todo : SUBSET Nat, stopping : BOOLEAN]
      /\ worker'.phase = "flushing" /\ worker'.todo # {} /\ worker'.stopping = FALSE
      /\ \A s \in InBatch(batch) : Partition[s] \in worker'.todo
  BY <1>a, FlushingFacts DEF TypeOK
<1>1. TypeOK'
  BY <1>a, <1>b DEF TypeOK
<1>2. Lifecycle' /\ Stopping'
  BY <1>a, <1>b DEF Lifecycle, Stopping
<1>3. Distinct'
  <2>1. AtPut("putting")' = AtPut("putting") /\ InBatch(queue)' = InBatch(queue)
    BY <1>a DEF AtPut, InBatch
  <2>2. InBatch(batch)' = InBatch(batch)
    BY <1>a DEF InBatch
  <2> QED
    BY <1>a, <1>b, <2>1, <2>2 DEF Distinct
<1>4. /\ Queued' = Queued /\ Unwritten' = Unwritten /\ InBatch(batch)' = Unwritten'
  BY <1>a, <1>b DEF Queued, Unwritten, InBatch
<1> HIDE DEF IndInv
<1>5. /\ Locking' /\ CacheUnique' /\ IndexUnique' /\ IndexExact'
      /\ Kept' /\ OneRowPerId' /\ AcksAreConsistent'
  BY <1>a, <1>b, <1>4, MovesFrame
<1> QED
  BY <1>1, <1>2, <1>3, <1>5 DEF IndInv

(* The worker takes STOP, or an item into its batch. *)
LEMMA TakeStep == ASSUME IndInv, Take PROVE IndInv'
<1> DEFINE x == Head(queue)
<1>a. /\ worker.phase = "idle" /\ queue # <<>> /\ queue' = Tail(queue)
      /\ \/ x = STOP /\ batch' = batch /\ worker' = Flushing(batch, TRUE)
         \/ /\ x # STOP /\ batch' = Append(batch, x)
            /\ worker' = IF Len(batch') >= BatchRows THEN Flushing(batch', FALSE) ELSE worker
      /\ UNCHANGED <<files, claim, life, index, cache, lock, caller, close, acked, counts>>
  BY DEF Take, durable
<1> USE DEF IndInv
<1>b. /\ x \in Snapshots \cup {STOP} /\ x = queue[1] /\ Len(queue) \in Nat /\ Len(queue) > 0
      /\ queue' \in Seq(Snapshots \cup {STOP}) /\ Len(queue') = Len(queue) - 1
      /\ \A i \in 1..Len(queue) - 1 : queue'[i] = queue[i + 1] /\ i + 1 \in 1..Len(queue)
      /\ InBatch(queue) = {x} \cup InBatch(queue')
      /\ Len(queue) = 1 => queue' = <<>>
  <2>1. queue \in Seq(Snapshots \cup {STOP})
    BY DEF TypeOK
  <2> HIDE DEF IndInv
  <2> QED
    BY <1>a, <2>1, TailFacts
<1>c. life = "running" /\ close.pc # "done" /\ ~worker.stopping
  BY <1>a DEF Lifecycle, TypeOK, Stopping
<1>d. /\ batch \in Seq(Snapshots) /\ Len(batch) \in Nat /\ Len(batch) < BatchRows
      /\ BatchRows \in Nat /\ QueueCapacity \in Nat /\ Unwritten = InBatch(batch)
  BY <1>a, WriterAssumption DEF TypeOK, Stopping, Unwritten
<1>e. AtPut("putting")' = AtPut("putting")
  BY <1>a DEF AtPut
<1>1. CASE x = STOP /\ batch' = batch /\ worker' = Flushing(batch, TRUE)
  <2>1. Len(queue) = 1 /\ close.pc = "joining" /\ queue' = <<>>
    BY <1>1, <1>b, <1>c DEF Stopping
  <2>2. /\ worker' \in [phase : {"none", "idle", "flushing", "written", "done", "failed"},
                        todo : SUBSET Nat, stopping : BOOLEAN]
        /\ batch = <<>> => worker'.phase = "done" /\ worker'.stopping = FALSE
        /\ batch # <<>> => /\ worker'.phase = "flushing" /\ worker'.todo # {}
                           /\ \A s \in InBatch(batch) : Partition[s] \in worker'.todo
    BY <1>1, <1>d, FlushingFacts
  <2>3. TypeOK'
    <3>1. Len(queue') <= QueueCapacity
      BY <1>b, <1>d DEF TypeOK
    <3> QED
      BY <1>1, <1>a, <1>b, <2>2, <3>1 DEF TypeOK
  <2>4. Lifecycle'
    BY <1>a, <1>c, <2>2 DEF Lifecycle
  <2>5. Stopping'
    <3>1. Len(queue') = 0
      BY <1>b, <2>1
    <3>2. /\ close'.pc = "joining" /\ batch' = batch
          /\ worker'.phase \in {"done", "flushing"}
          /\ worker'.phase = "done" => batch = <<>>
          /\ worker'.phase = "flushing" => worker'.todo # {}
      BY <1>1, <1>a, <2>1, <2>2
    <3> HIDE DEF IndInv
    <3> QED
      BY <2>1, <3>1, <3>2 DEF Stopping
  <2>6. InBatch(queue)' = {} /\ InBatch(batch)' = InBatch(batch)
    BY <1>1, <2>1 DEF InBatch
  <2>7. Distinct'
    <3>1. Len(queue') = 0
      BY <1>b, <2>1
    <3> QED
      BY <1>1, <1>a, <1>e, <2>6, <3>1 DEF Distinct
  <2>8. /\ Queued' \cup Unwritten' = Queued \cup Unwritten
        /\ InBatch(batch)' = Unwritten'
    <3>1. Queued = {} /\ Queued' = {}
      <4>1. InBatch(queue') = {}
        BY <2>1 DEF InBatch
      <4> QED
        BY <1>1, <1>b, <2>6, <4>1 DEF Queued
    <3>2. Unwritten' = InBatch(batch)
      <4>1. batch = <<>> => InBatch(batch) = {}
        BY DEF InBatch
      <4> QED
        BY <1>1, <2>2, <2>6, <4>1 DEF Unwritten
    <3> QED
      BY <1>d, <2>6, <3>1, <3>2
  <2>9. /\ Locking' /\ CacheUnique' /\ IndexUnique' /\ IndexExact'
        /\ Kept' /\ OneRowPerId' /\ AcksAreConsistent'
    <3> HIDE DEF IndInv
    <3> QED
      BY <1>a, <2>2, <2>8, MovesFrame
  <2> QED
    BY <2>3, <2>4, <2>5, <2>7, <2>9
<1>2. CASE /\ x # STOP /\ batch' = Append(batch, x)
           /\ worker' = IF Len(batch') >= BatchRows THEN Flushing(batch', FALSE) ELSE worker
  <2>1. /\ x \in Snapshots /\ batch' \in Seq(Snapshots) /\ Len(batch') = Len(batch) + 1
        /\ batch'[Len(batch) + 1] = x /\ \A i \in 1..Len(batch) : batch'[i] = batch[i]
        /\ InBatch(batch') = InBatch(batch) \cup {x}
        /\ \A i \in 1..Len(batch) : batch[i] \in InBatch(batch)
        /\ \A i \in 1..(Len(batch) + 1) : i \in 1..Len(batch) \/ i = Len(batch) + 1
    <3>1. x \in Snapshots
      BY <1>2, <1>b
    <3> HIDE DEF IndInv, x
    <3> QED
      BY <1>2, <1>d, <3>1, AppendFacts
  <2>2. batch' # <<>>
    <3>1. Len(batch') > 0
      BY <1>d, <2>1
    <3> HIDE DEF IndInv
    <3> QED
      BY <3>1, EmptySeq
  <2>3. /\ worker' \in [phase : {"none", "idle", "flushing", "written", "done", "failed"},
                        todo : SUBSET Nat, stopping : BOOLEAN]
        /\ ~worker'.stopping
        /\ \/ worker'.phase = "idle" /\ Len(batch') < BatchRows
           \/ /\ worker'.phase = "flushing" /\ worker'.todo # {}
              /\ \A s \in InBatch(batch') : Partition[s] \in worker'.todo
    <3>1. CASE Len(batch') >= BatchRows
      <4> HIDE DEF IndInv
      <4> QED
        BY <1>2, <2>1, <2>2, <3>1, FlushingFacts
    <3>2. CASE ~(Len(batch') >= BatchRows)
      BY <1>2, <1>a, <1>c, <1>d, <2>1, <3>2 DEF TypeOK
    <3> QED
      BY <3>1, <3>2
  <2>4. TypeOK'
    <3>1. Len(queue') <= QueueCapacity /\ Len(batch') <= BatchRows
      BY <1>b, <1>d, <2>1 DEF TypeOK
    <3> QED
      BY <1>a, <1>b, <2>1, <2>3, <3>1 DEF TypeOK
  <2>5. Lifecycle'
    BY <1>a, <1>c, <2>3 DEF Lifecycle
  <2>6. Stopping'
    <3>1. \A i \in 1..Len(queue') : queue'[i] = STOP => i = Len(queue') /\ close.pc \in {"joining", "done"}
      BY <1>b DEF Stopping
    <3> QED
      BY <1>a, <2>3, <3>1 DEF Stopping
  <2>7. /\ x \notin InBatch(queue') /\ x \notin InBatch(batch)
    <3>1. x \notin InBatch(batch)
      BY <1>a, <1>b DEF Distinct
    <3>2. \A i \in 1..Len(queue') : queue'[i] # x
      BY <1>a, <1>b DEF Distinct
    <3>3. DOMAIN queue' = 1..Len(queue')
      BY <1>b
    <3> QED
      BY <3>1, <3>2, <3>3 DEF InBatch
  <2>8. Distinct'
    <3>1. \A i, j \in 1..Len(queue') : queue'[i] = queue'[j] => i = j
      BY <1>a, <1>b DEF Distinct
    <3>2. \A i \in 1..Len(queue') : queue'[i] \in InBatch(queue')
      BY <1>b DEF InBatch
    <3>3. \A i \in 1..Len(queue') : queue'[i] \notin InBatch(batch')
      BY <1>a, <1>b, <2>1, <2>7, <3>2 DEF Distinct
    <3>4. AtPut("putting") \cap (InBatch(queue') \cup InBatch(batch')) = {}
      BY <1>a, <1>b, <2>1 DEF Distinct
    <3>5. \A i, j \in 1..Len(batch') : batch'[i] = batch'[j] => i = j
      BY <1>a, <1>d, <2>1, <2>7 DEF Distinct
    <3> QED
      BY <1>e, <3>1, <3>3, <3>4, <3>5 DEF Distinct, InBatch
  <2>9. /\ Queued' \cup Unwritten' = Queued \cup Unwritten
        /\ InBatch(batch)' = Unwritten'
    <3>1. Unwritten' = InBatch(batch') /\ InBatch(batch)' = InBatch(batch')
      BY <2>3 DEF Unwritten, InBatch
    <3>2. Queued = {x} \cup (InBatch(queue') \ {STOP}) /\ Queued' = InBatch(queue') \ {STOP}
      BY <1>2, <1>b DEF Queued, InBatch
    <3> QED
      BY <1>d, <2>1, <3>1, <3>2
  <2>10. /\ Locking' /\ CacheUnique' /\ IndexUnique' /\ IndexExact'
         /\ Kept' /\ OneRowPerId' /\ AcksAreConsistent'
    <3> HIDE DEF IndInv
    <3> QED
      BY <1>a, <2>3, <2>9, MovesFrame
  <2> QED
    BY <2>4, <2>5, <2>6, <2>8, <2>10
<1> QED
  BY <1>a, <1>1, <1>2

(* While the worker is at its files the writer runs, and the rows of the   *)
(* current partition are reserved.                                         *)
LEMMA AtFiles ==
    ASSUME IndInv, worker.phase \in {"flushing", "written"}
    PROVE  /\ life = "running" /\ claim = "mine" /\ close.pc # "done" /\ close.ok = FALSE
           /\ worker.todo # {} /\ Current \in worker.todo
           /\ CurrentRows \subseteq Unwritten /\ CurrentRows \subseteq Snapshots
           /\ \A s \in CurrentRows : Pending(s) \in index
<1> USE DEF IndInv
<1>1. life = "running" /\ claim = "mine" /\ close.pc # "done" /\ close.ok = FALSE
  BY DEF Lifecycle, TypeOK
<1>2. worker.todo # {} /\ Current \in worker.todo
  BY CurrentIsTodo DEF Stopping
<1>3. CurrentRows \subseteq Unwritten /\ CurrentRows \subseteq Snapshots
  BY <1>2 DEF CurrentRows, Unwritten, InBatch, TypeOK
<1>4. \A s \in CurrentRows : Pending(s) \in index
  BY <1>1, <1>3 DEF IndexExact
<1> QED
  BY <1>1, <1>2, <1>3, <1>4

(* A partition file appears: none of its ids is in the tree. *)
LEMMA WriteFileStep == ASSUME IndInv, WriteFile PROVE IndInv'
<1>a. /\ worker.phase = "flushing" /\ files' = files \cup {CurrentRows}
      /\ worker' = [worker EXCEPT !.phase = "written"]
      /\ UNCHANGED <<claim, life, index, cache, queue, lock, caller, batch, close, acked, counts>>
  BY DEF WriteFile, memory
<1>b. /\ life = "running" /\ claim = "mine" /\ close.pc # "done"
      /\ worker.todo # {} /\ Current \in worker.todo
      /\ CurrentRows \subseteq Unwritten /\ CurrentRows \subseteq Snapshots
      /\ \A s \in CurrentRows : Pending(s) \in index
  BY <1>a, AtFiles
<1> USE DEF IndInv
<1>c. worker'.phase = "written" /\ worker'.todo = worker.todo /\ worker'.stopping = worker.stopping
  BY <1>a DEF TypeOK
<1>d. Rows \subseteq Snapshots /\ Rows' = Rows \cup CurrentRows
  BY <1>a DEF TypeOK, Rows
<1>1. TypeOK'
  <2>1. worker' \in [phase : {"none", "idle", "flushing", "written", "done", "failed"},
                     todo : SUBSET Nat, stopping : BOOLEAN]
    BY <1>a DEF TypeOK
  <2> QED
    BY <1>a, <1>b, <2>1 DEF TypeOK
<1>2. Lifecycle' /\ Locking' /\ Stopping' /\ CacheUnique' /\ IndexUnique'
  BY <1>a, <1>b, <1>c DEF Lifecycle, Locking, Stopping, CacheUnique, IndexUnique
<1>3. AtPut("putting")' = AtPut("putting") /\ AtPut("put")' = AtPut("put")
  BY <1>a DEF AtPut
<1>4. /\ Queued' = Queued /\ Unwritten' = Unwritten /\ CurrentRows' = CurrentRows
      /\ InBatch(batch)' = InBatch(batch) /\ InBatch(queue)' = InBatch(queue)
  BY <1>a, <1>c DEF Queued, Unwritten, CurrentRows, Current, InBatch
<1>5. Distinct'
  BY <1>a, <1>3, <1>4 DEF Distinct
<1>6. Kept'
  BY <1>a, <1>3, <1>4, <1>d DEF Kept
<1>7. IndexExact'
  <2>1. /\ \A s \in Snapshots :
            Pending(s) \in index <=> s \in Queued \cup Unwritten \cup AtPut("putting")
        /\ \A s \in Snapshots : Committed(s) \in index => s \in Rows
        /\ \A s \in Rows : Committed(s) \in index
        /\ \A i \in 1..Len(cache) : Pending(cache[i]) \in index \/ Committed(cache[i]) \in index
    BY <1>a, <1>b DEF IndexExact
  <2> HIDE DEF IndInv
  <2> QED
    BY <1>a, <1>c, <1>d, <1>3, <1>4, <2>1 DEF IndexExact, Pending, Committed
<1>8. \A s \in CurrentRows : \A r \in acked \cup Rows : r.id = s.id => r = s
  <2> HIDE DEF IndInv
  <2> QED
    BY <1>a, <1>b, IndexedIsConsistent
<1>9. AcksAreConsistent'
  BY <1>a, <1>b, <1>d, <1>8 DEF AcksAreConsistent
<1>10. \A s \in CurrentRows : \A r \in Rows : r.id # s.id
  <2>1. \A r \in Rows : Committed(r) \in index
    BY <1>a, <1>b DEF IndexExact
  <2> QED
    BY <1>b, <1>d, <1>8, <2>1, IndexRows DEF IndexUnique
<1>11. \A s, r \in CurrentRows : r.id = s.id => r = s
  BY <1>b, IndexRows DEF IndexUnique
<1>12. OneRowPerId'
  <2>1. \A f \in files : f \subseteq Rows
    BY DEF Rows
  <2> QED
    BY <1>a, <1>10, <1>11, <2>1 DEF OneRowPerId
<1> QED
  BY <1>1, <1>2, <1>5, <1>6, <1>7, <1>9, <1>12

(* A file cannot be written or a reservation not be committed. *)
LEMMA WorkerFailsStep == ASSUME IndInv, WorkerFails PROVE IndInv'
<1>a. /\ worker.phase \in {"flushing", "written"}
      /\ index' = {r \in index : r.state = "COMMITTED"}
      /\ worker' = [worker EXCEPT !.phase = "failed"]
      /\ UNCHANGED <<files, claim, life, cache, queue, lock, caller, batch, close, acked, counts>>
  BY DEF WorkerFails, durable
<1>b. life = "running" /\ claim = "mine" /\ close.pc # "done" /\ close.ok = FALSE
  BY <1>a, AtFiles
<1> USE DEF IndInv
<1>c. /\ worker'.phase = "failed" /\ worker'.stopping = worker.stopping
      /\ worker' \in [phase : {"none", "idle", "flushing", "written", "done", "failed"},
                      todo : SUBSET Nat, stopping : BOOLEAN]
  BY <1>a DEF TypeOK
<1>1. TypeOK'
  <2>1. index' \subseteq index
    BY <1>a
  <2> QED
    BY <1>a, <1>c, <2>1 DEF TypeOK
<1>2. Lifecycle' /\ Locking' /\ CacheUnique' /\ IndexUnique' /\ OneRowPerId'
  BY <1>a, <1>b, <1>c DEF Lifecycle, Locking, CacheUnique, IndexUnique, OneRowPerId
<1>3. Stopping'
  BY <1>a, <1>b, <1>c DEF Stopping
<1>4. Distinct' /\ IndexExact' /\ Kept'
  BY <1>c DEF Distinct, IndexExact, Kept
<1>5. AcksAreConsistent'
  BY <1>a DEF AcksAreConsistent, Rows
<1> QED
  BY <1>1, <1>2, <1>3, <1>4, <1>5

(* The elements of a sequence are finitely many. *)
LEMMA InBatchFinite ==
    ASSUME NEW S, NEW q \in Seq(S)
    PROVE  IsFiniteSet(InBatch(q))
<1>1. q \in [1..Len(q) -> InBatch(q)] /\ Len(q) \in Nat
  BY DEF InBatch
<1>2. \A x \in InBatch(q) : \E i \in 1..Len(q) : q[i] = x
  BY DEF InBatch
<1>3. q \in Surjection(1..Len(q), InBatch(q))
  BY <1>1, <1>2 DEF Surjection
<1>4. IsFiniteSet(1..Len(q))
  BY <1>1, FS_Interval
<1> QED
  BY <1>3, <1>4, FS_Surjection

(* A commit takes the current partition off what is unwritten. *)
LEMMA CommitMoves == ASSUME IndInv, Commit PROVE Unwritten' = Unwritten \ CurrentRows
<1> DEFINE left == worker.todo \ {Current}
           Goes == /\ left # {} /\ batch' = batch
                   /\ worker' = [worker EXCEPT !.phase = "flushing", !.todo = left]
           Ends == left = {} /\ batch' = <<>>
<1>1. worker.phase = "written" /\ (Goes \/ Ends)
  BY DEF Commit
<1>2. Unwritten = {s \in InBatch(batch) : Partition[s] \in worker.todo}
  BY <1>1 DEF Unwritten
<1>3. CASE Goes
  <2>1. worker'.phase = "flushing" /\ worker'.todo = left /\ batch' = batch
    BY <1>3 DEF IndInv, TypeOK
  <2>2. Unwritten' = {s \in InBatch(batch) : Partition[s] \in left}
    <3> HIDE DEF left
    <3> QED
      BY <2>1 DEF Unwritten, InBatch
  <2> QED
    BY <1>2, <2>2 DEF CurrentRows
<1>4. CASE Ends
  <2>1. Unwritten' = {} /\ \A p \in worker.todo : p = Current
    BY <1>4 DEF Unwritten, InBatch
  <2> QED
    BY <1>2, <2>1 DEF CurrentRows
<1> QED
  BY <1>1, <1>3, <1>4

(* The reservations of the current partition are committed. *)
LEMMA CommitStep == ASSUME IndInv, Commit PROVE IndInv'
<1> DEFINE left == worker.todo \ {Current}
           Goes == /\ left # {} /\ batch' = batch
                   /\ worker' = [worker EXCEPT !.phase = "flushing", !.todo = left]
           Ends == /\ left = {} /\ batch' = <<>>
                   /\ worker' = Flushing(<<>>, worker.stopping)
<1>a. /\ worker.phase = "written"
      /\ index' = (index \ {Pending(s) : s \in CurrentRows})
                  \cup {Committed(s) : s \in CurrentRows}
      /\ counts' = [counts EXCEPT !.written = @ + Cardinality(CurrentRows)]
      /\ Goes \/ Ends
      /\ UNCHANGED <<files, claim, life, cache, queue, lock, caller, close, acked>>
  BY DEF Commit, durable
<1>b. /\ life = "running" /\ claim = "mine" /\ close.pc # "done" /\ close.ok = FALSE
      /\ Current \in worker.todo
      /\ CurrentRows \subseteq Unwritten /\ CurrentRows \subseteq Snapshots
      /\ \A s \in CurrentRows : Pending(s) \in index
  BY <1>a, AtFiles
<1> USE DEF IndInv
<1>c. /\ worker' \in [phase : {"none", "idle", "flushing", "written", "done", "failed"},
                      todo : SUBSET Nat, stopping : BOOLEAN]
      /\ Goes => /\ worker'.phase = "flushing" /\ worker'.todo = left
                 /\ worker'.stopping = worker.stopping
      /\ Ends => /\ worker'.phase = IF worker.stopping THEN "done" ELSE "idle"
                 /\ worker'.stopping = FALSE
  <2>1. worker.stopping \in BOOLEAN /\ worker.todo \subseteq Nat /\ <<>> \in Seq(Snapshots)
    BY EmptySeq DEF TypeOK
  <2>2. CASE Goes
    BY <2>1, <2>2 DEF TypeOK
  <2>3. CASE Ends
    <3>1. worker' = Flushing(<<>>, worker.stopping) /\ ~Goes
      BY <2>3
    <3> HIDE DEF Goes, IndInv
    <3> QED
      BY <2>1, <3>1, FlushingFacts
  <2> QED
    BY <1>a, <2>2, <2>3
<1>d. worker'.phase \in {"flushing", "done", "idle"}
  BY <1>a, <1>c
<1>e. IsFiniteSet(CurrentRows) /\ Cardinality(CurrentRows) \in Nat
  <2>1. IsFiniteSet(InBatch(batch)) /\ CurrentRows \in SUBSET InBatch(batch)
    BY InBatchFinite DEF TypeOK, CurrentRows
  <2> HIDE DEF IndInv
  <2> QED
    BY <2>1, FS_Subset, FS_CardinalityType
<1>f. InBatch(<<>>) = {} /\ Len(<<>>) = 0 /\ <<>> \in Seq(Snapshots)
  BY EmptySeq DEF InBatch
<1>1. TypeOK'
  <2>1. counts' \in [accepted : Nat, written : Nat]
    <3>1. counts \in [accepted : Nat, written : Nat]
      BY DEF TypeOK
    <3>2. counts' = [counts EXCEPT !.written = @ + Cardinality(CurrentRows)]
      BY <1>a
    <3>3. counts.written + Cardinality(CurrentRows) \in Nat
      BY <1>e, <3>1
    <3> HIDE DEF IndInv
    <3> QED
      BY <3>1, <3>2, <3>3
  <2>2. index' \subseteq [snap : Snapshots, state : {"PENDING", "COMMITTED"}]
    BY <1>a, <1>b, IndexRows DEF TypeOK
  <2>3. batch' \in Seq(Snapshots) /\ Len(batch') <= BatchRows
    <3>1. batch' = batch \/ batch' = <<>>
      BY <1>a
    <3>2. BatchRows \in Nat /\ 0 <= BatchRows
      BY WriterAssumption
    <3>3. batch \in Seq(Snapshots) /\ Len(batch) <= BatchRows
      BY DEF TypeOK
    <3>4. CASE batch' = batch
      BY <3>3, <3>4
    <3>5. CASE batch' = <<>>
      <4> HIDE DEF IndInv
      <4> QED
        BY <1>f, <3>2, <3>5
    <3> QED
      BY <3>1, <3>4, <3>5
  <2> QED
    BY <1>a, <1>c, <2>1, <2>2, <2>3 DEF TypeOK
<1>2. Lifecycle'
  BY <1>a, <1>b, <1>d DEF Lifecycle
<1>3. Locking' /\ CacheUnique' /\ OneRowPerId' /\ AcksAreConsistent'
  BY <1>a DEF Locking, CacheUnique, OneRowPerId, AcksAreConsistent, Rows
<1>4. Stopping'
  <2>1. Goes => left # {}
    OBVIOUS
  <2>2. Ends => batch' = <<>> /\ Len(batch') < BatchRows
    BY <1>f, WriterAssumption
  <2>3. Goes => batch' = batch
    OBVIOUS
  <2> HIDE DEF Goes, Ends
  <2>4. CASE Goes
    BY <1>a, <1>c, <2>1, <2>4 DEF Stopping
  <2>5. CASE Ends
    BY <1>a, <1>c, <2>2, <2>5 DEF Stopping
  <2> QED
    BY <1>a, <2>4, <2>5
<1>5. /\ AtPut("putting")' = AtPut("putting") /\ AtPut("put")' = AtPut("put")
      /\ Queued' = Queued /\ Rows' = Rows /\ InBatch(queue)' = InBatch(queue)
  BY <1>a DEF AtPut, Queued, Rows, InBatch
<1>6. InBatch(batch)' \subseteq InBatch(batch) /\ InBatch(batch)' = InBatch(batch')
  BY <1>a, <1>f DEF InBatch
<1>7. Distinct'
  <2>1. \A i, j \in 1..Len(batch') : batch'[i] = batch'[j] => i = j
    BY <1>a, <1>f DEF Distinct
  <2> QED
    BY <1>a, <1>5, <1>6, <2>1 DEF Distinct
<1>8. Unwritten' = Unwritten \ CurrentRows
  <2> HIDE DEF IndInv
  <2> QED
    BY CommitMoves
<1>9. Kept'
  <2>1. CurrentRows \subseteq Rows /\ InBatch(batch) \subseteq Rows \cup Unwritten
    BY <1>a DEF Kept
  <2>2. acked \cup AtPut("put") \subseteq Rows \cup Queued \cup InBatch(batch)
    BY <1>a DEF Kept
  <2>3. Ends => Unwritten' = {}
    BY <1>f, <1>6 DEF Unwritten
  <2>4. Goes => InBatch(batch)' = InBatch(batch)
    BY DEF InBatch
  <2>5. InBatch(batch) \subseteq Rows \cup InBatch(batch)'
    <3> HIDE DEF Goes, Ends
    <3> QED
      BY <1>a, <1>8, <2>1, <2>3, <2>4
  <2>6. InBatch(batch)' \subseteq Rows \cup Unwritten'
    BY <1>6, <1>8, <2>1
  <2>7. acked' \cup AtPut("put")' \subseteq Rows' \cup Queued' \cup InBatch(batch)'
    BY <1>a, <1>5, <2>2, <2>5
  <2> HIDE DEF IndInv
  <2> QED
    BY <1>d, <1>5, <2>6, <2>7 DEF Kept
<1>10. IndexUnique'
  <2>1. ASSUME NEW r \in index', NEW s \in CurrentRows, r.snap.id = s.id
        PROVE  r = Committed(s)
    <3>1. CASE r \in index
      <4>1. r = Pending(s)
        BY <1>b, <2>1, <3>1, IndexRows DEF IndexUnique
      <4> QED
        BY <1>a, <1>b, <2>1, <4>1, IndexRows
    <3>2. CASE r \notin index
      <4>1. PICK t \in CurrentRows : r = Committed(t)
        BY <1>a, <3>2
      <4>2. t = s
        BY <1>b, <2>1, <4>1, IndexRows DEF IndexUnique
      <4> QED
        BY <4>1, <4>2
    <3> QED
      BY <3>1, <3>2
  <2>2. \A r \in index' : r \in index \/ \E s \in CurrentRows : r = Committed(s)
    BY <1>a
  <2>3. ASSUME NEW r \in index', NEW q \in index', r.snap.id = q.snap.id PROVE r = q
    <3>1. CASE r \in index /\ q \in index
      BY <2>3, <3>1 DEF IndexUnique
    <3>2. CASE \E s \in CurrentRows : r = Committed(s)
      BY <1>b, <2>1, <2>3, <3>2, IndexRows
    <3>3. CASE \E s \in CurrentRows : q = Committed(s)
      BY <1>b, <2>1, <2>3, <3>3, IndexRows
    <3> QED
      BY <2>2, <3>1, <3>2, <3>3
  <2> QED
    BY <2>3 DEF IndexUnique
<1>11. IndexExact'
  <2>1. \A r \in Snapshots : Pending(r) \in index' <=> Pending(r) \in index /\ r \notin CurrentRows
    BY <1>a, <1>b, IndexRows
  <2>2. \A r \in Snapshots : Committed(r) \in index' <=> Committed(r) \in index \/ r \in CurrentRows
    BY <1>a, <1>b, IndexRows
  <2>3. /\ \A s \in Snapshots :
            Pending(s) \in index <=> s \in Queued \cup Unwritten \cup AtPut("putting")
        /\ \A s \in Snapshots : Committed(s) \in index => s \in Rows
        /\ \A s \in Rows : Committed(s) \in index \/ s \in CurrentRows
        /\ \A i \in 1..Len(cache) : Pending(cache[i]) \in index \/ Committed(cache[i]) \in index
    BY <1>a, <1>b DEF IndexExact
  <2>4. CurrentRows \subseteq Rows /\ Rows \subseteq Snapshots
    BY <1>a DEF Kept, TypeOK, Rows
  <2>5. CurrentRows \cap (Queued \cup AtPut("putting")) = {}
    <3>1. CurrentRows \subseteq InBatch(batch)
      BY DEF CurrentRows
    <3>2. InBatch(queue) \cap InBatch(batch) = {}
      BY <1>a DEF Distinct, TypeOK, InBatch
    <3> QED
      BY <1>a, <3>1, <3>2 DEF Distinct, Queued
  <2>6. \A s \in Snapshots : Pending(s) \in index' <=> s \in Queued' \cup Unwritten' \cup AtPut("putting")'
    BY <1>5, <1>8, <2>1, <2>3, <2>5
  <2>7. \A s \in Snapshots : Committed(s) \in index' => s \in Rows'
    BY <1>5, <2>2, <2>3, <2>4
  <2>8. \A s \in Rows' : Committed(s) \in index'
    BY <1>5, <2>2, <2>3, <2>4
  <2>9. \A i \in 1..Len(cache') : Pending(cache'[i]) \in index' \/ Committed(cache'[i]) \in index'
    <3>1. \A i \in 1..Len(cache) : cache[i] \in Snapshots
      BY DEF TypeOK
    <3> QED
      BY <1>a, <2>1, <2>2, <2>3, <3>1
  <2> HIDE DEF IndInv
  <2> QED
    BY <2>6, <2>7, <2>8, <2>9 DEF IndexExact, Pending, Committed
<1> QED
  BY <1>1, <1>2, <1>3, <1>4, <1>7, <1>9, <1>10, <1>11

----------------------------------------------------------------------------
(* Closing and restarting. *)

(* Nobody waits to put while the lock is free or with close. *)
LEMMA NobodyPuts ==
    ASSUME IndInv, lock \in {Free, Closer}
    PROVE  /\ \A c \in Callers : caller[c].pc \notin {"putting", "put"}
           /\ AtPut("putting") = {} /\ AtPut("put") = {}
<1>1. \A c \in Callers : caller[c].pc \notin {"putting", "put"}
  BY WriterAssumption DEF IndInv, Locking, Free, Closer
<1> QED
  BY <1>1 DEF AtPut

(* The writer is closed. *)
LEMMA ClosedStep ==
    ASSUME IndInv, close.pc # "done", worker.phase \in {"none", "done", "failed"},
           lock \in {Free, Closer}, CloseFinishes(worker.phase # "failed"),
           lock' = Free, queue' = queue
    PROVE  IndInv'
<1> USE DEF IndInv, CloseFinishes
<1>0. /\ close'.pc = "done" /\ close'.ok = (worker.phase # "failed")
      /\ claim' \in {Free, "other"}
  BY DEF TypeOK
<1>1. /\ \A c \in Callers : caller[c].pc \notin {"putting", "put"}
      /\ AtPut("putting")' = AtPut("putting") /\ AtPut("put")' = AtPut("put")
  BY NobodyPuts DEF AtPut
<1>2. TypeOK'
  BY <1>0 DEF TypeOK
<1>3. Lifecycle'
  BY <1>0 DEF Lifecycle, Empty, Free, TypeOK
<1>4. Locking'
  BY <1>0, <1>1, WriterAssumption DEF Locking, Free, Closer
<1>5. Stopping'
  BY <1>0 DEF Stopping
<1>6. /\ Queued' = Queued /\ Unwritten' = Unwritten /\ Rows' = Rows
      /\ CurrentRows' = CurrentRows /\ InBatch(batch)' = InBatch(batch)
      /\ InBatch(queue)' = InBatch(queue)
  BY DEF Queued, Unwritten, Rows, CurrentRows, Current, InBatch
<1>7. Distinct' /\ Kept'
  BY <1>1, <1>6 DEF Distinct, Kept
<1>8. CacheUnique' /\ IndexUnique' /\ OneRowPerId'
  BY DEF CacheUnique, IndexUnique, OneRowPerId
<1>9. IndexExact' /\ AcksAreConsistent'
  BY <1>0 DEF IndexExact, AcksAreConsistent, Free
<1> QED
  BY <1>2, <1>3, <1>4, <1>5, <1>7, <1>8, <1>9

(* STOP goes into the queue behind everything, with the lock held. *)
LEMMA StopEnqueued ==
    ASSUME IndInv, close.pc \in {"scheduled", "stopping"}, lock \in {Free, Closer},
           worker.phase # "none", Len(queue) < QueueCapacity,
           queue' = Append(queue, STOP), close' = [close EXCEPT !.pc = "joining"],
           lock' = Closer,
           UNCHANGED <<files, claim, life, index, cache, caller, worker, batch, acked, counts>>
    PROVE  IndInv'
<1> USE DEF IndInv
<1>0. close'.pc = "joining" /\ close'.ok = close.ok
  BY DEF TypeOK
<1>1. /\ \A c \in Callers : caller[c].pc \notin {"putting", "put"}
      /\ AtPut("putting") = {} /\ AtPut("put") = {}
      /\ AtPut("putting")' = {} /\ AtPut("put")' = {}
  BY NobodyPuts DEF AtPut
<1>2. /\ queue' \in Seq(Snapshots \cup {STOP}) /\ Len(queue') = Len(queue) + 1
      /\ Len(queue) \in Nat
      /\ queue'[Len(queue) + 1] = STOP /\ \A i \in 1..Len(queue) : queue'[i] = queue[i]
      /\ InBatch(queue') = InBatch(queue) \cup {STOP}
      /\ \A i \in 1..(Len(queue) + 1) : i \in 1..Len(queue) \/ i = Len(queue) + 1
  <2>1. queue \in Seq(Snapshots \cup {STOP}) /\ STOP \in Snapshots \cup {STOP}
    BY DEF TypeOK
  <2> HIDE DEF IndInv
  <2> QED
    BY <2>1, AppendFacts
<1>3. /\ \A i \in 1..Len(queue) : queue[i] # STOP
      /\ worker.phase # "done" /\ ~worker.stopping
  BY DEF Stopping
<1>4. TypeOK'
  <2>1. Len(queue') <= QueueCapacity
    BY <1>2, WriterAssumption
  <2>2. close' \in [pc : {"none", "scheduled", "stopping", "joining", "done"}, ok : BOOLEAN]
    BY DEF TypeOK
  <2> QED
    BY <1>2, <2>1, <2>2 DEF TypeOK
<1>5. Lifecycle'
  BY <1>0 DEF Lifecycle
<1>6. Locking'
  BY <1>0, <1>1 DEF Locking
<1>7. Stopping'
  <2>1. \A i \in 1..Len(queue') : queue'[i] = STOP => i = Len(queue')
    BY <1>2, <1>3
  <2> QED
    BY <1>0, <1>3, <2>1 DEF Stopping
<1>8. STOP \notin InBatch(batch)
  BY StopIsNoSnapshot DEF TypeOK, InBatch
<1>9. Distinct'
  <2>1. SUFFICES ASSUME worker.phase # "failed" PROVE Distinct'
    BY DEF Distinct
  <2>2. \A i, j \in 1..Len(queue') : queue'[i] = queue'[j] => i = j
    BY <1>2, <1>3, <2>1 DEF Distinct
  <2>3. \A i \in 1..Len(queue') : queue'[i] \notin InBatch(batch)
    BY <1>2, <1>8, <2>1 DEF Distinct
  <2> QED
    BY <1>1, <2>1, <2>2, <2>3 DEF Distinct, InBatch
<1>10. /\ Queued' = Queued /\ Unwritten' = Unwritten /\ Rows' = Rows
       /\ CurrentRows' = CurrentRows /\ InBatch(batch)' = InBatch(batch)
  BY <1>2 DEF Queued, Unwritten, Rows, CurrentRows, Current, InBatch
<1>11. IndexExact' /\ Kept'
  BY <1>1, <1>10 DEF IndexExact, Kept, Pending, Committed
<1>12. CacheUnique' /\ IndexUnique' /\ OneRowPerId' /\ AcksAreConsistent'
  BY <1>10 DEF CacheUnique, IndexUnique, OneRowPerId, AcksAreConsistent
<1> QED
  BY <1>4, <1>5, <1>6, <1>7, <1>9, <1>11, <1>12

(* The close task runs: it finishes, enqueues STOP or waits for room. *)
LEMMA CloseRunsStep == ASSUME IndInv, CloseRuns PROVE IndInv'
<1>a. /\ close.pc = "scheduled" /\ lock = Free
      /\ \/ /\ worker.phase \in {"none", "failed"} /\ CloseFinishes(worker.phase = "none")
            /\ queue' = queue /\ lock' = lock
         \/ /\ worker.phase \notin {"none", "failed"} /\ lock' = Closer
            /\ close' = [close EXCEPT !.pc = IF HasRoom THEN "joining" ELSE "stopping"]
            /\ queue' = IF HasRoom THEN Append(queue, STOP) ELSE queue
            /\ UNCHANGED <<files, claim, life, index, cache, caller, worker, batch, acked, counts>>
  BY DEF CloseRuns, durable
<1>1. CASE worker.phase \in {"none", "failed"}
  <2>1. /\ CloseFinishes(worker.phase = "none") /\ queue' = queue /\ lock' = Free
        /\ (worker.phase = "none") = (worker.phase # "failed")
    BY <1>a, <1>1
  <2>2. CloseFinishes(worker.phase # "failed")
    BY <2>1
  <2> QED
    BY <1>a, <1>1, <2>1, <2>2, ClosedStep
<1>2. CASE worker.phase \notin {"none", "failed"} /\ HasRoom
  <2>1. /\ close' = [close EXCEPT !.pc = "joining"] /\ queue' = Append(queue, STOP)
        /\ lock' = Closer /\ Len(queue) < QueueCapacity
        /\ UNCHANGED <<files, claim, life, index, cache, caller, worker, batch, acked, counts>>
    BY <1>a, <1>2 DEF HasRoom
  <2> QED
    BY <1>a, <1>2, <2>1, StopEnqueued
<1>3. CASE worker.phase \notin {"none", "failed"} /\ ~HasRoom
  <2>1. /\ close' = [close EXCEPT !.pc = "stopping"] /\ lock' = Closer
        /\ UNCHANGED <<files, claim, life, index, cache, queue, caller, worker, batch, acked, counts>>
    BY <1>a, <1>3
  <2> USE DEF IndInv
  <2>2. close'.pc = "stopping" /\ close'.ok = close.ok
    BY <2>1 DEF TypeOK
  <2>3. /\ \A c \in Callers : caller[c].pc \notin {"putting", "put"}
        /\ AtPut("putting")' = AtPut("putting") /\ AtPut("put")' = AtPut("put")
    BY <1>a, <2>1, NobodyPuts DEF AtPut
  <2>4. TypeOK'
    BY <2>1 DEF TypeOK
  <2>5. Lifecycle' /\ CacheUnique'
    BY <1>a, <1>3, <2>1, <2>2 DEF Lifecycle, CacheUnique
  <2>6. Locking'
    BY <1>a, <2>1, <2>2, <2>3 DEF Locking
  <2>7. Stopping'
    BY <1>a, <2>1, <2>2 DEF Stopping
  <2>8. AcksAreConsistent'
    BY <2>1 DEF AcksAreConsistent, Rows
  <2> HIDE DEF IndInv
  <2>9. Distinct' /\ IndexUnique' /\ OneRowPerId' /\ IndexExact' /\ Kept'
    BY <2>1, <2>3, PlacesFrame
  <2> QED
    BY <2>4, <2>5, <2>6, <2>7, <2>8, <2>9 DEF IndInv
<1> QED
  BY <1>1, <1>2, <1>3

(* STOP finds room. *)
LEMMA StopRunsStep == ASSUME IndInv, StopRuns PROVE IndInv'
<1>1. lock = Closer /\ worker.phase # "none"
  BY DEF IndInv, StopRuns, Locking, Lifecycle, Empty, Free, Closer
<1> QED
  BY <1>1, StopEnqueued DEF StopRuns, HasRoom, durable

(* The worker has ended. *)
LEMMA CloseEndsStep == ASSUME IndInv, CloseEnds PROVE IndInv'
<1>1. /\ lock = Closer /\ worker.phase \in {"done", "failed"}
      /\ close.pc # "done" /\ lock' = Free /\ queue' = queue
  BY DEF IndInv, CloseEnds, Locking, WorkerDone
<1>2. CloseFinishes(worker.phase = "done") /\ (worker.phase = "done") = (worker.phase # "failed")
  BY <1>1 DEF CloseEnds
<1>3. CloseFinishes(worker.phase # "failed")
  BY <1>2
<1> QED
  BY <1>1, <1>3, ClosedStep

(* A crash, or the next writer of the process. *)
LEMMA FreshStep == ASSUME IndInv, Fresh PROVE IndInv'
<1> USE DEF IndInv, Fresh
<1>0. /\ claim' \in {Free, "other"} /\ worker'.phase = "none" /\ worker'.stopping = FALSE
      /\ close'.pc = "none" /\ close'.ok = FALSE
      /\ \A c \in Callers : caller'[c].pc = "idle"
      /\ counts'.accepted = 0 /\ counts'.written = 0
  BY DEF TypeOK, NoWorker, NotClosing, IdleCaller
<1>1. TypeOK'
  <2>1. worker' \in [phase : {"none", "idle", "flushing", "written", "done", "failed"},
                     todo : SUBSET Nat, stopping : BOOLEAN]
    <3>1. worker' = [phase |-> "none", todo |-> {}, stopping |-> FALSE]
      BY DEF NoWorker
    <3> HIDE DEF IndInv, Fresh
    <3> QED
      BY <3>1
  <2>2. cache' \in Seq(Snapshots) /\ Len(cache') <= CacheCapacity
    BY WriterAssumption, EmptySeq
  <2>3. /\ queue' \in Seq(Snapshots \cup {STOP}) /\ Len(queue') <= QueueCapacity
        /\ batch' \in Seq(Snapshots) /\ Len(batch') <= BatchRows
    BY WriterAssumption, EmptySeq
  <2>4. /\ caller' \in [Callers -> [pc : {"idle", "locking", "putting", "put"},
                                   snap : Snapshots \cup {NoSnapshot}]]
        /\ close' \in [pc : {"none", "scheduled", "stopping", "joining", "done"}, ok : BOOLEAN]
        /\ counts' \in [accepted : Nat, written : Nat]
    BY DEF IdleCaller, NotClosing
  <2>5. index' = {} /\ acked' = {} /\ lock' = Free /\ life' = "new" /\ files' = files
    OBVIOUS
  <2> HIDE DEF Fresh
  <2> QED
    BY <1>0, <2>1, <2>2, <2>3, <2>4, <2>5 DEF TypeOK
<1>2. Lifecycle' /\ Locking'
  BY <1>0 DEF Lifecycle, Locking, Empty, Free, Closer
<1>3. Len(cache') = 0 /\ Len(queue') = 0 /\ Len(batch') = 0
  BY EmptySeq
<1>4. Stopping' /\ CacheUnique' /\ IndexUnique' /\ OneRowPerId'
  BY <1>0, <1>3 DEF Stopping, CacheUnique, IndexUnique, OneRowPerId
<1>5. /\ InBatch(queue)' = {} /\ InBatch(batch)' = {}
      /\ AtPut("putting")' = {} /\ AtPut("put")' = {}
  BY <1>0 DEF InBatch, AtPut
<1>6. Distinct' /\ Kept'
  BY <1>0, <1>3, <1>5 DEF Distinct, Kept
<1>7. IndexExact' /\ AcksAreConsistent'
  BY <1>0 DEF IndexExact, AcksAreConsistent, Free
<1> QED
  BY <1>1, <1>2, <1>4, <1>6, <1>7

----------------------------------------------------------------------------
(* The invariant of the writer. *)

(* It holds before the first start. *)
LEMMA InitInv == Init => IndInv
<1> SUFFICES ASSUME Init PROVE IndInv
  OBVIOUS
<1> USE DEF Init
<1>0. /\ worker.phase = "none" /\ worker.stopping = FALSE
      /\ close.pc = "none" /\ close.ok = FALSE
      /\ \A c \in Callers : caller[c].pc = "idle"
      /\ counts.accepted = 0 /\ counts.written = 0
  BY DEF NoWorker, NotClosing, IdleCaller
<1>1. TypeOK
  <2>1. worker \in [phase : {"none", "idle", "flushing", "written", "done", "failed"},
                    todo : SUBSET Nat, stopping : BOOLEAN]
    <3>1. worker = [phase |-> "none", todo |-> {}, stopping |-> FALSE]
      BY DEF NoWorker
    <3> HIDE DEF Init
    <3> QED
      BY <3>1
  <2>2. cache \in Seq(Snapshots) /\ Len(cache) <= CacheCapacity
    BY WriterAssumption, EmptySeq
  <2>3. /\ queue \in Seq(Snapshots \cup {STOP}) /\ Len(queue) <= QueueCapacity
        /\ batch \in Seq(Snapshots) /\ Len(batch) <= BatchRows
    BY WriterAssumption, EmptySeq
  <2>4. /\ caller \in [Callers -> [pc : {"idle", "locking", "putting", "put"},
                                  snap : Snapshots \cup {NoSnapshot}]]
        /\ close \in [pc : {"none", "scheduled", "stopping", "joining", "done"}, ok : BOOLEAN]
        /\ counts \in [accepted : Nat, written : Nat]
    BY DEF IdleCaller, NotClosing
  <2> QED
    BY <2>1, <2>2, <2>3, <2>4 DEF TypeOK
<1>2. Lifecycle /\ Locking
  BY <1>0 DEF Lifecycle, Locking, Empty, Free, Closer
<1>3. Len(cache) = 0 /\ Len(queue) = 0 /\ Len(batch) = 0
  BY EmptySeq
<1>4. Stopping /\ CacheUnique /\ IndexUnique /\ OneRowPerId
  BY <1>0, <1>3 DEF Stopping, CacheUnique, IndexUnique, OneRowPerId
<1>5. InBatch(queue) = {} /\ InBatch(batch) = {} /\ AtPut("putting") = {} /\ AtPut("put") = {}
  BY <1>0 DEF InBatch, AtPut
<1>6. Distinct /\ Kept
  BY <1>0, <1>3, <1>5 DEF Distinct, Kept
<1>7. IndexExact /\ AcksAreConsistent
  BY <1>0 DEF IndexExact, AcksAreConsistent, Free
<1> QED
  BY <1>1, <1>2, <1>4, <1>6, <1>7 DEF IndInv

(* Nothing moves. *)
LEMMA StutterStep == ASSUME IndInv, UNCHANGED vars PROVE IndInv'
<1>1. /\ UNCHANGED <<files, claim, life, index, cache, queue, lock, caller, worker, batch>>
      /\ UNCHANGED <<close, acked, counts>>
  BY DEF vars, durable, memory, tasks
<1>2. AtPut("putting")' = AtPut("putting") /\ AtPut("put")' = AtPut("put")
  BY <1>1 DEF AtPut
<1>3. Distinct' /\ IndexUnique' /\ OneRowPerId' /\ IndexExact' /\ Kept'
  BY <1>1, <1>2, PlacesFrame
<1>4. TypeOK' /\ Lifecycle' /\ Locking' /\ Stopping' /\ CacheUnique' /\ AcksAreConsistent'
  BY <1>1 DEF IndInv, TypeOK, Lifecycle, Empty, Locking, Stopping, CacheUnique,
              AcksAreConsistent, Rows
<1> QED
  BY <1>3, <1>4 DEF IndInv

(* Every step preserves it. *)
LEMMA Step == IndInv /\ [Next]_vars => IndInv'
<1> SUFFICES ASSUME IndInv, [Next]_vars PROVE IndInv'
  OBVIOUS
<1>1. CASE Start \/ StartStep
  BY <1>1, ClaimStep, StartedStep, StartFailsStep DEF StartStep
<1>2. ASSUME NEW c \in Callers, \E s \in Snapshots : Write(c, s) PROVE IndInv'
  BY <1>2, WriteStep
<1>3. ASSUME NEW c \in Callers, CallerStep(c) PROVE IndInv'
  BY <1>3, RefusedStep, DeduplicatedStep, AcceptedStep, BlockedStep, PutRunsStep,
     WriteResumesStep, WorkerGoneStep DEF CallerStep, Entering
<1>4. ASSUME NEW c \in Callers, WriteCancelled(c) PROVE IndInv'
  BY <1>4, WriteCancelledStep
<1>5. CASE WorkerStep
  BY <1>5, TakeStep, FlushTimerStep, WriteFileStep, CommitStep, WorkerFailsStep DEF WorkerStep
<1>6. CASE CloseBegins \/ OtherClaims \/ OtherReleases
  BY <1>6, ClaimsStep
<1>7. CASE CloseStep
  BY <1>7, CloseRunsStep, StopRunsStep, CloseEndsStep DEF CloseStep
<1>8. CASE Crash \/ NewWriter
  BY <1>8, FreshStep DEF Crash, NewWriter
<1>9. CASE \E s \in Snapshots : OtherWrites(s)
  BY <1>9, OtherWritesStep
<1>10. CASE UNCHANGED vars
  BY <1>10, StutterStep
<1> QED
  BY <1>1, <1>2, <1>3, <1>4, <1>5, <1>6, <1>7, <1>8, <1>9, <1>10 DEF Next

(* The writer's state is always described by the invariant. *)
LEMMA Invariant == Spec => []IndInv
<1> QED
  BY InitInv, Step, PTL DEF Spec

(* Every variable keeps its type; the queue, the batch and the hot cache   *)
(* never exceed their capacities.                                          *)
THEOREM TypeCorrect == Spec => []TypeOK
<1>1. IndInv => TypeOK
  BY DEF IndInv
<1> QED
  BY <1>1, Invariant, PTL

(* No snapshot id is ever persisted twice, whatever crashes, cancels,      *)
(* fails, is evicted, restarts or writes from another process.             *)
THEOREM OneRowPerIdAlways == Spec => []OneRowPerId
<1>1. IndInv => OneRowPerId
  BY DEF IndInv
<1> QED
  BY <1>1, Invariant, PTL

(* The same id with different content fails closed: acknowledgements       *)
(* contradict neither the tree nor each other.                             *)
THEOREM AcksConsistent == Spec => []AcksAreConsistent
<1>1. IndInv => AcksAreConsistent
  BY DEF IndInv
<1> QED
  BY <1>1, Invariant, PTL

(* A clean close has made every acknowledged snapshot durable. *)
THEOREM CleanCloseDurable == Spec => []CleanCloseIsDurable
<1>1. IndInv => CleanCloseIsDurable
  <2> SUFFICES ASSUME IndInv, close.ok PROVE acked \subseteq Rows
    BY DEF CleanCloseIsDurable
  <2> USE DEF IndInv
  <2>1. worker.phase \in {"none", "done"}
    BY DEF Lifecycle
  <2>2. CASE worker.phase = "none"
    BY <2>2 DEF Lifecycle, Empty
  <2>3. CASE worker.phase = "done"
    <3>1. InBatch(queue) = {} /\ InBatch(batch) = {}
      BY <2>3 DEF Stopping, InBatch
    <3> QED
      BY <2>3, <3>1 DEF Kept, Queued
  <2> QED
    BY <2>1, <2>2, <2>3
<1> QED
  BY <1>1, Invariant, PTL

----------------------------------------------------------------------------
(* The statistics. *)

(* What is queued and what is unwritten are finite and apart. *)
LEMMA PlacesFinite ==
    ASSUME TypeOK
    PROVE  /\ IsFiniteSet(Queued) /\ Cardinality(Queued) \in Nat
           /\ IsFiniteSet(Unwritten) /\ Cardinality(Unwritten) \in Nat
<1>1. IsFiniteSet(InBatch(queue)) /\ IsFiniteSet(InBatch(batch))
  BY InBatchFinite DEF TypeOK
<1>2. IsFiniteSet(Queued)
  BY <1>1, FS_RemoveElement DEF Queued
<1>3. Unwritten \in SUBSET InBatch(batch)
  BY DEF Unwritten
<1>4. IsFiniteSet(Unwritten)
  BY <1>1, <1>3, FS_Subset
<1> QED
  BY <1>2, <1>4, FS_CardinalityType

(* Steps that move no snapshot and count nothing. *)
LEMMA CountedFrame ==
    ASSUME Counted, counts' = counts, Queued' = Queued, Unwritten' = Unwritten,
           Uncounted' = Uncounted, worker.phase = "failed" => worker'.phase = "failed"
    PROVE  Counted'
BY DEF Counted

(* The queue, the batch and the worker stay, and so do the puts. *)
LEMMA CountedSame ==
    ASSUME Counted, UNCHANGED <<counts, queue, batch, worker>>, AtPut("put")' = AtPut("put")
    PROVE  Counted'
<1>1. Queued' = Queued /\ Unwritten' = Unwritten /\ Uncounted' = Uncounted
  BY DEF Queued, Unwritten, Uncounted, InBatch
<1> QED
  BY <1>1, CountedFrame

(* Steps that leave the callers alone. *)
LEMMA CountedIdle ==
    ASSUME Counted, UNCHANGED <<counts, queue, batch, worker, caller>>
    PROVE  Counted'
<1>1. AtPut("put")' = AtPut("put")
  BY DEF AtPut
<1> QED
  BY <1>1, CountedSame

(* A caller that is not yet enqueued moves. *)
LEMMA CountedMove ==
    ASSUME TypeOK, Counted, UNCHANGED <<counts, queue, batch, worker>>, NEW c \in Callers,
           caller[c].pc # "put", NEW r, r.pc # "put", caller' = [caller EXCEPT ![c] = r]
    PROVE  Counted'
<1>1. /\ \A d \in Callers : d # c => caller'[d] = caller[d]
      /\ caller'[c].pc # "put"
  BY DEF TypeOK
<1>2. AtPut("put")' = AtPut("put")
  BY <1>1 DEF AtPut
<1> QED
  BY <1>2, CountedSame

(* A snapshot enters the queue, and is counted at once or with its put. *)
LEMMA CountedEnqueue ==
    ASSUME IndInv, Counted, NEW s \in Snapshots, worker.phase # "failed" => s \notin Queued,
           queue' = Append(queue, s), UNCHANGED <<batch, worker>>,
           counts'.accepted + Uncounted' = counts.accepted + Uncounted + 1,
           counts'.written = counts.written
    PROVE  Counted'
<1> USE DEF IndInv
<1>1. SUFFICES ASSUME worker.phase # "failed" PROVE Counted'
  BY DEF Counted
<1>2. InBatch(queue') = InBatch(queue) \cup {s}
  BY InBatchFacts DEF TypeOK
<1>3. Queued' = Queued \cup {s} /\ Unwritten' = Unwritten
  BY <1>2, StopIsNoSnapshot DEF Queued, Unwritten, InBatch
<1>4. /\ IsFiniteSet(Queued) /\ Cardinality(Queued) \in Nat /\ Cardinality(Unwritten) \in Nat
  BY PlacesFinite
<1>5. Cardinality(Queued') = Cardinality(Queued) + 1
  BY <1>1, <1>3, <1>4, FS_AddElement
<1>6. counts.accepted \in Nat /\ counts.written \in Nat /\ Uncounted \in {0, 1}
  BY DEF TypeOK, Uncounted
<1> QED
  BY <1>1, <1>3, <1>4, <1>5, <1>6, SMTT(30) DEF Counted

(* A caller counts the snapshot it has enqueued. *)
LEMMA CountedPut ==
    ASSUME IndInv, Counted, NEW c \in Callers, caller[c].pc = "put", Returns(c),
           counts' = [counts EXCEPT !.accepted = @ + 1], UNCHANGED <<queue, batch, worker>>
    PROVE  Counted'
<1>1. /\ \A d \in Callers : d # c => caller[d].pc # "put"
  BY HoldsLock
<1>2. AtPut("put") # {}
  BY DEF AtPut
<1>3. /\ \A d \in Callers : d # c => caller'[d] = caller[d]
      /\ caller'[c].pc = "idle"
  BY DEF IndInv, TypeOK, Returns, IdleCaller
<1>4. AtPut("put")' = {}
  BY <1>1, <1>3 DEF AtPut
<1>5. counts.accepted \in Nat /\ counts'.accepted = counts.accepted + 1
      /\ counts'.written = counts.written
  BY DEF IndInv, TypeOK
<1>6. Queued' = Queued /\ Unwritten' = Unwritten
  BY DEF Queued, Unwritten, InBatch
<1>7. Uncounted = 1 /\ Uncounted' = 0
  BY <1>2, <1>4 DEF Uncounted
<1> QED
  BY <1>5, <1>6, <1>7 DEF Counted

(* The caller's steps. *)
LEMMA CountedCaller ==
    ASSUME IndInv, Counted, NEW c \in Callers,
           (\E s \in Snapshots : Write(c, s)) \/ CallerStep(c) \/ WriteCancelled(c)
    PROVE  Counted'
<1>0. TypeOK /\ IdleCaller.pc = "idle"
  BY DEF IndInv, IdleCaller
<1>1. ASSUME NEW s \in Snapshots, Write(c, s) PROVE Counted'
  <2>1. /\ [pc |-> "locking", snap |-> s].pc # "put" /\ caller[c].pc # "put"
        /\ caller' = [caller EXCEPT ![c] = [pc |-> "locking", snap |-> s]]
        /\ UNCHANGED <<counts, queue, batch, worker>>
    BY <1>1 DEF Write, memory
  <2> QED
    BY <1>0, <2>1, CountedMove
<1>2. CASE Refused(c) \/ Deduplicated(c)
  <2>1. /\ caller[c].pc # "put" /\ caller' = [caller EXCEPT ![c] = IdleCaller]
        /\ UNCHANGED <<counts, queue, batch, worker>>
    BY <1>2 DEF Refused, Deduplicated, MayWrite, CanEnter, Returns, memory
  <2> QED
    BY <1>0, <2>1, CountedMove
<1>3. CASE Accepted(c)
  <2> DEFINE s == caller[c].snap
  <2>1. /\ MayWrite(c) /\ Known(s) = {} /\ queue' = Append(queue, s)
        /\ counts' = [counts EXCEPT !.accepted = @ + 1]
        /\ caller' = [caller EXCEPT ![c] = IdleCaller] /\ UNCHANGED <<batch, worker>>
    BY <1>3 DEF Accepted, Returns
  <2>2. s \in Snapshots /\ s \notin Queued /\ caller[c].pc = "locking"
    BY <2>1, InsideLock, NewId
  <2>3. /\ \A d \in Callers : d # c => caller'[d] = caller[d]
        /\ caller'[c].pc = "idle"
    BY <2>1 DEF IndInv, TypeOK, IdleCaller
  <2>4. Uncounted' = Uncounted
    BY <2>2, <2>3 DEF Uncounted, AtPut
  <2>5. /\ counts'.accepted + Uncounted' = counts.accepted + Uncounted + 1
        /\ counts'.written = counts.written
    BY <1>0, <2>1, <2>4 DEF TypeOK, Uncounted
  <2> HIDE DEF s
  <2> QED
    BY <2>1, <2>2, <2>5, CountedEnqueue
<1>4. CASE Blocked(c)
  <2> DEFINE r == [caller[c] EXCEPT !.pc = "putting"]
  <2>1. /\ caller[c].pc = "locking"
        /\ \/ caller' = [caller EXCEPT ![c] = r]
           \/ caller' = [caller EXCEPT ![c] = IdleCaller]
        /\ UNCHANGED <<counts, queue, batch, worker>>
    BY <1>4 DEF Blocked, MayWrite, CanEnter, Returns
  <2>2. r.pc = "putting"
    BY <1>0 DEF TypeOK
  <2> HIDE DEF r
  <2> QED
    BY <1>0, <2>1, <2>2, CountedMove
<1>5. CASE PutRuns(c)
  <2> DEFINE s == caller[c].snap
  <2>1. /\ caller[c].pc = "putting" /\ queue' = Append(queue, s)
        /\ caller' = [caller EXCEPT ![c].pc = "put"] /\ UNCHANGED <<batch, worker, counts>>
    BY <1>5 DEF PutRuns
  <2>2. /\ s \in Snapshots /\ \A d \in Callers : caller[d].pc # "put"
    BY <2>1, HoldsLock
  <2>3. worker.phase # "failed" => s \notin Queued
    BY <2>1 DEF IndInv, Distinct, AtPut, Queued
  <2>4. caller'[c].pc = "put"
    BY <1>0, <2>1 DEF TypeOK
  <2>5. Uncounted = 0 /\ Uncounted' = 1
    BY <2>2, <2>4 DEF Uncounted, AtPut
  <2>6. /\ counts'.accepted + Uncounted' = counts.accepted + Uncounted + 1
        /\ counts'.written = counts.written
    BY <1>0, <2>1, <2>5 DEF TypeOK
  <2> HIDE DEF s
  <2> QED
    BY <2>1, <2>2, <2>3, <2>6, CountedEnqueue
<1>6. CASE WriteResumes(c)
  BY <1>6, CountedPut DEF WriteResumes, memory
<1>7. CASE WorkerGone(c)
  <2>1. /\ caller[c].pc # "put" /\ caller' = [caller EXCEPT ![c] = IdleCaller]
        /\ UNCHANGED <<counts, queue, batch, worker>>
    BY <1>7 DEF WorkerGone, Returns
  <2> QED
    BY <1>0, <2>1, CountedMove
<1>8. CASE WriteCancelled(c) /\ caller[c].pc = "put"
  BY <1>8, CountedPut DEF WriteCancelled
<1>9. CASE WriteCancelled(c) /\ caller[c].pc # "put"
  <2>1. /\ caller[c].pc # "put" /\ caller' = [caller EXCEPT ![c] = IdleCaller]
        /\ UNCHANGED <<counts, queue, batch, worker>>
    BY <1>9 DEF WriteCancelled, Returns
  <2> QED
    BY <1>0, <2>1, CountedMove
<1> QED
  BY <1>1, <1>2, <1>3, <1>4, <1>5, <1>6, <1>7, <1>8, <1>9 DEF CallerStep, Entering

(* The worker's steps: what it takes off the queue is unwritten, what it   *)
(* commits is counted as written.                                          *)
LEMMA CountedWorker == ASSUME IndInv, Counted, WorkerStep PROVE Counted'
<1>0. /\ TypeOK /\ IsFiniteSet(Queued) /\ Cardinality(Queued) \in Nat
      /\ IsFiniteSet(Unwritten) /\ Cardinality(Unwritten) \in Nat
      /\ counts.accepted \in Nat /\ counts.written \in Nat /\ Uncounted \in {0, 1}
  <2>1. TypeOK
    BY DEF IndInv
  <2> QED
    BY <2>1, PlacesFinite DEF TypeOK, Uncounted
<1>1. CASE Take
  <2> DEFINE x == Head(queue)
  <2>a. /\ worker.phase = "idle" /\ queue # <<>> /\ queue' = Tail(queue)
        /\ \/ x = STOP /\ batch' = batch /\ worker' = Flushing(batch, TRUE)
           \/ /\ x # STOP /\ batch' = Append(batch, x)
              /\ worker' = IF Len(batch') >= BatchRows THEN Flushing(batch', FALSE) ELSE worker
        /\ UNCHANGED <<caller, counts>>
    BY <1>1 DEF Take
  <2>b. queue \in Seq(Snapshots \cup {STOP}) /\ batch \in Seq(Snapshots)
    BY <1>0 DEF TypeOK
  <2>c. /\ x \in Snapshots \cup {STOP} /\ x = queue[1] /\ Len(queue) \in Nat /\ Len(queue) > 0
        /\ queue' \in Seq(Snapshots \cup {STOP}) /\ Len(queue') = Len(queue) - 1
        /\ \A i \in 1..Len(queue) - 1 : queue'[i] = queue[i + 1] /\ i + 1 \in 1..Len(queue)
        /\ InBatch(queue) = {x} \cup InBatch(queue')
    BY <2>a, <2>b, TailFacts
  <2>d. Uncounted' = Uncounted /\ Unwritten = InBatch(batch)
    BY <2>a DEF Uncounted, AtPut, Unwritten
  <2>1. CASE x = STOP
    <3>1. Queued' = Queued
      BY <2>c, <2>1 DEF Queued, InBatch
    <3>2. batch = <<>> \/ \A s \in InBatch(batch) : Partition[s] \in worker'.todo
      BY <2>a, <2>b, <2>1, FlushingFacts
    <3>3. Unwritten' = Unwritten
      <4>0. batch' = batch
        BY <2>a, <2>1
      <4>1. InBatch(batch)' = InBatch(batch)
        BY <4>0 DEF InBatch
      <4>2. batch = <<>> => InBatch(batch) = {}
        BY DEF InBatch
      <4> HIDE DEF x
      <4> QED
        BY <2>d, <3>2, <4>1, <4>2 DEF Unwritten
    <3> QED
      BY <2>a, <2>d, <3>1, <3>3, CountedFrame
  <2>2. CASE x # STOP
    <3>1. /\ x \in Snapshots /\ batch' = Append(batch, x)
          /\ worker' = IF Len(batch') >= BatchRows THEN Flushing(batch', FALSE) ELSE worker
      BY <2>a, <2>c, <2>2
    <3>2. /\ batch' \in Seq(Snapshots) /\ Len(batch') = Len(batch) + 1 /\ Len(batch) \in Nat
          /\ InBatch(batch') = InBatch(batch) \cup {x}
      <4> HIDE DEF x
      <4> QED
        BY <2>b, <3>1, AppendFacts
    <3>3. batch' # <<>>
      BY <3>2, EmptySeq
    <3>4. \/ worker'.phase = "idle"
          \/ \A s \in InBatch(batch') : Partition[s] \in worker'.todo
      <4> HIDE DEF x
      <4> QED
        BY <2>a, <3>1, <3>2, <3>3, FlushingFacts
    <3>5. Unwritten' = Unwritten \cup {x}
      <4>1. InBatch(batch)' = InBatch(batch')
        BY DEF InBatch
      <4> HIDE DEF x
      <4> QED
        BY <2>d, <3>2, <3>4, <4>1 DEF Unwritten
    <3>6. \A i \in 1..Len(queue') : queue'[i] # x
      BY <2>a, <2>c DEF IndInv, Distinct
    <3>7. x \notin InBatch(queue') /\ x \notin InBatch(batch)
      <4>1. DOMAIN queue' = 1..Len(queue')
        BY <2>c
      <4>2. x \notin InBatch(batch)
        BY <2>a, <2>c DEF IndInv, Distinct
      <4> QED
        BY <3>6, <4>1, <4>2 DEF InBatch
    <3>8. Queued' = Queued \ {x} /\ x \in Queued /\ x \notin Unwritten
      <4>1. Queued' = InBatch(queue') \ {STOP}
        BY DEF Queued, InBatch
      <4> HIDE DEF x
      <4> QED
        BY <2>c, <2>d, <2>2, <3>7, <4>1 DEF Queued
    <3>9. /\ Cardinality(Queued') = Cardinality(Queued) - 1
          /\ Cardinality(Unwritten') = Cardinality(Unwritten) + 1
      <4> HIDE DEF x
      <4> QED
        BY <1>0, <3>5, <3>8, FS_AddElement, FS_RemoveElement
    <3> QED
      BY <1>0, <2>a, <2>d, <3>9 DEF Counted
  <2> QED
    BY <2>1, <2>2
<1>2. CASE FlushTimer
  <2>1. /\ worker.phase = "idle" /\ batch # <<>> /\ worker' = Flushing(batch, FALSE)
        /\ UNCHANGED <<counts, queue, batch, caller>>
    BY <1>2 DEF FlushTimer, memory
  <2>2. \A s \in InBatch(batch) : Partition[s] \in worker'.todo
    BY <1>0, <2>1, FlushingFacts DEF TypeOK
  <2>3. Queued' = Queued /\ Unwritten' = Unwritten /\ Uncounted' = Uncounted
    BY <2>1, <2>2 DEF Queued, Unwritten, Uncounted, AtPut, InBatch
  <2> QED
    BY <2>1, <2>3, CountedFrame
<1>3. CASE WriteFile
  <2>1. /\ worker.phase = "flushing" /\ worker'.phase = "written" /\ worker'.todo = worker.todo
        /\ UNCHANGED <<counts, queue, batch, caller>>
    BY <1>0, <1>3 DEF WriteFile, memory, TypeOK
  <2>2. Queued' = Queued /\ Unwritten' = Unwritten /\ Uncounted' = Uncounted
    BY <2>1 DEF Queued, Unwritten, Uncounted, AtPut, InBatch
  <2> QED
    BY <2>1, <2>2, CountedFrame
<1>4. CASE Commit
  <2>1. /\ worker.phase = "written" /\ UNCHANGED <<queue, caller>>
        /\ counts' = [counts EXCEPT !.written = @ + Cardinality(CurrentRows)]
    BY <1>4 DEF Commit
  <2>2. CurrentRows \in SUBSET Unwritten
    BY <2>1, AtFiles
  <2>3. Unwritten' = Unwritten \ CurrentRows
    BY <1>4, CommitMoves
  <2>4. /\ IsFiniteSet(CurrentRows) /\ Cardinality(CurrentRows) \in Nat
        /\ Unwritten \cap CurrentRows = CurrentRows
    BY <1>0, <2>2, FS_Subset, FS_CardinalityType
  <2>5. Cardinality(Unwritten') = Cardinality(Unwritten) - Cardinality(CurrentRows)
    <3>1. Cardinality(Unwritten \ CurrentRows)
            = Cardinality(Unwritten) - Cardinality(Unwritten \cap CurrentRows)
      BY <1>0, FS_Difference
    <3> QED
      BY <2>3, <2>4, <3>1
  <2>6. Queued' = Queued /\ Uncounted' = Uncounted
    BY <2>1 DEF Queued, Uncounted, AtPut, InBatch
  <2>7. counts'.written = counts.written + Cardinality(CurrentRows) /\ counts'.accepted = counts.accepted
    BY <1>0, <2>1 DEF TypeOK
  <2> QED
    BY <1>0, <2>1, <2>4, <2>5, <2>6, <2>7 DEF Counted
<1>5. CASE WorkerFails
  <2>1. worker'.phase = "failed"
    BY <1>0, <1>5 DEF WorkerFails, TypeOK
  <2> QED
    BY <2>1 DEF Counted
<1> QED
  BY <1>1, <1>2, <1>3, <1>4, <1>5 DEF WorkerStep

(* Closing: STOP is not counted. *)
LEMMA CountedClose == ASSUME IndInv, Counted, CloseStep PROVE Counted'
<1>1. UNCHANGED <<counts, batch, worker, caller>>
  BY DEF CloseStep, CloseRuns, StopRuns, CloseEnds, CloseFinishes
<1>2. queue' = queue \/ queue' = Append(queue, STOP)
  BY DEF CloseStep, CloseRuns, StopRuns, CloseEnds, CloseFinishes
<1>3. Unwritten' = Unwritten /\ Uncounted' = Uncounted
  BY <1>1 DEF Unwritten, Uncounted, AtPut, InBatch
<1>4. Queued' = Queued
  <2>1. CASE queue' = queue
    BY <2>1 DEF Queued, InBatch
  <2>2. CASE queue' = Append(queue, STOP)
    <3>1. InBatch(queue') = InBatch(queue) \cup {STOP}
      <4>1. queue \in Seq(Snapshots \cup {STOP}) /\ STOP \in Snapshots \cup {STOP}
        BY DEF IndInv, TypeOK
      <4> QED
        BY <2>2, <4>1, InBatchFacts
    <3> QED
      BY <3>1 DEF Queued, InBatch
  <2> QED
    BY <1>2, <2>1, <2>2
<1> QED
  BY <1>1, <1>3, <1>4, CountedFrame

(* A writer that has not started has counted nothing. *)
LEMMA CountedEmpty ==
    (queue = <<>> /\ batch = <<>> /\ (\A c \in Callers : caller[c].pc = "idle")
     /\ counts.accepted = 0 /\ counts.written = 0) => Counted
<1> SUFFICES ASSUME queue = <<>>, batch = <<>>, \A c \in Callers : caller[c].pc = "idle",
                    counts.accepted = 0, counts.written = 0
             PROVE  Counted
  OBVIOUS
<1>1. Queued = {} /\ Unwritten = {} /\ Uncounted = 0
  BY DEF Queued, Unwritten, Uncounted, AtPut, InBatch
<1> QED
  BY <1>1, FS_EmptySet DEF Counted

(* Every step keeps the balance. *)
LEMMA CountedStep == IndInv /\ Counted /\ [Next]_vars => Counted'
<1> SUFFICES ASSUME IndInv, Counted, [Next]_vars PROVE Counted'
  OBVIOUS
<1>1. CASE Start \/ StartFails
  BY <1>1, CountedIdle DEF Start, StartFails, memory, tasks
<1>2. CASE Started \/ Crash \/ NewWriter
  <2>1. /\ queue' = <<>> /\ batch' = <<>> /\ \A c \in Callers : caller'[c].pc = "idle"
        /\ counts'.accepted = 0 /\ counts'.written = 0
    <3>1. CASE Started
      BY <3>1 DEF IndInv, Started, Lifecycle, Empty
    <3>2. CASE Crash \/ NewWriter
      BY <3>2 DEF Crash, NewWriter, Fresh, IdleCaller
    <3> QED
      BY <1>2, <3>1, <3>2
  <2>2. Queued' = {} /\ Unwritten' = {} /\ Uncounted' = 0
    BY <2>1 DEF Queued, Unwritten, Uncounted, AtPut, InBatch
  <2> QED
    BY <2>1, <2>2, FS_EmptySet DEF Counted
<1>3. ASSUME NEW c \in Callers,
             (\E s \in Snapshots : Write(c, s)) \/ CallerStep(c) \/ WriteCancelled(c)
      PROVE  Counted'
  BY <1>3, CountedCaller
<1>4. CASE WorkerStep
  BY <1>4, CountedWorker
<1>5. CASE CloseStep
  BY <1>5, CountedClose
<1>6. CASE CloseBegins \/ OtherClaims \/ OtherReleases \/ \E s \in Snapshots : OtherWrites(s)
  BY <1>6, CountedIdle DEF CloseBegins, OtherClaims, OtherReleases, OtherWrites, memory, tasks
<1>7. CASE UNCHANGED vars
  BY <1>7, CountedIdle DEF vars, memory, tasks
<1> QED
  BY <1>1, <1>2, <1>3, <1>4, <1>5, <1>6, <1>7 DEF Next, StartStep

(* After a clean close with every write returned, as many snapshots are    *)
(* written as were accepted.                                               *)
THEOREM CountsAgreeAlways == Spec => []CountsAgree
<1>1. Init => Counted
  BY CountedEmpty DEF Init, IdleCaller
<1>2. IndInv /\ Counted => CountsAgree
  <2> SUFFICES ASSUME IndInv, Counted, close.ok, \A c \in Callers : caller[c].pc = "idle"
               PROVE  counts.accepted = counts.written
    BY DEF CountsAgree
  <2>0. counts.accepted \in Nat /\ counts.written \in Nat
    BY DEF IndInv, TypeOK
  <2>1. worker.phase \in {"none", "done"}
    BY DEF IndInv, Lifecycle
  <2>2. queue = <<>> /\ batch = <<>>
    BY <2>1 DEF IndInv, Lifecycle, Empty, Stopping
  <2>3. Queued = {} /\ Unwritten = {} /\ Uncounted = 0
    BY <2>2 DEF Queued, Unwritten, Uncounted, AtPut, InBatch
  <2> QED
    BY <2>0, <2>1, <2>3, FS_EmptySet DEF Counted
<1> QED
  BY <1>1, <1>2, CountedStep, Invariant, PTL DEF Spec
=============================================================================
