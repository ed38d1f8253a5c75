--------------------------- MODULE CollectionProofs ---------------------------
(***************************************************************************)
(* Proofs about RawWriter, Collection and Compaction, for any number of    *)
(* events, any queue capacity, batch and file size, and any legacy tree.   *)
(***************************************************************************)
EXTENDS Compaction, FiniteSetTheorems, SequenceTheorems, NaturalsInduction,
        WellFoundedInduction, TLAPS

----------------------------------------------------------------------------
(* Sequences                                                               *)

(* A set of numbers has a least one: induction by least counterexample.    *)
LEMMA LeastNumber ==
  ASSUME NEW T, T \subseteq Nat, T # {}
  PROVE  \E n \in T : \A m \in T : n <= m
<1> DEFINE R == {p \in Nat \X Nat : p[1] < p[2]}
<1>1. IsWellFoundedOn(R, Nat)
  BY NatLessThanWellFounded DEF OpToRel
<1>2. PICK x \in T : \A y \in T : <<y, x>> \notin R
  <2> HIDE DEF R
  <2> QED BY <1>1, WFMin
<1>3. ASSUME NEW y \in T PROVE x <= y
  <2>1. <<y, x>> \in Nat \X Nat /\ <<y, x>>[1] = y /\ <<y, x>>[2] = x
    OBVIOUS
  <2> QED BY <1>2, <2>1
<1> QED BY <1>3

(* No element occurs twice in s, except those of Z. *)
Distinct(s, Z) ==
    \A i, j \in 1..Len(s) : s[i] = s[j] /\ s[i] \notin Z => i = j

(* A sequence has finitely many elements. *)
LEMMA ElementsFinite ==
  ASSUME NEW S, NEW s \in Seq(S)
  PROVE  /\ IsFiniteSet(ToSet(s)) /\ ToSet(s) \subseteq S
         /\ \A x \in ToSet(s) : \E i \in 1..Len(s) : x = s[i]
         /\ \A i \in 1..Len(s) : s[i] \in ToSet(s)
<1>1. DOMAIN s = 1..Len(s) /\ Len(s) \in Nat /\ \A i \in 1..Len(s) : s[i] \in S
  OBVIOUS
<1>2. ToSet(s) = {s[i] : i \in 1..Len(s)}
  BY <1>1 DEF ToSet
<1>3. s \in Surjection(1..Len(s), ToSet(s))
  <2>1. s \in [1..Len(s) -> ToSet(s)]
    BY <1>1, <1>2
  <2>2. \A x \in ToSet(s) : \E i \in 1..Len(s) : s[i] = x
    BY <1>2
  <2> QED
    BY <2>1, <2>2 DEF Surjection
<1>4. IsFiniteSet(1..Len(s))
  BY <1>1, FS_Interval
<1>5. IsFiniteSet(ToSet(s))
  BY <1>3, <1>4, FS_Surjection
<1> QED
  BY <1>1, <1>2, <1>5

LEMMA NoElements ==
  /\ ToSet(<<>>) = {}
  /\ \A S : \A s \in Seq(S) : ToSet(s) = {} => s = <<>>
<1>1. ToSet(<<>>) = {}
  BY DEF ToSet
<1>2. ASSUME NEW S, NEW s \in Seq(S), ToSet(s) = {} PROVE s = <<>>
  <2>1. Len(s) \in Nat
    OBVIOUS
  <2>2. Len(s) # 0 => 1 \in 1..Len(s)
    BY <2>1
  <2>3. Len(s) = 0
    BY <1>2, <2>2, ElementsFinite
  <2> QED
    BY <2>3, EmptySeq
<1> QED
  BY <1>1, <1>2

(* The elements of a sequence after an append. *)
LEMMA ElementsAppend ==
  ASSUME NEW S, NEW s \in Seq(S), NEW x \in S, NEW Z
  PROVE  /\ Append(s, x) \in Seq(S) /\ Len(Append(s, x)) = Len(s) + 1
         /\ ToSet(Append(s, x)) = ToSet(s) \cup {x}
         /\ Distinct(s, Z) /\ (x \in ToSet(s) => x \in Z) => Distinct(Append(s, x), Z)
<1> DEFINE more == Append(s, x)
<1>1. /\ more \in Seq(S) /\ Len(more) = Len(s) + 1 /\ Len(s) \in Nat
      /\ \A i \in 1..Len(s) : more[i] = s[i]
      /\ more[Len(s) + 1] = x
  OBVIOUS
<1> HIDE DEF more
<1>2. \A i \in 1..Len(more) : \/ i \in 1..Len(s) /\ more[i] = s[i]
                              \/ i = Len(s) + 1 /\ more[i] = x
  BY <1>1
<1>3. Len(s) + 1 \in 1..Len(more) /\ 1..Len(s) \subseteq 1..Len(more)
  BY <1>1
<1>4. ToSet(more) = ToSet(s) \cup {x}
  <2>1. ASSUME NEW y \in ToSet(more) PROVE y \in ToSet(s) \cup {x}
    <3>1. PICK i \in 1..Len(more) : y = more[i]
      BY <1>1, ElementsFinite
    <3> QED
      BY <1>2, <3>1, ElementsFinite
  <2>2. ASSUME NEW y \in ToSet(s) PROVE y \in ToSet(more)
    <3>1. PICK i \in 1..Len(s) : y = s[i]
      BY ElementsFinite
    <3>2. more \in Seq(S) /\ i \in 1..Len(more) /\ more[i] = y
      BY <1>1, <1>3, <3>1
    <3>3. more[i] \in ToSet(more)
      BY <3>2, ElementsFinite
    <3> QED
      BY <3>2, <3>3
  <2>3. x \in ToSet(more)
    BY <1>1, <1>3, ElementsFinite
  <2> QED
    BY <2>1, <2>2, <2>3
<1>5. ASSUME Distinct(s, Z), x \in ToSet(s) => x \in Z PROVE Distinct(more, Z)
  <2> SUFFICES ASSUME NEW i \in 1..Len(more), NEW j \in 1..Len(more),
                      more[i] = more[j], more[i] \notin Z
               PROVE  i = j
    BY DEF Distinct
  <2>1. \A k \in 1..Len(s) : s[k] \in ToSet(s)
    BY ElementsFinite
  <2> QED
    BY <1>2, <1>5, <2>1 DEF Distinct
<1> QED
  BY <1>1, <1>4, <1>5 DEF more

(* The elements of a sequence without its head. *)
LEMMA ElementsTail ==
  ASSUME NEW S, NEW s \in Seq(S), s # <<>>, NEW Z
  PROVE  /\ Head(s) \in S /\ Head(s) \in ToSet(s)
         /\ Tail(s) \in Seq(S) /\ Len(Tail(s)) = Len(s) - 1 /\ Len(s) \in Nat
         /\ ToSet(s) = ToSet(Tail(s)) \cup {Head(s)}
         /\ Distinct(s, Z) => /\ Distinct(Tail(s), Z)
                              /\ Head(s) \notin Z => Head(s) \notin ToSet(Tail(s))
<1> DEFINE rest == Tail(s)
           h == Head(s)
<1>1. /\ Len(s) \in Nat /\ Len(s) >= 1 /\ h = s[1] /\ h \in S
      /\ rest \in Seq(S) /\ Len(rest) = Len(s) - 1
      /\ \A i \in 1..Len(rest) : rest[i] = s[i + 1]
  <2>1. Len(s) \in Nat /\ Len(s) # 0
    BY EmptySeq
  <2> QED
    BY <2>1
<1> HIDE DEF rest, h
<1>2. 1 \in 1..Len(s) /\ \A i \in 1..Len(rest) : i + 1 \in 1..Len(s) /\ i + 1 # 1
  BY <1>1
<1>3. ASSUME NEW x \in ToSet(s) PROVE x \in ToSet(rest) \cup {h}
  <2>1. PICK i \in 1..Len(s) : x = s[i]
    BY ElementsFinite
  <2>2. CASE i = 1
    BY <1>1, <2>1, <2>2
  <2>3. CASE i # 1
    <3>1. i - 1 \in 1..Len(rest) /\ rest[i - 1] = s[i]
      BY <1>1, <2>1, <2>3
    <3>2. rest[i - 1] \in ToSet(rest)
      BY <1>1, <3>1, ElementsFinite
    <3> QED
      BY <2>1, <3>1, <3>2
  <2> QED
    BY <2>2, <2>3
<1>4. ASSUME NEW x \in ToSet(rest) PROVE \E i \in 1..Len(rest) : x = s[i + 1]
  <2>1. PICK i \in 1..Len(rest) : x = rest[i]
    BY <1>1, ElementsFinite
  <2> QED
    BY <1>1, <2>1
<1>5. ToSet(s) = ToSet(rest) \cup {h} /\ h \in ToSet(s)
  <2>1. \A i \in 1..Len(s) : s[i] \in ToSet(s)
    BY ElementsFinite
  <2> QED
    BY <1>1, <1>2, <1>3, <1>4, <2>1
<1>6. ASSUME Distinct(s, Z)
      PROVE  Distinct(rest, Z) /\ (h \notin Z => h \notin ToSet(rest))
  <2>1. Distinct(rest, Z)
    <3> SUFFICES ASSUME NEW i \in 1..Len(rest), NEW j \in 1..Len(rest),
                        rest[i] = rest[j], rest[i] \notin Z
                 PROVE  i = j
      BY DEF Distinct
    <3>1. s[i + 1] = s[j + 1] /\ s[i + 1] \notin Z /\ i + 1 \in 1..Len(s) /\ j + 1 \in 1..Len(s)
      BY <1>1, <1>2
    <3>2. i + 1 = j + 1
      BY <1>6, <3>1 DEF Distinct
    <3> QED
      BY <3>2
  <2>2. ASSUME h \notin Z, h \in ToSet(rest) PROVE FALSE
    <3>1. PICK i \in 1..Len(rest) : s[1] = s[i + 1]
      BY <1>1, <1>4, <2>2
    <3> QED
      BY <1>1, <1>2, <1>6, <2>2, <3>1 DEF Distinct
  <2> QED
    BY <2>1, <2>2
<1> QED
  BY <1>1, <1>5, <1>6 DEF rest, h

(* Removing the only occurrence of an element. *)
LEMMA ElementsRemove ==
  ASSUME NEW S, NEW s \in Seq(S), NEW t, Distinct(s, {})
  PROVE  /\ RemoveFirst(s, t) \in Seq(S)
         /\ ToSet(RemoveFirst(s, t)) = ToSet(s) \ {t}
         /\ Distinct(RemoveFirst(s, t), {})
<1>1. CASE ~\E i \in 1..Len(s) : s[i] = t
  <2>1. RemoveFirst(s, t) = s
    BY <1>1 DEF RemoveFirst
  <2>2. t \notin ToSet(s)
    BY <1>1, ElementsFinite
  <2> QED
    BY <2>1, <2>2
<1>2. CASE \E i \in 1..Len(s) : s[i] = t
  <2> DEFINE k == SelectInSeq(s, LAMBDA v : v = t)
  <2>1. k \in 1..Len(s) /\ s[k] = t
    <3> DEFINE I == {i \in 1..Len(s) : s[i] = t}
    <3>1. I # {} /\ k = CHOOSE i \in I : \A j \in I : i <= j
      BY <1>2 DEF SelectInSeq, Min
    <3>2. \E i \in I : \A j \in I : i <= j
      <4>1. I \subseteq Nat
        OBVIOUS
      <4> HIDE DEF I
      <4> QED
        BY <3>1, <4>1, LeastNumber
    <3>3. k \in I
      BY <3>1, <3>2
    <3> QED
      BY <3>3
  <2>2. RemoveFirst(s, t) = RemoveAt(s, k)
    BY <1>2 DEF RemoveFirst
  <2> HIDE DEF k
  <2> DEFINE less == RemoveFirst(s, t)
  <2>3. /\ less \in Seq(S) /\ Len(less) = Len(s) - 1 /\ Len(s) \in Nat /\ k \in Nat
        /\ \A i \in 1..Len(less) : less[i] = IF i < k THEN s[i] ELSE s[i + 1]
    <3> DEFINE u == SubSeq(s, 1, k - 1)
               v == SubSeq(s, k + 1, Len(s))
    <3>1. /\ u \in Seq(S) /\ Len(u) = k - 1 /\ \A i \in 1..k - 1 : u[i] = s[i]
          /\ v \in Seq(S) /\ Len(v) = Len(s) - k
          /\ \A i \in 1..Len(s) - k : v[i] = s[k + i]
          /\ k \in Nat /\ Len(s) \in Nat
      BY <2>1
    <3>2. less = u \o v
      BY <2>2 DEF RemoveAt
    <3> HIDE DEF u, v, less
    <3>3. less \in Seq(S) /\ Len(less) = Len(s) - 1
      BY <2>1, <3>1, <3>2
    <3>4. ASSUME NEW i \in 1..Len(less) PROVE less[i] = IF i < k THEN s[i] ELSE s[i + 1]
      <4>1. CASE i < k
        BY <2>1, <3>1, <3>2, <3>3, <4>1
      <4>2. CASE ~(i < k)
        <5>1. i - (k - 1) \in 1..Len(s) - k /\ k + (i - (k - 1)) = i + 1 /\ i > Len(u)
          BY <2>1, <3>1, <3>3, <4>2
        <5>2. less[i] = v[i - (k - 1)]
          BY <2>1, <3>1, <3>2, <3>3, <5>1
        <5>3. v[i - (k - 1)] = s[k + (i - (k - 1))]
          BY <3>1, <5>1
        <5> QED
          BY <4>2, <5>1, <5>2, <5>3
      <4> QED
        BY <4>1, <4>2
    <3> QED
      BY <3>1, <3>3, <3>4
  <2> HIDE DEF less
  <2> DEFINE from(i) == IF i < k THEN i ELSE i + 1
  <2>4. \A i \in 1..Len(less) : from(i) \in 1..Len(s) /\ from(i) # k /\ less[i] = s[from(i)]
    BY <2>1, <2>3
  <2>5. \A i, j \in 1..Len(less) : from(i) = from(j) => i = j
    BY <2>1, <2>3
  <2>6. \A i \in 1..Len(s) : i # k => \E j \in 1..Len(less) : from(j) = i
    <3> SUFFICES ASSUME NEW i \in 1..Len(s), i # k
                 PROVE  \E j \in 1..Len(less) : from(j) = i
      OBVIOUS
    <3>1. CASE i < k
      <4>1. i \in 1..Len(less) /\ from(i) = i
        BY <2>1, <2>3, <3>1
      <4> QED
        BY <4>1
    <3>2. CASE i > k
      <4>1. i - 1 \in 1..Len(less) /\ from(i - 1) = i
        BY <2>1, <2>3, <3>2
      <4> QED
        BY <4>1
    <3> QED
      BY <2>3, <3>1, <3>2
  <2> HIDE DEF from
  <2>7. \A i \in 1..Len(s) : s[i] = t => i = k
    BY <2>1 DEF Distinct
  <2>8. ToSet(less) = ToSet(s) \ {t}
    <3>1. ASSUME NEW x \in ToSet(less) PROVE x \in ToSet(s) \ {t}
      <4>1. PICK i \in 1..Len(less) : x = less[i]
        BY <2>3, ElementsFinite
      <4>2. from(i) \in 1..Len(s) /\ from(i) # k /\ x = s[from(i)]
        BY <2>4, <4>1
      <4> QED
        BY <2>7, <4>2, ElementsFinite
    <3>2. ASSUME NEW x \in ToSet(s), x # t PROVE x \in ToSet(less)
      <4>1. PICK i \in 1..Len(s) : x = s[i]
        BY ElementsFinite
      <4>2. PICK j \in 1..Len(less) : from(j) = i
        BY <2>1, <2>6, <3>2, <4>1
      <4>3. x = less[j]
        BY <2>4, <4>1, <4>2
      <4> QED
        BY <2>3, <4>3, ElementsFinite
    <3> QED
      BY <3>1, <3>2
  <2>9. Distinct(less, {})
    BY <2>4, <2>5 DEF Distinct
  <2> QED
    BY <2>3, <2>8, <2>9 DEF less
<1> QED
  BY <1>1, <1>2

----------------------------------------------------------------------------
(* The bounded queue                                                       *)

(* The records of a collection, and the tasks that put them in the queue. *)
Kinds == {"raw", "event", "end"}
Recs == [kind : Kinds, at : Nat]
Items == Recs \cup {STOP}
Writers == Tasks \cup {Closer}

(* The tasks whose put is still waiting. *)
PuttersOf(q) == q.fresh \cup q.woken \cup ToSet(q.parked)

(* A queue whose waiting line names every putter once. *)
GoodQueue(q) ==
    /\ IsQueue(q, Items, Writers, QueueCapacity)
    /\ Distinct(q.parked, {})
    /\ ToSet(q.parked) \cap (q.fresh \cup q.woken) = {}

(* An item is put on a queue with room. *)
LEMMA QueuePut ==
  ASSUME NEW q, NEW item \in Items,
         GoodQueue(q), Len(q.items) < QueueCapacity
  PROVE  /\ GoodQueue(PutNowait(q, item))
         /\ PutNowait(q, item).items = Append(q.items, item)
         /\ PuttersOf(PutNowait(q, item)) = PuttersOf(q)
<1> DEFINE after == PutNowait(q, item)
<1>1. /\ q.items \in Seq(Items) /\ Len(q.items) < QueueCapacity /\ Len(q.items) \in Nat
  BY DEF GoodQueue, IsQueue
<1>2. Append(q.items, item) \in Seq(Items) /\ Len(Append(q.items, item)) = Len(q.items) + 1
  BY <1>1
<1>3. /\ after.items = Append(q.items, item)
      /\ after.fresh = q.fresh /\ after.parked = q.parked /\ after.woken = q.woken
  BY DEF PutNowait, GoodQueue, IsQueue
<1>4. after \in [items : Seq(Items), fresh : SUBSET Writers, parked : Seq(Writers), woken : SUBSET Writers]
  BY <1>2 DEF PutNowait, GoodQueue, IsQueue
<1> HIDE DEF after
<1>5. IsQueue(after, Items, Writers, QueueCapacity)
  BY RawWriterAssumption, <1>1, <1>2, <1>3, <1>4 DEF IsQueue
<1>6. GoodQueue(after) /\ PuttersOf(after) = PuttersOf(q)
  BY <1>3, <1>5 DEF GoodQueue, PuttersOf
<1> QED
  BY <1>3, <1>6 DEF after

(* A putter starts: it joins those that wait. *)
LEMMA QueueStart ==
  ASSUME NEW q, GoodQueue(q),
         NEW t \in Writers, t \notin PuttersOf(q)
  PROVE  /\ GoodQueue(StartPut(q, t))
         /\ StartPut(q, t).items = q.items
         /\ PuttersOf(StartPut(q, t)) = PuttersOf(q) \cup {t}
<1> DEFINE after == StartPut(q, t)
<1>1. /\ after.items = q.items /\ after.fresh = q.fresh \cup {t}
      /\ after.parked = q.parked /\ after.woken = q.woken
      /\ IsQueue(after, Items, Writers, QueueCapacity)
  BY DEF StartPut, GoodQueue, IsQueue
<1> HIDE DEF after
<1>2. GoodQueue(after) /\ PuttersOf(after) = PuttersOf(q) \cup {t}
  BY <1>1 DEF GoodQueue, PuttersOf
<1> QED
  BY <1>1, <1>2 DEF after

(* The oldest waiting putter is woken: it still waits to run. *)
LEMMA QueueWake ==
  ASSUME NEW q, GoodQueue(q)
  PROVE  /\ GoodQueue(Wake(q))
         /\ Wake(q).items = q.items
         /\ PuttersOf(Wake(q)) = PuttersOf(q)
<1>1. CASE q.parked = <<>>
  BY <1>1 DEF Wake
<1>2. CASE q.parked # <<>>
  <2> DEFINE after == Wake(q)
  <2>1. q.parked \in Seq(Writers) /\ q.woken \subseteq Writers
    BY DEF GoodQueue, IsQueue
  <2>2. /\ Head(q.parked) \in Writers /\ Tail(q.parked) \in Seq(Writers)
        /\ ToSet(q.parked) = ToSet(Tail(q.parked)) \cup {Head(q.parked)}
        /\ Distinct(Tail(q.parked), {}) /\ Head(q.parked) \notin ToSet(Tail(q.parked))
    BY <1>2, <2>1, ElementsTail DEF GoodQueue
  <2>3. q.woken \cup {Head(q.parked)} \in SUBSET Writers
    BY <2>1, <2>2
  <2>4. /\ after.items = q.items /\ after.fresh = q.fresh
        /\ after.parked = Tail(q.parked) /\ after.woken = q.woken \cup {Head(q.parked)}
        /\ IsQueue(after, Items, Writers, QueueCapacity)
    BY <1>2, <2>2, <2>3 DEF Wake, GoodQueue, IsQueue
  <2> HIDE DEF after
  <2>5. GoodQueue(after) /\ PuttersOf(after) = PuttersOf(q)
    BY <2>2, <2>4 DEF GoodQueue, PuttersOf
  <2> QED
    BY <2>4, <2>5 DEF after
<1> QED
  BY <1>1, <1>2

(* Taking an item removes the head and wakes a putter. *)
LEMMA QueueGet ==
  ASSUME NEW q, GoodQueue(q),
         q.items # <<>>
  PROVE  /\ GoodQueue(Get(q))
         /\ Get(q).items = Tail(q.items)
         /\ PuttersOf(Get(q)) = PuttersOf(q)
<1> DEFINE taken == [q EXCEPT !.items = Tail(@)]
<1>1. /\ Tail(q.items) \in Seq(Items) /\ Len(Tail(q.items)) = Len(q.items) - 1
      /\ Len(q.items) \in Nat /\ Len(q.items) <= QueueCapacity
  BY ElementsTail DEF GoodQueue, IsQueue
<1>2. /\ taken.items = Tail(q.items) /\ taken.fresh = q.fresh
      /\ taken.parked = q.parked /\ taken.woken = q.woken
  BY DEF GoodQueue, IsQueue
<1>3. taken \in [items : Seq(Items), fresh : SUBSET Writers, parked : Seq(Writers), woken : SUBSET Writers]
  BY <1>1 DEF GoodQueue, IsQueue
<1>4. Get(q) = Wake(taken)
  BY DEF Get
<1> HIDE DEF taken
<1>5. Len(taken.items) <= QueueCapacity
  BY RawWriterAssumption, <1>1, <1>2
<1>6. GoodQueue(taken) /\ PuttersOf(taken) = PuttersOf(q)
  BY <1>2, <1>3, <1>5 DEF GoodQueue, IsQueue, PuttersOf
<1> QED
  BY <1>2, <1>4, <1>6, QueueWake

(* A putter runs: it puts its item, or waits at the end of the line. *)
LEMMA QueueRun ==
  ASSUME NEW q, GoodQueue(q),
         NEW t \in Writers, t \in Runnable(q), NEW item \in Items
  PROVE  /\ GoodQueue(RunPut(q, t, item, QueueCapacity))
         /\ Full(q, QueueCapacity) => /\ RunPut(q, t, item, QueueCapacity).items = q.items
                            /\ PuttersOf(RunPut(q, t, item, QueueCapacity)) = PuttersOf(q)
         /\ ~Full(q, QueueCapacity) => /\ RunPut(q, t, item, QueueCapacity).items = Append(q.items, item)
                             /\ PuttersOf(RunPut(q, t, item, QueueCapacity)) = PuttersOf(q) \ {t}
<1> DEFINE ran == [q EXCEPT !.fresh = @ \ {t}, !.woken = @ \ {t}]
<1>1. /\ IsQueue(ran, Items, Writers, QueueCapacity) /\ ran.items = q.items /\ ran.parked = q.parked
      /\ ran.fresh = q.fresh \ {t} /\ ran.woken = q.woken \ {t}
  BY DEF GoodQueue, IsQueue
<1>2. Full(ran, QueueCapacity) <=> Full(q, QueueCapacity)
  BY <1>1 DEF Full
<1>3. RunPut(q, t, item, QueueCapacity) =
        IF Full(q, QueueCapacity) THEN [ran EXCEPT !.parked = Append(@, t)] ELSE PutNowait(ran, item)
  BY DEF RunPut
<1> HIDE DEF ran
<1>4. t \in q.fresh \cup q.woken /\ t \notin ToSet(q.parked)
  BY DEF GoodQueue, Runnable
<1>5. GoodQueue(ran) /\ PuttersOf(ran) = PuttersOf(q) \ {t}
  BY <1>1, <1>4 DEF GoodQueue, PuttersOf
<1>6. CASE Full(q, QueueCapacity)
  <2> DEFINE after == [ran EXCEPT !.parked = Append(@, t)]
  <2>1. ran.parked \in Seq(Writers) /\ ToSet(ran.parked) = ToSet(q.parked) /\ Distinct(ran.parked, {})
    BY <1>1 DEF GoodQueue, IsQueue
  <2>2. /\ Append(ran.parked, t) \in Seq(Writers)
        /\ ToSet(Append(ran.parked, t)) = ToSet(q.parked) \cup {t}
        /\ Distinct(Append(ran.parked, t), {})
    BY <1>4, <2>1, ElementsAppend
  <2>3. /\ after.items = q.items /\ after.parked = Append(ran.parked, t)
        /\ after.fresh = q.fresh \ {t} /\ after.woken = q.woken \ {t}
        /\ IsQueue(after, Items, Writers, QueueCapacity)
    BY <1>1, <2>2 DEF IsQueue
  <2> HIDE DEF after
  <2>4. GoodQueue(after) /\ PuttersOf(after) = PuttersOf(q)
    BY <1>4, <2>2, <2>3 DEF GoodQueue, PuttersOf
  <2> QED
    BY <1>3, <1>6, <2>3, <2>4 DEF after
<1>7. CASE ~Full(q, QueueCapacity)
  <2>0. Len(ran.items) < QueueCapacity
    BY RawWriterAssumption, <1>1, <1>7 DEF Full, IsQueue
  <2>1. PICK r : r = ran
    OBVIOUS
  <2>2. GoodQueue(r) /\ Len(r.items) < QueueCapacity
    BY <1>5, <2>0, <2>1
  <2>3. GoodQueue(PutNowait(r, item))
    BY <2>2, QueuePut
  <2>4. /\ PutNowait(r, item).items = Append(r.items, item)
        /\ PuttersOf(PutNowait(r, item)) = PuttersOf(r)
    BY <2>2, <2>3, QueuePut
  <2> QED
    BY <1>1, <1>3, <1>5, <1>7, <2>1, <2>3, <2>4
<1> QED
  BY <1>6, <1>7

(* A putter is cancelled: no item moves. *)
LEMMA QueueCancel ==
  ASSUME NEW q, GoodQueue(q), NEW t
  PROVE  /\ GoodQueue(CancelPut(q, t, QueueCapacity))
         /\ CancelPut(q, t, QueueCapacity).items = q.items
         /\ PuttersOf(CancelPut(q, t, QueueCapacity)) = PuttersOf(q) \ {t}
<1> DEFINE gone == [q EXCEPT !.fresh = @ \ {t}, !.woken = @ \ {t},
                             !.parked = RemoveFirst(@, t)]
<1>1. /\ RemoveFirst(q.parked, t) \in Seq(Writers)
      /\ ToSet(RemoveFirst(q.parked, t)) = ToSet(q.parked) \ {t}
      /\ Distinct(RemoveFirst(q.parked, t), {})
  BY ElementsRemove DEF GoodQueue, IsQueue
<1>2. /\ IsQueue(gone, Items, Writers, QueueCapacity) /\ gone.items = q.items
      /\ gone.fresh = q.fresh \ {t} /\ gone.woken = q.woken \ {t}
      /\ gone.parked = RemoveFirst(q.parked, t)
  BY <1>1 DEF GoodQueue, IsQueue
<1>3. CancelPut(q, t, QueueCapacity) = IF t \in q.woken /\ ~Full(q, QueueCapacity) THEN Wake(gone) ELSE gone
  BY DEF CancelPut
<1> HIDE DEF gone
<1>4. GoodQueue(gone) /\ PuttersOf(gone) = PuttersOf(q) \ {t}
  BY <1>1, <1>2 DEF GoodQueue, PuttersOf
<1>5. CASE t \in q.woken /\ ~Full(q, QueueCapacity)
  BY <1>2, <1>3, <1>4, <1>5, QueueWake
<1>6. CASE ~(t \in q.woken /\ ~Full(q, QueueCapacity))
  BY <1>2, <1>3, <1>4, <1>6
<1> QED
  BY <1>5, <1>6

----------------------------------------------------------------------------
(* The writer's part of the inductive invariant                            *)

(* The records of a sequence of items, and of a set of files. *)
Real(s) == ToSet(s) \ {STOP}
RowsIn(fs) == UNION {f.rows : f \in fs}

GoodFiles(fs) ==
    /\ IsFiniteSet(fs)
    /\ \A f \in fs : IsFiniteSet(f.rows) /\ f.rows \subseteq Recs

(* A record the writer has: queued, in the batch, or in a file. *)
Held == Real(queue.items) \cup ToSet(batch) \cup RowsIn(files)

WriteStates == [pc : {"none", "waiting", "put"}, rec : Items]
WorkerStates == [phase : {"off", "get", "flush", "done", "failed"}, todo : SUBSET Kinds,
                 stopping : BOOLEAN]
Closings == {"none", "stop", "join", "ok", "failed"}

WriterTypeOK ==
    /\ GoodQueue(queue)
    /\ write \in [Writers -> WriteStates]
    /\ worker \in WorkerStates
    /\ batch \in Seq(Recs)
    /\ closing \in Closings
    /\ stats \in [accepted : Nat, written : Nat]
    /\ GoodFiles(files)

(* A task has a putter only while its write waits for room. *)
Putting ==
    /\ \A t \in PuttersOf(queue) : write[t].pc = "waiting"
    /\ write[Closer].pc # "none" => closing = "stop"
    /\ write[Closer].rec = STOP

UnwrittenOf(w, b) ==
    IF w.phase \in {"flush", "failed"} THEN {r \in ToSet(b) : r.kind \in w.todo}
    ELSE ToSet(b)

(* A record is in one place; a flush has a file for what it has written. *)
Places ==
    /\ Distinct(queue.items, {STOP})
    /\ Real(queue.items) \cap (ToSet(batch) \cup RowsIn(files)) = {}
    /\ UnwrittenOf(worker, batch) \cap RowsIn(files) = {}
    /\ worker.phase \in {"flush", "failed"} =>
            ToSet(batch) \subseteq UnwrittenOf(worker, batch) \cup RowsIn(files)
    /\ worker.phase \in {"off", "done"} => batch = <<>>
    /\ closing = "ok" => worker.phase \in {"off", "done"}

PutBy(w) == {t \in Tasks : w[t].pc = "put"}

WInv == WriterTypeOK /\ Putting /\ Places /\ RawRecordsAccounted

LEMMA TaskFacts ==
  /\ IsFiniteSet(Tasks) /\ Closer \notin Tasks /\ Main \in Tasks /\ Producers \subseteq Tasks
  /\ Main \notin Producers
<1>1. IsFiniteSet(Producers)
  <2>1. IsFiniteSet({"session"} \cup {"poller"})
    BY FS_Singleton, FS_AddElement
  <2>2. IsFiniteSet(({"session"} \cup {"poller"}) \cup {"snapshot"})
    BY <2>1, FS_AddElement
  <2>3. IsFiniteSet((({"session"} \cup {"poller"}) \cup {"snapshot"}) \cup {"status"})
    BY <2>2, FS_AddElement
  <2>4. Producers = (({"session"} \cup {"poller"}) \cup {"snapshot"}) \cup {"status"}
    BY DEF Producers
  <2> QED
    BY <2>3, <2>4
<1>2. IsFiniteSet(Producers \cup {Main})
  BY <1>1, FS_AddElement
<1> QED
  BY <1>2, CollectionAssumption DEF Closer, Main, Producers

LEMMA StopIsNoRecord ==
  /\ STOP \notin Recs /\ Recs \subseteq Items /\ STOP \in Items
  /\ \A r \in Items : r # STOP => r \in Recs
<1>1. STOP.kind = "stop" /\ \A r \in Recs : r.kind # "stop"
  BY DEF STOP, Recs, Kinds
<1> QED
  BY <1>1 DEF Items

(* What counts in the writer's invariant is finite. *)
LEMMA WriterFinite ==
  ASSUME WriterTypeOK
  PROVE  /\ IsFiniteSet(Real(queue.items)) /\ Real(queue.items) \subseteq Recs
         /\ IsFiniteSet(ToSet(batch)) /\ ToSet(batch) \subseteq Recs
         /\ IsFiniteSet(UnwrittenOf(worker, batch)) /\ UnwrittenOf(worker, batch) \subseteq ToSet(batch)
         /\ IsFiniteSet(PutBy(write))
         /\ RowsIn(files) \subseteq Recs /\ Held \subseteq Recs
<1>1. queue.items \in Seq(Items) /\ batch \in Seq(Recs)
  BY DEF WriterTypeOK, GoodQueue, IsQueue
<1>2. IsFiniteSet(ToSet(queue.items)) /\ ToSet(queue.items) \subseteq Items
  BY <1>1, ElementsFinite
<1>3. IsFiniteSet(Real(queue.items)) /\ Real(queue.items) \subseteq Recs
  <2>1. Real(queue.items) \in SUBSET ToSet(queue.items)
    BY DEF Real
  <2> QED
    BY <1>2, <2>1, FS_Subset, StopIsNoRecord DEF Real
<1>4. IsFiniteSet(ToSet(batch)) /\ ToSet(batch) \subseteq Recs
  BY <1>1, ElementsFinite
<1>5. UnwrittenOf(worker, batch) \in SUBSET ToSet(batch)
  BY DEF UnwrittenOf
<1>6. IsFiniteSet(UnwrittenOf(worker, batch))
  BY <1>4, <1>5, FS_Subset
<1>7. PutBy(write) \in SUBSET Tasks
  BY DEF PutBy
<1>8. IsFiniteSet(PutBy(write))
  BY <1>7, TaskFacts, FS_Subset
<1>9. RowsIn(files) \subseteq Recs
  BY DEF WriterTypeOK, GoodFiles, RowsIn
<1> QED
  BY <1>3, <1>4, <1>5, <1>6, <1>8, <1>9 DEF Held

(* RawRecordsAccounted in the terms used here. *)
LEMMA Accounted ==
  RawRecordsAccounted <=>
    /\ stats.accepted + Cardinality(PutBy(write))
         = Cardinality(Real(queue.items)) + Cardinality(UnwrittenOf(worker, batch)) + stats.written
    /\ stats.written = RowCount(files)
<1>1. Unwritten = UnwrittenOf(worker, batch)
  BY DEF Unwritten, UnwrittenOf
<1>2. ToSet(queue.items) \ {STOP} = Real(queue.items)
  BY DEF Real
<1>3. {t \in Tasks : write[t].pc = "put"} = PutBy(write)
  BY DEF PutBy
<1> QED
  BY <1>1, <1>2, <1>3 DEF RawRecordsAccounted

(* Files and the count of their rows. *)
LEMMA RowsCounted ==
  ASSUME NEW fs, GoodFiles(fs)
  PROVE  /\ IsFiniteSet(UNION {{f} \X f.rows : f \in fs}) /\ RowCount(fs) \in Nat
         /\ IsFiniteSet(RowsIn(fs))
<1> DEFINE pairs == {{f} \X f.rows : f \in fs}
           g == [f \in fs |-> {f} \X f.rows]
           h == [f \in fs |-> f.rows]
           parts == {f.rows : f \in fs}
<1>1. g \in Surjection(fs, pairs) /\ h \in Surjection(fs, parts)
  BY DEF Surjection
<1>2. IsFiniteSet(fs) /\ \A f \in fs : IsFiniteSet(f.rows)
  BY DEF GoodFiles
<1>3. \A f \in fs : IsFiniteSet({f} \X f.rows)
  BY <1>2, FS_Singleton, FS_Product
<1>4. (\A P \in pairs : IsFiniteSet(P)) /\ (\A P \in parts : IsFiniteSet(P))
  BY <1>2, <1>3
<1> HIDE DEF pairs, parts, g, h
<1>5. IsFiniteSet(pairs) /\ IsFiniteSet(parts)
  BY <1>1, <1>2, FS_Surjection
<1>6. IsFiniteSet(UNION pairs) /\ IsFiniteSet(UNION parts)
  BY <1>4, <1>5, FS_UNION
<1>7. Cardinality(UNION pairs) \in Nat
  BY <1>6, FS_CardinalityType
<1> QED
  BY <1>6, <1>7 DEF RowCount, pairs, parts, RowsIn

(* A file of rows that no other file holds adds as many rows. *)
LEMMA RowsAdded ==
  ASSUME NEW fs, GoodFiles(fs), NEW g, IsFiniteSet(g.rows), g.rows \subseteq Recs,
         g.rows \cap RowsIn(fs) = {}
  PROVE  /\ GoodFiles(fs \cup {g})
         /\ RowsIn(fs \cup {g}) = RowsIn(fs) \cup g.rows
         /\ RowCount(fs \cup {g}) = RowCount(fs) + Cardinality(g.rows)
<1> DEFINE old == UNION {{f} \X f.rows : f \in fs}
           new == {g} \X g.rows
           all == UNION {{f} \X f.rows : f \in fs \cup {g}}
<1>1. GoodFiles(fs \cup {g})
  BY FS_AddElement DEF GoodFiles
<1>2. RowsIn(fs \cup {g}) = RowsIn(fs) \cup g.rows
  BY DEF RowsIn
<1>3. all = old \cup new
  OBVIOUS
<1>4. old \cap new = {}
  BY DEF RowsIn
<1>5. IsFiniteSet(old)
  BY RowsCounted
<1>6. IsFiniteSet(new) /\ Cardinality(new) = Cardinality(g.rows)
  <2>1. IsFiniteSet({g}) /\ Cardinality({g}) = 1
    BY FS_Singleton
  <2>2. IsFiniteSet(new) /\ Cardinality(new) = Cardinality({g}) * Cardinality(g.rows)
    BY <2>1, FS_Product
  <2>3. Cardinality(g.rows) \in Nat
    BY FS_CardinalityType
  <2> QED
    BY <2>1, <2>2, <2>3
<1>7. RowCount(fs) = Cardinality(old) /\ RowCount(fs \cup {g}) = Cardinality(all)
  BY DEF RowCount
<1> HIDE DEF old, new, all
<1>8. Cardinality(old \cup new) = Cardinality(old) + Cardinality(new)
  <2>1. Cardinality(old \cup new) = Cardinality(old) + Cardinality(new) - Cardinality(old \cap new)
    BY <1>5, <1>6, FS_Union
  <2>2. Cardinality(old \cap new) = 0
    BY <1>4, FS_EmptySet
  <2>3. Cardinality(old) \in Nat /\ Cardinality(new) \in Nat
    BY <1>5, <1>6, FS_CardinalityType
  <2> QED
    BY <2>1, <2>2, <2>3
<1> QED
  BY <1>1, <1>2, <1>3, <1>6, <1>7, <1>8

----------------------------------------------------------------------------
(* Steps of the tasks that write and of close: the worker and its files    *)
(* stay as they are.                                                       *)

(* The items after a put: STOP is no record. *)
LEMMA ItemsAppend ==
  ASSUME NEW s \in Seq(Items), Distinct(s, {STOP}), NEW x \in Items, x \notin Real(s)
  PROVE  /\ Append(s, x) \in Seq(Items) /\ Distinct(Append(s, x), {STOP})
         /\ Real(Append(s, x)) = Real(s) \cup ({x} \ {STOP})
<1>1. x \in ToSet(s) => x \in {STOP}
  BY DEF Real
<1>2. /\ Append(s, x) \in Seq(Items) /\ ToSet(Append(s, x)) = ToSet(s) \cup {x}
      /\ Distinct(Append(s, x), {STOP})
  BY <1>1, ElementsAppend
<1> QED
  BY <1>2 DEF Real

LEMMA QueueSide ==
  ASSUME WInv, UNCHANGED <<files, worker, batch>>,
         GoodQueue(queue'), write' \in [Writers -> WriteStates], closing' \in Closings,
         stats' \in [accepted : Nat, written : Nat], stats'.written = stats.written,
         Putting', closing' = "ok" => worker.phase \in {"off", "done"},
         NEW new, new \subseteq Recs, IsFiniteSet(new), new \cap Held = {},
         Distinct(queue'.items, {STOP}), Real(queue'.items) = Real(queue.items) \cup new,
         stats'.accepted + Cardinality(PutBy(write'))
            = stats.accepted + Cardinality(PutBy(write)) + Cardinality(new)
  PROVE  WInv' /\ Held' = Held \cup new
<1>1. WriterTypeOK'
  BY DEF WInv, WriterTypeOK, GoodFiles
<1>2. UnwrittenOf(worker, batch)' = UnwrittenOf(worker, batch) /\ RowsIn(files)' = RowsIn(files)
  BY DEF UnwrittenOf, RowsIn
<1>3. Held' = Held \cup new
  BY <1>2 DEF Held
<1>4. Places'
  BY <1>2 DEF WInv, Places, Held
<1>5. Cardinality(Real(queue.items) \cup new) = Cardinality(Real(queue.items)) + Cardinality(new)
  <2>1. IsFiniteSet(Real(queue.items))
    BY WriterFinite DEF WInv
  <2>2. Cardinality(Real(queue.items) \cup new)
          = Cardinality(Real(queue.items)) + Cardinality(new) - Cardinality(Real(queue.items) \cap new)
    BY <2>1, FS_Union
  <2>3. Real(queue.items) \cap new = {}
    BY DEF Held
  <2>4. Cardinality(Real(queue.items) \cap new) = 0
    BY <2>3, FS_EmptySet
  <2>5. Cardinality(Real(queue.items)) \in Nat /\ Cardinality(new) \in Nat
    BY <2>1, FS_CardinalityType
  <2> QED
    BY <2>2, <2>4, <2>5
<1>6. RawRecordsAccounted'
  <2>1. /\ stats.accepted + Cardinality(PutBy(write))
             = Cardinality(Real(queue.items)) + Cardinality(UnwrittenOf(worker, batch)) + stats.written
        /\ stats.written = RowCount(files)
    BY Accounted DEF WInv
  <2>2. /\ Cardinality(Real(queue.items)) \in Nat /\ Cardinality(new) \in Nat
        /\ Cardinality(UnwrittenOf(worker, batch)) \in Nat /\ Cardinality(PutBy(write)) \in Nat
        /\ stats.accepted \in Nat /\ stats.written \in Nat
    BY WriterFinite, FS_CardinalityType DEF WInv, WriterTypeOK
  <2>3. /\ stats'.accepted + Cardinality(PutBy(write'))
             = Cardinality(Real(queue'.items)) + Cardinality(UnwrittenOf(worker, batch)) + stats'.written
        /\ stats'.written = RowCount(files)
    BY <1>5, <2>1, <2>2
  <2>4. /\ {t \in Tasks : write'[t].pc = "put"} = PutBy(write')
        /\ ToSet(queue'.items) \ {STOP} = Real(queue'.items)
        /\ Unwritten' = UnwrittenOf(worker, batch)
        /\ RowCount(files') = RowCount(files)
    BY <1>2 DEF PutBy, Real, Unwritten, UnwrittenOf
  <2> QED
    BY <2>3, <2>4 DEF RawRecordsAccounted
<1> QED
  BY <1>1, <1>3, <1>4, <1>6 DEF WInv

(* A task's write changes: whether it counts as put. *)
LEMMA WriteChanges ==
  ASSUME WriterTypeOK, NEW t \in Writers, NEW w \in WriteStates,
         write' = [write EXCEPT ![t] = w]
  PROVE  /\ write' \in [Writers -> WriteStates]
         /\ write'[t] = w /\ \A u \in Writers : u # t => write'[u] = write[u]
         /\ (w.pc = "put") = (write[t].pc = "put") \/ t = Closer => PutBy(write') = PutBy(write)
         /\ t # Closer /\ w.pc # "put" /\ write[t].pc = "put" =>
                Cardinality(PutBy(write)) = Cardinality(PutBy(write')) + 1
         /\ t # Closer /\ w.pc = "put" /\ write[t].pc # "put" =>
                Cardinality(PutBy(write')) = Cardinality(PutBy(write)) + 1
         /\ Cardinality(PutBy(write)) \in Nat /\ Cardinality(PutBy(write')) \in Nat
<1>1. write \in [Writers -> WriteStates]
  BY DEF WriterTypeOK
<1>2. /\ write' \in [Writers -> WriteStates]
      /\ write'[t] = w /\ \A u \in Writers : u # t => write'[u] = write[u]
  BY <1>1
<1>3. Tasks \subseteq Writers /\ IsFiniteSet(Tasks) /\ Closer \notin Tasks /\ (t # Closer => t \in Tasks)
  BY TaskFacts DEF Writers
<1>4. PutBy(write) \in SUBSET Tasks /\ PutBy(write') \in SUBSET Tasks
  BY DEF PutBy
<1>5. IsFiniteSet(PutBy(write)) /\ IsFiniteSet(PutBy(write'))
  BY <1>3, <1>4, FS_Subset
<1>6. (w.pc = "put") = (write[t].pc = "put") \/ t = Closer => PutBy(write') = PutBy(write)
  BY <1>2, <1>3 DEF PutBy
<1>7. ASSUME t # Closer, w.pc # "put", write[t].pc = "put"
      PROVE  Cardinality(PutBy(write)) = Cardinality(PutBy(write')) + 1
  <2>1. PutBy(write) = PutBy(write') \cup {t} /\ t \notin PutBy(write')
    BY <1>2, <1>3, <1>7 DEF PutBy
  <2> QED
    BY <1>5, <2>1, FS_AddElement
<1>8. ASSUME t # Closer, w.pc = "put", write[t].pc # "put"
      PROVE  Cardinality(PutBy(write')) = Cardinality(PutBy(write)) + 1
  <2>1. PutBy(write') = PutBy(write) \cup {t} /\ t \notin PutBy(write)
    BY <1>2, <1>3, <1>8 DEF PutBy
  <2> QED
    BY <1>5, <2>1, FS_AddElement
<1> QED
  BY <1>2, <1>5, <1>6, <1>7, <1>8, FS_CardinalityType

LEMMA Nothing ==
  /\ {} \subseteq Recs /\ IsFiniteSet({}) /\ Cardinality({}) = 0 /\ {} \cap Held = {}
  /\ \A s : Real(s) = Real(s) \cup {}
  BY FS_EmptySet

(* write, with room: the record is queued and counted. *)
LEMMA WriteNowStep ==
  ASSUME WInv, NEW rec \in Recs, rec \notin Held, WriteNow(rec)
  PROVE  WInv' /\ Held' = Held \cup {rec}
<1>1. GoodQueue(queue) /\ queue.items \in Seq(Items) /\ rec \in Items /\ rec # STOP
  BY StopIsNoRecord DEF WInv, WriterTypeOK, GoodQueue, IsQueue
<1>2. Len(queue.items) < QueueCapacity
  BY <1>1, RawWriterAssumption DEF WriteNow, Full
<1>3. queue' = PutNowait(queue, rec)
  BY DEF WriteNow
<1>4. /\ GoodQueue(queue') /\ queue'.items = Append(queue.items, rec)
      /\ PuttersOf(queue') = PuttersOf(queue)
  BY <1>1, <1>2, <1>3, QueuePut
<1>5. rec \notin Real(queue.items) /\ Distinct(queue.items, {STOP})
  BY DEF Held, WInv, Places
<1>6. /\ Distinct(Append(queue.items, rec), {STOP})
      /\ Real(Append(queue.items, rec)) = Real(queue.items) \cup ({rec} \ {STOP})
  BY <1>1, <1>5, ItemsAppend
<1>7. Distinct(queue'.items, {STOP}) /\ Real(queue'.items) = Real(queue.items) \cup {rec}
  BY <1>1, <1>4, <1>6
<1>8. /\ stats' \in [accepted : Nat, written : Nat]
      /\ stats'.accepted = stats.accepted + 1 /\ stats'.written = stats.written
  BY DEF WriteNow, Accepted, WInv, WriterTypeOK
<1>9. /\ IsFiniteSet({rec}) /\ Cardinality({rec}) = 1
      /\ {rec} \subseteq Recs /\ {rec} \cap Held = {}
  BY FS_Singleton
<1>10. UNCHANGED <<files, write, worker, batch, closing>>
  BY DEF WriteNow
<1>11. Putting'
  BY <1>4, <1>10 DEF WInv, Putting
<1>12. Cardinality(PutBy(write)) \in Nat /\ stats.accepted \in Nat
  BY WriterFinite, FS_CardinalityType DEF WInv, WriterTypeOK
<1>13. stats'.accepted + Cardinality(PutBy(write'))
            = stats.accepted + Cardinality(PutBy(write)) + Cardinality({rec})
  BY <1>8, <1>9, <1>10, <1>12
<1>14. write' \in [Writers -> WriteStates] /\ closing' \in Closings
       /\ (closing' = "ok" => worker.phase \in {"off", "done"})
  BY <1>10 DEF WInv, WriterTypeOK, Places
<1> QED
  BY <1>4, <1>7, <1>8, <1>9, <1>10, <1>11, <1>13, <1>14, QueueSide

(* write, without room: a putter starts. *)
LEMMA WriteWaitsStep ==
  ASSUME WInv, NEW t \in Tasks, write[t].pc = "none", NEW rec \in Recs, WriteWaits(t, rec)
  PROVE  WInv' /\ Held' = Held
<1>1. /\ queue' = StartPut(queue, t) /\ write' = [write EXCEPT ![t] = Waiting(rec)]
      /\ UNCHANGED <<files, worker, batch, closing, stats>>
  BY DEF WriteWaits
<1>2. t \in Writers /\ t # Closer /\ t \notin PuttersOf(queue) /\ GoodQueue(queue)
  BY TaskFacts DEF WInv, WriterTypeOK, Putting, Writers
<1>3. /\ GoodQueue(queue') /\ queue'.items = queue.items
      /\ PuttersOf(queue') = PuttersOf(queue) \cup {t}
  BY <1>1, <1>2, QueueStart
<1>4. Waiting(rec) \in WriteStates /\ Waiting(rec).pc = "waiting"
  BY StopIsNoRecord DEF Waiting, WriteStates
<1>5. /\ write' \in [Writers -> WriteStates] /\ write'[t] = Waiting(rec)
      /\ \A u \in Writers : u # t => write'[u] = write[u]
      /\ PutBy(write') = PutBy(write)
  BY <1>1, <1>2, <1>4, WriteChanges DEF WInv
<1>6. Putting'
  <2>1. \A u \in PuttersOf(queue') : write'[u].pc = "waiting"
    <3>1. PuttersOf(queue) \subseteq Writers
      BY <1>2, ElementsFinite DEF GoodQueue, IsQueue, PuttersOf
    <3> QED
      BY <1>3, <1>4, <1>5, <3>1 DEF WInv, Putting
  <2>2. write'[Closer] = write[Closer]
    BY <1>2, <1>5 DEF Writers
  <2> QED
    BY <1>1, <2>1, <2>2 DEF WInv, Putting
<1>7. stats'.accepted + Cardinality(PutBy(write'))
            = stats.accepted + Cardinality(PutBy(write)) + Cardinality({})
  <2>1. Cardinality(PutBy(write)) \in Nat /\ stats.accepted \in Nat
    BY WriterFinite, FS_CardinalityType DEF WInv, WriterTypeOK
  <2> QED
    BY <1>1, <1>5, <2>1, FS_EmptySet
<1>8. /\ closing' \in Closings /\ stats' \in [accepted : Nat, written : Nat]
      /\ (closing' = "ok" => worker.phase \in {"off", "done"})
      /\ Distinct(queue'.items, {STOP}) /\ Real(queue'.items) = Real(queue.items) \cup {}
  BY <1>1, <1>3 DEF WInv, WriterTypeOK, Places
<1>9. WInv' /\ Held' = Held \cup {}
  BY <1>1, <1>3, <1>5, <1>6, <1>7, <1>8, Nothing, QueueSide
<1> QED
  BY <1>9

LEMMA PuttersWrite ==
  ASSUME WInv
  PROVE  GoodQueue(queue) /\ PuttersOf(queue) \subseteq Writers /\ Runnable(queue) \subseteq PuttersOf(queue)
  BY ElementsFinite DEF WInv, WriterTypeOK, GoodQueue, IsQueue, PuttersOf, Runnable

(* A putter runs; its record is not anywhere yet. *)
LEMMA PutterRunsStep ==
  ASSUME WInv, NEW t \in Writers, PutterRuns(t), t # Closer => write[t].rec \in Recs \ Held
  PROVE  /\ WInv' /\ write[t].pc = "waiting"
         /\ \/ write' = write /\ Held' = Held
            \/ t = Closer /\ Held' = Held /\ \A u \in Tasks : write'[u] = write[u]
            \/ /\ t # Closer /\ Held' = Held \cup {write[t].rec}
               /\ write' = [write EXCEPT ![t] = [pc |-> "put", rec |-> write[t].rec]]
<1>1. /\ t \in Runnable(queue) /\ queue' = RunPut(queue, t, write[t].rec, QueueCapacity)
      /\ write' = IF Full(queue, QueueCapacity) THEN write ELSE [write EXCEPT ![t].pc = "put"]
      /\ UNCHANGED <<files, worker, batch, closing, stats>>
  BY DEF PutterRuns
<1>2. GoodQueue(queue) /\ PuttersOf(queue) \subseteq Writers /\ t \in PuttersOf(queue)
  BY <1>1, PuttersWrite
<1>3. write[t].pc = "waiting" /\ write[t] \in WriteStates /\ write \in [Writers -> WriteStates]
  BY <1>2 DEF WInv, Putting, WriterTypeOK
<1>4. PICK rec \in Items : rec = write[t].rec
  BY <1>3 DEF WriteStates
<1>5. /\ GoodQueue(queue')
      /\ Full(queue, QueueCapacity) => /\ queue'.items = queue.items
                                       /\ PuttersOf(queue') = PuttersOf(queue)
      /\ ~Full(queue, QueueCapacity) => /\ queue'.items = Append(queue.items, rec)
                                        /\ PuttersOf(queue') = PuttersOf(queue) \ {t}
  BY <1>1, <1>2, <1>4, QueueRun
<1>6. Cardinality(PutBy(write)) \in Nat /\ stats.accepted \in Nat /\ stats' \in [accepted : Nat, written : Nat]
  BY <1>1, WriterFinite, FS_CardinalityType DEF WInv, WriterTypeOK
<1>7. closing' \in Closings /\ (closing' = "ok" => worker.phase \in {"off", "done"})
  BY <1>1 DEF WInv, WriterTypeOK, Places
<1>8. Distinct(queue.items, {STOP}) /\ queue.items \in Seq(Items)
  BY <1>2 DEF WInv, Places, GoodQueue, IsQueue
<1>9. CASE Full(queue, QueueCapacity)
  <2>1. write' = write
    BY <1>1, <1>9
  <2>2. Putting'
    BY <1>1, <1>5, <1>9, <2>1 DEF WInv, Putting
  <2>3. /\ Distinct(queue'.items, {STOP}) /\ Real(queue'.items) = Real(queue.items) \cup {}
        /\ write' \in [Writers -> WriteStates]
    BY <1>3, <1>5, <1>8, <1>9, <2>1
  <2>4. stats'.accepted + Cardinality(PutBy(write'))
            = stats.accepted + Cardinality(PutBy(write)) + Cardinality({})
    BY <1>1, <1>6, <2>1, FS_EmptySet
  <2>5. WInv' /\ Held' = Held \cup {}
    BY <1>1, <1>5, <1>6, <1>7, <2>2, <2>3, <2>4, Nothing, QueueSide
  <2> QED
    BY <1>3, <2>1, <2>5
<1>10. CASE ~Full(queue, QueueCapacity)
  <2>1. PICK w \in WriteStates : w = [pc |-> "put", rec |-> rec]
    BY DEF WriteStates
  <2>2. write' = [write EXCEPT ![t] = w]
    <3>1. [write[t] EXCEPT !.pc = "put"] = w
      BY <1>3, <1>4, <2>1 DEF WriteStates
    <3> QED
      BY <1>1, <1>3, <1>10, <3>1
  <2>3. w.pc = "put" /\ w.rec = rec
    BY <2>1
  <2>4. /\ write' \in [Writers -> WriteStates]
        /\ write'[t] = w /\ \A u \in Writers : u # t => write'[u] = write[u]
        /\ t = Closer => PutBy(write') = PutBy(write)
        /\ t # Closer => Cardinality(PutBy(write')) = Cardinality(PutBy(write)) + 1
    BY <1>3, <2>2, <2>3, WriteChanges DEF WInv
  <2>5. Putting'
    <3>1. \A u \in PuttersOf(queue') : write'[u].pc = "waiting"
      BY <1>2, <1>5, <1>10, <2>4 DEF WInv, Putting
    <3>2. write'[Closer].rec = STOP /\ (write'[Closer].pc # "none" => closing' = "stop")
      <4>1. CASE t = Closer
        BY <1>1, <1>3, <1>4, <2>3, <2>4, <4>1 DEF WInv, Putting
      <4>2. CASE t # Closer
        <5>1. write'[Closer] = write[Closer]
          BY <2>4, <4>2 DEF Writers
        <5> QED
          BY <1>1, <5>1 DEF WInv, Putting
      <4> QED
        BY <4>1, <4>2
    <3> QED
      BY <3>1, <3>2 DEF Putting
  <2>6. CASE t = Closer
    <3>1. rec = STOP /\ STOP \notin Real(queue.items)
      BY <1>4, <2>6 DEF WInv, Putting, Real
    <3>2. /\ Distinct(Append(queue.items, rec), {STOP})
          /\ Real(Append(queue.items, rec)) = Real(queue.items) \cup ({rec} \ {STOP})
      BY <1>8, <3>1, ItemsAppend
    <3>3. Distinct(queue'.items, {STOP}) /\ Real(queue'.items) = Real(queue.items) \cup {}
      BY <1>5, <1>10, <3>1, <3>2
    <3>4. stats'.accepted + Cardinality(PutBy(write'))
            = stats.accepted + Cardinality(PutBy(write)) + Cardinality({})
      BY <1>1, <1>6, <2>4, <2>6, FS_EmptySet
    <3>5. WInv' /\ Held' = Held \cup {}
      BY <1>1, <1>5, <1>6, <1>7, <2>4, <2>5, <3>3, <3>4, Nothing, QueueSide
    <3>6. \A u \in Tasks : write'[u] = write[u]
      BY <2>4, <2>6, TaskFacts DEF Writers
    <3> QED
      BY <1>3, <2>6, <3>5, <3>6
  <2>7. CASE t # Closer
    <3>1. rec \in Recs /\ rec \notin Held /\ rec # STOP /\ rec \notin Real(queue.items)
      BY <1>4, <2>7, StopIsNoRecord DEF Held
    <3>2. /\ Distinct(Append(queue.items, rec), {STOP})
          /\ Real(Append(queue.items, rec)) = Real(queue.items) \cup ({rec} \ {STOP})
      BY <1>8, <3>1, ItemsAppend
    <3>3. Distinct(queue'.items, {STOP}) /\ Real(queue'.items) = Real(queue.items) \cup {rec}
      BY <1>5, <1>10, <3>1, <3>2
    <3>4. /\ IsFiniteSet({rec}) /\ Cardinality({rec}) = 1
          /\ {rec} \subseteq Recs /\ {rec} \cap Held = {}
      BY <3>1, FS_Singleton
    <3>5. stats'.accepted + Cardinality(PutBy(write'))
            = stats.accepted + Cardinality(PutBy(write)) + Cardinality({rec})
      BY <1>1, <1>6, <2>4, <2>7, <3>4
    <3>6. WInv' /\ Held' = Held \cup {rec}
      BY <1>1, <1>5, <1>6, <1>7, <2>4, <2>5, <3>3, <3>4, <3>5, QueueSide
    <3> QED
      BY <1>3, <1>4, <2>1, <2>2, <2>7, <3>6
  <2> QED
    BY <2>6, <2>7
<1> QED
  BY <1>9, <1>10

LEMMA NoWriteState == NoWrite \in WriteStates /\ NoWrite.pc = "none" /\ NoWrite.rec = STOP
  BY StopIsNoRecord DEF NoWrite, WriteStates

(* The write of t ends: its putter is gone, and the rest of the writer is   *)
(* as before but for the count.                                            *)
LEMMA WriteEnds ==
  ASSUME WInv, NEW t \in Writers, write' = [write EXCEPT ![t] = NoWrite],
         UNCHANGED <<files, worker, batch>>,
         \/ queue' = CancelPut(queue, t, QueueCapacity)
         \/ queue' = queue /\ write[t].pc # "waiting",
         closing' \in Closings, closing' = "ok" => worker.phase \in {"off", "done"},
         closing' = closing \/ t = Closer,
         stats' \in [accepted : Nat, written : Nat], stats'.written = stats.written,
         stats'.accepted = stats.accepted
            + (IF t # Closer /\ write[t].pc = "put" THEN 1 ELSE 0)
  PROVE  WInv' /\ Held' = Held
<1>1. GoodQueue(queue) /\ PuttersOf(queue) \subseteq Writers
  BY PuttersWrite
<1>2. /\ GoodQueue(queue') /\ queue'.items = queue.items
      /\ PuttersOf(queue') = PuttersOf(queue) \ {t}
  <2>1. CASE queue' = CancelPut(queue, t, QueueCapacity)
    BY <1>1, <2>1, QueueCancel
  <2>2. CASE queue' = queue /\ write[t].pc # "waiting"
    BY <1>1, <2>2 DEF WInv, Putting
  <2> QED
    BY <2>1, <2>2
<1>3. /\ write' \in [Writers -> WriteStates]
      /\ write'[t] = NoWrite /\ \A u \in Writers : u # t => write'[u] = write[u]
      /\ write[t].pc # "put" \/ t = Closer => PutBy(write') = PutBy(write)
      /\ t # Closer /\ write[t].pc = "put" =>
                Cardinality(PutBy(write)) = Cardinality(PutBy(write')) + 1
      /\ Cardinality(PutBy(write)) \in Nat /\ Cardinality(PutBy(write')) \in Nat
  BY NoWriteState, WriteChanges DEF WInv
<1>4. Putting'
  <2>1. \A u \in PuttersOf(queue') : write'[u].pc = "waiting"
    BY <1>1, <1>2, <1>3 DEF WInv, Putting
  <2>2. write'[Closer].rec = STOP /\ (write'[Closer].pc # "none" => closing' = "stop")
    <3>1. CASE t = Closer
      BY <1>3, <3>1, NoWriteState
    <3>2. CASE t # Closer
      <4>1. write'[Closer] = write[Closer]
        BY <1>3, <3>2 DEF Writers
      <4> QED
        BY <3>2, <4>1 DEF WInv, Putting
    <3> QED
      BY <3>1, <3>2
  <2> QED
    BY <2>1, <2>2 DEF Putting
<1>5. Distinct(queue'.items, {STOP}) /\ Real(queue'.items) = Real(queue.items) \cup {}
  BY <1>2 DEF WInv, Places
<1>6. stats'.accepted + Cardinality(PutBy(write'))
            = stats.accepted + Cardinality(PutBy(write)) + Cardinality({})
  <2>1. stats.accepted \in Nat
    BY DEF WInv, WriterTypeOK
  <2>2. CASE t # Closer /\ write[t].pc = "put"
    BY <1>3, <2>1, <2>2, FS_EmptySet
  <2>3. CASE ~(t # Closer /\ write[t].pc = "put")
    BY <1>3, <2>1, <2>3, FS_EmptySet
  <2> QED
    BY <2>2, <2>3
<1>7. WInv' /\ Held' = Held \cup {}
  BY <1>2, <1>3, <1>4, <1>5, <1>6, Nothing, QueueSide
<1> QED
  BY <1>7

LEMMA CountingType ==
  ASSUME WInv
  PROVE  /\ stats \in [accepted : Nat, written : Nat]
         /\ closing \in Closings /\ (closing = "ok" => worker.phase \in {"off", "done"})
         /\ \A n \in Nat : LET s == [stats EXCEPT !.accepted = @ + n]
                           IN  /\ s \in [accepted : Nat, written : Nat]
                               /\ s.accepted = stats.accepted + n /\ s.written = stats.written
  BY DEF WInv, WriterTypeOK, Places

(* write returns: the record was put before the worker ended. *)
LEMMA WriteReturnsStep ==
  ASSUME WInv, NEW t \in Tasks, WriteReturns(t)
  PROVE  WInv' /\ Held' = Held
<1>1. /\ write[t].pc = "put" /\ write' = [write EXCEPT ![t] = NoWrite]
      /\ UNCHANGED <<files, queue, worker, batch, closing>>
      /\ stats' = [stats EXCEPT !.accepted = @ + 1]
  BY DEF WriteReturns, Accepted
<1>2. t \in Writers /\ t # Closer
  BY TaskFacts DEF Writers
<1>3. /\ stats' \in [accepted : Nat, written : Nat] /\ stats'.written = stats.written
      /\ stats'.accepted = stats.accepted + 1
  BY <1>1, CountingType
<1>4. queue' = queue /\ write[t].pc # "waiting"
  BY <1>1
<1>5. closing' \in Closings /\ (closing' = "ok" => worker.phase \in {"off", "done"}) /\ closing' = closing
  BY <1>1, CountingType
<1> QED
  BY <1>1, <1>2, <1>3, <1>4, <1>5, WriteEnds

(* The write is cancelled or raises. *)
LEMMA AbandonStep ==
  ASSUME WInv, NEW t \in Tasks, Abandon(t)
  PROVE  WInv' /\ Held' = Held
<1>1. /\ write[t].pc \in {"waiting", "put"} /\ write' = [write EXCEPT ![t] = NoWrite]
      /\ UNCHANGED <<files, worker, batch, closing>>
      /\ stats' = [stats EXCEPT !.accepted = @ + (IF write[t].pc = "put" THEN 1 ELSE 0)]
      /\ queue' = IF write[t].pc = "waiting" THEN CancelPut(queue, t, QueueCapacity) ELSE queue
  BY DEF Abandon, Accepted
<1>2. t \in Writers /\ t # Closer
  BY TaskFacts DEF Writers
<1>3. /\ stats' \in [accepted : Nat, written : Nat] /\ stats'.written = stats.written
      /\ stats'.accepted = stats.accepted + (IF t # Closer /\ write[t].pc = "put" THEN 1 ELSE 0)
  <2>1. PICK n \in Nat : n = IF write[t].pc = "put" THEN 1 ELSE 0
    OBVIOUS
  <2>2. stats' = [stats EXCEPT !.accepted = @ + n]
    BY <1>1, <2>1
  <2> QED
    BY <1>2, <2>1, <2>2, CountingType
<1>4. \/ queue' = CancelPut(queue, t, QueueCapacity)
      \/ queue' = queue /\ write[t].pc # "waiting"
  BY <1>1
<1>5. closing' \in Closings /\ (closing' = "ok" => worker.phase \in {"off", "done"}) /\ closing' = closing
  BY <1>1, CountingType
<1> QED
  BY <1>1, <1>2, <1>3, <1>4, <1>5, WriteEnds

(* close has its stop marker in the queue, or gives up because the worker  *)
(* ended, or sees the worker end.                                          *)
LEMMA CloseStep ==
  ASSUME WInv, CloseSteps
  PROVE  WInv' /\ Held' = Held /\ \A u \in Tasks : write'[u] = write[u]
<1>1. /\ Closer \in Writers /\ write \in [Writers -> WriteStates]
      /\ stats \in [accepted : Nat, written : Nat] /\ stats.accepted \in Nat
  BY DEF WInv, WriterTypeOK, Writers
<1>2. stats.accepted = stats.accepted + (IF Closer # Closer /\ write[Closer].pc = "put" THEN 1 ELSE 0)
  BY <1>1
<1>3. ASSUME write' = [write EXCEPT ![Closer] = NoWrite] PROVE \A u \in Tasks : write'[u] = write[u]
  BY <1>1, <1>3, TaskFacts DEF Writers
<1>4. CASE StopIsPut
  <2>1. /\ write[Closer].pc = "put" /\ write' = [write EXCEPT ![Closer] = NoWrite]
        /\ closing' = "join" /\ UNCHANGED <<files, queue, worker, batch, stats>>
    BY <1>4 DEF StopIsPut
  <2>2. closing' \in Closings /\ (closing' = "ok" => worker.phase \in {"off", "done"})
    BY <2>1 DEF Closings
  <2>3. queue' = queue /\ write[Closer].pc # "waiting"
    BY <2>1
  <2>4. WInv' /\ Held' = Held
    BY <1>1, <1>2, <2>1, <2>2, <2>3, WriteEnds
  <2> QED
    BY <1>3, <2>1, <2>4
<1>5. CASE StopIsNotPut
  <2>1. /\ queue' = IF write[Closer].pc = "waiting" THEN CancelPut(queue, Closer, QueueCapacity)
                    ELSE queue
        /\ write' = [write EXCEPT ![Closer] = NoWrite]
        /\ closing' = IF worker.phase = "done" THEN "ok" ELSE "failed"
        /\ UNCHANGED <<files, worker, batch, stats>>
    BY <1>5 DEF StopIsNotPut
  <2>2. closing' \in Closings /\ (closing' = "ok" => worker.phase \in {"off", "done"})
    BY <2>1 DEF Closings
  <2>3. \/ queue' = CancelPut(queue, Closer, QueueCapacity)
        \/ queue' = queue /\ write[Closer].pc # "waiting"
    BY <2>1
  <2>4. WInv' /\ Held' = Held
    BY <1>1, <1>2, <2>1, <2>2, <2>3, WriteEnds
  <2> QED
    BY <1>3, <2>1, <2>4
<1>6. CASE CloseJoins
  <2>1. /\ closing = "join" /\ closing' = IF worker.phase = "done" THEN "ok" ELSE "failed"
        /\ UNCHANGED <<files, queue, write, worker, batch, stats>>
    BY <1>6 DEF CloseJoins
  <2>2. closing' \in Closings /\ (closing' = "ok" => worker.phase \in {"off", "done"})
    BY <2>1 DEF Closings
  <2>3. Putting'
    BY <2>1 DEF WInv, Putting
  <2>4. GoodQueue(queue') /\ write' \in [Writers -> WriteStates] /\ Distinct(queue'.items, {STOP})
    BY <2>1 DEF WInv, WriterTypeOK, Places
  <2>5. stats'.accepted + Cardinality(PutBy(write'))
            = stats.accepted + Cardinality(PutBy(write)) + Cardinality({})
    <3>1. Cardinality(PutBy(write)) \in Nat /\ stats.accepted \in Nat
      BY WriterFinite, FS_CardinalityType DEF WInv, WriterTypeOK
    <3> QED
      BY <2>1, <3>1, FS_EmptySet
  <2>6. WInv' /\ Held' = Held \cup {}
    BY <1>1, <2>1, <2>2, <2>3, <2>4, <2>5, Nothing, QueueSide
  <2> QED
    BY <2>1, <2>6
<1> QED
  BY <1>4, <1>5, <1>6 DEF CloseSteps

(* close begins: the stop marker is queued, or waits for room. *)
LEMMA CloseBeginsStep ==
  ASSUME WInv, CloseBegins
  PROVE  WInv' /\ Held' = Held /\ \A u \in Tasks : write'[u] = write[u]
<1>1. /\ closing = "none" /\ UNCHANGED <<files, worker, batch, stats>>
      /\ closing' \in Closings /\ (closing' = "ok" => worker.phase \in {"off", "done"})
      /\ closing' = "join" => ~Full(queue, QueueCapacity) /\ queue' = PutNowait(queue, STOP)
      /\ closing' = "stop" => queue' = StartPut(queue, Closer)
      /\ closing' \notin {"join", "stop"} => queue' = queue
      /\ write' = IF closing' = "stop" THEN [write EXCEPT ![Closer] = Waiting(STOP)] ELSE write
  BY DEF CloseBegins, Closings
<1>2. /\ GoodQueue(queue) /\ queue.items \in Seq(Items) /\ PuttersOf(queue) \subseteq Writers
      /\ Distinct(queue.items, {STOP})
      /\ Closer \in Writers /\ write[Closer].pc = "none" /\ Closer \notin PuttersOf(queue)
      /\ STOP \in Items /\ STOP \notin Real(queue.items)
  BY <1>1, PuttersWrite, StopIsNoRecord DEF WInv, Putting, Places, GoodQueue, IsQueue, Real, Writers
<1>3. /\ GoodQueue(queue') /\ Distinct(queue'.items, {STOP})
      /\ Real(queue'.items) = Real(queue.items) \cup {}
      /\ PuttersOf(queue') = IF closing' = "stop" THEN PuttersOf(queue) \cup {Closer} ELSE PuttersOf(queue)
  <2>1. CASE closing' = "join"
    <3>1. Len(queue.items) < QueueCapacity
      BY <1>1, <1>2, <2>1, RawWriterAssumption DEF Full
    <3>2. /\ GoodQueue(queue') /\ queue'.items = Append(queue.items, STOP)
          /\ PuttersOf(queue') = PuttersOf(queue)
      BY <1>1, <1>2, <2>1, <3>1, QueuePut
    <3>3. /\ Distinct(Append(queue.items, STOP), {STOP})
          /\ Real(Append(queue.items, STOP)) = Real(queue.items) \cup ({STOP} \ {STOP})
      BY <1>2, ItemsAppend
    <3> QED
      BY <2>1, <3>2, <3>3
  <2>2. CASE closing' = "stop"
    BY <1>1, <1>2, <2>2, QueueStart
  <2>3. CASE closing' \notin {"join", "stop"}
    BY <1>1, <1>2, <2>3
  <2> QED
    BY <2>1, <2>2, <2>3
<1>4. Waiting(STOP) \in WriteStates /\ Waiting(STOP).pc = "waiting" /\ Waiting(STOP).rec = STOP
  BY StopIsNoRecord DEF Waiting, WriteStates
<1>5. /\ write' \in [Writers -> WriteStates] /\ PutBy(write') = PutBy(write)
      /\ write'[Closer] = IF closing' = "stop" THEN Waiting(STOP) ELSE write[Closer]
      /\ \A u \in Writers : u # Closer => write'[u] = write[u]
  <2>1. CASE closing' = "stop"
    BY <1>1, <1>2, <1>4, <2>1, WriteChanges DEF WInv
  <2>2. CASE closing' # "stop"
    BY <1>1, <2>2 DEF WInv, WriterTypeOK
  <2> QED
    BY <2>1, <2>2
<1>6. Putting'
  <2>1. \A u \in PuttersOf(queue') : write'[u].pc = "waiting"
    BY <1>2, <1>3, <1>4, <1>5 DEF WInv, Putting
  <2>2. write'[Closer].rec = STOP /\ (write'[Closer].pc # "none" => closing' = "stop")
    BY <1>2, <1>4, <1>5 DEF WInv, Putting
  <2> QED
    BY <2>1, <2>2 DEF Putting
<1>7. stats'.accepted + Cardinality(PutBy(write'))
            = stats.accepted + Cardinality(PutBy(write)) + Cardinality({})
  <2>1. Cardinality(PutBy(write)) \in Nat /\ stats.accepted \in Nat
    BY WriterFinite, FS_CardinalityType DEF WInv, WriterTypeOK
  <2> QED
    BY <1>1, <1>5, <2>1, FS_EmptySet
<1>8. stats' \in [accepted : Nat, written : Nat] /\ stats'.written = stats.written
  BY <1>1 DEF WInv, WriterTypeOK
<1>9. WInv' /\ Held' = Held \cup {}
  BY <1>1, <1>3, <1>5, <1>6, <1>7, <1>8, Nothing, QueueSide
<1> QED
  BY <1>5, <1>9, TaskFacts DEF Writers

----------------------------------------------------------------------------
(* Steps of the worker: the writing tasks and close stay as they are.      *)

LEMMA WorkerSide ==
  ASSUME WInv, UNCHANGED <<write, closing>>, PuttersOf(queue') = PuttersOf(queue),
         WriterTypeOK', Places', Held' = Held,
         stats'.accepted = stats.accepted,
         Cardinality(Real(queue'.items)) + Cardinality(UnwrittenOf(worker', batch')) + stats'.written
           = Cardinality(Real(queue.items)) + Cardinality(UnwrittenOf(worker, batch)) + stats.written,
         stats'.written = RowCount(files')
  PROVE  WInv' /\ Held' = Held
<1>1. Putting'
  BY DEF WInv, Putting
<1>2. stats.accepted + Cardinality(PutBy(write))
        = Cardinality(Real(queue.items)) + Cardinality(UnwrittenOf(worker, batch)) + stats.written
  BY Accounted DEF WInv
<1>3. /\ {t \in Tasks : write'[t].pc = "put"} = PutBy(write)
      /\ ToSet(queue'.items) \ {STOP} = Real(queue'.items)
      /\ Unwritten' = UnwrittenOf(worker', batch')
  BY DEF PutBy, Real, Unwritten, UnwrittenOf
<1>4. RawRecordsAccounted'
  BY <1>2, <1>3 DEF RawRecordsAccounted
<1> QED
  BY <1>1, <1>4 DEF WInv

(* A flush of the records b begins, or there is nothing to flush. *)
LEMMA FlushBegins ==
  ASSUME worker \in WorkerStates, NEW b \in Seq(Recs), NEW stopping \in BOOLEAN
  PROVE  /\ Flushing(b, stopping) \in WorkerStates
         /\ b = <<>> => Flushing(b, stopping).phase \in {"get", "done"}
         /\ b # <<>> => Flushing(b, stopping).phase = "flush"
         /\ UnwrittenOf(Flushing(b, stopping), b) = ToSet(b)
<1>1. CASE b = <<>>
  <2>1. Flushing(b, stopping) = [worker EXCEPT !.phase = IF stopping THEN "done" ELSE "get"]
    BY <1>1 DEF Flushing
  <2>2. Flushing(b, stopping) \in WorkerStates /\ Flushing(b, stopping).phase \in {"get", "done"}
    BY <2>1 DEF WorkerStates
  <2>3. UnwrittenOf(Flushing(b, stopping), b) = ToSet(b)
    BY <2>2 DEF UnwrittenOf
  <2> QED
    BY <1>1, <2>2, <2>3
<1>2. CASE b # <<>>
  <2> DEFINE w == [phase |-> "flush", todo |-> {r.kind : r \in ToSet(b)}, stopping |-> stopping]
  <2>1. Flushing(b, stopping) = w
    BY <1>2 DEF Flushing
  <2>2. ToSet(b) \subseteq Recs /\ \A r \in Recs : r.kind \in Kinds
    BY ElementsFinite DEF Recs
  <2>3. {r.kind : r \in ToSet(b)} \in SUBSET Kinds
    BY <2>2
  <2>4. w \in WorkerStates /\ w.phase = "flush" /\ w.todo = {r.kind : r \in ToSet(b)}
    BY <2>3 DEF WorkerStates
  <2> HIDE DEF w
  <2>5. UnwrittenOf(w, b) = ToSet(b)
    BY <2>4 DEF UnwrittenOf
  <2> QED
    BY <1>2, <2>1, <2>4, <2>5
<1> QED
  BY <1>1, <1>2

LEMMA FlushIsDueStep ==
  ASSUME WInv, FlushIsDue
  PROVE  WInv' /\ Held' = Held
<1>1. /\ worker.phase = "get" /\ batch # <<>> /\ worker' = Flushing(batch, FALSE)
      /\ UNCHANGED <<files, queue, write, batch, closing, stats>>
  BY DEF FlushIsDue
<1>2. worker \in WorkerStates /\ batch \in Seq(Recs)
  BY DEF WInv, WriterTypeOK
<1>3. worker' \in WorkerStates /\ worker'.phase = "flush" /\ UnwrittenOf(worker', batch) = ToSet(batch)
  BY <1>1, <1>2, FlushBegins
<1>4. UnwrittenOf(worker, batch) = ToSet(batch)
  BY <1>1 DEF UnwrittenOf
<1>5. Held' = Held
  BY <1>1 DEF Held
<1>6. WriterTypeOK'
  BY <1>1, <1>3 DEF WInv, WriterTypeOK, GoodFiles
<1>7. Places'
  BY <1>1, <1>3, <1>4 DEF WInv, Places
<1>8. stats.written = RowCount(files)
  BY Accounted DEF WInv
<1> QED
  BY <1>1, <1>3, <1>4, <1>5, <1>6, <1>7, <1>8, WorkerSide

LEMMA WriteFileFailsStep ==
  ASSUME WInv, WriteFileFails
  PROVE  WInv' /\ Held' = Held
<1>1. /\ worker.phase = "flush" /\ worker' = [worker EXCEPT !.phase = "failed"]
      /\ UNCHANGED <<files, queue, write, batch, closing, stats>>
  BY DEF WriteFileFails
<1>2. worker' \in WorkerStates /\ worker'.phase = "failed" /\ worker'.todo = worker.todo
  BY <1>1 DEF WInv, WriterTypeOK, WorkerStates
<1>3. UnwrittenOf(worker', batch) = UnwrittenOf(worker, batch)
  BY <1>1, <1>2 DEF UnwrittenOf
<1>5. Held' = Held
  BY <1>1 DEF Held
<1>6. WriterTypeOK'
  BY <1>1, <1>2 DEF WInv, WriterTypeOK, GoodFiles
<1>7. Places'
  BY <1>1, <1>2, <1>3 DEF WInv, Places
<1>8. stats.written = RowCount(files)
  BY Accounted DEF WInv
<1> QED
  BY <1>1, <1>3, <1>5, <1>6, <1>7, <1>8, WorkerSide

(* The worker takes an item: a record joins the batch. *)
LEMMA WorkerTakesStep ==
  ASSUME WInv, WorkerTakes
  PROVE  WInv' /\ Held' = Held
<1> DEFINE h == Head(queue.items)
           grown == Append(batch, h)
<1>1. /\ worker.phase = "get" /\ queue.items # <<>> /\ queue' = Get(queue)
      /\ h = STOP => worker' = Flushing(batch, TRUE) /\ batch' = batch
      /\ h # STOP => /\ batch' = grown
                     /\ worker' = IF BatchIsFull(grown) THEN Flushing(grown, FALSE) ELSE worker
      /\ UNCHANGED <<files, write, closing, stats>>
  BY DEF WorkerTakes
<1>2. /\ GoodQueue(queue) /\ queue.items \in Seq(Items) /\ Distinct(queue.items, {STOP})
      /\ worker \in WorkerStates /\ batch \in Seq(Recs)
  BY DEF WInv, WriterTypeOK, GoodQueue, IsQueue, Places
<1>3. /\ GoodQueue(queue') /\ queue'.items = Tail(queue.items)
      /\ PuttersOf(queue') = PuttersOf(queue)
  BY <1>1, <1>2, QueueGet
<1>4. /\ h \in Items /\ ToSet(queue.items) = ToSet(queue'.items) \cup {h}
      /\ Distinct(queue'.items, {STOP})
      /\ h \notin {STOP} => h \notin ToSet(queue'.items)
  BY <1>1, <1>2, <1>3, ElementsTail
<1>5. UnwrittenOf(worker, batch) = ToSet(batch)
  BY <1>1 DEF UnwrittenOf
<1>6. stats.written = RowCount(files) /\ stats.written \in Nat
  BY Accounted DEF WInv, WriterTypeOK
<1>7. closing # "ok"
  BY <1>1 DEF WInv, Places
<1> HIDE DEF h
<1>8. CASE h = STOP
  <2>1. worker' = Flushing(batch, TRUE) /\ batch' = batch
    BY <1>1, <1>8
  <2>2. /\ worker' \in WorkerStates /\ UnwrittenOf(worker', batch) = ToSet(batch)
        /\ batch = <<>> => worker'.phase \in {"get", "done"}
        /\ batch # <<>> => worker'.phase = "flush"
    BY <1>2, <2>1, FlushBegins
  <2>3. Real(queue'.items) = Real(queue.items)
    BY <1>4, <1>8 DEF Real
  <2>4. Held' = Held
    BY <1>1, <2>1, <2>3 DEF Held
  <2>5. WriterTypeOK'
    BY <1>1, <1>3, <2>1, <2>2 DEF WInv, WriterTypeOK, GoodFiles
  <2>6. Places'
    BY <1>1, <1>4, <1>5, <1>7, <2>1, <2>2, <2>3 DEF WInv, Places
  <2> QED
    BY <1>1, <1>3, <1>5, <1>6, <2>1, <2>2, <2>3, <2>4, <2>5, <2>6, WorkerSide
<1>9. CASE h # STOP
  <2>1. h \in Recs /\ h \in Real(queue.items)
    BY <1>4, <1>9, StopIsNoRecord DEF Real
  <2>2. Real(queue.items) = Real(queue'.items) \cup {h} /\ h \notin Real(queue'.items)
    BY <1>4, <1>9 DEF Real
  <2>3. grown \in Seq(Recs) /\ ToSet(grown) = ToSet(batch) \cup {h} /\ h \notin ToSet(batch)
    <3>1. h \notin ToSet(batch)
      BY <2>1 DEF WInv, Places
    <3> QED
      BY <1>2, <2>1, <3>1, ElementsAppend
  <2>4. PICK b \in Seq(Recs) : b = grown
    BY <2>3
  <2>5. batch' = b /\ worker' = IF BatchIsFull(b) THEN Flushing(b, FALSE) ELSE worker
    BY <1>1, <1>9, <2>4
  <2> HIDE DEF grown
  <2>6. ToSet(b) = ToSet(batch) \cup {h} /\ b # <<>>
    BY <2>3, <2>4, NoElements
  <2>7. worker' \in WorkerStates /\ worker'.phase \in {"get", "flush"} /\ UnwrittenOf(worker', b) = ToSet(b)
    <3>1. CASE BatchIsFull(b)
      BY <1>2, <2>5, <2>6, <3>1, FlushBegins
    <3>2. CASE ~BatchIsFull(b)
      BY <1>1, <1>2, <2>5, <3>2 DEF UnwrittenOf
    <3> QED
      BY <3>1, <3>2
  <2>8. Held' = Held
    BY <1>1, <2>2, <2>5, <2>6 DEF Held
  <2>9. WriterTypeOK'
    BY <1>1, <1>3, <2>5, <2>7 DEF WInv, WriterTypeOK, GoodFiles
  <2>10. Places'
    <3>1. h \notin RowsIn(files)
      BY <2>1 DEF WInv, Places
    <3>2. Real(queue'.items) \cap (ToSet(batch') \cup RowsIn(files')) = {}
      BY <1>1, <2>2, <2>5, <2>6 DEF WInv, Places
    <3>3. UnwrittenOf(worker', batch') \cap RowsIn(files') = {}
      BY <1>1, <1>5, <2>5, <2>6, <2>7, <3>1 DEF WInv, Places
    <3> QED
      BY <1>1, <1>4, <1>7, <2>5, <2>7, <3>2, <3>3 DEF Places
  <2>11. /\ Cardinality(Real(queue.items)) = Cardinality(Real(queue'.items)) + 1
         /\ Cardinality(ToSet(b)) = Cardinality(ToSet(batch)) + 1
         /\ Cardinality(Real(queue'.items)) \in Nat /\ Cardinality(ToSet(batch)) \in Nat
    <3>1. IsFiniteSet(Real(queue.items)) /\ IsFiniteSet(ToSet(batch))
      BY WriterFinite DEF WInv
    <3>2. Real(queue'.items) \in SUBSET Real(queue.items)
      BY <2>2
    <3>3. IsFiniteSet(Real(queue'.items))
      BY <3>1, <3>2, FS_Subset
    <3> QED
      BY <2>2, <2>3, <2>6, <3>1, <3>3, FS_AddElement, FS_CardinalityType
  <2>12. Cardinality(Real(queue'.items)) + Cardinality(UnwrittenOf(worker', batch')) + stats'.written
           = Cardinality(Real(queue.items)) + Cardinality(UnwrittenOf(worker, batch)) + stats.written
    <3>1. UnwrittenOf(worker', batch') = ToSet(b) /\ stats' = stats
      BY <1>1, <2>5, <2>7
    <3> QED
      BY <1>5, <1>6, <2>11, <3>1
  <2> QED
    BY <1>1, <1>3, <1>6, <2>8, <2>9, <2>10, <2>12, WorkerSide
<1> QED
  BY <1>8, <1>9

(* A partition's rows become a file. *)
LEMMA WriteFileStep ==
  ASSUME WInv, NEW part \in worker.todo, WriteFile(part)
  PROVE  WInv' /\ Held' = Held
<1> DEFINE rows == PartitionRows(part)
           left == worker.todo \ {part}
           g == [kind |-> part, rows |-> rows]
<1>1. /\ worker.phase = "flush" /\ files' = files \cup {g}
      /\ stats' = [stats EXCEPT !.written = @ + Cardinality(rows)]
      /\ left # {} => worker' = [worker EXCEPT !.todo = left] /\ batch' = batch
      /\ left = {} => /\ batch' = <<>>
                      /\ worker' = [worker EXCEPT !.todo = {},
                                            !.phase = IF worker.stopping THEN "done" ELSE "get"]
      /\ UNCHANGED <<queue, write, closing>>
  BY DEF WriteFile, NewFile
<1>2. worker \in WorkerStates /\ batch \in Seq(Recs) /\ worker.todo \subseteq Kinds
  BY DEF WInv, WriterTypeOK, WorkerStates
<1>3. UnwrittenOf(worker, batch) = {r \in ToSet(batch) : r.kind \in worker.todo}
  BY <1>1 DEF UnwrittenOf
<1>4. rows \in SUBSET UnwrittenOf(worker, batch) /\ rows = {r \in ToSet(batch) : r.kind = part}
  BY <1>3 DEF PartitionRows
<1>5. IsFiniteSet(UnwrittenOf(worker, batch)) /\ UnwrittenOf(worker, batch) \subseteq Recs
  BY WriterFinite DEF WInv
<1>6. IsFiniteSet(rows) /\ rows \subseteq Recs /\ rows \cap RowsIn(files) = {}
  BY <1>4, <1>5, FS_Subset DEF WInv, Places
<1>7. g.rows = rows
  OBVIOUS
<1> HIDE DEF g, rows
<1>8. /\ GoodFiles(files') /\ RowsIn(files') = RowsIn(files) \cup rows
      /\ RowCount(files') = RowCount(files) + Cardinality(rows)
  BY <1>1, <1>6, <1>7, RowsAdded DEF WInv, WriterTypeOK
<1>9. Cardinality(rows) \in Nat
  BY <1>6, FS_CardinalityType
<1>10. /\ stats' \in [accepted : Nat, written : Nat] /\ stats'.accepted = stats.accepted
       /\ stats'.written = stats.written + Cardinality(rows)
  BY <1>1, <1>9 DEF WInv, WriterTypeOK
<1>11. /\ worker' \in WorkerStates /\ batch' \in Seq(Recs)
       /\ UnwrittenOf(worker', batch') = UnwrittenOf(worker, batch) \ rows
       /\ worker'.phase \in {"flush", "get", "done"}
       /\ worker'.phase # "flush" => batch' = <<>> /\ ToSet(batch') = {} /\ UnwrittenOf(worker, batch) = rows
       /\ worker'.phase = "flush" => batch' = batch
  <2>1. CASE left # {}
    <3>1. worker' \in WorkerStates /\ worker'.phase = "flush" /\ worker'.todo = left /\ batch' = batch
      BY <1>1, <1>2, <2>1 DEF WorkerStates
    <3>2. UnwrittenOf(worker', batch') = {r \in ToSet(batch) : r.kind \in left}
      BY <3>1 DEF UnwrittenOf
    <3>3. UnwrittenOf(worker', batch') = UnwrittenOf(worker, batch) \ rows
      BY <1>3, <1>4, <3>2
    <3> QED
      BY <1>2, <3>1, <3>3
  <2>2. CASE left = {}
    <3>1. worker' \in WorkerStates /\ worker'.phase \in {"get", "done"} /\ batch' = <<>>
      BY <1>1, <1>2, <2>2 DEF WorkerStates
    <3>2. worker.todo = {part} /\ ToSet(batch') = {} /\ batch' \in Seq(Recs)
      BY <2>2, <3>1, NoElements
    <3>3. UnwrittenOf(worker, batch) = rows
      BY <1>3, <1>4, <3>2
    <3>4. UnwrittenOf(worker', batch') = {}
      BY <3>1, <3>2 DEF UnwrittenOf
    <3> QED
      BY <3>1, <3>2, <3>3, <3>4
  <2> QED
    BY <2>1, <2>2
<1> HIDE DEF left
<1>12. WriterTypeOK'
  BY <1>1, <1>8, <1>10, <1>11 DEF WInv, WriterTypeOK
<1>13. ToSet(batch) \subseteq UnwrittenOf(worker, batch) \cup RowsIn(files)
       /\ UnwrittenOf(worker, batch) \subseteq ToSet(batch) /\ closing # "ok"
  BY <1>1, WriterFinite DEF WInv, Places
<1>14. ToSet(batch') \cup RowsIn(files') = ToSet(batch) \cup RowsIn(files)
  <2>1. CASE worker'.phase = "flush"
    BY <1>4, <1>8, <1>11, <1>13, <2>1
  <2>2. CASE worker'.phase # "flush"
    BY <1>4, <1>8, <1>11, <1>13, <2>2
  <2> QED
    BY <2>1, <2>2
<1>15. Held' = Held
  BY <1>1, <1>14 DEF Held
<1>16. Places'
  <2>1. Distinct(queue'.items, {STOP}) /\ Real(queue'.items) \cap (ToSet(batch') \cup RowsIn(files')) = {}
    BY <1>1, <1>14 DEF WInv, Places
  <2>2. UnwrittenOf(worker', batch') \cap RowsIn(files') = {}
    BY <1>8, <1>11 DEF WInv, Places
  <2>3. worker'.phase = "flush" => ToSet(batch') \subseteq UnwrittenOf(worker', batch') \cup RowsIn(files')
    BY <1>8, <1>11, <1>13
  <2> QED
    BY <1>1, <1>11, <1>13, <2>1, <2>2, <2>3 DEF Places
<1>17. Cardinality(UnwrittenOf(worker', batch')) = Cardinality(UnwrittenOf(worker, batch)) - Cardinality(rows)
  <2>1. PICK S : S = UnwrittenOf(worker, batch)
    OBVIOUS
  <2>2. S \cap rows = rows /\ IsFiniteSet(S)
    BY <1>4, <1>5, <2>1
  <2>3. Cardinality(S \ rows) = Cardinality(S) - Cardinality(S \cap rows)
    BY <2>2, FS_Difference
  <2> QED
    BY <1>11, <2>1, <2>2, <2>3
<1>18. /\ stats.written = RowCount(files) /\ stats.written \in Nat
       /\ Cardinality(UnwrittenOf(worker, batch)) \in Nat /\ Cardinality(Real(queue.items)) \in Nat
  BY Accounted, WriterFinite, FS_CardinalityType DEF WInv, WriterTypeOK
<1>19. Cardinality(Real(queue'.items)) + Cardinality(UnwrittenOf(worker', batch')) + stats'.written
           = Cardinality(Real(queue.items)) + Cardinality(UnwrittenOf(worker, batch)) + stats.written
  BY <1>1, <1>9, <1>10, <1>17, <1>18
<1>20. stats'.written = RowCount(files') /\ PuttersOf(queue') = PuttersOf(queue)
  BY <1>1, <1>8, <1>10, <1>18
<1> QED
  BY <1>1, <1>10, <1>12, <1>15, <1>16, <1>19, <1>20, WorkerSide

LEMMA WorkerStep ==
  ASSUME WInv, WorkerSteps
  PROVE  WInv' /\ Held' = Held /\ write' = write
<1>1. CASE WorkerTakes
  BY <1>1, WorkerTakesStep DEF WorkerTakes
<1>2. CASE FlushIsDue
  BY <1>2, FlushIsDueStep DEF FlushIsDue
<1>3. CASE WriteFileFails
  BY <1>3, WriteFileFailsStep DEF WriteFileFails
<1>4. ASSUME NEW part \in worker.todo, WriteFile(part) PROVE WInv' /\ Held' = Held /\ write' = write
  BY <1>4, WriteFileStep DEF WriteFile
<1> QED
  BY <1>1, <1>2, <1>3, <1>4 DEF WorkerSteps

LEMMA WriterStutters ==
  ASSUME WInv, UNCHANGED writerVars
  PROVE  WInv' /\ Held' = Held
<1>1. UNCHANGED <<files, queue, write, worker, batch, closing, stats>>
  BY DEF writerVars, writerMemory
<1>2. Held' = Held
  BY <1>1 DEF Held
<1>3. WriterTypeOK'
  BY <1>1 DEF WInv, WriterTypeOK, GoodFiles
<1>4. Putting' /\ Places'
  BY <1>1 DEF WInv, Putting, Places
<1>5. RawRecordsAccounted'
  BY <1>1 DEF WInv, RawRecordsAccounted, Unwritten
<1> QED
  BY <1>2, <1>3, <1>4, <1>5 DEF WInv

(* A writer that has nothing: before a run, after a crash, and on a legacy *)
(* tree.                                                                   *)
NothingPending ==
    /\ queue = EmptyQueue /\ worker = NoWorker /\ batch = <<>>
    /\ write = [t \in Writers |-> NoWrite]

LEMMA EmptyQueueGood ==
  /\ GoodQueue(EmptyQueue) /\ EmptyQueue.items = <<>> /\ PuttersOf(EmptyQueue) = {}
  /\ Distinct(<<>>, {STOP}) /\ Real(<<>>) = {}
<1>1. EmptyQueue \in [items : Seq(Items), fresh : SUBSET Writers, parked : Seq(Writers),
                      woken : SUBSET Writers]
  BY DEF EmptyQueue
<1>2. /\ EmptyQueue.items = <<>> /\ EmptyQueue.parked = <<>> /\ EmptyQueue.fresh = {}
      /\ EmptyQueue.woken = {}
  BY DEF EmptyQueue
<1>3. Len(EmptyQueue.items) <= QueueCapacity
  BY <1>2, RawWriterAssumption
<1>4. ToSet(EmptyQueue.parked) = {} /\ Real(<<>>) = {}
  BY <1>2, NoElements DEF Real
<1>5. Distinct(<<>>, {STOP}) /\ Distinct(EmptyQueue.parked, {})
  BY <1>2 DEF Distinct
<1>6. IsQueue(EmptyQueue, Items, Writers, QueueCapacity)
  BY <1>1, <1>3 DEF IsQueue
<1> QED
  BY <1>2, <1>4, <1>5, <1>6 DEF GoodQueue, PuttersOf

FreshState ==
    /\ NothingPending /\ GoodFiles(files) /\ closing \in {"none", "ok"}
    /\ stats \in [accepted : Nat, written : Nat]
    /\ stats.accepted = RowCount(files) /\ stats.written = RowCount(files)

LEMMA FreshWriter == FreshState => WInv /\ Held = RowsIn(files)
<1> SUFFICES ASSUME FreshState PROVE WInv /\ Held = RowsIn(files)
  OBVIOUS
<1> USE DEF FreshState
<1>1. /\ GoodQueue(queue) /\ queue.items = <<>> /\ PuttersOf(queue) = {}
      /\ Distinct(queue.items, {STOP}) /\ Real(queue.items) = {}
      /\ batch = <<>> /\ ToSet(batch) = {} /\ batch \in Seq(Recs)
  BY EmptyQueueGood, NoElements DEF NothingPending
<1>2. worker \in WorkerStates /\ worker.phase = "off" /\ UnwrittenOf(worker, batch) = {}
  BY <1>1 DEF NothingPending, NoWorker, WorkerStates, UnwrittenOf
<1>3. write \in [Writers -> WriteStates] /\ \A t \in Writers : write[t] = NoWrite
  BY NoWriteState DEF NothingPending
<1>4. PutBy(write) = {} /\ Tasks \subseteq Writers /\ Closer \in Writers
  BY <1>3, NoWriteState DEF PutBy, Writers
<1>5. WriterTypeOK
  BY <1>1, <1>2, <1>3 DEF WriterTypeOK, Closings
<1>6. Putting
  BY <1>1, <1>3, <1>4, NoWriteState DEF Putting
<1>7. Places
  BY <1>1, <1>2 DEF Places
<1>8. RawRecordsAccounted
  <2>1. Cardinality(PutBy(write)) = 0 /\ Cardinality(Real(queue.items)) = 0
        /\ Cardinality(UnwrittenOf(worker, batch)) = 0
    BY <1>1, <1>2, <1>4, FS_EmptySet
  <2> QED
    BY <2>1, Accounted
<1> QED
  BY <1>1, <1>5, <1>6, <1>7, <1>8 DEF WInv, Held

LEMMA FreshWriterNext == FreshState' => WInv' /\ (Held = RowsIn(files))'
  BY FreshWriter, PTL

(* start: the worker begins to take items. *)
LEMMA StartWriterStep ==
  ASSUME WInv, worker = NoWorker, closing = "none", StartWriter
  PROVE  WInv' /\ Held' = Held
<1>1. worker' = [NoWorker EXCEPT !.phase = "get"] /\ UNCHANGED <<files, queue, write, batch, closing, stats>>
  BY DEF StartWriter
<1>2. worker.phase = "off" /\ worker' \in WorkerStates /\ worker'.phase = "get"
  BY <1>1 DEF NoWorker, WorkerStates
<1>3. UnwrittenOf(worker', batch) = ToSet(batch) /\ UnwrittenOf(worker, batch) = ToSet(batch)
  BY <1>2 DEF UnwrittenOf
<1>4. Held' = Held
  BY <1>1 DEF Held
<1>5. WriterTypeOK'
  BY <1>1, <1>2 DEF WInv, WriterTypeOK, GoodFiles
<1>6. Places'
  BY <1>1, <1>2, <1>3 DEF WInv, Places
<1>7. stats.written = RowCount(files)
  BY Accounted DEF WInv
<1> QED
  BY <1>1, <1>3, <1>4, <1>5, <1>6, <1>7, WorkerSide

----------------------------------------------------------------------------
(* The collection's part of the inductive invariant                        *)

Active == {"raw", "journal", "publish"}
Over == {"off", "returned", "raised", "cancelled"}
JobStates == [pc : Active \cup {"idle"} \cup Over, at : 0..MaxEvents, cancel : BOOLEAN]
Early == {"new", "starting", "connecting", "running", "disconnect", "gather", "join",
          "join2", "finish"}
MainStates == [pc : Early \cup {"marker", "close", "release", "verify", "clean",
                                "failed", "crashed", "legacy"},
               err : BOOLEAN, end : Int]
DriverStates == [state : {"open", "failed", "sealed"}, accepted : SUBSET (1..MaxEvents)]

RunTypeOK ==
    /\ main \in MainStates
    /\ job \in [Producers -> JobStates]
    /\ driver \in DriverStates
    /\ counted \in Nat
    /\ next \in 1..MaxEvents + 1

Event(a) == [kind |-> "event", at |-> a]
RecordOf(j) == [kind |-> IF j.pc = "raw" THEN "raw" ELSE "event", at |-> j.at]

(* A producer's task j, its write w and the records the writer holds: its  *)
(* record is new until it is put, and an event is journaled before it is   *)
(* published.                                                              *)
ProducerOK(j, w, held, nxt) ==
    /\ j.pc \in Active => j.at \in 1..nxt - 1
    /\ w.pc # "none" => j.pc \in {"raw", "journal"} /\ w.rec = RecordOf(j)
    /\ w.pc = "put" => RecordOf(j) \in held
    /\ j.pc \in {"raw", "journal"} /\ w.pc # "put" => RecordOf(j) \notin held
    /\ j.pc = "raw" => Event(j.at) \notin held
    /\ j.pc = "publish" => Event(j.at) \in held

Producing ==
    /\ \A p \in Producers : ProducerOK(job[p], write[p], Held, next)
    /\ \A p, q \in Producers :
          job[p].pc \in Active /\ job[q].pc \in Active /\ job[p].at = job[q].at => p = q

(* The marker is new until it is put. *)
Marking ==
    /\ main.pc = "marker" => main.end \in Nat
    /\ write[Main].pc # "none" => main.pc = "marker" /\ write[Main].rec = EndMarker
    /\ main.pc \in Early \/ (main.pc = "marker" /\ write[Main].pc # "put") =>
            \A r \in Held : r.kind # "end"

(* Records of the run carry receive times that have passed; what the       *)
(* driver accepted is in the journal.                                      *)
Journaled ==
    /\ main.pc # "legacy" => \A r \in Held : r.kind # "end" => r.at < next
    /\ \A a \in driver.accepted : Event(a) \in Held

Quiet ==
    /\ main.pc \in {"new", "starting", "legacy"} => NothingPending /\ closing = "none"
    /\ main.pc \in {"new", "starting", "connecting", "legacy"} =>
            \A p \in Producers : job[p].pc = "off"
    /\ main.pc \in {"new", "starting"} => files = {}
    /\ manifest = NoManifest <=> main.pc \in {"new", "legacy"}
    /\ manifest.terminal = "CLEAN_END" => main.pc = "clean"

(* The writer and the other services are closed, without an error. *)
Closed == ~main.err /\ main.pc \in {"verify", "clean"}

(* Without an error, every stage of the shutdown has done its part; only   *)
(* the snapshot request may be left behind, with no write and no driver.   *)
Joining ==
    /\ ~main.err /\ main.pc = "join" => Finished("session") /\ Finished("poller")
    /\ ~main.err /\ main.pc \in {"finish", "marker", "close", "release", "verify", "clean"}
            => \A p \in Producers \ {"snapshot"} : Finished(p)
    /\ ~main.err /\ main.pc \in {"marker", "close", "release", "verify", "clean"}
            => driver.state = "sealed"
    /\ Closed => \A p \in Producers : write[p].pc = "none"
    /\ main.pc = "join2" => main.err
    /\ ~main.err /\ main.pc \in {"release", "verify", "clean"} => closing = "ok"
    /\ main.pc = "clean" => ~main.err

Complete ==
    main.pc = "clean" =>
        /\ {r.at : r \in RowsOf(SourceTree, "event")} = driver.accepted
        /\ RowsOf(SourceTree, "end") = {EndMarker}
        /\ Cardinality(Rows(SourceTree)) = stats.accepted

CollInv ==
    WInv /\ RunTypeOK /\ Producing /\ Marking /\ Journaled /\ Quiet /\ Joining /\ Complete

(* Only two records of one kind and time are the same. *)
LEMMA RecordFacts ==
  /\ \A a \in Nat : Event(a) \in Recs /\ Event(a).kind = "event" /\ Event(a).at = a
  /\ \A j \in JobStates :
        /\ RecordOf(j) \in Recs /\ RecordOf(j).kind # "end" /\ RecordOf(j).at = j.at
        /\ j.at \in Nat
        /\ j.pc # "raw" => RecordOf(j) = Event(j.at)
        /\ j.pc = "raw" => RecordOf(j) # Event(j.at)
<1>1. MaxEvents \in Nat
  BY CollectionAssumption
<1>2. \A a \in Nat : Event(a) \in Recs /\ Event(a).kind = "event" /\ Event(a).at = a
  BY DEF Event, Recs, Kinds
<1>3. ASSUME NEW j \in JobStates
      PROVE  /\ RecordOf(j) \in Recs /\ RecordOf(j).kind # "end" /\ RecordOf(j).at = j.at
             /\ j.at \in Nat
             /\ j.pc # "raw" => RecordOf(j) = Event(j.at)
             /\ j.pc = "raw" => RecordOf(j).kind = "raw"
  <2>1. j.at \in Nat
    BY <1>1 DEF JobStates
  <2> QED
    BY <2>1 DEF RecordOf, Event, Recs, Kinds
<1> QED
  BY <1>2, <1>3

(* Another task's new record, or a later clock, does not disturb it. *)
LEMMA ProducerKept ==
  ASSUME NEW j \in JobStates, NEW w, NEW held, NEW more, NEW nxt \in Nat, NEW nxt2 \in Nat,
         nxt <= nxt2, ProducerOK(j, w, held, nxt), held \subseteq more,
         \A r \in more \ held : j.pc \in Active => r.kind = "end" \/ r.at # j.at
  PROVE  ProducerOK(j, w, more, nxt2)
<1>1. /\ RecordOf(j).kind # "end" /\ RecordOf(j).at = j.at /\ j.at \in Nat
      /\ Event(j.at).kind # "end" /\ Event(j.at).at = j.at
  BY RecordFacts
<1>2. j.pc \in {"raw", "journal"} /\ w.pc # "put" => RecordOf(j) \notin more
  BY <1>1 DEF ProducerOK, Active
<1>3. j.pc = "raw" => Event(j.at) \notin more
  BY <1>1 DEF ProducerOK, Active
<1>4. j.pc \in Active => j.at \in 1..nxt2 - 1
  BY DEF ProducerOK
<1> QED
  BY <1>2, <1>3, <1>4 DEF ProducerOK

(* Only the step and the time of a task matter. *)
LEMMA ProducerSame ==
  ASSUME NEW j, NEW k, NEW w, NEW held, NEW nxt, k.pc = j.pc, k.at = j.at,
         ProducerOK(j, w, held, nxt)
  PROVE  ProducerOK(k, w, held, nxt)
<1>1. RecordOf(k) = RecordOf(j)
  BY DEF RecordOf
<1> QED
  BY <1>1 DEF ProducerOK

(* A task that is not at work on a message has no write. *)
LEMMA ProducerIdle ==
  ASSUME NEW j, NEW w, NEW held, NEW nxt, j.pc \notin Active
  PROVE  ProducerOK(j, w, held, nxt) <=> w.pc = "none"
  BY DEF ProducerOK, Active

(* A step that leaves the run alone and gives the writer nothing new. *)
LEMMA WriterOnly ==
  ASSUME CollInv, WInv', Held' = Held, UNCHANGED <<manifest, run>>,
         \A t \in Tasks : write'[t] = write[t],
         main.pc \notin {"new", "starting", "legacy", "clean"},
         closing' = closing \/ closing \in {"stop", "join"}
  PROVE  CollInv'
<1>1. UNCHANGED <<manifest, main, job, driver, counted, next>>
  BY DEF run
<1>2. RunTypeOK'
  BY <1>1 DEF CollInv, RunTypeOK
<1>3. \A p \in Producers : write'[p] = write[p]
  BY TaskFacts
<1>4. Producing'
  BY <1>1, <1>3 DEF CollInv, Producing
<1>5. Marking'
  BY <1>1, TaskFacts DEF CollInv, Marking, EndMarker
<1>6. Journaled'
  BY <1>1 DEF CollInv, Journaled
<1>7. Quiet'
  BY <1>1 DEF CollInv, Quiet
<1>8. Joining'
  BY <1>1, <1>3 DEF CollInv, Joining, Finished, Closed
<1>9. Complete'
  BY <1>1 DEF Complete
<1> QED
  BY <1>2, <1>4, <1>5, <1>6, <1>7, <1>8, <1>9 DEF CollInv

(* A putter of a task puts its record. *)
LEMMA PutterPuts ==
  ASSUME CollInv, NEW t \in Tasks, write[t].pc = "waiting", WInv',
         Held' = Held \cup {write[t].rec},
         write' = [write EXCEPT ![t] = [pc |-> "put", rec |-> write[t].rec]],
         UNCHANGED <<manifest, run, closing>>,
         main.pc \notin {"new", "starting", "legacy", "clean"}
  PROVE  CollInv'
<1> DEFINE rec == write[t].rec
<1>1. UNCHANGED <<manifest, main, job, driver, counted, next>>
  BY DEF run
<1>2. /\ write'[t].pc = "put" /\ write'[t].rec = rec
      /\ \A u \in Tasks : u # t => write'[u] = write[u]
  BY DEF CollInv, WInv, WriterTypeOK, Writers
<1>3. RunTypeOK'
  BY <1>1 DEF CollInv, RunTypeOK
<1>5. t \in Producers => rec = RecordOf(job[t]) /\ job[t].pc \in {"raw", "journal"}
  BY DEF CollInv, Producing, ProducerOK
<1>6. t = Main => rec = EndMarker /\ main.pc = "marker" /\ EndMarker.kind = "end"
  BY DEF CollInv, Marking, EndMarker
<1>7. t \in Producers \/ t = Main
  BY CollectionAssumption
<1>4. Quiet' /\ Joining' /\ Complete'
  <2>1. ~Closed
    BY <1>6, <1>7 DEF CollInv, Joining, Closed
  <2> QED
    BY <1>1, <2>1 DEF CollInv, Quiet, Joining, Finished, Complete, Closed
<1>8. \A p \in Producers : job[p] \in JobStates /\ next \in Nat
  BY CollectionAssumption DEF CollInv, RunTypeOK
<1>9. Producing'
  <2>1. ASSUME NEW p \in Producers PROVE ProducerOK(job[p], write'[p], Held', next)
    <3>1. ProducerOK(job[p], write[p], Held, next) /\ job[p] \in JobStates /\ next \in Nat /\ p \in Tasks
      BY <1>8, TaskFacts DEF CollInv, Producing
    <3>2. CASE p = t
      <4>1. rec = RecordOf(job[p]) /\ job[p].pc \in {"raw", "journal"}
        BY <1>5, <3>2
      <4>2. job[p].pc = "raw" => Event(job[p].at) \notin Held'
        BY <3>1, <4>1, RecordFacts DEF ProducerOK
      <4> QED
        BY <1>2, <3>1, <3>2, <4>1, <4>2 DEF ProducerOK
    <3>3. CASE p # t
      <4>1. \A r \in Held' \ Held : job[p].pc \in Active => r.kind = "end" \/ r.at # job[p].at
        <5>1. CASE t = Main
          BY <1>6, <5>1
        <5>2. CASE t \in Producers
          <6>1. rec.at = job[t].at /\ job[t].pc \in Active
            BY <1>5, <1>8, <5>2, RecordFacts DEF Active
          <6>2. job[p].pc \in Active => job[p].at # job[t].at
            BY <3>3, <5>2, <6>1 DEF CollInv, Producing
          <6> QED
            BY <6>1, <6>2
        <5> QED
          BY <1>7, <5>1, <5>2
      <4>2. ProducerOK(job[p], write[p], Held', next)
        <5>1. Held \subseteq Held' /\ next <= next
          BY <3>1
        <5> QED
          BY <3>1, <4>1, <5>1, ProducerKept
      <4> QED
        BY <1>2, <3>1, <3>3, <4>2
    <3> QED
      BY <3>2, <3>3
  <2> QED
    BY <1>1, <2>1 DEF CollInv, Producing
<1>10. Marking'
  <2>1. CASE t = Main
    BY <1>1, <1>2, <1>6, <2>1 DEF CollInv, Marking, EndMarker, Early
  <2>2. CASE t \in Producers
    <3>1. rec.kind # "end" /\ write'[Main] = write[Main]
      BY <1>2, <1>5, <1>8, <2>2, RecordFacts, TaskFacts
    <3> QED
      BY <1>1, <3>1 DEF CollInv, Marking, EndMarker
  <2> QED
    BY <1>7, <2>1, <2>2
<1>11. Journaled'
  <2>1. rec.kind # "end" => rec.at < next
    <3>1. CASE t = Main
      BY <1>6, <3>1
    <3>2. CASE t \in Producers
      <4>1. rec.at = job[t].at /\ job[t].pc \in Active
        BY <1>5, <1>8, <3>2, RecordFacts DEF Active
      <4>2. job[t].at \in 1..next - 1 /\ next \in Nat
        BY <1>8, <3>2, <4>1 DEF CollInv, Producing, ProducerOK
      <4> QED
        BY <4>1, <4>2
    <3> QED
      BY <1>7, <3>1, <3>2
  <2> QED
    BY <1>1, <2>1 DEF CollInv, Journaled
<1> QED
  BY <1>3, <1>4, <1>9, <1>10, <1>11 DEF CollInv

(* Before a run and on a legacy tree the writer's tasks do nothing. *)
LEMMA WriterStepNeedsRun ==
  ASSUME CollInv, WriterStep
  PROVE  main.pc \notin {"new", "starting", "legacy", "clean"}
<1>1. ASSUME main.pc \in {"new", "starting", "legacy"} PROVE FALSE
  <2>1. NothingPending /\ closing = "none"
    BY <1>1 DEF CollInv, Quiet
  <2>2. Runnable(queue) = {} /\ worker.phase = "off" /\ worker.todo = {}
    BY <2>1 DEF NothingPending, EmptyQueue, Runnable, NoWorker
  <2> QED
    BY <2>1, <2>2 DEF WriterStep, WorkerSteps, CloseSteps, PutterRuns, WorkerTakes, FlushIsDue,
          WriteFileFails, StopIsPut, StopIsNotPut, CloseJoins
<1>2. ASSUME main.pc = "clean" PROVE FALSE
  <2>1. closing = "ok" /\ \A p \in Producers : write[p].pc = "none"
    BY <1>2 DEF CollInv, Joining, Closed
  <2>2. worker.phase \in {"off", "done"}
    BY <2>1 DEF CollInv, WInv, Places
  <2>3. \A t \in Writers : write[t].pc = "none"
    <3>1. write[Main].pc = "none" /\ write[Closer].pc = "none"
      BY <1>2, <2>1 DEF CollInv, Marking, WInv, Putting
    <3> QED
      BY <2>1, <3>1, CollectionAssumption DEF Writers
  <2>4. Runnable(queue) = {}
    BY <2>3, PuttersWrite DEF CollInv, WInv, Putting
  <2>5. ~WorkerSteps /\ ~CloseSteps
    BY <2>1, <2>2 DEF WorkerSteps, CloseSteps, WorkerTakes, FlushIsDue, WriteFile,
          WriteFileFails, StopIsPut, StopIsNotPut, CloseJoins
  <2> QED
    BY <2>4, <2>5 DEF WriterStep, PutterRuns
<1> QED
  BY <1>1, <1>2

LEMMA WriterStepKeeps ==
  ASSUME CollInv, WriterStep
  PROVE  CollInv'
<1>1. main.pc \notin {"new", "starting", "legacy", "clean"} /\ UNCHANGED <<manifest, run>> /\ WInv
  BY WriterStepNeedsRun DEF WriterStep, CollInv
<1>2. CASE WorkerSteps
  <2>1. WInv' /\ Held' = Held /\ write' = write
    BY <1>1, <1>2, WorkerStep
  <2>2. closing' = closing
    BY <1>2 DEF WorkerSteps, WorkerTakes, FlushIsDue, WriteFile, WriteFileFails
  <2> QED
    BY <1>1, <2>1, <2>2, WriterOnly
<1>3. CASE CloseSteps
  <2>1. WInv' /\ Held' = Held /\ \A t \in Tasks : write'[t] = write[t]
    BY <1>1, <1>3, CloseStep
  <2>2. closing \in {"stop", "join"}
    BY <1>3 DEF CloseSteps, StopIsPut, StopIsNotPut, CloseJoins
  <2> QED
    BY <1>1, <2>1, <2>2, WriterOnly
<1>4. ASSUME NEW t \in Tasks \cup {Closer}, PutterRuns(t) PROVE CollInv'
  <2>1. t \in Writers /\ write[t].pc = "waiting" /\ closing' = closing
    BY <1>1, <1>4, PuttersWrite DEF PutterRuns, WInv, Putting, Writers
  <2>2. t # Closer => write[t].rec \in Recs \ Held
    <3>1. CASE t \in Producers
      <4>1. ProducerOK(job[t], write[t], Held, next) /\ job[t] \in JobStates
        BY <3>1 DEF CollInv, Producing, RunTypeOK
      <4> QED
        BY <2>1, <4>1, RecordFacts DEF ProducerOK
    <3>2. CASE t = Main
      <4>1. write[t].rec = EndMarker /\ main.end \in Nat /\ \A r \in Held : r.kind # "end"
        BY <2>1, <3>2 DEF CollInv, Marking
      <4>2. EndMarker \in Recs /\ EndMarker.kind = "end"
        BY <4>1 DEF EndMarker, Recs, Kinds
      <4> QED
        BY <4>1, <4>2
    <3> QED
      BY <3>1, <3>2, CollectionAssumption
  <2>3. /\ WInv'
        /\ \/ write' = write /\ Held' = Held
           \/ Held' = Held /\ \A u \in Tasks : write'[u] = write[u]
           \/ /\ t # Closer /\ Held' = Held \cup {write[t].rec}
              /\ write' = [write EXCEPT ![t] = [pc |-> "put", rec |-> write[t].rec]]
    BY <1>1, <1>4, <2>1, <2>2, PutterRunsStep
  <2>4. CASE Held' = Held /\ \A u \in Tasks : write'[u] = write[u]
    BY <1>1, <2>1, <2>3, <2>4, WriterOnly
  <2>5. CASE /\ t # Closer /\ Held' = Held \cup {write[t].rec}
             /\ write' = [write EXCEPT ![t] = [pc |-> "put", rec |-> write[t].rec]]
    <3>1. t \in Tasks
      BY <1>4, <2>5
    <3> QED
      BY <1>1, <2>1, <2>3, <2>5, <3>1, PutterPuts
  <2> QED
    BY <2>3, <2>4, <2>5
<1> QED
  BY <1>2, <1>3, <1>4 DEF WriterStep

----------------------------------------------------------------------------
(* Steps of the producers                                                  *)

LEMMA FreshTasks == Idle \in JobStates /\ Idle.pc = "idle" /\ Off \in JobStates /\ Off.pc = "off"
<1>1. 0 \in 0..MaxEvents
  BY CollectionAssumption
<1>2. Idle \in JobStates /\ Idle.pc = "idle"
  BY <1>1 DEF Idle, JobStates
<1>3. Off = [Idle EXCEPT !.pc = "off"]
  BY DEF Off
<1> HIDE DEF Idle
<1> QED
  BY <1>2, <1>3 DEF JobStates, Over

(* A sealed driver accepts nothing more, nor does a closed writer. *)
EndKept ==
    /\ driver.state = "sealed" => driver' = driver
    /\ Closed => UNCHANGED writerVars

LEMMA ProducersKeepEnd ==
  ASSUME CollInv, NEW p \in Producers, ProducerSteps(p)
  PROVE  EndKept
<1>1. driver.state = "sealed" => driver' = driver
  BY DEF ProducerSteps, Submit, Resume, Cancelled, Return, PublishAccepted, PublishRefused, PublishFails
<1>2. ASSUME Closed PROVE UNCHANGED writerVars
  <2>1. Refuses /\ write[p].pc = "none"
    BY <1>2 DEF CollInv, Joining, Closed, Refuses
  <2>2. ~WriteReturns(p) /\ ~Abandon(p)
    BY <2>1 DEF WriteReturns, Abandon
  <2>3. \A rec : ~WriteNow(rec) /\ ~WriteWaits(p, rec)
    BY <2>1 DEF WriteNow, WriteWaits
  <2> QED
    BY <2>2, <2>3 DEF ProducerSteps, Submit, Resume, Cancelled, Return, WriteRaises, WriteCancelled,
          PublishAccepted, PublishRefused, PublishFails
<1> QED
  BY <1>1, <1>2 DEF EndKept

(* One producer's step: its task becomes j, and it may have given the      *)
(* writer its record and started a snapshot request.                       *)
LEMMA ProducerStep ==
  ASSUME CollInv, NEW p \in Producers, ~Finished(p), WInv', EndKept,
         NEW j \in JobStates, job' \in [Producers -> JobStates], job'[p] = j,
         \A q \in Producers :
            q # p => job'[q] = job[q] \/ (q = "snapshot" /\ Finished(q) /\ job'[q] = Idle),
         Held' = Held \/ (Writing(p) /\ Held' = Held \cup {RecordOf(job[p])}),
         \A t \in Tasks : t # p => write'[t] = write[t],
         ProducerOK(j, write'[p], Held', next),
         j.pc \in Active => j.at = job[p].at /\ job[p].pc \in Active,
         driver' \in DriverStates, counted' \in Nat,
         \A a \in driver'.accepted : a \in driver.accepted \/ Event(a) \in Held,
         UNCHANGED <<closing, manifest, main, next>>
  PROVE  CollInv'
<1>1. /\ job[p] \in JobStates /\ job \in [Producers -> JobStates] /\ next \in Nat
      /\ ProducerOK(job[p], write[p], Held, next)
  BY CollectionAssumption DEF CollInv, RunTypeOK, Producing
<1>2. \A q \in Producers : q # p /\ job'[q] # job[q] =>
          job[q].pc \notin Active /\ job'[q].pc \notin Active /\ q = "snapshot"
  BY FreshTasks DEF Finished, Active
<1>3. main.pc \notin {"new", "starting", "connecting", "legacy"}
  BY DEF CollInv, Quiet, Joining, Finished
<1>4. RunTypeOK'
  BY DEF CollInv, RunTypeOK
<1>5. /\ RecordOf(job[p]).kind # "end" /\ RecordOf(job[p]).at = job[p].at
      /\ Writing(p) => job[p].pc \in Active /\ RecordOf(job[p]).at < next
  BY <1>1, RecordFacts DEF Writing, Active, ProducerOK
<1>6. Producing'
  <2>1. ASSUME NEW q \in Producers PROVE ProducerOK(job'[q], write'[q], Held', next)
    <3>1. CASE q = p
      BY <3>1
    <3>2. CASE q # p
      <4>1. /\ write'[q] = write[q] /\ job[q] \in JobStates
            /\ ProducerOK(job[q], write[q], Held, next)
        BY <1>1, <3>2, TaskFacts DEF CollInv, Producing
      <4>2. \A r \in Held' \ Held : job[q].pc \in Active => r.at # job[q].at
        <5>1. CASE Held' = Held
          BY <5>1
        <5>2. CASE Writing(p) /\ Held' = Held \cup {RecordOf(job[p])}
          BY <1>5, <3>2, <5>2 DEF CollInv, Producing
        <5> QED
          BY <5>1, <5>2
      <4>3. Held \subseteq Held' /\ next <= next
        BY <1>1
      <4>4. ProducerOK(job[q], write[q], Held', next)
        BY <1>1, <4>1, <4>2, <4>3, ProducerKept
      <4>5. ProducerOK(job'[q], write[q], Held', next)
        <5>1. CASE job'[q] = job[q]
          BY <4>4, <5>1
        <5>2. CASE job'[q] # job[q]
          <6>1. job[q].pc \notin Active /\ job'[q].pc \notin Active
            BY <1>2, <3>2, <5>2
          <6> QED
            BY <4>4, <6>1, ProducerIdle
        <5> QED
          BY <5>1, <5>2
      <4> QED
        BY <4>1, <4>5
    <3> QED
      BY <3>1, <3>2
  <2>2. \A q, r \in Producers :
          job'[q].pc \in Active /\ job'[r].pc \in Active /\ job'[q].at = job'[r].at => q = r
    BY <1>2 DEF CollInv, Producing
  <2> QED
    BY <2>1, <2>2 DEF Producing
<1>7. Marking'
  <2>1. write'[Main] = write[Main]
    BY TaskFacts
  <2> QED
    BY <1>5, <2>1 DEF CollInv, Marking, EndMarker
<1>8. Journaled'
  BY <1>5 DEF CollInv, Journaled
<1>9. Quiet'
  BY <1>3 DEF CollInv, Quiet
<1>11. Complete'
  <2>1. ASSUME main.pc = "clean" PROVE driver' = driver /\ UNCHANGED <<files, stats>>
    BY <2>1 DEF CollInv, Joining, Closed, EndKept, writerVars, writerMemory
  <2>2. main.pc = "clean" => SourceTree' = SourceTree /\ EndMarker' = EndMarker
    BY <2>1 DEF SourceTree, EndMarker
  <2> QED
    BY <2>1, <2>2 DEF CollInv, Complete
<1>10. Joining'
  <2>1. \A q \in Producers \ {"snapshot"} : Finished(q) => Finished(q)'
    BY <1>2 DEF Finished
  <2>2. {"session", "poller"} \subseteq Producers \ {"snapshot"}
    BY DEF Producers
  <2>3. driver.state = "sealed" => driver'.state = "sealed"
    BY DEF EndKept
  <2>4. Closed => write' = write
    BY DEF EndKept, writerVars, writerMemory
  <2> QED
    BY <2>1, <2>2, <2>3, <2>4 DEF CollInv, Joining, Closed
<1> QED
  BY <1>4, <1>6, <1>7, <1>8, <1>9, <1>10, <1>11 DEF CollInv

(* The task's next state. *)
LEMMA GotoState ==
  ASSUME job \in [Producers -> JobStates], NEW p \in Producers,
         NEW pc \in Active \cup {"idle"} \cup Over, Goto(p, pc)
  PROVE  \E j \in JobStates : /\ job' = [job EXCEPT ![p] = j] /\ j.pc \in {pc, "off"}
                              /\ pc \in {"journal", "publish"} => j.pc = pc /\ j.at = job[p].at
<1> DEFINE more == pc \in {"journal", "publish"}
           j == [pc |-> IF p = "snapshot" /\ ~more THEN "off" ELSE pc,
                 at |-> IF more THEN job[p].at ELSE 0, cancel |-> more /\ job[p].cancel]
<1>1. job[p] \in JobStates /\ 0 \in 0..MaxEvents
  BY CollectionAssumption
<1>2. /\ j \in JobStates /\ j.pc \in {pc, "off"}
      /\ pc \in {"journal", "publish"} => j.pc = pc /\ j.at = job[p].at
  BY <1>1 DEF JobStates, Over
<1>3. job' = [job EXCEPT ![p] = j]
  BY DEF Goto
<1> HIDE DEF j
<1> QED
  BY <1>2, <1>3

(* The end of a message, or of the task. *)
LEMMA GotoRest ==
  ASSUME CollInv, NEW p \in Producers, ~Finished(p),
         (\E pc \in {"idle"} \cup Over : Goto(p, pc)) \/ EndMessage(p), WInv', EndKept,
         Held' = Held \/ (Writing(p) /\ Held' = Held \cup {RecordOf(job[p])}),
         write'[p].pc = "none", \A t \in Tasks : t # p => write'[t] = write[t],
         driver' \in DriverStates, counted' \in Nat,
         \A a \in driver'.accepted : a \in driver.accepted \/ Event(a) \in Held,
         UNCHANGED <<closing, manifest, main, next>>
  PROVE  CollInv'
<1>1. PICK pc \in {"idle"} \cup Over : Goto(p, pc)
  BY DEF EndMessage, Over
<1>2. pc \in Active \cup {"idle"} \cup Over /\ pc \notin Active
  BY DEF Active, Over
<1>3. job \in [Producers -> JobStates]
  BY DEF CollInv, RunTypeOK
<1>4. PICK j \in JobStates : job' = [job EXCEPT ![p] = j] /\ j.pc \in {pc, "off"}
  BY <1>1, <1>2, <1>3, GotoState
<1>5. ProducerOK(j, write'[p], Held', next) /\ j.pc \notin Active
  BY <1>2, <1>4, ProducerIdle DEF Active
<1>6. /\ job' \in [Producers -> JobStates] /\ job'[p] = j
      /\ \A q \in Producers : q # p => job'[q] = job[q]
  BY <1>3, <1>4
<1> QED
  BY <1>5, <1>6, ProducerStep

LEMMA WriteOfTask ==
  ASSUME WInv, NEW p \in Tasks, NEW w, write' = [write EXCEPT ![p] = w]
  PROVE  write'[p] = w /\ \A t \in Tasks : t # p => write'[t] = write[t]
  BY DEF WInv, WriterTypeOK, Writers

(* The producer's record has just been stored; in the queue or a later place. *)
LEMMA StoredKeeps ==
  ASSUME CollInv, NEW p \in Producers, Writing(p), Stored(p), WInv', EndKept,
         Held' = Held \cup {RecordOf(job[p])}, write'[p].pc = "none",
         \A t \in Tasks : t # p => write'[t] = write[t],
         UNCHANGED <<closing, manifest, main, stop, driver, counted, next>>
  PROVE  CollInv'
<1>1. /\ job[p] \in JobStates /\ job \in [Producers -> JobStates]
      /\ ProducerOK(job[p], write[p], Held, next) /\ ~Finished(p) /\ job[p].pc \in Active
      /\ driver \in DriverStates /\ counted \in Nat
  BY DEF CollInv, RunTypeOK, Producing, Writing, Finished, Active
<1>2. CASE EndMessage(p)
  BY <1>1, <1>2, GotoRest
<1>3. ASSUME NEW pc \in {"journal", "publish"}, job[p].pc = IF pc = "journal" THEN "raw" ELSE "journal",
             NEW j \in JobStates, job' \in [Producers -> JobStates], job'[p] = j, j.pc = pc, j.at = job[p].at,
             \A q \in Producers :
                q # p => job'[q] = job[q] \/ (q = "snapshot" /\ Finished(q) /\ job'[q] = Idle)
      PROVE  CollInv'
  <2>3. RecordOf(j) = Event(j.at) /\ (pc = "publish" => Event(j.at) = RecordOf(job[p]))
    BY <1>1, <1>3, RecordFacts
  <2>4. pc = "journal" => Event(j.at) \notin Held'
    <3>1. pc = "journal" => Event(j.at) \notin Held /\ Event(j.at) # RecordOf(job[p])
      BY <1>1, <1>3, RecordFacts DEF ProducerOK
    <3> QED
      BY <3>1
  <2>5. ProducerOK(j, write'[p], Held', next)
    BY <1>1, <1>3, <2>3, <2>4 DEF ProducerOK, Active
  <2>6. \A a \in driver'.accepted : a \in driver.accepted \/ Event(a) \in Held
    OBVIOUS
  <2> QED
    BY <1>1, <1>3, <2>5, <2>6, ProducerStep
<1>4. ASSUME NEW pc \in {"journal", "publish"}, Goto(p, pc), job[p].pc = IF pc = "journal" THEN "raw" ELSE "journal"
      PROVE  CollInv'
  <2>1. pc \in Active \cup {"idle"} \cup Over
    BY DEF Active
  <2>2. PICK j \in JobStates : job' = [job EXCEPT ![p] = j] /\ j.pc = pc /\ j.at = job[p].at
    BY <1>1, <1>4, <2>1, GotoState
  <2>3. /\ job' \in [Producers -> JobStates] /\ job'[p] = j
        /\ \A q \in Producers : q # p => job'[q] = job[q]
    BY <1>1, <2>2
  <2> QED
    BY <1>3, <1>4, <2>2, <2>3
<1>5. CASE job[p].pc = "raw" /\ p = "session" /\ ScheduleSnapshot
  <2> DEFINE j == [job[p] EXCEPT !.pc = "journal"]
  <2>1. /\ "snapshot" \in Producers /\ p # "snapshot" /\ Finished("snapshot")
        /\ job' = [job EXCEPT ![p].pc = "journal", !["snapshot"] = Idle]
    BY <1>5 DEF Producers, ScheduleSnapshot
  <2>2. j \in JobStates /\ j.pc = "journal" /\ j.at = job[p].at
    BY <1>1 DEF JobStates, Active
  <2>3. job'[p] = j /\ job'["snapshot"] = Idle
        /\ \A q \in Producers : q # p /\ q # "snapshot" => job'[q] = job[q]
    BY <1>1, <2>1
  <2>4. job' \in [Producers -> JobStates]
    BY <1>1, <2>1, <2>2, <2>3, FreshTasks
  <2> HIDE DEF j
  <2>5. \A q \in Producers :
            q # p => job'[q] = job[q] \/ (q = "snapshot" /\ Finished(q) /\ job'[q] = Idle)
    BY <2>1, <2>3
  <2> QED
    BY <1>3, <1>5, <2>2, <2>3, <2>4, <2>5
<1> QED
  BY <1>2, <1>4, <1>5 DEF Stored

LEMMA SubmitKeeps ==
  ASSUME CollInv, NEW p \in Producers, Submit(p)
  PROVE  CollInv'
<1>1. /\ job[p] \in JobStates /\ job \in [Producers -> JobStates] /\ WInv
      /\ ProducerOK(job[p], write[p], Held, next) /\ ~Finished(p) /\ Writing(p) /\ p \in Tasks
      /\ driver \in DriverStates /\ counted \in Nat
  BY TaskFacts DEF CollInv, RunTypeOK, Producing, Writing, Finished, Submit
<1>0. EndKept
  BY ProducersKeepEnd DEF ProducerSteps
<1>2. write[p] = NoWrite /\ write[p].pc = "none" /\ UNCHANGED <<manifest, main, stop, driver, counted, next>>
  BY NoWriteState DEF Submit
<1>3. PICK rec \in Recs : rec = RecordOf(job[p]) /\ rec = Record(p)
  BY <1>1, RecordFacts DEF RecordOf, Record
<1>4. rec \notin Held
  BY <1>1, <1>2, <1>3 DEF ProducerOK, Writing
<1>5. \A a \in driver'.accepted : a \in driver.accepted \/ Event(a) \in Held
  BY <1>2
<1>6. CASE WriteNow(Record(p)) /\ Stored(p)
  <2>1. WInv' /\ Held' = Held \cup {rec} /\ UNCHANGED <<closing, write>>
    BY <1>1, <1>3, <1>4, <1>6, WriteNowStep DEF WriteNow
  <2> QED
    BY <1>0, <1>1, <1>2, <1>3, <1>6, <2>1, StoredKeeps
<1>7. CASE WriteWaits(p, Record(p)) /\ UNCHANGED <<job, monitor>>
  <2>1. WriteWaits(p, rec)
    BY <1>3, <1>7
  <2>2. WInv' /\ Held' = Held /\ closing' = closing
    BY <1>1, <1>2, <2>1, WriteWaitsStep DEF WriteWaits
  <2>3. write'[p] = Waiting(rec) /\ \A t \in Tasks : t # p => write'[t] = write[t]
    BY <1>1, <2>1, WriteOfTask DEF WriteWaits
  <2>4. ProducerOK(job[p], write'[p], Held', next)
    <3>1. write'[p].pc = "waiting" /\ write'[p].rec = RecordOf(job[p])
      BY <1>3, <2>3 DEF Waiting
    <3> QED
      BY <1>1, <1>2, <2>2, <3>1 DEF ProducerOK, Writing
  <2>5. PICK j \in JobStates : j = job[p]
    BY <1>1
  <2>6. job' = job
    BY <1>7
  <2> QED
    BY <1>0, <1>1, <1>2, <1>5, <2>2, <2>3, <2>4, <2>5, <2>6, ProducerStep
<1>8. CASE Refuses /\ Goto(p, "raised") /\ UNCHANGED writerVars
  <2>1. WInv' /\ Held' = Held /\ UNCHANGED <<closing, write>>
    BY <1>1, <1>8, WriterStutters DEF writerVars, writerMemory
  <2>2. \E pc \in {"idle"} \cup Over : Goto(p, pc)
    BY <1>8 DEF Over
  <2> QED
    BY <1>0, <1>1, <1>2, <1>5, <2>1, <2>2, GotoRest
<1> QED
  BY <1>6, <1>7, <1>8 DEF Submit

LEMMA AbandonKeeps ==
  ASSUME CollInv, NEW p \in Producers, ~Finished(p), Abandon(p) \/ (UNCHANGED writerVars /\ write[p].pc = "none"),
         \E pc \in {"idle"} \cup Over : Goto(p, pc), EndKept,
         UNCHANGED <<manifest, main, stop, driver, counted, next>>
  PROVE  CollInv'
<1>1. WInv /\ p \in Tasks /\ driver \in DriverStates /\ counted \in Nat
  BY TaskFacts DEF CollInv, RunTypeOK
<1>2. /\ WInv' /\ Held' = Held /\ closing' = closing /\ write'[p].pc = "none"
      /\ \A t \in Tasks : t # p => write'[t] = write[t]
  <2>1. CASE Abandon(p)
    BY <1>1, <2>1, AbandonStep, WriteOfTask, NoWriteState DEF Abandon
  <2>2. CASE UNCHANGED writerVars /\ write[p].pc = "none"
    BY <1>1, <2>2, WriterStutters DEF writerVars, writerMemory
  <2> QED
    BY <2>1, <2>2
<1>3. \A a \in driver'.accepted : a \in driver.accepted \/ Event(a) \in Held
  OBVIOUS
<1> QED
  BY <1>1, <1>2, <1>3, GotoRest

LEMMA ProducerStepsKeep ==
  ASSUME CollInv, NEW p \in Producers, ProducerSteps(p)
  PROVE  CollInv'
<1>1. /\ job[p] \in JobStates /\ job \in [Producers -> JobStates] /\ WInv
      /\ ProducerOK(job[p], write[p], Held, next) /\ p \in Tasks /\ next \in Nat
      /\ driver \in DriverStates /\ counted \in Nat /\ next \in 1..MaxEvents + 1 /\ MaxEvents \in Nat
  BY TaskFacts, CollectionAssumption DEF CollInv, RunTypeOK, Producing
<1>0. EndKept
  BY ProducersKeepEnd
<1>2. CASE Submit(p)
  BY <1>2, SubmitKeeps
<1>3. CASE Resume(p)
  <2>1. Writing(p) /\ ~Finished(p) /\ UNCHANGED <<manifest, main, stop, driver, counted, next>>
    BY <1>3 DEF Resume, Writing, Finished
  <2>2. CASE WriteReturns(p) /\ Stored(p)
    <3>1. WInv' /\ Held' = Held /\ write[p].pc = "put" /\ closing' = closing
      BY <1>1, <2>2, WriteReturnsStep DEF WriteReturns
    <3>2. write'[p].pc = "none" /\ \A t \in Tasks : t # p => write'[t] = write[t]
      BY <1>1, <2>2, WriteOfTask, NoWriteState DEF WriteReturns
    <3>3. Held' = Held \cup {RecordOf(job[p])}
      BY <1>1, <3>1 DEF ProducerOK
    <3> QED
      BY <1>0, <2>1, <2>2, <3>1, <3>2, <3>3, StoredKeeps
  <2>3. CASE WriteRaises(p) /\ Goto(p, "raised")
    <3>1. Abandon(p) /\ \E pc \in {"idle"} \cup Over : Goto(p, pc)
      BY <2>3 DEF WriteRaises, Over
    <3> QED
      BY <1>0, <2>1, <3>1, AbandonKeeps
  <2> QED
    BY <1>3, <2>2, <2>3 DEF Resume
<1>4. CASE Cancelled(p)
  <2>1. /\ ~Finished(p) /\ UNCHANGED <<manifest, main, stop, driver, counted, next>>
        /\ Abandon(p) \/ (UNCHANGED writerVars /\ write[p].pc = "none")
        /\ \E pc \in {"idle"} \cup Over : Goto(p, pc)
    BY <1>4, NoWriteState DEF Cancelled, WriteCancelled, Finished, Over
  <2> QED
    BY <1>0, <2>1, AbandonKeeps
<1>5. CASE Return(p)
  <2>1. /\ ~Finished(p) /\ UNCHANGED <<manifest, main, stop, driver, counted, next>>
        /\ UNCHANGED writerVars /\ write[p].pc = "none"
        /\ \E pc \in {"idle"} \cup Over : Goto(p, pc)
    BY <1>1, <1>5 DEF Return, ProducerOK, Finished, Over
  <2> QED
    BY <1>0, <2>1, AbandonKeeps
<1>6. ASSUME job[p].pc = "publish", UNCHANGED <<writerVars, manifest, main, next>>,
             driver' \in DriverStates, counted' \in Nat,
             \A a \in driver'.accepted : a \in driver.accepted \/ Event(a) \in Held,
             Goto(p, "raised") \/ EndMessage(p)
      PROVE  CollInv'
  <2>1. ~Finished(p) /\ write[p].pc = "none"
    BY <1>1, <1>6 DEF ProducerOK, Finished
  <2>2. WInv' /\ Held' = Held /\ UNCHANGED <<closing, write>>
    BY <1>1, <1>6, WriterStutters DEF writerVars, writerMemory
  <2>3. (\E pc \in {"idle"} \cup Over : Goto(p, pc)) \/ EndMessage(p)
    BY <1>6 DEF Over
  <2> QED
    BY <1>0, <1>6, <2>1, <2>2, <2>3, GotoRest
<1>7. CASE PublishAccepted(p)
  <2>1. /\ job[p].pc = "publish" /\ UNCHANGED <<writerVars, manifest, main, next>> /\ EndMessage(p)
        /\ driver' = [driver EXCEPT !.accepted = @ \cup {job[p].at}] /\ counted' = counted + 1
    BY <1>7 DEF PublishAccepted
  <2>2. job[p].at \in 1..next - 1 /\ Event(job[p].at) \in Held
    BY <1>1, <2>1 DEF ProducerOK, Active
  <2>3. job[p].at \in 1..MaxEvents
    BY <1>1, <2>2
  <2>4. driver' \in DriverStates /\ driver'.accepted = driver.accepted \cup {job[p].at} /\ counted' \in Nat
    BY <1>1, <2>1, <2>3 DEF DriverStates
  <2> QED
    BY <1>6, <2>1, <2>2, <2>4
<1>8. CASE PublishRefused(p)
  BY <1>1, <1>6, <1>8 DEF PublishRefused
<1>9. CASE PublishFails(p)
  <2>1. /\ job[p].pc = "publish" /\ UNCHANGED <<writerVars, manifest, main, next, counted>>
        /\ Goto(p, "raised") \/ EndMessage(p)
        /\ driver' = [driver EXCEPT !.state = "failed"]
    BY <1>9 DEF PublishFails
  <2>2. driver' \in DriverStates /\ driver'.accepted = driver.accepted
    BY <1>1, <2>1 DEF DriverStates
  <2> QED
    BY <1>1, <1>6, <2>1, <2>2
<1> QED
  BY <1>2, <1>3, <1>4, <1>5, <1>7, <1>8, <1>9 DEF ProducerSteps

(* A message arrives: its record is new, since its time is. *)
LEMMA ReceiveKeeps ==
  ASSUME CollInv, NEW p \in Producers, Receive(p)
  PROVE  CollInv'
<1>1. /\ job[p] \in JobStates /\ job \in [Producers -> JobStates] /\ WInv
      /\ next \in 1..MaxEvents + 1 /\ MaxEvents \in Nat /\ next \in Nat
      /\ ProducerOK(job[p], write[p], Held, next)
  BY CollectionAssumption DEF CollInv, RunTypeOK, Producing
<1>2. /\ job[p].pc = "idle" /\ next <= MaxEvents /\ next' = next + 1
      /\ job' = [job EXCEPT ![p] = [@ EXCEPT !.pc = IF p = "status" THEN "journal" ELSE "raw",
                                             !.at = next]]
      /\ UNCHANGED <<writerVars, manifest, main, driver, counted>>
  BY DEF Receive
<1>3. WInv' /\ Held' = Held /\ UNCHANGED <<closing, write>>
  BY <1>1, <1>2, WriterStutters DEF writerVars, writerMemory
<1>4. PICK j \in JobStates : /\ job' = [job EXCEPT ![p] = j]
                             /\ j.pc \in {"raw", "journal"} /\ j.at = next
  <2>1. PICK pc \in {"raw", "journal"} : pc = IF p = "status" THEN "journal" ELSE "raw"
    OBVIOUS
  <2> DEFINE j == [job[p] EXCEPT !.pc = pc, !.at = next]
  <2>2. next \in 0..MaxEvents /\ pc \in Active \cup {"idle"} \cup Over
    BY <1>1, <1>2 DEF Active
  <2>3. j \in JobStates /\ j.pc = pc /\ j.at = next
    BY <1>1, <2>2 DEF JobStates
  <2>4. job' = [job EXCEPT ![p] = j]
    BY <1>1, <1>2, <2>1
  <2> HIDE DEF j
  <2> QED
    BY <2>3, <2>4
<1>5. job'[p] = j /\ (\A q \in Producers : q # p => job'[q] = job[q]) /\ job' \in [Producers -> JobStates]
  BY <1>1, <1>4
<1>6. main.pc \notin {"new", "starting", "connecting", "legacy"} /\ ~Finished(p)
  BY <1>2 DEF CollInv, Quiet, Joining, Finished
<1>7. \A r \in Held : r.kind # "end" => r.at < next
  BY <1>6 DEF CollInv, Journaled
<1>8. RunTypeOK'
  BY <1>1, <1>2, <1>5 DEF CollInv, RunTypeOK
<1>9. Producing'
  <2>1. ASSUME NEW q \in Producers PROVE ProducerOK(job'[q], write'[q], Held', next')
    <3>1. CASE q = p
      <4>1. write[p].pc = "none"
        BY <1>1, <1>2 DEF ProducerOK
      <4>2. RecordOf(j) \notin Held /\ Event(j.at) \notin Held
        BY <1>1, <1>4, <1>7, RecordFacts
      <4> QED
        BY <1>1, <1>2, <1>3, <1>4, <1>5, <3>1, <4>1, <4>2 DEF ProducerOK
    <3>2. CASE q # p
      <4>1. ProducerOK(job[q], write[q], Held, next) /\ job[q] \in JobStates
        BY <1>1 DEF CollInv, Producing
      <4>2. ProducerOK(job[q], write[q], Held, next')
        BY <1>1, <1>2, <4>1, ProducerKept
      <4> QED
        BY <1>3, <1>5, <3>2, <4>2
    <3> QED
      BY <3>1, <3>2
  <2>2. ASSUME NEW q \in Producers, q # p, job[q].pc \in Active PROVE job[q].at # next
    <3>1. job[q].at \in 1..next - 1
      BY <2>2 DEF CollInv, Producing, ProducerOK
    <3> QED
      BY <1>1, <3>1
  <2>3. \A q, r \in Producers :
          job'[q].pc \in Active /\ job'[r].pc \in Active /\ job'[q].at = job'[r].at => q = r
    BY <1>4, <1>5, <2>2 DEF CollInv, Producing
  <2> QED
    BY <2>1, <2>3 DEF Producing
<1>10. Marking'
  BY <1>2, <1>3 DEF CollInv, Marking, EndMarker
<1>11. Journaled'
  <2>1. \A r \in Held : r.kind # "end" => r.at < next'
    <3>1. \A r \in Held : r.at \in Nat
      BY WriterFinite, <1>1 DEF WInv, Recs
    <3> QED
      BY <1>1, <1>2, <1>7, <3>1
  <2> QED
    BY <1>2, <1>3, <2>1 DEF CollInv, Journaled
<1>12. Quiet' /\ Complete'
  <2>1. SourceTree' = SourceTree /\ EndMarker' = EndMarker /\ stats' = stats
    BY <1>2 DEF SourceTree, EndMarker, writerVars, writerMemory
  <2> QED
    BY <1>2, <1>3, <1>6, <2>1 DEF CollInv, Quiet, Complete
<1>13. Joining'
  <2>1. \A q \in Producers : Finished(q) => Finished(q)'
    BY <1>5, <1>6 DEF Finished
  <2>2. "session" \in Producers /\ "poller" \in Producers
    BY DEF Producers
  <2> QED
    BY <1>2, <1>3, <2>1, <2>2 DEF CollInv, Joining, Closed
<1> QED
  BY <1>3, <1>8, <1>9, <1>10, <1>11, <1>12, <1>13 DEF CollInv

----------------------------------------------------------------------------
(* Steps of run()                                                          *)

(* A step of run() under way: the tasks go on where they are. *)
LEMMA MainStep ==
  ASSUME CollInv, WInv', Held' = Held, write' = write, UNCHANGED <<manifest, next, counted>>,
         job' \in [Producers -> JobStates],
         \A p \in Producers : job'[p].pc = job[p].pc /\ job'[p].at = job[p].at,
         driver' \in DriverStates, driver'.accepted = driver.accepted, main' \in MainStates,
         main.pc \notin {"new", "starting", "legacy", "clean"},
         main'.pc \notin {"new", "starting", "connecting", "legacy", "clean"},
         main'.pc \in Early => main.pc \in Early,
         main'.pc = "marker" => main'.end \in Nat /\ main.pc \in {"finish", "marker"},
         main.pc = "marker" => \/ write[Main].pc = "none"
                               \/ main'.pc = "marker" /\ main'.end = main.end,
         Joining'
  PROVE  CollInv'
<1>1. RunTypeOK'
  BY DEF CollInv, RunTypeOK
<1>2. Producing'
  <2>1. ASSUME NEW p \in Producers PROVE ProducerOK(job'[p], write[p], Held, next)
    <3>1. ProducerOK(job[p], write[p], Held, next) /\ job'[p].pc = job[p].pc /\ job'[p].at = job[p].at
      BY DEF CollInv, Producing
    <3> QED
      BY <3>1, ProducerSame
  <2> QED
    BY <2>1 DEF CollInv, Producing
<1>3. Marking'
  <2>1. write[Main].pc # "none" => main'.pc = "marker" /\ main'.end = main.end
    BY DEF CollInv, Marking
  <2>2. \/ main'.pc \in Early \/ (main'.pc = "marker" /\ write[Main].pc # "put")
        => \A r \in Held : r.kind # "end"
    BY DEF CollInv, Marking, Early
  <2> QED
    BY <2>1, <2>2 DEF CollInv, Marking, EndMarker
<1>4. Journaled'
  BY DEF CollInv, Journaled
<1>5. Quiet'
  BY DEF CollInv, Quiet
<1>6. Complete'
  BY DEF Complete
<1> QED
  BY <1>1, <1>2, <1>3, <1>4, <1>5, <1>6 DEF CollInv

(* The producers' tasks are as before but for cancellations. *)
LEMMA CancelTaskState ==
  ASSUME job \in [Producers -> JobStates], NEW p \in Producers
  PROVE  /\ CancelTask(p) \in JobStates
         /\ CancelTask(p).pc = job[p].pc /\ CancelTask(p).at = job[p].at
<1>1. job[p] \in JobStates /\ (~Finished(p)) \in BOOLEAN
  BY DEF Finished
<1> QED
  BY <1>1 DEF CancelTask, JobStates

(* The fields of main after a step. *)
LEMMA MainFields ==
  ASSUME main \in MainStates
  PROVE  /\ \A pc : MainTo(pc) => /\ main'.pc = pc /\ main'.err = main.err
                                  /\ main'.end = main.end
         /\ \A pc \in {"connecting", "running", "starting", "disconnect", "gather", "join", "join2",
                       "finish", "marker", "close", "release", "verify", "failed", "clean"} :
               MainTo(pc) => main' \in MainStates
         /\ \A pc, e : MainErr(pc, e) => /\ main'.pc = pc /\ main'.err = (main.err \/ e)
                                         /\ main'.end = main.end
         /\ \A pc \in {"disconnect", "join", "join2", "finish", "close", "release", "verify"} :
              \A e \in BOOLEAN : MainErr(pc, e) => main' \in MainStates
  BY ZenonT(60) DEF MainTo, MainErr, MainStates, Early

(* run() moves on, and nothing else changes. *)
LEMMA MainMoves ==
  ASSUME CollInv, UNCHANGED <<writerVars, manifest, job, counted, next>>,
         driver' \in DriverStates, driver'.accepted = driver.accepted, main' \in MainStates,
         main.pc \notin {"new", "starting", "legacy", "clean"},
         main'.pc \notin {"new", "starting", "connecting", "legacy", "clean"},
         main'.pc \in Early => main.pc \in Early,
         main'.pc = "marker" => main'.end \in Nat /\ main.pc \in {"finish", "marker"},
         main.pc = "marker" => \/ write[Main].pc = "none"
                               \/ main'.pc = "marker" /\ main'.end = main.end,
         Joining'
  PROVE  CollInv'
<1>1. WInv' /\ Held' = Held /\ write' = write
  BY WriterStutters DEF CollInv, writerVars, writerMemory
<1>2. /\ job' \in [Producers -> JobStates]
      /\ \A p \in Producers : job'[p].pc = job[p].pc /\ job'[p].at = job[p].at
  BY DEF CollInv, RunTypeOK
<1> QED
  BY <1>1, <1>2, MainStep

LEMMA NotMarker ==
  ASSUME CollInv
  PROVE  /\ main \in MainStates /\ main.err \in BOOLEAN /\ driver \in DriverStates /\ counted \in Nat
         /\ job \in [Producers -> JobStates] /\ WInv
         /\ main.pc # "marker" => write[Main].pc = "none"
         /\ \A p \in Producers : (~Finished(p)) \in BOOLEAN
         /\ {"session", "poller", "snapshot", "status"} \subseteq Producers
  BY DEF CollInv, RunTypeOK, MainStates, Marking, Finished, Producers

LEMMA RunningKeeps ==
  ASSUME CollInv, StopRequested \/ RunWakes \/ RunCancelled
  PROVE  CollInv'
<1>1. main \in MainStates /\ driver \in DriverStates /\ job \in [Producers -> JobStates]
  BY NotMarker
<1>2. UNCHANGED <<writerVars, manifest, job, monitor, driver, counted, next>>
  BY DEF StopRequested, RunWakes, RunCancelled
<1>3. closing' = closing /\ \A p \in Producers : Finished(p)' <=> Finished(p)
  BY <1>2 DEF writerVars, writerMemory, Finished
<1>4. CASE StopRequested
  <2>1. main.pc = "running" /\ main' = main
    BY <1>4 DEF StopRequested
  <2>2. Joining' /\ main' \in MainStates /\ driver' \in DriverStates /\ driver'.accepted = driver.accepted
    BY <1>1, <1>2, <2>1 DEF Joining, Closed
  <2> QED
    BY <1>2, <2>1, <2>2, MainMoves
<1>5. CASE RunWakes
  <2>1. main.pc = "running" /\ MainErr("disconnect", ~stop)
    BY <1>5 DEF RunWakes
  <2>2. main' \in MainStates /\ main'.pc = "disconnect"
    <3>1. \/ MainErr("disconnect", TRUE) \/ MainErr("disconnect", FALSE)
      BY <2>1, Zenon DEF MainErr
    <3> QED
      BY <1>1, <3>1, MainFields
  <2>3. Joining' /\ driver' \in DriverStates /\ driver'.accepted = driver.accepted
    BY <1>1, <1>2, <2>2 DEF Joining, Closed
  <2>4. main.pc \in Early
    BY <2>1 DEF Early
  <2> QED
    BY <1>2, <2>1, <2>2, <2>3, <2>4, MainMoves
<1>6. CASE RunCancelled
  <2>1. \/ main.pc = "running" /\ MainErr("disconnect", TRUE)
        \/ main.pc = "verify" /\ MainTo("failed")
    BY <1>6 DEF RunCancelled
  <2>2. /\ main' \in MainStates
        /\ \/ main.pc = "running" /\ main'.pc = "disconnect"
           \/ main.pc = "verify" /\ main'.pc = "failed"
    BY <1>1, <2>1, MainFields
  <2>3. Joining' /\ driver' \in DriverStates /\ driver'.accepted = driver.accepted
    BY <1>1, <1>2, <2>2 DEF Joining, Closed
  <2>4. main'.pc \in Early => main.pc \in Early
    BY <2>2 DEF Early
  <2> QED
    BY <1>2, <2>2, <2>3, <2>4, MainMoves
<1> QED
  BY <1>4, <1>5, <1>6

LEMMA DisconnectKeeps ==
  ASSUME CollInv, SessionsStop \/ DisconnectRaises \/ Disconnected
  PROVE  CollInv'
<1>1. main \in MainStates /\ driver \in DriverStates /\ job \in [Producers -> JobStates] /\ "poller" \in Producers
  BY NotMarker
<1>2. UNCHANGED <<writerVars, manifest, driver, counted, next>> /\ closing' = closing
      /\ driver' \in DriverStates /\ driver'.accepted = driver.accepted
  BY <1>1 DEF SessionsStop, DisconnectRaises, Disconnected, writerVars, writerMemory
<1>3. CASE SessionsStop
  <2>1. /\ main.pc = "disconnect" /\ MainTo("gather")
        /\ job' = [job EXCEPT !["poller"] = CancelTask("poller"), !["snapshot"] = CancelTask("snapshot")]
    BY <1>3 DEF SessionsStop
  <2>2. main' \in MainStates /\ main'.pc = "gather"
    BY <1>1, <2>1, MainFields
  <2>3. /\ job' \in [Producers -> JobStates]
        /\ \A p \in Producers : job'[p].pc = job[p].pc /\ job'[p].at = job[p].at
    <3>1. \A p \in Producers : /\ CancelTask(p) \in JobStates /\ CancelTask(p).pc = job[p].pc
                               /\ CancelTask(p).at = job[p].at
      BY <1>1, CancelTaskState
    <3>2. \A p \in Producers : job'[p] \in {job[p], CancelTask(p)}
      BY <1>1, <2>1, NotMarker
    <3> QED
      BY <1>1, <2>1, <3>1, <3>2
  <2>4. WInv' /\ Held' = Held /\ write' = write
    BY <1>2, WriterStutters DEF CollInv, writerVars, writerMemory
  <2>5. Joining' /\ main.pc \in Early
    BY <2>1, <2>2 DEF Joining, Closed, Early
  <2> QED
    BY <1>2, <2>1, <2>2, <2>3, <2>4, <2>5, MainStep
<1>4. CASE DisconnectRaises
  <2>1. main.pc = "disconnect" /\ MainErr("join", TRUE) /\ job' = job
    BY <1>4 DEF DisconnectRaises
  <2>2. main' \in MainStates /\ main'.pc = "join" /\ main'.err
    BY <1>1, <2>1, MainFields
  <2>3. Joining' /\ main.pc \in Early
    BY <2>1, <2>2 DEF Joining, Closed, Early
  <2> QED
    BY <1>2, <2>1, <2>2, <2>3, MainMoves
<1>5. CASE Disconnected
  <2>1. main.pc = "gather" /\ MainTo("join") /\ job' = job /\ Finished("session") /\ Finished("poller")
    BY <1>5 DEF Disconnected
  <2>2. main' \in MainStates /\ main'.pc = "join"
    BY <1>1, <2>1, MainFields
  <2>3. Joining' /\ main.pc \in Early
    BY <2>1, <2>2 DEF Joining, Closed, Early, Finished
  <2> QED
    BY <1>2, <2>1, <2>2, <2>3, MainMoves
<1> QED
  BY <1>3, <1>4, <1>5

LEMMA JoinKeeps ==
  ASSUME CollInv, ProducersJoin \/ JoinTimeout \/ CancelTimeout
  PROVE  CollInv'
<1>1. /\ main \in MainStates /\ driver \in DriverStates /\ job \in [Producers -> JobStates]
      /\ main.err \in BOOLEAN /\ ProducerErrors \in BOOLEAN
  BY NotMarker DEF ProducerErrors
<1>2. UNCHANGED <<writerVars, manifest, driver, counted, next>> /\ closing' = closing
      /\ driver' \in DriverStates /\ driver'.accepted = driver.accepted
  BY <1>1 DEF ProducersJoin, JoinTimeout, CancelTimeout, writerVars, writerMemory
<1>3. main.pc \in {"join", "join2"} /\ main.pc \in Early
  BY DEF ProducersJoin, JoinTimeout, CancelTimeout, Early
<1>4. CASE ProducersJoin
  <2>1. MainErr("finish", ProducerErrors) /\ job' = job /\ Joined
    BY <1>4 DEF ProducersJoin
  <2>2. main' \in MainStates /\ main'.pc = "finish" /\ (~main'.err => ~main.err)
    BY <1>1, <2>1, MainFields
  <2>3. ~main.err => \A p \in Producers \ {"snapshot"} : Finished(p)
    BY <1>3, <2>1 DEF CollInv, Joining, Closed, Joined, Producers
  <2>4. Joining'
    BY <2>1, <2>2, <2>3 DEF Joining, Finished, Closed
  <2> QED
    BY <1>2, <1>3, <2>1, <2>2, <2>4, MainMoves
<1>5. CASE JoinTimeout
  <2>1. /\ MainErr("join2", TRUE)
        /\ job' = [p \in Producers |->
                     IF p = "status" \/ (p # "snapshot" /\ monitor = "watching")
                     THEN CancelTask(p) ELSE job[p]]
    BY <1>5 DEF JoinTimeout
  <2>2. main' \in MainStates /\ main'.pc = "join2" /\ main'.err
    BY <1>1, <2>1, MainFields
  <2>3. /\ job' \in [Producers -> JobStates]
        /\ \A p \in Producers : job'[p].pc = job[p].pc /\ job'[p].at = job[p].at
    <3>1. \A p \in Producers : /\ CancelTask(p) \in JobStates /\ CancelTask(p).pc = job[p].pc
                               /\ CancelTask(p).at = job[p].at
      BY <1>1, CancelTaskState
    <3> QED
      BY <1>1, <2>1, <3>1
  <2>4. WInv' /\ Held' = Held /\ write' = write
    BY <1>2, WriterStutters DEF CollInv, writerVars, writerMemory
  <2>5. Joining'
    BY <2>2 DEF Joining, Closed
  <2> QED
    BY <1>2, <1>3, <2>2, <2>3, <2>4, <2>5, MainStep
<1>6. CASE CancelTimeout
  <2>1. MainErr("finish", ProducerErrors) /\ job' = job /\ main.pc = "join2"
    BY <1>6 DEF CancelTimeout
  <2>2. main.err
    BY <2>1 DEF CollInv, Joining, Closed
  <2>3. main' \in MainStates /\ main'.pc = "finish" /\ main'.err
    BY <1>1, <2>1, <2>2, MainFields
  <2>4. Joining'
    BY <2>3 DEF Joining, Closed
  <2> QED
    BY <1>2, <1>3, <2>1, <2>3, <2>4, MainMoves
<1> QED
  BY <1>4, <1>5, <1>6

LEMMA FinishKeeps ==
  ASSUME CollInv, FinishTicks \/ FinishFails \/ CloseServices
  PROVE  CollInv'
<1>1. /\ main \in MainStates /\ driver \in DriverStates /\ job \in [Producers -> JobStates]
      /\ main.err \in BOOLEAN /\ next \in Nat
  BY NotMarker, CollectionAssumption DEF CollInv, RunTypeOK
<1>2. UNCHANGED <<writerVars, manifest, job, counted, next>> /\ UNCHANGED <<closing, write>>
      /\ \A p \in Producers : Finished(p)' <=> Finished(p)
  BY <1>1 DEF FinishTicks, FinishFails, CloseServices, writerVars, writerMemory, Finished
<1>3. CASE FinishTicks
  <2>1. /\ main.pc = "finish" /\ driver' = [driver EXCEPT !.state = "sealed"]
        /\ main' = [main EXCEPT !.end = next, !.pc = IF main.err THEN "close" ELSE "marker"]
    BY <1>3 DEF FinishTicks
  <2>2. /\ main' \in MainStates /\ main'.end = next /\ main'.err = main.err
        /\ main'.pc = IF main.err THEN "close" ELSE "marker"
    <3>1. PICK pc \in {"close", "marker"} : pc = IF main.err THEN "close" ELSE "marker"
      BY <1>1
    <3>2. main' = [main EXCEPT !.end = next, !.pc = pc] /\ next \in Int
      BY <1>1, <2>1, <3>1
    <3>3. main' \in MainStates /\ main'.end = next /\ main'.err = main.err /\ main'.pc = pc
      BY <1>1, <3>2 DEF MainStates, Early
    <3> QED
      BY <3>1, <3>3
  <2>3. driver' \in DriverStates /\ driver'.accepted = driver.accepted /\ driver'.state = "sealed"
    BY <1>1, <2>1 DEF DriverStates
  <2>4. Joining'
    BY <1>2, <2>1, <2>2, <2>3 DEF CollInv, Joining, Closed
  <2>5. main.pc \in Early /\ main'.pc \notin Early
    BY <2>1, <2>2 DEF Early
  <2> QED
    BY <1>1, <1>2, <2>1, <2>2, <2>3, <2>4, <2>5, MainMoves
<1>4. CASE FinishFails
  <2>1. main.pc = "finish" /\ driver' = [driver EXCEPT !.state = "failed"] /\ MainErr("close", TRUE)
    BY <1>4 DEF FinishFails
  <2>2. main' \in MainStates /\ main'.pc = "close" /\ main'.err
    BY <1>1, <2>1, MainFields
  <2>3. driver' \in DriverStates /\ driver'.accepted = driver.accepted
    BY <1>1, <2>1 DEF DriverStates
  <2>4. Joining' /\ main'.pc \notin Early
    BY <2>2 DEF Joining, Closed, Early
  <2> QED
    BY <1>2, <2>1, <2>2, <2>3, <2>4, MainMoves
<1>5. CASE CloseServices
  <2>1. PICK failed \in BOOLEAN : main.pc = "release" /\ MainErr("verify", failed) /\ driver' = driver
    BY <1>5 DEF CloseServices
  <2>4. \A p \in Producers : write[p].pc = "none"
    BY <1>5, NoWriteState DEF CloseServices
  <2>2. main' \in MainStates /\ main'.pc = "verify" /\ (~main'.err => ~main.err)
    BY <1>1, <2>1, MainFields
  <2>3. Joining' /\ main'.pc \notin Early
    BY <1>2, <2>1, <2>2, <2>4 DEF CollInv, Joining, Closed, Early
  <2> QED
    BY <1>1, <1>2, <2>1, <2>2, <2>3, MainMoves
<1> QED
  BY <1>3, <1>4, <1>5

(* The marker is written, or its write waits, returns or raises. *)
LEMMA MarkerStep ==
  ASSUME CollInv, main.pc = "marker", WInv', Held' = Held \/ Held' = Held \cup {EndMarker},
         UNCHANGED <<closing, manifest, job, driver, counted, next>>,
         main' \in MainStates, main'.end = main.end, ~main'.err => ~main.err,
         \A t \in Tasks : t # Main => write'[t] = write[t],
         \/ main'.pc = "close" /\ write'[Main].pc = "none"
         \/ /\ main'.pc = "marker" /\ write'[Main].pc = "waiting" /\ write'[Main].rec = EndMarker
            /\ write[Main].pc = "none" /\ Held' = Held
  PROVE  CollInv'
<1>1. main.end \in Nat /\ EndMarker.kind = "end"
  BY DEF CollInv, Marking, EndMarker
<1>2. RunTypeOK'
  BY DEF CollInv, RunTypeOK
<1>3. Producing'
  <2>1. Held \subseteq Held' /\ \A r \in Held' \ Held : r.kind = "end"
    BY <1>1
  <2>2. next \in Nat
    BY CollectionAssumption DEF CollInv, RunTypeOK
  <2>3. ASSUME NEW p \in Producers PROVE ProducerOK(job[p], write'[p], Held', next)
    <3>1. job[p] \in JobStates /\ ProducerOK(job[p], write[p], Held, next) /\ write'[p] = write[p]
      BY TaskFacts DEF CollInv, RunTypeOK, Producing
    <3> QED
      BY <2>1, <2>2, <3>1, ProducerKept
  <2> QED
    BY <2>3 DEF CollInv, Producing
<1>4. Marking'
  <2>1. EndMarker' = EndMarker
    BY DEF EndMarker
  <2> QED
    BY <1>1, <2>1 DEF CollInv, Marking, Early
<1>5. Journaled'
  BY <1>1 DEF CollInv, Journaled
<1>6. Quiet'
  BY DEF CollInv, Quiet
<1>7. Joining' /\ Complete'
  BY DEF CollInv, Joining, Closed, Finished, Complete
<1> QED
  BY <1>2, <1>3, <1>4, <1>5, <1>6, <1>7 DEF CollInv

LEMMA WriteMarkerKeeps ==
  ASSUME CollInv, WriteMarker
  PROVE  CollInv'
<1>1. main \in MainStates /\ main.err \in BOOLEAN /\ WInv /\ Main \in Tasks /\ main.pc = "marker"
  BY NotMarker, TaskFacts DEF WriteMarker
<1>2. UNCHANGED <<manifest, job, monitor, stop, driver, counted, next>>
  BY DEF WriteMarker
<1>3. PICK rec \in Recs : rec = EndMarker
  BY <1>1 DEF CollInv, Marking, EndMarker, Recs, Kinds
<1>4. write[Main].pc # "put" => rec \notin Held
  <2>1. rec.kind = "end"
    BY <1>3 DEF EndMarker
  <2> QED
    BY <1>1, <2>1 DEF CollInv, Marking
<1>5. /\ MainTo("close") => main' \in MainStates /\ main'.pc = "close" /\ main'.end = main.end /\ main'.err = main.err
      /\ MainErr("close", TRUE) => main' \in MainStates /\ main'.pc = "close" /\ main'.end = main.end /\ main'.err
  BY <1>1, MainFields
<1>6. CASE write[Main] = NoWrite /\ WriteNow(EndMarker) /\ MainTo("close")
  <2>1. write[Main].pc = "none" /\ WriteNow(rec) /\ write' = write /\ closing' = closing
    BY <1>3, <1>6, NoWriteState DEF WriteNow
  <2>2. WInv' /\ Held' = Held \cup {rec}
    BY <1>1, <1>4, <2>1, WriteNowStep
  <2> QED
    BY <1>1, <1>2, <1>3, <1>5, <1>6, <2>1, <2>2, MarkerStep
<1>7. CASE write[Main] = NoWrite /\ WriteWaits(Main, EndMarker) /\ UNCHANGED main
  <2>1. write[Main].pc = "none" /\ WriteWaits(Main, rec) /\ closing' = closing
        /\ write' = [write EXCEPT ![Main] = Waiting(rec)]
    BY <1>3, <1>7, NoWriteState DEF WriteWaits
  <2>2. WInv' /\ Held' = Held
    BY <1>1, <2>1, WriteWaitsStep
  <2>3. Waiting(rec).pc = "waiting" /\ Waiting(rec).rec = rec
    BY DEF Waiting
  <2>4. write'[Main] = Waiting(rec) /\ \A t \in Tasks : t # Main => write'[t] = write[t]
    BY <1>1, <2>1, WriteOfTask
  <2> QED
    BY <1>1, <1>2, <1>3, <1>7, <2>1, <2>2, <2>3, <2>4, MarkerStep
<1>8. CASE write[Main] = NoWrite /\ Refuses /\ MainErr("close", TRUE) /\ UNCHANGED writerVars
  <2>1. WInv' /\ Held' = Held /\ write' = write /\ closing' = closing
    BY <1>1, <1>8, WriterStutters DEF writerVars, writerMemory
  <2> QED
    BY <1>1, <1>2, <1>5, <1>8, <2>1, NoWriteState, MarkerStep
<1>9. CASE WriteReturns(Main) /\ MainTo("close")
  <2>1. write' = [write EXCEPT ![Main] = NoWrite] /\ closing' = closing
    BY <1>9 DEF WriteReturns
  <2>2. WInv' /\ Held' = Held
    BY <1>1, <1>9, WriteReturnsStep
  <2>3. write'[Main] = NoWrite /\ \A t \in Tasks : t # Main => write'[t] = write[t]
    BY <1>1, <2>1, WriteOfTask
  <2> QED
    BY <1>1, <1>2, <1>5, <1>9, <2>1, <2>2, <2>3, NoWriteState, MarkerStep
<1>10. CASE WriteRaises(Main) /\ MainErr("close", TRUE)
  <2>1. write' = [write EXCEPT ![Main] = NoWrite] /\ closing' = closing /\ Abandon(Main)
    BY <1>10 DEF WriteRaises, Abandon
  <2>2. WInv' /\ Held' = Held
    BY <1>1, <2>1, AbandonStep
  <2>3. write'[Main] = NoWrite /\ \A t \in Tasks : t # Main => write'[t] = write[t]
    BY <1>1, <2>1, WriteOfTask
  <2> QED
    BY <1>1, <1>2, <1>5, <1>10, <2>1, <2>2, <2>3, NoWriteState, MarkerStep
<1> QED
  BY <1>6, <1>7, <1>8, <1>9, <1>10 DEF WriteMarker

LEMMA CloseWriterKeeps ==
  ASSUME CollInv, CloseWriter
  PROVE  CollInv'
<1>1. main \in MainStates /\ main.err \in BOOLEAN /\ WInv /\ main.pc = "close" /\ driver \in DriverStates
      /\ write[Main].pc = "none"
  BY NotMarker DEF CloseWriter
<1>2. UNCHANGED <<manifest, job, monitor, stop, driver, counted, next>>
  BY DEF CloseWriter
<1>3. CASE CloseBegins /\ UNCHANGED main
  <2>1. WInv' /\ Held' = Held /\ \A u \in Tasks : write'[u] = write[u]
    BY <1>1, <1>3, CloseBeginsStep
  <2>2. RunTypeOK' /\ Producing' /\ Journaled'
    BY <1>2, <1>3, <2>1, TaskFacts DEF CollInv, RunTypeOK, Producing, Journaled
  <2>3. Marking'
    BY <1>1, <1>3, <2>1, TaskFacts DEF CollInv, Marking, Early
  <2>4. Quiet' /\ Joining' /\ Complete'
    BY <1>1, <1>2, <1>3 DEF CollInv, Quiet, Joining, Closed, Complete, Finished
  <2> QED
    BY <2>1, <2>2, <2>3, <2>4 DEF CollInv
<1>4. CASE closing = "ok" /\ MainTo("release") /\ UNCHANGED writerVars
  <2>1. main' \in MainStates /\ main'.pc = "release" /\ main'.err = main.err
    BY <1>1, <1>4, MainFields
  <2>2. Joining' /\ main'.pc \notin Early
    BY <1>1, <1>2, <1>4, <2>1 DEF CollInv, Joining, Closed, Early, Finished, writerVars, writerMemory
  <2> QED
    BY <1>1, <1>2, <1>4, <2>1, <2>2, MainMoves
<1>5. CASE closing = "failed" /\ MainErr("release", TRUE) /\ UNCHANGED writerVars
  <2>1. main' \in MainStates /\ main'.pc = "release" /\ main'.err
    BY <1>1, <1>5, MainFields
  <2>2. Joining' /\ main'.pc \notin Early
    BY <2>1 DEF Joining, Closed, Early
  <2> QED
    BY <1>1, <1>2, <1>5, <2>1, <2>2, MainMoves
<1> QED
  BY <1>3, <1>4, <1>5 DEF CloseWriter

----------------------------------------------------------------------------
(* The end of a run                                                        *)

LEMMA SourceRows ==
  /\ SourceTree.files = files /\ Rows(SourceTree) = RowsIn(files)
  /\ \A kind : RowsOf(SourceTree, kind) = {r \in RowsIn(files) : r.kind = kind}
<1>1. SourceTree.files = files
  BY DEF SourceTree
<1>2. Rows(SourceTree) = RowsIn(files)
  BY <1>1 DEF Rows, RowsIn
<1> QED
  BY <1>1, <1>2 DEF RowsOf

(* Rows in the journal that are as many as the events the driver accepted, *)
(* each of them journaled, are just those events.                          *)
LEMMA SameEvents ==
  ASSUME NEW E, IsFiniteSet(E), \A r \in E : r \in Recs /\ r.kind = "event",
         NEW A \in SUBSET Nat, \A a \in A : Event(a) \in E, Cardinality(E) = Cardinality(A)
  PROVE  {r.at : r \in E} = A
<1> DEFINE f == [a \in A |-> Event(a)]
<1>1. \A a \in A : Event(a).at = a
  BY DEF Event
<1>2. f \in [A -> E] /\ \A a \in A : f[a] = Event(a)
  OBVIOUS
<1> HIDE DEF f
<1>3. \A a, b \in A : f[a] = f[b] => a = b
  <2> SUFFICES ASSUME NEW a \in A, NEW b \in A, f[a] = f[b] PROVE a = b
    OBVIOUS
  <2>1. Event(a) = Event(b) /\ Event(a).at = a /\ Event(b).at = b
    BY <1>1, <1>2
  <2> QED
    BY <2>1
<1>4. f \in Injection(A, E)
  BY <1>2, <1>3 DEF Injection, IsInjective
<1>5. f \in Surjection(A, E)
  BY <1>4, FS_Injection
<1>6. \A r \in E : \E a \in A : f[a] = r
  BY <1>5 DEF Surjection
<1>7. \A r \in E : r.at \in A
  BY <1>1, <1>2, <1>6
<1>8. \A a \in A : \E r \in E : r.at = a
  BY <1>1
<1> QED
  BY <1>7, <1>8

(* Everything is in the files once the writer has closed without error.    *)
LEMMA ClosedWriter ==
  ASSUME CollInv, closing = "ok", queue.items = <<>>
  PROVE  Held = RowsIn(files)
<1>1. batch = <<>>
  BY DEF CollInv, WInv, Places
<1>2. Real(queue.items) = {} /\ ToSet(batch) = {}
  BY <1>1, NoElements DEF Real
<1> QED
  BY <1>2 DEF Held

LEMMA VerifiedIsComplete ==
  ASSUME CollInv, main.pc = "verify", ~main.err, SuccessInvariants, JournalReconciles
  PROVE  /\ {r.at : r \in RowsOf(SourceTree, "event")} = driver.accepted
         /\ RowsOf(SourceTree, "end") = {EndMarker}
         /\ Cardinality(Rows(SourceTree)) = stats.accepted
<1>1. closing = "ok" /\ queue.items = <<>> /\ GoodFiles(files) /\ driver.accepted \subseteq 1..MaxEvents
      /\ stats.accepted = stats.written /\ counted = Cardinality(driver.accepted)
      /\ stats.written = RowCount(files)
  BY Accounted DEF CollInv, Joining, Closed, SuccessInvariants, WInv, WriterTypeOK, RunTypeOK, DriverStates
<1>2. Held = RowsIn(files) /\ IsFiniteSet(RowsIn(files)) /\ RowsIn(files) \subseteq Recs
  BY <1>1, ClosedWriter, RowsCounted, WriterFinite DEF CollInv, WInv
<1> DEFINE events == RowsOf(SourceTree, "event")
           ends == RowsOf(SourceTree, "end")
<1>3. /\ events = {r \in RowsIn(files) : r.kind = "event"}
      /\ ends = {r \in RowsIn(files) : r.kind = "end"}
      /\ Rows(SourceTree) = RowsIn(files) /\ SourceTree.files = files
  BY SourceRows
<1>4. events \in SUBSET RowsIn(files) /\ ends \in SUBSET RowsIn(files)
  BY <1>3
<1>5. IsFiniteSet(events) /\ IsFiniteSet(ends)
  BY <1>2, <1>4, FS_Subset
<1>6. /\ RowCount(files) = Cardinality(RowsIn(files))
      /\ Cardinality(ends) = 1 /\ Cardinality(events) = counted
      /\ main.end = (CHOOSE m \in ends : TRUE).at
  <2>1. RawAudit(SourceTree).ok /\ JournalAudit(SourceTree).ok
        /\ JournalAudit(SourceTree).count = counted /\ JournalAudit(SourceTree).end = main.end
    BY DEF JournalReconciles
  <2>2. RowCount(files) = Cardinality(RowsIn(files))
    BY <1>3, <2>1 DEF RawAudit
  <2>3. Cardinality(ends) = 1 /\ Cardinality(events) = counted
    BY <2>1 DEF JournalAudit
  <2>4. main.end = (CHOOSE m \in ends : TRUE).at
    BY <2>1, <2>3 DEF JournalAudit
  <2> QED
    BY <2>2, <2>3, <2>4
<1>7. ends = {EndMarker}
  <2>1. PICK m : ends = {m}
    BY <1>5, <1>6, FS_Singleton
  <2>2. m.at = main.end /\ m.kind = "end" /\ m \in Recs
    BY <1>2, <1>3, <1>6, <2>1
  <2>3. m = [kind |-> "end", at |-> main.end]
    BY <2>2 DEF Recs
  <2> QED
    BY <2>1, <2>3 DEF EndMarker
<1>8. {r.at : r \in events} = driver.accepted
  <2>1. \A r \in events : r \in Recs /\ r.kind = "event"
    BY <1>2, <1>3
  <2>2. driver.accepted \in SUBSET Nat
    BY <1>1
  <2>3. \A a \in driver.accepted : Event(a) \in events
    <3>1. \A a \in driver.accepted : Event(a) \in RowsIn(files) /\ Event(a).kind = "event"
      BY <1>2 DEF CollInv, Journaled, Event
    <3> QED
      BY <1>3, <3>1
  <2>4. Cardinality(events) = Cardinality(driver.accepted)
    BY <1>1, <1>6
  <2> HIDE DEF events
  <2> QED
    BY <1>5, <2>1, <2>2, <2>3, <2>4, SameEvents
<1> QED
  BY <1>1, <1>3, <1>6, <1>7, <1>8

LEMMA VerifyKeeps ==
  ASSUME CollInv, Verify
  PROVE  CollInv'
<1>1. main \in MainStates /\ main.err \in BOOLEAN /\ WInv /\ main.pc = "verify" /\ driver \in DriverStates
      /\ write[Main].pc = "none"
  BY NotMarker DEF Verify
<1>2. UNCHANGED <<writerVars, job, monitor, stop, driver, counted, next>>
  BY DEF Verify
<1>3. CASE MainTo("failed") /\ UNCHANGED manifest
  <2>1. main' \in MainStates /\ main'.pc = "failed" /\ main'.err = main.err
    BY <1>1, <1>3, MainFields
  <2>2. Joining' /\ main'.pc \notin Early
    BY <2>1 DEF Joining, Closed, Early
  <2> QED
    BY <1>1, <1>2, <1>3, <2>1, <2>2, MainMoves
<1>4. CASE /\ ~main.err /\ SuccessInvariants /\ JournalReconciles /\ MainTo("clean")
           /\ manifest' = CleanEnd(SourceTree, counted, main.end)
  <2>1. main' \in MainStates /\ main'.pc = "clean" /\ main'.err = main.err /\ main'.end = main.end
    BY <1>1, <1>4, MainFields
  <2>2. WInv' /\ Held' = Held /\ UNCHANGED <<files, write, closing, stats>>
    BY <1>1, <1>2, WriterStutters DEF writerVars, writerMemory
  <2>3. RunTypeOK' /\ Producing'
    BY <1>2, <2>1, <2>2 DEF CollInv, RunTypeOK, Producing
  <2>4. Marking' /\ Journaled'
    BY <1>1, <1>2, <2>1, <2>2 DEF CollInv, Marking, Journaled, Early
  <2>5. manifest'.terminal = "CLEAN_END" /\ manifest' # NoManifest
    BY <1>4 DEF CleanEnd, NoManifest
  <2>6. Quiet'
    BY <2>1, <2>5 DEF Quiet
  <2>7. Joining'
    BY <1>1, <1>2, <1>4, <2>1, <2>2 DEF CollInv, Joining, Closed, Finished
  <2>8. Complete'
    <3>1. (/\ SourceTree.files = files /\ Rows(SourceTree) = RowsIn(files)
           /\ \A kind : RowsOf(SourceTree, kind) = {r \in RowsIn(files) : r.kind = kind})'
      BY SourceRows, PTL
    <3>2. /\ Rows(SourceTree)' = Rows(SourceTree)
          /\ RowsOf(SourceTree, "event")' = RowsOf(SourceTree, "event")
          /\ RowsOf(SourceTree, "end")' = RowsOf(SourceTree, "end")
      BY <2>2, <3>1, SourceRows
    <3>3. EndMarker' = EndMarker
      BY <2>1 DEF EndMarker
    <3>4. /\ {r.at : r \in RowsOf(SourceTree, "event")} = driver.accepted
          /\ RowsOf(SourceTree, "end") = {EndMarker}
          /\ Cardinality(Rows(SourceTree)) = stats.accepted
      BY <1>1, <1>4, VerifiedIsComplete
    <3> QED
      BY <1>2, <2>2, <3>2, <3>3, <3>4 DEF Complete
  <2> QED
    BY <2>2, <2>3, <2>4, <2>6, <2>7, <2>8 DEF CollInv
<1> QED
  BY <1>3, <1>4 DEF Verify

----------------------------------------------------------------------------
(* The start of a run, a crash, and the trees that are never collected     *)

LEMMA BeginKeeps ==
  ASSUME CollInv, BeginManifest
  PROVE  CollInv'
<1>1. main \in MainStates /\ WInv /\ main.pc = "new" /\ MainTo("starting") /\ manifest' = InProgress
      /\ UNCHANGED <<writerVars, job, monitor, stop, driver, counted, next>>
  BY NotMarker DEF BeginManifest
<1>2. main' \in MainStates /\ main'.pc = "starting"
  BY <1>1, MainFields
<1>3. WInv' /\ Held' = Held /\ UNCHANGED <<files, queue, write, worker, batch, closing>>
  BY <1>1, WriterStutters DEF writerVars, writerMemory
<1>4. RunTypeOK' /\ Producing'
  BY <1>1, <1>2, <1>3 DEF CollInv, RunTypeOK, Producing
<1>5. Marking' /\ Journaled'
  BY <1>1, <1>2, <1>3 DEF CollInv, Marking, Journaled, Early
<1>6. manifest' # NoManifest /\ manifest'.terminal # "CLEAN_END"
  <2>1. manifest'.terminal = "IN_PROGRESS" /\ NoManifest.terminal = "NONE"
    BY <1>1 DEF InProgress, NoManifest
  <2> QED
    BY <2>1
<1>7. Quiet'
  BY <1>1, <1>2, <1>3, <1>6 DEF CollInv, Quiet, NothingPending
<1>8. Joining' /\ Complete'
  BY <1>2 DEF Joining, Closed, Complete
<1> QED
  BY <1>3, <1>4, <1>5, <1>7, <1>8 DEF CollInv

LEMMA StartKeeps ==
  ASSUME CollInv, StartServices
  PROVE  CollInv'
<1>1. /\ main \in MainStates /\ WInv /\ main.pc = "starting"
      /\ UNCHANGED <<manifest, job, monitor, stop, driver, counted, next>>
      /\ NothingPending /\ closing = "none"
  BY NotMarker DEF StartServices, CollInv, Quiet
<1>2. \A t \in Writers : write[t].pc = "none"
  BY <1>1, NoWriteState DEF NothingPending
<1>3. ASSUME WInv', Held' = Held, UNCHANGED <<files, write>>, main' \in MainStates,
             main'.pc \in {"connecting", "failed"}
      PROVE  CollInv'
  <2>1. RunTypeOK' /\ Producing'
    BY <1>1, <1>3 DEF CollInv, RunTypeOK, Producing
  <2>2. Marking' /\ Journaled'
    BY <1>1, <1>2, <1>3, TaskFacts DEF CollInv, Marking, Journaled, Early, Writers
  <2>3. Quiet' /\ Joining' /\ Complete'
    BY <1>1, <1>3 DEF CollInv, Quiet, Joining, Closed, Complete
  <2> QED
    BY <1>3, <2>1, <2>2, <2>3 DEF CollInv
<1>4. CASE StartWriter /\ MainTo("connecting")
  <2>1. WInv' /\ Held' = Held /\ UNCHANGED <<files, write>>
    BY <1>1, <1>4, StartWriterStep DEF NothingPending, StartWriter
  <2>2. main' \in MainStates /\ main'.pc = "connecting"
    BY <1>1, <1>4, MainFields
  <2> QED
    BY <1>3, <2>1, <2>2
<1>5. CASE closing' = "ok" /\ MainTo("failed") /\ UNCHANGED <<files, queue, write, worker, batch, stats>>
  <2>1. main' \in MainStates /\ main'.pc = "failed"
    BY <1>1, <1>5, MainFields
  <2>2. Held' = Held
    BY <1>5 DEF Held
  <2>3. worker.phase = "off" /\ write[Closer].pc = "none"
    BY <1>1, <1>2 DEF NothingPending, NoWorker, Writers
  <2>4. WriterTypeOK'
    BY <1>1, <1>5 DEF WInv, WriterTypeOK, Closings, GoodFiles
  <2>5. Putting' /\ Places'
    BY <1>1, <1>5, <2>3 DEF WInv, Putting, Places
  <2>6. RawRecordsAccounted'
    BY <1>1, <1>5 DEF WInv, RawRecordsAccounted, Unwritten
  <2> QED
    BY <1>3, <1>5, <2>1, <2>2, <2>4, <2>5, <2>6 DEF WInv
<1> QED
  BY <1>4, <1>5 DEF StartServices

(* The producers' tasks start, all of them or some. *)
LEMMA ConnectKeeps ==
  ASSUME CollInv, ConnectorsConnect \/ ConnectFails
  PROVE  CollInv'
<1>1. /\ main \in MainStates /\ WInv /\ main.pc = "connecting" /\ job \in [Producers -> JobStates]
      /\ UNCHANGED <<writerVars, manifest, driver, counted, next>>
  BY NotMarker DEF ConnectorsConnect, ConnectFails
<1>2. /\ main' \in MainStates
      /\ \/ main'.pc = "running"
         \/ main'.pc = "disconnect" /\ main'.err
  <2>1. CASE ConnectorsConnect
    BY <1>1, <2>1, MainFields DEF ConnectorsConnect
  <2>2. CASE ConnectFails
    BY <1>1, <2>2, MainFields DEF ConnectFails
  <2> QED
    BY <2>1, <2>2
<1>3. Idle \in JobStates /\ Idle.pc = "idle" /\ Off \in JobStates /\ Off.pc = "off"
  BY FreshTasks
<1>4. job' \in [Producers -> JobStates] /\ \A p \in Producers : job'[p].pc \in {"idle", "off"}
  BY <1>3 DEF ConnectorsConnect, ConnectFails
<1>5. WInv' /\ Held' = Held /\ write' = write
  BY <1>1, WriterStutters DEF writerVars, writerMemory
<1>6. RunTypeOK'
  BY <1>1, <1>2, <1>4 DEF CollInv, RunTypeOK
<1>7. Producing'
  <2>1. ASSUME NEW p \in Producers PROVE ProducerOK(job'[p], write[p], Held, next)
    <3>1. job[p].pc = "off" /\ ProducerOK(job[p], write[p], Held, next)
      BY <1>1 DEF CollInv, Quiet, Producing
    <3>2. job[p].pc \notin Active /\ job'[p].pc \notin Active
      BY <1>4, <3>1 DEF Active
    <3> QED
      BY <3>1, <3>2, ProducerIdle
  <2>2. \A p \in Producers : job'[p].pc \notin Active
    BY <1>4 DEF Active
  <2> QED
    BY <1>1, <1>5, <2>1, <2>2 DEF Producing
<1>8. Marking' /\ Journaled'
  BY <1>1, <1>2, <1>5 DEF CollInv, Marking, Journaled, Early
<1>9. Quiet'
  BY <1>1, <1>2 DEF CollInv, Quiet
<1>10. Joining' /\ Complete'
  BY <1>2 DEF Joining, Closed, Complete
<1> QED
  BY <1>5, <1>6, <1>7, <1>8, <1>9, <1>10 DEF CollInv

(* Without a run there is nothing but files. *)
LEMMA NoRun ==
  ASSUME WInv', Held' = RowsIn(files'), NothingPending', RunTypeOK',
         \A p \in Producers : job'[p].pc = "off", driver'.accepted = {},
         main'.pc \in {"crashed", "legacy"},
         main'.pc = "crashed" => \A r \in RowsIn(files') : r.kind # "end" => r.at < next',
         Quiet'
  PROVE  CollInv'
<1>1. \A t \in Tasks : write'[t].pc = "none"
  BY NoWriteState DEF NothingPending, Writers
<1>2. Producing'
  <2>1. \A p \in Producers : job'[p].pc \notin Active /\ write'[p].pc = "none"
    BY <1>1, TaskFacts DEF Active
  <2>2. \A p \in Producers : ProducerOK(job'[p], write'[p], Held', next')
    BY <2>1, ProducerIdle
  <2> QED
    BY <2>1, <2>2 DEF Producing
<1>3. Marking' /\ Journaled'
  BY <1>1, TaskFacts DEF Marking, Journaled, Early
<1>4. Joining' /\ Complete'
  BY DEF Joining, Closed, Complete
<1> QED
  BY <1>2, <1>3, <1>4 DEF CollInv

LEMMA FreshFacts ==
  ASSUME NEW a \in Nat
  PROVE  /\ [accepted |-> a, written |-> a] \in [accepted : Nat, written : Nat]
         /\ [accepted |-> a, written |-> a].accepted = a
         /\ [accepted |-> a, written |-> a].written = a
  OBVIOUS

LEMMA CrashKeeps ==
  ASSUME CollInv, Crash
  PROVE  CollInv'
<1>1. /\ queue' = EmptyQueue /\ batch' = <<>> /\ worker' = NoWorker /\ closing' = "none"
      /\ write' = [t \in Tasks \cup {Closer} |-> NoWrite]
      /\ UNCHANGED <<files, manifest>>
  BY DEF Crash
<1>2. stats' = [accepted |-> RowCount(files), written |-> RowCount(files)]
  BY DEF Crash
<1>3. GoodFiles(files) /\ RowCount(files) \in Nat /\ next \in 1..MaxEvents + 1 /\ MaxEvents \in Nat
  BY RowsCounted, CollectionAssumption DEF CollInv, WInv, WriterTypeOK, RunTypeOK
<1>4. main' = [pc |-> "crashed", err |-> FALSE, end |-> -1] /\ main'.pc = "crashed"
  BY DEF Crash
<1>5. NothingPending'
  BY <1>1 DEF NothingPending, Writers
<1>6. FreshState'
  <2>1. /\ stats' \in [accepted : Nat, written : Nat]
        /\ stats'.accepted = RowCount(files) /\ stats'.written = RowCount(files)
    BY <1>2, <1>3, FreshFacts
  <2> QED
    BY <1>1, <1>3, <1>5, <2>1 DEF FreshState, GoodFiles
<1>7. WInv' /\ Held' = RowsIn(files')
  BY <1>6, FreshWriterNext
<1>8. job' = [p \in Producers |-> Off] /\ driver' = [state |-> "open", accepted |-> {}]
      /\ counted' = 0 /\ next' = MaxEvents + 1
  BY DEF Crash
<1>9. RunTypeOK'
  <2>1. main' \in MainStates
    BY <1>4 DEF MainStates
  <2>2. driver' \in DriverStates
    BY <1>8 DEF DriverStates
  <2>3. job' \in [Producers -> JobStates]
    BY <1>8, FreshTasks
  <2> QED
    BY <1>3, <1>8, <2>1, <2>2, <2>3 DEF RunTypeOK
<1>10. (\A p \in Producers : job'[p].pc = "off") /\ driver'.accepted = {}
  BY <1>8, FreshTasks
<1>11. main.pc \notin {"new", "clean", "failed", "crashed", "legacy"}
  BY DEF Crash, Ended
<1>12. \A r \in RowsIn(files') : r.kind # "end" => r.at < next'
  <2>1. ASSUME NEW r \in RowsIn(files), r.kind # "end" PROVE r.at < next'
    <3>1. r.at < next /\ r \in Recs
      BY <1>11, <2>1, WriterFinite DEF CollInv, Journaled, Held, WInv
    <3>2. r.at \in Nat
      BY <3>1 DEF Recs
    <3> QED
      BY <1>3, <1>8, <3>1, <3>2
  <2> QED
    BY <1>1, <2>1
<1>13. Quiet'
  BY <1>1, <1>4, <1>11 DEF CollInv, Quiet
<1> QED
  BY <1>4, <1>5, <1>7, <1>9, <1>10, <1>12, <1>13, NoRun

(* A tree that was collected without journal and manifest takes the place  *)
(* of a run.                                                               *)
LEMMA LegacyKeeps ==
  ASSUME CollInv, LegacyTree
  PROVE  CollInv'
<1>1. /\ main.pc = "new" /\ main' = [main EXCEPT !.pc = "legacy"] /\ files' = LegacyFiles
      /\ stats' = [accepted |-> RowCount(LegacyFiles), written |-> RowCount(LegacyFiles)]
      /\ UNCHANGED <<queue, write, worker, batch, closing, manifest, job, driver, counted, next>>
  BY DEF LegacyTree
<1>2. NothingPending /\ closing = "none" /\ files = {} /\ \A p \in Producers : job[p].pc = "off"
  BY <1>1 DEF CollInv, Quiet
<1>3. GoodFiles(LegacyFiles)
  <2>1. [kind : {"raw"}, at : Nat] \subseteq Recs
    BY DEF Recs, Kinds
  <2> QED
    BY <2>1, CompactionAssumption DEF GoodFiles
<1>4. RowCount(LegacyFiles) \in Nat
  BY <1>3, RowsCounted
<1>5. NothingPending'
  BY <1>1, <1>2 DEF NothingPending
<1>6. FreshState'
  <2>1. /\ stats' \in [accepted : Nat, written : Nat]
        /\ stats'.accepted = RowCount(LegacyFiles) /\ stats'.written = RowCount(LegacyFiles)
    BY <1>1, <1>4, FreshFacts
  <2> QED
    BY <1>1, <1>2, <1>3, <1>5, <2>1 DEF FreshState, GoodFiles
<1>7. WInv' /\ Held' = RowsIn(files')
  BY <1>6, FreshWriterNext
<1>8. main' \in MainStates /\ main'.pc = "legacy"
  BY <1>1 DEF CollInv, RunTypeOK, MainStates, Early
<1>9. RunTypeOK'
  BY <1>1, <1>8 DEF CollInv, RunTypeOK
<1>10. driver.accepted = {}
  <2>1. Real(queue.items) = {} /\ ToSet(batch) = {} /\ RowsIn(files) = {}
    BY <1>2, EmptyQueueGood, NoElements DEF NothingPending, RowsIn
  <2>2. Held = {}
    BY <2>1 DEF Held
  <2> QED
    BY <2>2 DEF CollInv, Journaled
<1>11. Quiet'
  BY <1>1, <1>2, <1>5, <1>8 DEF CollInv, Quiet
<1> QED
  BY <1>1, <1>2, <1>5, <1>7, <1>8, <1>9, <1>10, <1>11, NoRun

LEMMA InitGood == Init => CollInv
<1> SUFFICES ASSUME Init PROVE CollInv
  OBVIOUS
<1> USE DEF Init, CollectionInit, WriterInit
<1>1. NothingPending
  BY DEF NothingPending, Writers
<1>2. RowsIn(files) = {} /\ GoodFiles(files) /\ RowCount(files) = 0
  <2>1. UNION {{f} \X f.rows : f \in files} = {} /\ RowsIn(files) = {} /\ files = {}
    BY DEF RowsIn
  <2>2. Cardinality({}) = 0 /\ IsFiniteSet({})
    BY FS_EmptySet
  <2> QED
    BY <2>1, <2>2 DEF GoodFiles, RowCount
<1>3. FreshState
  BY <1>1, <1>2 DEF FreshState
<1>4. WInv /\ Held = {}
  BY <1>2, <1>3, FreshWriter
<1>5. RunTypeOK
  <2>1. main \in MainStates /\ driver \in DriverStates
    BY DEF MainStates, Early, DriverStates
  <2>2. job \in [Producers -> JobStates] /\ next \in 1..MaxEvents + 1
    BY FreshTasks, CollectionAssumption
  <2> QED
    BY <2>1, <2>2 DEF RunTypeOK
<1>6. \A p \in Producers : job[p].pc = "off"
  BY FreshTasks
<1>7. \A t \in Tasks : write[t].pc = "none"
  BY NoWriteState
<1>8. Producing
  <2>1. \A p \in Producers : job[p].pc \notin Active /\ write[p].pc = "none"
    BY <1>6, <1>7, TaskFacts DEF Active
  <2> QED
    BY <2>1, ProducerIdle DEF Producing
<1>9. main.pc = "new" /\ driver.accepted = {} /\ manifest = NoManifest /\ manifest.terminal = "NONE"
  BY DEF NoManifest
<1>10. Marking /\ Journaled
  BY <1>4, <1>7, <1>9, TaskFacts DEF Marking, Journaled
<1>11. Quiet /\ Joining /\ Complete
  BY <1>1, <1>6, <1>9 DEF Quiet, Joining, Closed, Complete
<1> QED
  BY <1>4, <1>5, <1>8, <1>10, <1>11 DEF CollInv

----------------------------------------------------------------------------
(* The collection keeps its invariant                                      *)

LEMMA CollectionKeeps ==
  ASSUME CollInv, CollectionNext
  PROVE  CollInv'
<1>1. CASE BeginManifest \/ StartServices \/ ConnectorsConnect \/ ConnectFails
  BY <1>1, BeginKeeps, StartKeeps, ConnectKeeps
<1>2. CASE StopRequested \/ RunWakes \/ RunCancelled \/ Crash
  BY <1>2, RunningKeeps, CrashKeeps
<1>3. CASE ShutdownSteps
  BY <1>3, DisconnectKeeps, JoinKeeps, FinishKeeps, WriteMarkerKeeps, CloseWriterKeeps, VerifyKeeps
     DEF ShutdownSteps
<1>4. CASE WriterStep
  BY <1>4, WriterStepKeeps
<1>5. ASSUME NEW p \in Producers, Receive(p) \/ ProducerSteps(p) PROVE CollInv'
  BY <1>5, ReceiveKeeps, ProducerStepsKeep
<1> QED
  BY <1>1, <1>2, <1>3, <1>4, <1>5 DEF CollectionNext

LEMMA CollectionStutters ==
  ASSUME CollInv, UNCHANGED collectionVars
  PROVE  CollInv'
<1>1. UNCHANGED <<writerVars, manifest, main, job, driver, counted, next>>
      /\ UNCHANGED <<files, queue, write, worker, batch, closing, stats>>
  BY DEF collectionVars, run, writerVars, writerMemory
<1>2. WInv' /\ Held' = Held
  BY <1>1, WriterStutters DEF CollInv
<1>3. RunTypeOK' /\ Producing'
  BY <1>1, <1>2 DEF CollInv, RunTypeOK, Producing
<1>4. Marking' /\ Journaled'
  BY <1>1, <1>2 DEF CollInv, Marking, Journaled, EndMarker
<1>5. Quiet' /\ Joining'
  BY <1>1, <1>2 DEF CollInv, Quiet, NothingPending, Joining, Closed, Finished
<1>6. Complete'
  <2>1. SourceTree' = SourceTree /\ EndMarker' = EndMarker
    BY <1>1 DEF SourceTree, EndMarker
  <2> QED
    BY <1>1, <2>1 DEF CollInv, Complete
<1> QED
  BY <1>2, <1>3, <1>4, <1>5, <1>6 DEF CollInv

LEMMA CollectionInductive == Init /\ [][Next]_vars => []CollInv
<1>1. ASSUME CollInv, [Next]_vars PROVE CollInv'
  <2>1. CASE CollectionNext
    BY <1>1, <2>1, CollectionKeeps
  <2>2. CASE LegacyTree
    BY <1>1, <2>2, LegacyKeeps
  <2>3. CASE CompactBegins \/ CopyRows \/ PreserveManifest \/ RemoveSentinel \/ CompactCrash
    BY <1>1, <2>3, CollectionStutters
       DEF CompactBegins, CopyRows, PreserveManifest, RemoveSentinel, CompactCrash
  <2>4. CASE UNCHANGED vars
    BY <1>1, <2>4, CollectionStutters DEF vars
  <2> QED
    BY <1>1, <2>1, <2>2, <2>3, <2>4 DEF Next
<1> QED
  BY <1>1, InitGood, PTL

(* The writer loses, invents and duplicates no record: in every state of   *)
(* every run, with any capacity, batch size and number of messages, what   *)
(* write() reported as accepted, or is about to, is in the queue, in the   *)
(* batch or in exactly one file (AsyncPartitionedParquetWriter).           *)
THEOREM RawRecordsAreAccounted == Spec => []RawRecordsAccounted
<1>1. CollInv => RawRecordsAccounted
  BY DEF CollInv, WInv
<1> QED
  BY <1>1, CollectionInductive, PTL DEF Spec

(* A manifest that says CLEAN_END is a promise that holds: the journal is  *)
(* exactly what the feature driver ingested, one marker ends it, every     *)
(* payload a producer was told is stored is in a file, and no producer is  *)
(* at work any more, but for a request for a depth snapshot, which can     *)
(* store and publish nothing (run, _shutdown_collection).                  *)
THEOREM CleanEndsAreComplete == Spec => []CleanEndIsComplete
<1>1. CollInv => CleanEndIsComplete
  <2> SUFFICES ASSUME CollInv, manifest.terminal = "CLEAN_END"
               PROVE  /\ {r.at : r \in RowsOf(SourceTree, "event")} = driver.accepted
                      /\ RowsOf(SourceTree, "end") = {EndMarker}
                      /\ Cardinality(Rows(SourceTree)) = stats.accepted
                      /\ \A p \in Producers \ {"snapshot"} : Finished(p)
    BY DEF CleanEndIsComplete
  <2>1. main.pc = "clean" /\ ~main.err
    BY DEF CollInv, Quiet, Joining, Closed
  <2> QED
    BY <2>1 DEF CollInv, Complete, Joining, Closed
<1> QED
  BY <1>1, CollectionInductive, PTL DEF Spec

----------------------------------------------------------------------------
(* Compaction                                                              *)

(* The output says nothing while its sentinel is there; without it, it has *)
(* the source's rows and manifest.                                         *)
CopyInv ==
    /\ compact \in [pc : {"none", "copy", "unlink", "done", "crashed"}, todo : {compact.todo}]
    /\ out \in [files : {out.files}, manifest : {out.manifest}, sentinel : BOOLEAN]
    /\ compact.pc = "none" => out = EmptyTree
    /\ compact.pc # "none" => main.pc \in {"clean", "legacy"}
    /\ compact.pc \in {"copy", "unlink", "crashed"} => out.sentinel
    /\ compact.pc = "copy" => out.manifest = NoManifest
    /\ compact.pc \in {"unlink", "done"} =>
            RawAudit(out) = RawAudit(SourceTree) /\ out.manifest = manifest

(* A collection that has ended cleanly, or never ran, adds nothing to its  *)
(* tree, whatever a snapshot request left behind still does.               *)
LEMMA Final ==
  ASSUME CollInv, main.pc \in {"clean", "legacy"}, CollectionNext
  PROVE  UNCHANGED <<main, manifest, files>>
<1>1. ~WriterStep
  BY WriterStepNeedsRun
<1>2. ~(BeginManifest \/ StartServices \/ ConnectorsConnect \/ ConnectFails \/ StopRequested
        \/ RunWakes \/ RunCancelled \/ Crash)
  BY DEF BeginManifest, StartServices, ConnectorsConnect, ConnectFails, StopRequested, RunWakes,
         RunCancelled, Crash, Ended
<1>3. ~ShutdownSteps
  BY DEF ShutdownSteps, SessionsStop, DisconnectRaises, Disconnected, ProducersJoin, JoinTimeout,
         CancelTimeout, FinishTicks, FinishFails, WriteMarker, CloseWriter, CloseServices, Verify
<1>4. PICK p \in Producers : Receive(p) \/ ProducerSteps(p)
  BY <1>1, <1>2, <1>3 DEF CollectionNext
<1>5. Closed
  <2>1. job[p].pc # "off"
    BY <1>4 DEF Receive, ProducerSteps, Submit, Resume, Cancelled, Return, Writing,
                PublishAccepted, PublishRefused, PublishFails
  <2> QED
    BY <2>1 DEF CollInv, Quiet, Joining, Closed
<1>6. CASE Receive(p)
  BY <1>6 DEF Receive, writerVars
<1>7. CASE ProducerSteps(p)
  <2>1. UNCHANGED writerVars
    BY <1>5, <1>7, ProducersKeepEnd DEF EndKept
  <2> QED
    BY <1>7, <2>1 DEF writerVars, ProducerSteps, Submit, Resume, Cancelled, Return,
                      PublishAccepted, PublishRefused, PublishFails
<1> QED
  BY <1>4, <1>6, <1>7

LEMMA CompactSource ==
  ASSUME CollInv, CompactBegins
  PROVE  main.pc \in {"clean", "legacy"}
<1>1. SourceTree.manifest = manifest
  BY DEF SourceTree
<1>2. CASE CleanCollection(SourceTree)
  BY <1>1, <1>2 DEF CleanCollection, CollInv, Quiet
<1>3. CASE ~Evidence(SourceTree)
  BY <1>1, <1>3 DEF Evidence, CollInv, Quiet, CompactBegins, Ended
<1> QED
  BY <1>2, <1>3 DEF CompactBegins

(* A tree's audit is about its files. *)
LEMMA AuditOfFiles ==
  ASSUME NEW t, NEW u, t.files = u.files
  PROVE  RawAudit(t) = RawAudit(u) /\ Rows(t) = Rows(u)
  BY DEF RawAudit, Rows

LEMMA CopyKeeps ==
  ASSUME CollInv, CopyInv, [Next]_vars
  PROVE  CopyInv'
<1>1. CASE CollectionNext /\ UNCHANGED compactionVars
  <2>1. UNCHANGED <<out, compact>>
    BY <1>1 DEF compactionVars
  <2>2. CASE compact.pc = "none"
    BY <2>1, <2>2 DEF CopyInv
  <2>3. CASE compact.pc # "none"
    <3>1. UNCHANGED <<main, manifest, files>>
      BY <1>1, <2>3, Final DEF CopyInv
    <3>2. SourceTree' = SourceTree
      BY <3>1 DEF SourceTree
    <3> QED
      BY <2>1, <3>1, <3>2 DEF CopyInv
  <2> QED
    BY <2>2, <2>3
<1>2. CASE LegacyTree
  <2>1. compact.pc = "none" /\ UNCHANGED <<out, compact>>
    BY <1>2 DEF CopyInv, compactionVars, LegacyTree
  <2> QED
    BY <2>1 DEF CopyInv
<1>3. ASSUME UNCHANGED collectionVars
      PROVE  UNCHANGED <<main, manifest, files>> /\ SourceTree' = SourceTree
  BY <1>3 DEF collectionVars, run, writerVars, SourceTree
<1>4. CASE CompactBegins
  <2>1. compact.pc = "none" /\ out' = [out EXCEPT !.sentinel = TRUE] /\ UNCHANGED collectionVars
        /\ compact' = [pc |-> "copy", todo |-> Rows(SourceTree)] /\ out = EmptyTree
    BY <1>4 DEF CompactBegins, CopyInv
  <2>2. compact'.pc = "copy" /\ compact' \in [pc : {"copy"}, todo : {compact'.todo}]
        /\ out' = [files |-> {}, manifest |-> NoManifest, sentinel |-> TRUE]
    BY <2>1 DEF EmptyTree
  <2>3. /\ out' \in [files : {out'.files}, manifest : {out'.manifest}, sentinel : BOOLEAN]
        /\ out'.sentinel = TRUE /\ out'.manifest = NoManifest
    BY <2>2
  <2>4. main'.pc \in {"clean", "legacy"}
    BY <1>3, <1>4, <2>1, CompactSource
  <2> QED
    BY <2>2, <2>3, <2>4 DEF CopyInv
<1>5. CASE CopyRows
  <2>1. PICK fs, left : /\ out' = [out EXCEPT !.files = fs]
                        /\ compact' = [compact EXCEPT !.todo = left]
    <3>1. PICK kind, rows : /\ out' = [out EXCEPT !.files = out.files \cup {[kind |-> kind, rows |-> rows]}]
                            /\ compact' = [compact EXCEPT !.todo = compact.todo \ rows]
      BY <1>5 DEF CopyRows
    <3> QED
      BY <3>1
  <2>2. compact.pc = "copy" /\ UNCHANGED collectionVars
    BY <1>5 DEF CopyRows
  <2>3. compact'.pc = "copy" /\ compact' \in [pc : {"copy"}, todo : {compact'.todo}]
    BY <2>1, <2>2 DEF CopyInv
  <2>4. out'.manifest = out.manifest /\ out'.sentinel = out.sentinel
        /\ out' \in [files : {out'.files}, manifest : {out'.manifest}, sentinel : BOOLEAN]
    BY <2>1 DEF CopyInv
  <2> QED
    BY <1>3, <2>2, <2>3, <2>4 DEF CopyInv
<1>6. CASE PreserveManifest
  <2>1. /\ compact.pc = "copy" /\ UNCHANGED collectionVars /\ RawAudit(out) = RawAudit(SourceTree)
        /\ out' = IF manifest = NoManifest THEN out ELSE [out EXCEPT !.manifest = manifest]
        /\ compact' = [compact EXCEPT !.pc = "unlink"]
    BY <1>6 DEF PreserveManifest
  <2>2. /\ out'.files = out.files /\ out'.sentinel = out.sentinel /\ out'.manifest = manifest
        /\ out' \in [files : {out'.files}, manifest : {out'.manifest}, sentinel : BOOLEAN]
    BY <2>1 DEF CopyInv
  <2>3. RawAudit(out') = RawAudit(out)
    BY <2>2, AuditOfFiles
  <2>4. compact'.pc = "unlink" /\ compact' \in [pc : {"unlink"}, todo : {compact'.todo}]
    BY <2>1 DEF CopyInv
  <2> QED
    BY <1>3, <2>1, <2>2, <2>3, <2>4 DEF CopyInv
<1>7. CASE RemoveSentinel
  <2>1. /\ compact.pc = "unlink" /\ UNCHANGED collectionVars /\ out' = [out EXCEPT !.sentinel = FALSE]
        /\ compact' = [compact EXCEPT !.pc = "done"]
    BY <1>7 DEF RemoveSentinel
  <2>2. /\ out'.files = out.files /\ out'.manifest = out.manifest
        /\ out' \in [files : {out'.files}, manifest : {out'.manifest}, sentinel : BOOLEAN]
    BY <2>1 DEF CopyInv
  <2>3. RawAudit(out') = RawAudit(out)
    BY <2>2, AuditOfFiles
  <2>4. compact'.pc = "done" /\ compact' \in [pc : {"done"}, todo : {compact'.todo}]
    BY <2>1 DEF CopyInv
  <2> QED
    BY <1>3, <2>1, <2>2, <2>3, <2>4 DEF CopyInv
<1>8. CASE CompactCrash
  <2>1. /\ compact.pc \in {"copy", "unlink"} /\ UNCHANGED <<out, collectionVars>> /\ compact'.pc = "crashed"
        /\ compact' \in [pc : {"crashed"}, todo : {compact'.todo}]
    BY <1>8 DEF CompactCrash
  <2> QED
    BY <1>3, <2>1 DEF CopyInv
<1>9. CASE UNCHANGED vars
  <2>1. UNCHANGED <<out, compact, collectionVars>>
    BY <1>9 DEF vars, compactionVars
  <2> QED
    BY <1>3, <2>1 DEF CopyInv
<1> QED
  BY <1>1, <1>2, <1>4, <1>5, <1>6, <1>7, <1>8, <1>9 DEF Next

----------------------------------------------------------------------------
(* Sorted sequences                                                        *)

Increasing(s, S) ==
    /\ s \in [1..Cardinality(S) -> S]
    /\ \A i, j \in 1..Cardinality(S) : i < j => s[i] < s[j]

(* Every finite set of numbers can be sorted: the least first. *)
LEMMA IncreasingExists ==
  ASSUME NEW S \in SUBSET Nat, IsFiniteSet(S)
  PROVE  \E s : Increasing(s, S)
<1> DEFINE Unsorted == {T \in SUBSET Nat : IsFiniteSet(T) /\ ~(\E s : Increasing(s, T))}
           sizes == {n \in Nat : \E T \in Unsorted : Cardinality(T) = n}
<1> SUFFICES ASSUME ~(\E s : Increasing(s, S)) PROVE FALSE
  OBVIOUS
<1>1. S \in Unsorted /\ Cardinality(S) \in sizes
  BY FS_CardinalityType
<1>2. PICK n \in sizes : \A m \in sizes : n <= m
  <2>1. sizes \subseteq Nat /\ sizes # {}
    BY <1>1
  <2> HIDE DEF sizes
  <2> QED
    BY <2>1, LeastNumber
<1>3. PICK T \in Unsorted : Cardinality(T) = n
  OBVIOUS
<1>4. T \in SUBSET Nat /\ IsFiniteSet(T) /\ n \in Nat /\ ~(\E s : Increasing(s, T))
  OBVIOUS
<1>5. T # {}
  <2> SUFFICES ASSUME T = {} PROVE FALSE
    OBVIOUS
  <2>1. Cardinality(T) = 0
    BY FS_EmptySet
  <2>2. <<>> \in [1..0 -> {}] /\ \A i, j \in 1..0 : i < j => <<>>[i] < <<>>[j]
    OBVIOUS
  <2>3. Increasing(<<>>, T)
    BY <2>1, <2>2 DEF Increasing
  <2> QED
    BY <1>4, <2>3
<1>6. PICK least \in T : \A m \in T : least <= m
  BY <1>4, <1>5, LeastNumber
<1> DEFINE U == T \ {least}
<1>7. IsFiniteSet(U) /\ Cardinality(U) = n - 1 /\ U \in SUBSET Nat
  BY <1>3, <1>4, FS_RemoveElement
<1>8. PICK u : Increasing(u, U)
  <2> SUFFICES ASSUME ~(\E s : Increasing(s, U)) PROVE FALSE
    OBVIOUS
  <2>1. U \in Unsorted /\ Cardinality(U) \in sizes
    BY <1>7, FS_CardinalityType
  <2> QED
    BY <1>2, <1>4, <1>7, <2>1
<1> HIDE DEF U, Unsorted, sizes
<1>9. u \in [1..(n - 1) -> U] /\ \A i, j \in 1..(n - 1) : i < j => u[i] < u[j]
  BY <1>7, <1>8 DEF Increasing
<1>10. \A m \in U : m \in T /\ m \in Nat /\ least < m
  BY <1>4, <1>6 DEF U
<1> DEFINE s == [i \in 1..n |-> IF i = 1 THEN least ELSE u[i - 1]]
<1>11. s \in [1..n -> T]
  <2>1. \A i \in 1..n : i # 1 => i - 1 \in 1..(n - 1) /\ u[i - 1] \in T
    BY <1>4, <1>9, <1>10
  <2> QED
    BY <2>1
<1>12. ASSUME NEW i \in 1..n, NEW j \in 1..n, i < j PROVE s[i] < s[j]
  <2>1. j # 1 /\ j - 1 \in 1..(n - 1) /\ u[j - 1] \in U /\ s[j] = u[j - 1]
    BY <1>4, <1>9, <1>12
  <2>2. CASE i = 1
    BY <1>10, <2>1, <2>2
  <2>3. CASE i # 1
    <3>1. i - 1 \in 1..(n - 1) /\ i - 1 < j - 1 /\ s[i] = u[i - 1]
      BY <1>4, <1>12, <2>3
    <3> QED
      BY <1>9, <2>1, <3>1
  <2> QED
    BY <2>2, <2>3
<1>13. Increasing(s, T)
  BY <1>3, <1>11, <1>12 DEF Increasing
<1> QED
  BY <1>4, <1>13

(* As many different elements as the set has are all of them. *)
LEMMA IncreasingCovers ==
  ASSUME NEW S \in SUBSET Nat, IsFiniteSet(S), NEW s, Increasing(s, S), NEW x \in S
  PROVE  \E i \in 1..Cardinality(S) : s[i] = x
<1> DEFINE n == Cardinality(S)
<1>1. n \in Nat
  BY FS_CardinalityType
<1>2. IsFiniteSet(1..n) /\ Cardinality(1..n) = n
  BY <1>1, FS_Interval
<1>3. \A i, j \in 1..n : s[i] = s[j] => i = j
  <2> SUFFICES ASSUME NEW i \in 1..n, NEW j \in 1..n, s[i] = s[j], i # j PROVE FALSE
    OBVIOUS
  <2>1. s \in [1..n -> S]
    BY DEF Increasing
  <2>2. \A a, b \in 1..n : a < b => s[a] < s[b]
    BY DEF Increasing
  <2> HIDE DEF n
  <2>3. s[i] \in Nat /\ s[j] \in Nat
    BY <2>1
  <2>4. i < j \/ j < i
    BY <1>1
  <2> QED
    BY <2>2, <2>3, <2>4
<1>4. s \in Injection(1..n, S)
  BY <1>3 DEF Increasing, Injection, IsInjective
<1>5. s \in Surjection(1..n, S)
  BY <1>2, <1>4, FS_Injection
<1> QED
  BY <1>5 DEF Surjection

LEMMA IncreasingUnique ==
  ASSUME NEW S \in SUBSET Nat, IsFiniteSet(S), NEW s, Increasing(s, S), NEW t, Increasing(t, S)
  PROVE  s = t
<1> DEFINE n == Cardinality(S)
           apart == {i \in 1..n : s[i] # t[i]}
<1>1. n \in Nat /\ s \in [1..n -> S] /\ t \in [1..n -> S]
      /\ (\A i \in 1..n : s[i] \in Nat /\ t[i] \in Nat)
      /\ (\A i, j \in 1..n : i < j => s[i] < s[j])
      /\ (\A i, j \in 1..n : i < j => t[i] < t[j])
  BY FS_CardinalityType DEF Increasing
<1>2. (\A x \in S : \E i \in 1..n : s[i] = x) /\ (\A x \in S : \E i \in 1..n : t[i] = x)
  BY IncreasingCovers
<1> HIDE DEF n
<1>3. apart = {}
  <2> SUFFICES ASSUME apart # {} PROVE FALSE
    OBVIOUS
  <2>1. apart \subseteq Nat
    BY <1>1
  <2>2. PICK k \in apart : \A m \in apart : k <= m
    <3> HIDE DEF apart
    <3> QED
      BY <2>1, LeastNumber
  <2>3. k \in 1..n /\ s[k] # t[k] /\ \A i \in 1..n : i < k => s[i] = t[i]
    BY <1>1, <2>2
  <2>4. PICK i \in 1..n : s[i] = t[k]
    BY <1>1, <1>2, <2>3
  <2>5. PICK j \in 1..n : t[j] = s[k]
    BY <1>1, <1>2, <2>3
  <2>6. ~(i < k) /\ i # k
    BY <1>1, <2>3, <2>4
  <2>7. ~(j < k) /\ j # k
    BY <1>1, <2>3, <2>5
  <2>8. k < i /\ k < j
    BY <1>1, <2>3, <2>6, <2>7
  <2>9. s[k] < t[k] /\ t[k] < s[k]
    BY <1>1, <2>3, <2>4, <2>5, <2>8
  <2> QED
    BY <1>1, <2>3, <2>9
<1>4. \A i \in 1..n : s[i] = t[i]
  BY <1>3
<1> QED
  BY <1>1, <1>4

(* The two orders in which sets are sorted *)
Ascending(S) == Sorted(S, <)
JournalOrder(S) == Sorted(S, RecordPrecedes)

LEMMA SortedNumbers ==
  ASSUME NEW S \in SUBSET Nat, IsFiniteSet(S)
  PROVE  Increasing(Ascending(S), S)
<1> DEFINE n == Cardinality(S)
           Is(s) == \A i, j \in 1..n : i < j => s[i] # s[j] /\ ~(s[j] < s[i])
<1>1. Ascending(S) = CHOOSE s \in [1..n -> S] : Is(s)
  BY DEF Ascending, Sorted
<1>2. n \in Nat
  BY FS_CardinalityType
<1>3. \A s \in [1..n -> S] : Is(s) <=> Increasing(s, S)
  <2> SUFFICES ASSUME NEW s \in [1..n -> S] PROVE Is(s) <=> Increasing(s, S)
    OBVIOUS
  <2>1. \A i \in 1..n : s[i] \in Nat
    OBVIOUS
  <2> QED
    BY <1>2, <2>1 DEF Increasing
<1>4. PICK s \in [1..n -> S] : Increasing(s, S)
  BY IncreasingExists DEF Increasing
<1>5. Is(s)
  BY <1>3, <1>4
<1> HIDE DEF Is
<1>6. Ascending(S) \in [1..n -> S] /\ Is(Ascending(S))
  BY <1>1, <1>5
<1> QED
  BY <1>3, <1>6

(* The order of records: the marker last, events by receive time. *)
LEMMA PrecedesFacts ==
  ASSUME NEW r \in Recs, NEW q \in Recs
  PROVE  /\ r.kind # "end" /\ q.kind # "end" => (RecordPrecedes(r, q) <=> r.at < q.at)
         /\ r.kind # "end" /\ q.kind = "end" => RecordPrecedes(r, q)
         /\ r.kind = "end" /\ q.kind # "end" => ~RecordPrecedes(r, q)
  BY DEF RecordPrecedes

LEMMA EventRecords ==
  ASSUME NEW r \in Recs, r.kind = "event"
  PROVE  r = Event(r.at) /\ r.at \in Nat
<1>1. r = [kind |-> r.kind, at |-> r.at] /\ r.at \in Nat
  BY DEF Recs
<1> QED
  BY <1>1 DEF Event

(* Events are as many as their times. *)
LEMMA TimesOfEvents ==
  ASSUME NEW E, IsFiniteSet(E), \A r \in E : r \in Recs /\ r.kind = "event"
  PROVE  /\ {r.at : r \in E} \in SUBSET Nat /\ IsFiniteSet({r.at : r \in E})
         /\ Cardinality({r.at : r \in E}) = Cardinality(E)
         /\ \A a \in {r.at : r \in E} : Event(a) \in E
<1> DEFINE A == {r.at : r \in E}
           g == [r \in E |-> r.at]
<1>1. \A r \in E : r = Event(r.at) /\ r.at \in Nat
  BY EventRecords
<1>2. g \in [E -> A] /\ \A r \in E : g[r] = r.at
  OBVIOUS
<1>3. \A a \in A : \E r \in E : g[r] = a
  OBVIOUS
<1> HIDE DEF g
<1>4. g \in Surjection(E, A)
  BY <1>2, <1>3 DEF Surjection
<1>5. \A r, q \in E : g[r] = g[q] => r = q
  <2> SUFFICES ASSUME NEW r \in E, NEW q \in E, g[r] = g[q] PROVE r = q
    OBVIOUS
  <2>1. r.at = q.at
    BY <1>2
  <2> QED
    BY <1>1, <2>1
<1>6. g \in Injection(E, A)
  BY <1>2, <1>5 DEF Injection, IsInjective
<1>7. A \in SUBSET Nat /\ \A a \in A : Event(a) \in E
  BY <1>1
<1> HIDE DEF A
<1>8. IsFiniteSet(A) /\ Cardinality(A) = Cardinality(E)
  BY <1>4, <1>6, FS_Surjection
<1> QED
  BY <1>7, <1>8 DEF A

(* A journal's event rows E with their n times A, and its end marker m. *)
JournalRows(E, A, n, m) ==
    /\ IsFiniteSet(E) /\ \A r \in E : r \in Recs /\ r.kind = "event"
    /\ A = {r.at : r \in E} /\ n = Cardinality(A)
    /\ m \in Recs /\ m.kind = "end"

(* s holds the events of the n times t, all in A, and then the marker m. *)
IsJournal(s, t, A, n, m) ==
    /\ n \in Nat /\ t \in [1..n -> A] /\ s \in Seq(Recs) /\ Len(s) = n + 1
    /\ \A i \in 1..n : s[i] = Event(t[i])
    /\ s[n + 1] = m /\ m \in Recs /\ m.kind = "end"

(* The sorted journal: its events in the order of their times, the marker. *)
LEMMA SortedJournal ==
  ASSUME NEW E, NEW A, NEW n, NEW m, JournalRows(E, A, n, m)
  PROVE  IsJournal(JournalOrder(E \cup {m}), Ascending(A), A, n, m)
<1> SUFFICES ASSUME IsFiniteSet(E), \A r \in E : r \in Recs /\ r.kind = "event",
                    m \in Recs, m.kind = "end", A = {r.at : r \in E}, n = Cardinality(A)
             PROVE  IsJournal(JournalOrder(E \cup {m}), Ascending(A), A, n, m)
  BY DEF JournalRows
<1> DEFINE S == E \cup {m}
           s == JournalOrder(S)
           t == Ascending(A)
           Is(u) == \A i, j \in 1..(n + 1) : i < j => u[i] # u[j] /\ ~RecordPrecedes(u[j], u[i])
<1>1. /\ A \in SUBSET Nat /\ IsFiniteSet(A) /\ n = Cardinality(E) /\ n \in Nat
      /\ \A a \in A : Event(a) \in E
  BY TimesOfEvents, FS_CardinalityType
<1>2. m \notin E /\ IsFiniteSet(S) /\ Cardinality(S) = n + 1 /\ S \subseteq Recs
  BY <1>1, FS_AddElement
<1>3. Increasing(t, A)
  BY <1>1, SortedNumbers
<1>4. t \in [1..n -> A] /\ \A i, j \in 1..n : i < j => t[i] < t[j]
  BY <1>3 DEF Increasing
<1>5. \A r \in E : r = Event(r.at) /\ r.at \in A /\ r.at \in Nat /\ r # m /\ r.kind # "end" /\ r \in Recs
  BY <1>1, <1>2, EventRecords
<1>6. \A a \in A : Event(a) \in E /\ Event(a).at = a /\ a \in Nat
  BY <1>1 DEF Event
<1>7. s = CHOOSE u \in [1..(n + 1) -> S] : Is(u)
  BY <1>2 DEF JournalOrder, Sorted
<1> HIDE DEF s, t, S
<1>8. \E u \in [1..(n + 1) -> S] : Is(u)
  <2> DEFINE u == [i \in 1..(n + 1) |-> IF i = n + 1 THEN m ELSE Event(t[i])]
  <2>1. \A i \in 1..(n + 1) : i # n + 1 => i \in 1..n /\ t[i] \in A /\ Event(t[i]) \in E
    <3>1. \A i \in 1..(n + 1) : i # n + 1 => i \in 1..n
      BY <1>1
    <3>2. \A i \in 1..n : t[i] \in A
      BY <1>4
    <3> QED
      BY <1>6, <3>1, <3>2
  <2>2. u \in [1..(n + 1) -> S]
    <3>1. \A i \in 1..(n + 1) : (IF i = n + 1 THEN m ELSE Event(t[i])) \in S
      BY <2>1 DEF S
    <3> QED
      BY <3>1
  <2>3. ASSUME NEW i \in 1..(n + 1), NEW j \in 1..(n + 1), i < j
        PROVE  u[i] # u[j] /\ ~RecordPrecedes(u[j], u[i])
    <3>1. i # n + 1 /\ i \in 1..n /\ u[i] = Event(t[i]) /\ t[i] \in A
      <4>1. i # n + 1
        BY <1>1, <2>3
      <4>2. i \in 1..n /\ t[i] \in A
        BY <2>1, <4>1
      <4> QED
        BY <4>1, <4>2
    <3>2. CASE j = n + 1
      <4>1. u[j] = m
        BY <3>2
      <4> HIDE DEF u
      <4> QED
        BY <1>5, <1>6, <3>1, <4>1, PrecedesFacts
    <3>3. CASE j # n + 1
      <4>1. j \in 1..n /\ u[j] = Event(t[j]) /\ t[j] \in A /\ t[i] < t[j]
        BY <1>1, <1>4, <2>1, <2>3, <3>1, <3>3
      <4> HIDE DEF u
      <4>2. u[i].at = t[i] /\ u[j].at = t[j] /\ u[i] \in E /\ u[j] \in E /\ t[i] \in Nat /\ t[j] \in Nat
        BY <1>6, <3>1, <4>1
      <4> QED
        BY <1>5, <4>1, <4>2, PrecedesFacts
    <3> QED
      BY <3>2, <3>3
  <2> QED
    BY <2>2, <2>3
<1>9. s \in [1..(n + 1) -> S] /\ Is(s)
  <2> HIDE DEF Is
  <2> QED
    BY <1>7, <1>8
<1>10. \A i, j \in 1..(n + 1) : s[i] = s[j] => i = j
  <2> SUFFICES ASSUME NEW i \in 1..(n + 1), NEW j \in 1..(n + 1), s[i] = s[j], i # j PROVE FALSE
    OBVIOUS
  <2>1. i < j \/ j < i
    BY <1>1
  <2> QED
    BY <1>9, <2>1
<1>11. PICK k \in 1..(n + 1) : s[k] = m
  <2>1. s \in Injection(1..(n + 1), S)
    BY <1>9, <1>10 DEF Injection, IsInjective
  <2>2. Cardinality(1..(n + 1)) = n + 1
    BY <1>1, FS_Interval
  <2>3. s \in Surjection(1..(n + 1), S)
    BY <1>2, <2>1, <2>2, FS_Injection
  <2> QED
    BY <2>3 DEF Surjection, S
<1>12. k = n + 1
  <2> SUFFICES ASSUME k # n + 1 PROVE FALSE
    OBVIOUS
  <2>1. n + 1 \in 1..(n + 1) /\ k < n + 1
    BY <1>1
  <2>2. s[n + 1] # s[k] /\ ~RecordPrecedes(s[n + 1], s[k]) /\ s[n + 1] \in S
    BY <1>9, <2>1
  <2>3. s[n + 1] \in E
    BY <1>11, <2>2 DEF S
  <2> QED
    BY <1>5, <1>11, <2>2, <2>3, PrecedesFacts
<1>13. \A i \in 1..n : i \in 1..(n + 1) /\ s[i] \in E
  <2> SUFFICES ASSUME NEW i \in 1..n PROVE i \in 1..(n + 1) /\ s[i] \in E
    OBVIOUS
  <2>1. i \in 1..(n + 1) /\ i # k
    BY <1>1, <1>12
  <2>2. s[i] # m /\ s[i] \in S
    BY <1>9, <1>10, <1>11, <2>1
  <2> QED
    BY <2>1, <2>2 DEF S
<1> DEFINE u == [i \in 1..n |-> s[i].at]
<1>14. Increasing(u, A)
  <2>1. u \in [1..n -> A]
    BY <1>5, <1>13
  <2>2. ASSUME NEW i \in 1..n, NEW j \in 1..n, i < j PROVE u[i] < u[j]
    <3>1. s[i] # s[j] /\ ~RecordPrecedes(s[j], s[i]) /\ s[i] \in E /\ s[j] \in E
      BY <1>9, <1>13, <2>2
    <3>2. ~(s[j].at < s[i].at) /\ s[i].at # s[j].at /\ s[i].at \in Nat /\ s[j].at \in Nat
      BY <1>5, <3>1, PrecedesFacts
    <3> QED
      BY <3>2
  <2> QED
    BY <2>1, <2>2 DEF Increasing
<1>15. u = t
  <2> HIDE DEF u
  <2> QED
    BY <1>1, <1>3, <1>14, IncreasingUnique
<1>16. \A i \in 1..n : s[i] = Event(t[i])
  <2> SUFFICES ASSUME NEW i \in 1..n PROVE s[i] = Event(t[i])
    OBVIOUS
  <2>1. u[i] = s[i].at
    OBVIOUS
  <2> QED
    BY <1>5, <1>13, <1>15, <2>1
<1>17. s \in Seq(Recs) /\ Len(s) = n + 1
  <2>1. s \in [1..(n + 1) -> Recs] /\ n + 1 \in Nat
    BY <1>1, <1>2, <1>9
  <2> HIDE DEF u
  <2>2. \A l \in Nat : s \in [1..l -> Recs] => s \in Seq(Recs) /\ Len(s) = l
    OBVIOUS
  <2> QED
    BY <2>1, <2>2
<1>18. s[n + 1] = m
  BY <1>11, <1>12
<1> HIDE DEF u
<1>19. IsJournal(s, t, A, n, m)
  BY <1>1, <1>4, <1>16, <1>17, <1>18 DEF IsJournal
<1> QED
  BY <1>19 DEF s, t, S

----------------------------------------------------------------------------
(* Replay                                                                  *)

(* The state of a replay that has read k events of a journal. *)
Reading(t, k) == [ok |-> TRUE, events |-> [i \in 1..k |-> t[i]], end |-> -1, ends |-> 0]
ReadAll(t, at) == [ok |-> TRUE, events |-> t, end |-> at, ends |-> 1]

(* A field of a replay's state changes. *)
Run(o, e, b, c) == [ok |-> o, events |-> e, end |-> b, ends |-> c]
RunSet(o, e, b, c) == [ok : {o}, events : {e}, end : {b}, ends : {c}]

LEMMA RunIs ==
  ASSUME NEW o, NEW e, NEW b, NEW c
  PROVE  /\ Run(o, e, b, c) \in RunSet(o, e, b, c)
         /\ \A r \in RunSet(o, e, b, c) : r = Run(o, e, b, c)
  BY DEF Run, RunSet

LEMMA RunEvents ==
  ASSUME NEW o, NEW e, NEW b, NEW c, NEW e2
  PROVE  [Run(o, e, b, c) EXCEPT !.events = e2] = Run(o, e2, b, c)
<1>1. PICK r : r = Run(o, e, b, c)
  OBVIOUS
<1>2. r \in RunSet(o, e, b, c)
  BY <1>1, RunIs
<1>3. [r EXCEPT !.events = e2] \in RunSet(o, e2, b, c)
  BY <1>2 DEF RunSet
<1> QED
  BY <1>1, <1>3, RunIs

LEMMA RunEnds ==
  ASSUME NEW o, NEW e, NEW b, NEW c, NEW c2
  PROVE  [Run(o, e, b, c) EXCEPT !.ends = c2] = Run(o, e, b, c2)
<1>1. PICK r : r = Run(o, e, b, c)
  OBVIOUS
<1>2. r \in RunSet(o, e, b, c)
  BY <1>1, RunIs
<1>3. [r EXCEPT !.ends = c2] \in RunSet(o, e, b, c2)
  BY <1>2 DEF RunSet
<1> QED
  BY <1>1, <1>3, RunIs

LEMMA RunEnd ==
  ASSUME NEW o, NEW e, NEW b, NEW c, NEW b2
  PROVE  [Run(o, e, b, c) EXCEPT !.end = b2] = Run(o, e, b2, c)
<1>1. PICK r : r = Run(o, e, b, c)
  OBVIOUS
<1>2. r \in RunSet(o, e, b, c)
  BY <1>1, RunIs
<1>3. [r EXCEPT !.end = b2] \in RunSet(o, e, b2, c)
  BY <1>2 DEF RunSet
<1> QED
  BY <1>1, <1>3, RunIs

LEMMA RunOk ==
  ASSUME NEW o, NEW e, NEW b, NEW c, NEW o2
  PROVE  [Run(o, e, b, c) EXCEPT !.ok = o2] = Run(o2, e, b, c)
<1>1. PICK r : r = Run(o, e, b, c)
  OBVIOUS
<1>2. r \in RunSet(o, e, b, c)
  BY <1>1, RunIs
<1>3. [r EXCEPT !.ok = o2] \in RunSet(o2, e, b, c)
  BY <1>2 DEF RunSet
<1> QED
  BY <1>1, <1>3, RunIs

LEMMA ReadingNone == \A t : Reading(t, 0) = Unread
  BY DEF Reading, Unread

LEMMA ReadingEvent ==
  ASSUME NEW A, NEW n \in Nat, NEW t \in [1..n -> A], NEW k \in 1..n
  PROVE  ReplayRecord(Reading(t, k - 1), Event(t[k])) = Reading(t, k)
<1> DEFINE before == [i \in 1..(k - 1) |-> t[i]]
           after == [i \in 1..k |-> t[i]]
           e == Event(t[k])
<1>1. e.kind = "event" /\ e.at = t[k]
  BY DEF Event
<1>2. before \in Seq(A) /\ Len(before) = k - 1 /\ after \in Seq(A) /\ Len(after) = k
  <2>1. before \in [1..(k - 1) -> A] /\ after \in [1..k -> A]
    OBVIOUS
  <2> QED
    BY <2>1
<1>3. Append(before, t[k]) = after
  <2>1. Append(before, t[k]) \in Seq(A) /\ Len(Append(before, t[k])) = k
    BY <1>2
  <2>2. \A i \in 1..k : Append(before, t[k])[i] = after[i]
    <3> SUFFICES ASSUME NEW i \in 1..k PROVE Append(before, t[k])[i] = after[i]
      OBVIOUS
    <3>1. CASE i = k
      BY <1>2, <3>1
    <3>2. CASE i # k
      <4>1. i \in 1..(k - 1)
        BY <3>2
      <4> QED
        BY <1>2, <4>1
    <3> QED
      BY <3>1, <3>2
  <2> HIDE DEF before, after
  <2> QED
    BY <1>2, <2>1, <2>2
<1> DEFINE r == Reading(t, k - 1)
<1>4. r = [ok |-> TRUE, events |-> before, end |-> -1, ends |-> 0]
  BY DEF Reading
<1> HIDE DEF before, after, e
<1>5. r.ok /\ r.ends = 0 /\ r.events = before
  BY <1>4
<1>6. ReplayRecord(r, e) = [r EXCEPT !.events = Append(before, t[k])]
  <2> HIDE DEF r
  <2> QED
    BY <1>1, <1>5 DEF ReplayRecord
<1>7. PICK o : o = TRUE
  OBVIOUS
<1>8. r = Run(o, before, -1, 0)
  BY <1>4, <1>7 DEF Run
<1>9. [r EXCEPT !.events = after] = Run(o, after, -1, 0)
  <2> HIDE DEF r
  <2> QED
    BY <1>8, RunEvents
<1>10. Run(o, after, -1, 0) = Reading(t, k)
  BY <1>7 DEF Run, Reading, after
<1> QED
  BY <1>3, <1>6, <1>9, <1>10 DEF e

LEMMA ReadingMarker ==
  ASSUME NEW A, NEW n \in Nat, NEW t \in [1..n -> A], NEW m \in Recs, m.kind = "end"
  PROVE  ReplayRecord(Reading(t, n), m) = ReadAll(t, m.at)
<1>1. Reading(t, n) = [ok |-> TRUE, events |-> t, end |-> -1, ends |-> 0]
  <2>1. [i \in 1..n |-> t[i]] = t
    OBVIOUS
  <2> QED
    BY <2>1 DEF Reading
<1> DEFINE r == Reading(t, n)
<1>2. r.ok /\ r.ends = 0
  BY <1>1
<1>3. ReplayRecord(r, m) = [r EXCEPT !.ends = 1, !.end = m.at, !.ok = r.ends = 0]
  <2> HIDE DEF r
  <2>1. r.ends + 1 = 1
    BY <1>2
  <2> QED
    BY <1>2, <2>1 DEF ReplayRecord
<1>4. (r.ends = 0) = TRUE
  BY <1>2
<1>5. PICK o : o = TRUE
  OBVIOUS
<1>6. r = Run(o, t, -1, 0)
  BY <1>1, <1>5 DEF Run
<1>7. ReplayRecord(r, m) = [r EXCEPT !.ends = 1, !.end = m.at, !.ok = o]
  <2> HIDE DEF r
  <2> QED
    BY <1>3, <1>4, <1>5
<1>8. [r EXCEPT !.ends = 1, !.end = m.at, !.ok = o] = Run(o, t, m.at, 1)
  <2> HIDE DEF r
  <2>1. PICK x : x = [r EXCEPT !.ends = 1]
    OBVIOUS
  <2>2. PICK y : y = [x EXCEPT !.end = m.at]
    OBVIOUS
  <2>3. x = Run(o, t, -1, 1)
    BY <1>6, <2>1, RunEnds
  <2>4. y = Run(o, t, m.at, 1)
    BY <2>2, <2>3, RunEnd
  <2>5. [y EXCEPT !.ok = o] = Run(o, t, m.at, 1)
    BY <2>4, RunOk
  <2> QED
    BY <2>1, <2>2, <2>5
<1>9. Run(o, t, m.at, 1) = ReadAll(t, m.at)
  BY <1>5 DEF Run, ReadAll
<1> QED
  BY <1>7, <1>8, <1>9

LEMMA ReplayLoop ==
  ASSUME NEW s
  PROVE  ReplayRun(s) = (CHOOSE f : f = [k \in 0..Len(s) |->
                            IF k = 0 THEN Unread ELSE ReplayRecord(f[k - 1], s[k])])[Len(s)]
  BY DEF ReplayRun

LEMMA ReplayOfJournal ==
  ASSUME NEW s, NEW t, NEW A, NEW n, NEW m, IsJournal(s, t, A, n, m)
  PROVE  ReplayRun(s) = ReadAll(t, m.at)
<1> SUFFICES ASSUME n \in Nat, t \in [1..n -> A], s \in Seq(Recs), Len(s) = n + 1, m \in Recs,
                    m.kind = "end", \A i \in 1..n : s[i] = Event(t[i]), s[n + 1] = m
             PROVE  ReplayRun(s) = ReadAll(t, m.at)
  BY DEF IsJournal
<1>1. s \in Seq(Recs) /\ Len(s) = n + 1
  OBVIOUS
<1> DEFINE Body(f) == [k \in 0..(n + 1) |->
                         IF k = 0 THEN Unread ELSE ReplayRecord(f[k - 1], s[k])]
           g == [k \in 0..(n + 1) |-> IF k = n + 1 THEN ReadAll(t, m.at) ELSE Reading(t, k)]
           after == CHOOSE f : f = Body(f)
<1>2. ReplayRun(s) = after[n + 1]
  BY <1>1, ReplayLoop
<1>3. \A k \in 1..n : ReplayRecord(Reading(t, k - 1), s[k]) = Reading(t, k)
  BY ReadingEvent
<1>4. ReplayRecord(Reading(t, n), s[n + 1]) = ReadAll(t, m.at)
  BY ReadingMarker
<1>5. g = Body(g)
  <2>1. \A k \in 0..(n + 1) : g[k] = Body(g)[k]
    <3> SUFFICES ASSUME NEW k \in 0..(n + 1) PROVE g[k] = Body(g)[k]
      OBVIOUS
    <3>1. CASE k = 0
      <4>1. Body(g)[k] = Unread /\ k # n + 1 /\ g[k] = Reading(t, 0)
        BY <3>1
      <4> QED
        BY <4>1, ReadingNone
    <3>2. CASE k # 0
      <4>1. Body(g)[k] = ReplayRecord(g[k - 1], s[k])
        BY <3>2
      <4>2. k - 1 \in 0..(n + 1) /\ k - 1 # n + 1 /\ (k = n + 1 \/ k \in 1..n)
        BY <3>2
      <4>3. g[k - 1] = Reading(t, k - 1)
        BY <4>2
      <4>4. g[k] = IF k = n + 1 THEN ReadAll(t, m.at) ELSE Reading(t, k)
        OBVIOUS
      <4> HIDE DEF g, Body
      <4>5. CASE k = n + 1
        <5>1. k - 1 = n
          BY <4>5
        <5> QED
          BY <1>4, <4>1, <4>3, <4>4, <4>5, <5>1
      <4>6. CASE k # n + 1
        BY <1>3, <4>1, <4>2, <4>3, <4>4, <4>6
      <4> QED
        BY <4>5, <4>6
    <3> QED
      BY <3>1, <3>2
  <2> QED
    BY <2>1
<1>6. after = Body(after)
  <2> HIDE DEF Body, g
  <2> QED
    BY <1>5
<1> HIDE DEF after
<1>7. after[0] = Unread /\ \A k \in 1..(n + 1) : after[k] = ReplayRecord(after[k - 1], s[k])
  <2>1. \A k \in 0..(n + 1) : after[k] = IF k = 0 THEN Unread ELSE ReplayRecord(after[k - 1], s[k])
    BY <1>6
  <2> QED
    BY <2>1
<1>8. \A k \in 0..n : after[k] = Reading(t, k)
  <2> DEFINE apart == {k \in 0..n : after[k] # Reading(t, k)}
  <2> SUFFICES ASSUME apart # {} PROVE FALSE
    OBVIOUS
  <2>1. apart \subseteq Nat
    OBVIOUS
  <2>2. PICK k \in apart : \A j \in apart : k <= j
    <3> HIDE DEF apart
    <3> QED
      BY <2>1, LeastNumber
  <2>3. k \in 0..n /\ after[k] # Reading(t, k)
    OBVIOUS
  <2>4. k # 0
    BY <1>7, <2>3, ReadingNone
  <2>5. k \in 1..n /\ k \in 1..(n + 1) /\ k - 1 \in 0..n /\ k - 1 \notin apart
    BY <2>2, <2>3, <2>4
  <2>6. after[k - 1] = Reading(t, k - 1)
    BY <2>5
  <2> QED
    BY <1>3, <1>7, <2>3, <2>5, <2>6
<1>9. after[n + 1] = ReplayRecord(after[n], s[n + 1])
  <2>1. n + 1 \in 1..(n + 1) /\ (n + 1) - 1 = n
    OBVIOUS
  <2> QED
    BY <1>7, <2>1
<1> QED
  BY <1>2, <1>4, <1>8, <1>9

(* run_replay, given the source and what its records amount to *)
ReplayOk(source, r) ==
    /\ source # "REFUSED" /\ r.ok /\ r.events # <<>>
    /\ r.ends > 0 => Last(r.events) <= r.end
    /\ source = "JOURNAL" => r.ends = 1

LEMMA ReplayOf ==
  ASSUME NEW tree, NEW mode, NEW source, source = ReplaySource(tree, mode),
         NEW r, r = ReplayRun(IterRecords(tree, source))
  PROVE  Replay(tree, mode) = [r EXCEPT !.ok = ReplayOk(source, r)]
  BY DEF Replay, ReplayOk

(* A tree without rows cannot be replayed. *)
LEMMA EmptyReplay ==
  ASSUME NEW tree, NEW mode, Rows(tree) = {}
  PROVE  ~Replay(tree, mode).ok
<1>1. PICK source : source = ReplaySource(tree, mode)
  OBVIOUS
<1>2. Selected(tree, source) = {}
  BY DEF Selected
<1>3. IterRecords(tree, source) = <<>>
  <2> DEFINE Is(s) == \A i, j \in 1..0 : i < j => s[i] # s[j] /\ ~RecordPrecedes(s[j], s[i])
  <2>1. Cardinality({}) = 0
    BY FS_EmptySet
  <2>2. IterRecords(tree, source) = CHOOSE s \in [1..0 -> {}] : Is(s)
    BY <1>2, <2>1 DEF IterRecords, Sorted
  <2>3. <<>> \in [1..0 -> {}] /\ Is(<<>>)
    OBVIOUS
  <2> HIDE DEF Is
  <2>4. IterRecords(tree, source) \in [1..0 -> {}]
    BY <2>2, <2>3
  <2>5. \A s \in [1..0 -> {}] : s = <<>>
    OBVIOUS
  <2> QED
    BY <2>4, <2>5
<1>4. PICK r : r = ReplayRun(IterRecords(tree, source))
  OBVIOUS
<1>5. r = Unread
  <2> DEFINE Body(f) == [k \in 0..0 |-> IF k = 0 THEN Unread ELSE ReplayRecord(f[k - 1], <<>>[k])]
             g == [k \in 0..0 |-> Unread]
             after == CHOOSE f : f = Body(f)
  <2>1. Len(<<>>) = 0
    OBVIOUS
  <2>2. r = after[0]
    BY <1>3, <1>4, <2>1, ReplayLoop
  <2>3. g = Body(g)
    OBVIOUS
  <2>4. after = Body(after)
    <3> HIDE DEF Body, g
    <3> QED
      BY <2>3
  <2> HIDE DEF after
  <2>5. after[0] = Unread
    BY <2>4
  <2> QED
    BY <2>2, <2>5
<1>6. r.events = <<>>
  BY <1>5 DEF Unread
<1>7. PICK o : o = ReplayOk(source, r)
  OBVIOUS
<1>8. o = FALSE
  BY <1>6, <1>7 DEF ReplayOk
<1>9. PICK u : u = TRUE
  OBVIOUS
<1>10. r = Run(u, <<>>, -1, 0)
  BY <1>5, <1>9 DEF Unread, Run
<1>11. Replay(tree, mode) = [r EXCEPT !.ok = o]
  BY <1>1, <1>4, <1>7, ReplayOf
<1>12. Replay(tree, mode) = Run(o, <<>>, -1, 0)
  BY <1>10, <1>11, RunOk
<1>13. Replay(tree, mode).ok = o
  BY <1>12 DEF Run
<1> QED
  BY <1>8, <1>13

(* A journal is replayed in the order of its events' times, up to its end. *)
LEMMA JournalReplay ==
  ASSUME NEW tree, NEW mode, ReplaySource(tree, mode) = "JOURNAL",
         IsFiniteSet(Rows(tree)), Rows(tree) \subseteq Recs,
         NEW m \in Recs, m.kind = "end", RowsOf(tree, "end") = {m},
         NEW A, A = {r.at : r \in RowsOf(tree, "event")}
  PROVE  Replay(tree, mode).events = Ascending(A) /\ Replay(tree, mode).end = m.at
<1>1. PICK E : E = RowsOf(tree, "event")
  OBVIOUS
<1>2. A = {r.at : r \in E} /\ \A r \in E : r \in Recs /\ r.kind = "event"
  BY <1>1 DEF RowsOf
<1>3. IsFiniteSet(E)
  <2>1. E \in SUBSET Rows(tree)
    BY <1>1 DEF RowsOf
  <2> QED
    BY <2>1, FS_Subset
<1>4. Selected(tree, "JOURNAL") = E \cup {m}
  <2>1. Selected(tree, "JOURNAL") = {r \in Rows(tree) : r.kind # "raw"}
    BY DEF Selected
  <2>2. \A r \in Rows(tree) : r.kind \in {"raw", "event", "end"}
    BY DEF Recs, Kinds
  <2>3. {m} = {r \in Rows(tree) : r.kind = "end"} /\ E = {r \in Rows(tree) : r.kind = "event"}
    BY <1>1 DEF RowsOf
  <2>4. \A r : r \in Selected(tree, "JOURNAL") <=> r \in E \cup {m}
    BY <2>1, <2>2, <2>3
  <2> QED
    BY <2>4
<1>5. PICK s : s = JournalOrder(E \cup {m})
  OBVIOUS
<1>6. IterRecords(tree, "JOURNAL") = s
  BY <1>4, <1>5 DEF IterRecords, JournalOrder
<1>7. PICK n : n = Cardinality(A)
  OBVIOUS
<1>8. PICK t : t = Ascending(A)
  OBVIOUS
<1>9. JournalRows(E, A, n, m)
  BY <1>2, <1>3, <1>7 DEF JournalRows
<1>10. IsJournal(s, t, A, n, m)
  BY <1>5, <1>8, <1>9, SortedJournal
<1>11. ReplayRun(s) = ReadAll(t, m.at)
  BY <1>10, ReplayOfJournal
<1>12. PICK r : r = ReplayRun(s)
  OBVIOUS
<1>13. PICK o : o = ReplayOk("JOURNAL", r)
  OBVIOUS
<1>14. PICK u : u = TRUE
  OBVIOUS
<1>15. r = Run(u, t, m.at, 1)
  BY <1>11, <1>12, <1>14 DEF ReadAll, Run
<1>16. Replay(tree, mode) = [r EXCEPT !.ok = o]
  <2>1. PICK source : source = ReplaySource(tree, mode)
    OBVIOUS
  <2>2. source = "JOURNAL"
    BY <2>1
  <2>3. r = ReplayRun(IterRecords(tree, source))
    BY <1>6, <1>12, <2>2
  <2>4. Replay(tree, mode) = [r EXCEPT !.ok = ReplayOk(source, r)]
    BY <2>1, <2>3, ReplayOf
  <2> QED
    BY <1>13, <2>2, <2>4
<1>17. Replay(tree, mode) = Run(o, t, m.at, 1)
  BY <1>15, <1>16, RunOk
<1>18. Replay(tree, mode).events = t /\ Replay(tree, mode).end = m.at
  BY <1>17 DEF Run
<1> QED
  BY <1>8, <1>18

(* What a clean manifest's tree gives, and any tree with the same rows. *)
LEMMA CleanReplay ==
  ASSUME CollInv, main.pc = "clean", NEW tree, Rows(tree) = Rows(SourceTree),
         NEW mode, ReplaySource(tree, mode) = "JOURNAL"
  PROVE  /\ Replay(tree, mode).events = Ascending(driver.accepted)
         /\ Replay(tree, mode).end = main.end
<1>1. /\ {r.at : r \in RowsOf(SourceTree, "event")} = driver.accepted
      /\ RowsOf(SourceTree, "end") = {EndMarker}
  BY DEF CollInv, Complete
<1>2. RowsOf(tree, "event") = RowsOf(SourceTree, "event") /\ RowsOf(tree, "end") = RowsOf(SourceTree, "end")
  BY DEF RowsOf
<1>3. IsFiniteSet(Rows(tree)) /\ Rows(tree) \subseteq Recs
  <2>1. WriterTypeOK /\ GoodFiles(files)
    BY DEF CollInv, WInv, WriterTypeOK
  <2> QED
    BY <2>1, SourceRows, RowsCounted, WriterFinite
<1>4. PICK m : m = EndMarker /\ m.kind = "end" /\ m.at = main.end
  <2>1. PICK x : x = EndMarker
    OBVIOUS
  <2>2. x.kind = "end" /\ x.at = main.end
    BY <2>1 DEF EndMarker
  <2> QED
    BY <2>1, <2>2
<1>5. m \in Recs
  BY <1>1, <1>2, <1>3, <1>4 DEF RowsOf
<1>6. PICK A : A = driver.accepted
  OBVIOUS
<1>7. A = {r.at : r \in RowsOf(tree, "event")} /\ RowsOf(tree, "end") = {m}
  BY <1>1, <1>2, <1>4, <1>6
<1>8. Replay(tree, mode).events = Ascending(A) /\ Replay(tree, mode).end = m.at
  BY <1>3, <1>4, <1>5, <1>7, JournalReplay
<1> QED
  BY <1>4, <1>6, <1>8

(* A tree without a clean manifest is replayed only if it has no trace of  *)
(* a journal.                                                              *)
LEMMA SourceFacts ==
  ASSUME NEW tree, NEW mode \in Modes \ {"RAW"}, ReplaySource(tree, mode) # "REFUSED"
  PROVE  \/ /\ ReplaySource(tree, mode) = "JOURNAL" /\ ~tree.sentinel
            /\ tree.manifest.terminal = "CLEAN_END"
         \/ ReplaySource(tree, mode) = "RAW" /\ mode = "AUTO" /\ ~Evidence(tree)
  BY DEF ReplaySource, Modes, CleanCollection

LEMMA SameReplay ==
  ASSUME NEW t, NEW u, NEW mode, Rows(t) = Rows(u), ReplaySource(t, mode) = ReplaySource(u, mode)
  PROVE  Replay(t, mode) = Replay(u, mode)
<1>1. PICK source : source = ReplaySource(t, mode)
  OBVIOUS
<1>2. Selected(t, source) = Selected(u, source)
  BY DEF Selected
<1>3. IterRecords(t, source) = IterRecords(u, source)
  BY <1>2 DEF IterRecords
<1>4. PICK r : r = ReplayRun(IterRecords(t, source))
  OBVIOUS
<1>5. Replay(t, mode) = [r EXCEPT !.ok = ReplayOk(source, r)]
  BY <1>1, <1>4, ReplayOf
<1>6. Replay(u, mode) = [r EXCEPT !.ok = ReplayOk(source, r)]
  BY <1>1, <1>3, <1>4, ReplayOf
<1> QED
  BY <1>5, <1>6

(* The two trees, when no sentinel is in the way. *)
LEMMA TreeFacts ==
  ASSUME CollInv, CopyInv, NEW tree \in {SourceTree, out}, ~tree.sentinel
  PROVE  \/ Rows(tree) = {} /\ tree.manifest = NoManifest
         \/ Rows(tree) = Rows(SourceTree) /\ tree.manifest = manifest
<1>1. CASE tree = SourceTree
  <2>1. SourceTree.manifest = manifest
    BY DEF SourceTree
  <2> QED
    BY <1>1, <2>1
<1>2. CASE tree = out /\ compact.pc = "none"
  <2>1. tree.files = {} /\ tree.manifest = NoManifest
    BY <1>2 DEF CopyInv, EmptyTree
  <2>2. Rows(tree) = {}
    BY <2>1 DEF Rows
  <2> QED
    BY <2>1, <2>2
<1>3. CASE tree = out /\ compact.pc # "none"
  <2>1. compact.pc = "done"
    BY <1>3 DEF CopyInv
  <2>2. RawAudit(tree) = RawAudit(SourceTree) /\ tree.manifest = manifest
    BY <1>3, <2>1 DEF CopyInv
  <2>3. RawAudit(tree).rows = Rows(tree) /\ RawAudit(SourceTree).rows = Rows(SourceTree)
    BY DEF RawAudit
  <2> QED
    BY <2>2, <2>3
<1> QED
  BY <1>1, <1>2, <1>3

(* What ReplayIsExact asks of one tree and one mode. *)
ExactReplay(tree, mode) ==
    ReplaySource(tree, mode) # "REFUSED" /\ Replay(tree, mode).ok =>
        IF main.pc = "legacy" THEN Replay(tree, mode) = Replay(SourceTree, mode)
        ELSE /\ Replay(tree, mode).events = Ascending(driver.accepted)
             /\ Replay(tree, mode).end = main.end

LEMMA EveryReplayIsExact ==
  ASSUME CollInv, CopyInv, NEW tree \in {SourceTree, out}, NEW mode \in Modes \ {"RAW"}
  PROVE  ExactReplay(tree, mode)
<1> SUFFICES ASSUME ReplaySource(tree, mode) # "REFUSED", Replay(tree, mode).ok
             PROVE  IF main.pc = "legacy" THEN Replay(tree, mode) = Replay(SourceTree, mode)
                    ELSE /\ Replay(tree, mode).events = Ascending(driver.accepted)
                         /\ Replay(tree, mode).end = main.end
  BY DEF ExactReplay
<1>1. CASE /\ ReplaySource(tree, mode) = "JOURNAL" /\ ~tree.sentinel
           /\ tree.manifest.terminal = "CLEAN_END"
  <2>1. tree.manifest # NoManifest
    BY <1>1 DEF NoManifest
  <2>2. Rows(tree) = Rows(SourceTree) /\ tree.manifest = manifest
    BY <1>1, <2>1, TreeFacts
  <2>3. main.pc = "clean"
    BY <1>1, <2>2 DEF CollInv, Quiet
  <2>4. Replay(tree, mode).events = Ascending(driver.accepted) /\ Replay(tree, mode).end = main.end
    BY <1>1, <2>2, <2>3, CleanReplay
  <2> QED
    BY <2>3, <2>4
<1>2. CASE ReplaySource(tree, mode) = "RAW" /\ mode = "AUTO" /\ ~Evidence(tree)
  <2>1. ~tree.sentinel /\ tree.manifest = NoManifest
    BY <1>2 DEF Evidence
  <2>2. Rows(tree) # {}
    BY EmptyReplay
  <2>3. Rows(tree) = Rows(SourceTree) /\ manifest = NoManifest
    BY <2>1, <2>2, TreeFacts
  <2>4. main.pc \in {"new", "legacy"}
    BY <2>3 DEF CollInv, Quiet
  <2>5. main.pc = "legacy"
    <3> SUFFICES ASSUME main.pc = "new" PROVE FALSE
      BY <2>4
    <3>1. files = {}
      BY DEF CollInv, Quiet
    <3>2. Rows(SourceTree) = {}
      BY <3>1, SourceRows DEF RowsIn
    <3> QED
      BY <2>2, <2>3, <3>2
  <2>6. ~Evidence(SourceTree)
    <3>1. SourceTree.manifest = NoManifest /\ ~SourceTree.sentinel
      BY <2>3 DEF SourceTree
    <3>2. RowsOf(SourceTree, "event") = RowsOf(tree, "event") /\ RowsOf(SourceTree, "end") = RowsOf(tree, "end")
      BY <2>3 DEF RowsOf
    <3> QED
      BY <1>2, <3>1, <3>2 DEF Evidence
  <2>7. ReplaySource(SourceTree, mode) = ReplaySource(tree, mode)
    BY <1>2, <2>6 DEF ReplaySource
  <2>8. Replay(tree, mode) = Replay(SourceTree, mode)
    BY <2>3, <2>7, SameReplay
  <2> QED
    BY <2>5, <2>8
<1> QED
  BY <1>1, <1>2, SourceFacts

LEMMA InitCopy == Init => CopyInv
<1> SUFFICES ASSUME Init PROVE CopyInv
  OBVIOUS
<1>1. out = EmptyTree /\ compact = [pc |-> "none", todo |-> {}]
  BY DEF Init
<1> QED
  BY <1>1 DEF CopyInv, EmptyTree

(* A replay that is not the explicit raw recovery reads the whole timeline *)
(* or refuses, for collections of any size, any batch and target size, and *)
(* whenever the collection or its compaction was cut short: from a         *)
(* collection's tree or its compacted copy it reads exactly the events the *)
(* live driver ingested, in receive order, up to the live end; from the    *)
(* copy of a legacy tree, what the legacy tree gives                       *)
(* (resolve_replay_source, compact_raw_tree).                              *)
THEOREM ReplaysAreExact == Spec => []ReplayIsExact
<1>1. CollInv /\ CopyInv => ReplayIsExact
  <2>1. CollInv /\ CopyInv =>
          \A tree \in {SourceTree, out}, mode \in Modes \ {"RAW"} : ExactReplay(tree, mode)
    BY EveryReplayIsExact
  <2> QED
    BY <2>1, Zenon DEF ReplayIsExact, ExactReplay, Ascending
<1>2. CollInv /\ CopyInv /\ [Next]_vars => CopyInv'
  BY CopyKeeps
<1> QED
  BY <1>1, <1>2, InitCopy, CollectionInductive, PTL DEF Spec
===============================================================================
