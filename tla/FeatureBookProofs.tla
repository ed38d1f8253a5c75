------------------------- MODULE FeatureBookProofs -------------------------
(***************************************************************************)
(* The feature side's order book, proved for any levels, any capacity and  *)
(* any events.  What an event may bring is left open: a set G holds the    *)
(* pairs of a sequence id and the levels a correct book may have there, an *)
(* event fits G if it leads from such a pair to another, and then the book *)
(* stays within G whatever is buffered, sorted, replayed or refused.       *)
(***************************************************************************)
EXTENDS FeatureBook, NaturalsInduction, WellFoundedInduction, FiniteSetTheorems,
        SequenceTheorems, TLAPS

Changes == UNION {[set -> Nat] : set \in SUBSET Levels}

BookEvents(Ids) ==
    [kind : {"snapshot", "update"}, gen : Nat, seq : Ids, prev : Int, at : Int,
     levels : Changes]

Books(Ids) ==
    [gen : Nat, epoch : Nat, seq : {None} \cup Ids, sync : BOOLEAN, since : Int,
     levels : [Levels -> Nat], pending : Seq(BookEvents(Ids))]

(* An event leads from a correct book to a correct book. *)
Fits(G, e) ==
    /\ e.kind = "snapshot" => <<e.seq, Overlay(NoLevels, e.levels)>> \in G
    /\ e.kind = "update" =>
        \A seq, levels : <<seq, levels>> \in G /\ seq < e.seq /\ e.prev <= seq
            => <<e.seq, Overlay(levels, e.levels)>> \in G

Correct(G, Ids, f) == f.seq \in Ids /\ <<f.seq, f.levels>> \in G /\ Sound(f.levels)

(* A synchronized book is correct, and the updates it keeps fit. *)
Exact(G, Ids, f) ==
    /\ f.sync => Correct(G, Ids, f)
    /\ \A i \in 1..Len(f.pending) : f.pending[i].kind = "update" /\ Fits(G, f.pending[i])

----------------------------------------------------------------------------
(* The loops.                                                              *)

(* A set of numbers has a least one: induction by least counterexample.    *)
LEMMA LeastNumber ==
  ASSUME NEW T, T \subseteq Nat, T # {}
  PROVE  \E n \in T : \A m \in T : n <= m
<1> DEFINE R == {p \in Nat \X Nat : p[1] < p[2]}
<1>1. IsWellFoundedOn(R, Nat)
  BY NatLessThanWellFounded DEF OpToRel
<1>2. PICK x \in T : \A y \in T : <<y, x>> \notin R
  <2> HIDE DEF R
  <2> QED BY <1>1, WFMin
<1>3. ASSUME NEW y \in T PROVE x <= y
  <2>1. <<y, x>> \in Nat \X Nat /\ <<y, x>>[1] = y /\ <<y, x>>[2] = x
    OBVIOUS
  <2> QED BY <1>2, <2>1
<1> QED BY <1>3

(* The least upper bound of a bounded set belongs to it. *)
LEMMA GreatestNumber ==
  ASSUME NEW n \in Nat, NEW T, T \subseteq 0..n, T # {}
  PROVE  \E b \in T : \A m \in T : b >= m
<1> DEFINE Bounds == {b \in Nat : \A m \in T : m <= b}
<1>1. PICK b \in Bounds : \A c \in Bounds : b <= c
  <2>1. n \in Bounds /\ Bounds \subseteq Nat
    OBVIOUS
  <2> HIDE DEF Bounds
  <2> QED BY <2>1, LeastNumber
<1>2. b \in T
  <2> SUFFICES ASSUME b \notin T PROVE FALSE
    OBVIOUS
  <2>0. PICK m \in T : TRUE
    OBVIOUS
  <2>1. m \in Nat /\ b \in Nat /\ m <= b
    BY <1>1
  <2>2. b # 0
    BY <2>1
  <2>3. ASSUME NEW k \in T PROVE k <= b - 1
    <3>1. k \in Nat /\ k <= b /\ k # b
      BY <1>1
    <3> QED BY <2>1, <3>1
  <2>4. b - 1 \in Bounds
    BY <2>1, <2>2, <2>3
  <2>5. b <= b - 1
    BY <1>1, <2>4
  <2> QED BY <2>1, <2>5
<1>3. \A m \in T : b >= m
  BY <1>1
<1> QED BY <1>2, <1>3

(* What holds at the start of the replay and survives each of its steps    *)
(* holds at its end.                                                       *)
LEMMA ReplayKeeps ==
  ASSUME NEW S, NEW u \in Seq(S), NEW Good, NEW o \in Good,
         \A x \in Good : \A i \in 1..Len(u) : ReplayStep(x, u[i]) \in Good,
         \A x \in Good : Outcome(x.book, "BOOK_INVALIDATED") \in Good
  PROVE  Replayed(o, u) \in Good
<1> DEFINE Step(x, k) == ReplayStep(x, u[k])
           P(c, n) == c = [k \in 0..n |-> IF k = 0 THEN o ELSE Step(c[k - 1], k)]
           W(c, n) == P(c, n) /\ \A k \in 0..n : c[k] \in Good
           T == {n \in Nat : n <= Len(u) /\ ~\E c : W(c, n)}
<1>0. Len(u) \in Nat
  OBVIOUS
<1> DEFINE end == (CHOOSE c : P(c, Len(u)))[Len(u)]
<1>1. Replayed(o, u) = IF end.book.sync THEN end ELSE Outcome(end.book, "BOOK_INVALIDATED")
  BY DEF Replayed
<1>a. \A x \in Good : \A k \in 1..Len(u) : Step(x, k) \in Good
  OBVIOUS
<1> HIDE DEF Step
<1>2. W([k \in {0} |-> o], 0)
  <2>1. 0..0 = {0}
    OBVIOUS
  <2> QED BY <2>1
<1>3. ASSUME NEW n \in Nat, n + 1 <= Len(u), NEW c, W(c, n)
      PROVE  W([k \in 0..n + 1 |-> IF k = n + 1 THEN Step(c[n], n + 1) ELSE c[k]], n + 1)
  <2> DEFINE g == [k \in 0..n + 1 |-> IF k = n + 1 THEN Step(c[n], n + 1) ELSE c[k]]
  <2>1. ASSUME NEW k \in 0..n + 1
        PROVE  g[k] = (IF k = 0 THEN o ELSE Step(g[k - 1], k)) /\ g[k] \in Good
    <3>1. CASE k = n + 1
      <4>1. k # 0 /\ k - 1 = n /\ n \in 0..n + 1 /\ n # n + 1 /\ n \in 0..n /\ k \in 1..Len(u)
        BY <1>0, <1>3, <3>1
      <4>2. g[k] = Step(c[n], n + 1) /\ g[n] = c[n]
        BY <3>1, <4>1
      <4>3. c[n] \in Good
        BY <1>3, <4>1
      <4> QED BY <1>a, <3>1, <4>1, <4>2, <4>3
    <3>2. CASE k # n + 1
      <4>1. k \in 0..n /\ g[k] = c[k]
        BY <3>2
      <4>2. c[k] = (IF k = 0 THEN o ELSE Step(c[k - 1], k)) /\ c[k] \in Good
        BY <1>3, <4>1
      <4>3. k # 0 => k - 1 \in 0..n + 1 /\ k - 1 # n + 1
        BY <4>1
      <4>4. k # 0 => g[k - 1] = c[k - 1]
        BY <4>3
      <4> QED BY <4>1, <4>2, <4>4
    <3> QED BY <3>1, <3>2
  <2>2. g = [k \in 0..n + 1 |-> g[k]]
    OBVIOUS
  <2> HIDE DEF g
  <2>3. g = [k \in 0..n + 1 |-> IF k = 0 THEN o ELSE Step(g[k - 1], k)]
    BY <2>1, <2>2
  <2>4. W(g, n + 1)
    BY <2>1, <2>3
  <2> QED BY <2>4 DEF g
<1>4. \E c : P(c, Len(u))
  <2> SUFFICES ASSUME Len(u) \in T PROVE FALSE
    BY <1>0
  <2>1. PICK n \in T : \A m \in T : n <= m
    <3>1. T \subseteq Nat /\ T # {}
      OBVIOUS
    <3> HIDE DEF T
    <3> QED BY <3>1, LeastNumber
  <2>2. n # 0
    BY <2>1, <1>2
  <2>3. n \in Nat /\ n <= Len(u)
    BY <2>1
  <2>4. n - 1 \in Nat /\ n - 1 \notin T /\ n - 1 <= Len(u)
    <3> HIDE DEF T
    <3> QED BY <1>0, <2>1, <2>2, <2>3
  <2>5. PICK c : W(c, n - 1)
    BY <2>4
  <2>6. (n - 1) + 1 = n
    BY <2>3
  <2>7. \E g : W(g, n)
    <3> HIDE DEF W
    <3> QED BY <1>3, <2>3, <2>4, <2>5, <2>6
  <2> QED BY <2>1, <2>7
<1>5. PICK run : run = (CHOOSE c : P(c, Len(u))) /\ P(run, Len(u))
  <2> HIDE DEF P
  <2> QED BY <1>4
<1>6. ASSUME NEW k \in 0..Len(u)
      PROVE  run[k] = IF k = 0 THEN o ELSE Step(run[k - 1], k)
  BY <1>5
<1>7. \A k \in 0..Len(u) : run[k] \in Good
  <2> DEFINE Bad == {k \in 0..Len(u) : run[k] \notin Good}
  <2> SUFFICES ASSUME Bad # {} PROVE FALSE
    OBVIOUS
  <2>1. PICK n \in Bad : \A m \in Bad : n <= m
    <3>1. Bad \subseteq Nat
      BY <1>0
    <3> HIDE DEF Bad
    <3> QED BY <3>1, LeastNumber
  <2>2. n \in 0..Len(u) /\ run[n] \notin Good
    BY <2>1
  <2>3. n # 0
    BY <1>6, <2>2
  <2>4. n - 1 \in 0..Len(u) /\ n \in 1..Len(u) /\ n - 1 \notin Bad
    <3>1. n - 1 \in 0..Len(u) /\ n \in 1..Len(u) /\ ~(n <= n - 1)
      BY <1>0, <2>2, <2>3
    <3> HIDE DEF Bad
    <3> QED BY <2>1, <3>1
  <2>5. run[n - 1] \in Good
    BY <2>4
  <2>6. run[n] = Step(run[n - 1], n)
    BY <1>6, <2>2, <2>3
  <2> QED BY <1>a, <2>2, <2>4, <2>5, <2>6
<1>8. end \in Good
  BY <1>0, <1>5, <1>7
<1> HIDE DEF end
<1> QED BY <1>1, <1>8

(* Sorting keeps the elements' type. *)
LEMMA SortedType ==
  ASSUME NEW S, NEW u \in Seq(S)
  PROVE  BySequence(u) \in Seq(S)
<1> DEFINE Place(x, e) == 1 + Cardinality({j \in 1..Len(x) : x[j].seq <= e.seq})
           Step(x, k) == InsertAt(x, Place(x, u[k]), u[k])
           o == <<>>
           Good == Seq(S)
           P(c, n) == c = [k \in 0..n |-> IF k = 0 THEN o ELSE Step(c[k - 1], k)]
           W(c, n) == P(c, n) /\ \A k \in 0..n : c[k] \in Good
           T == {n \in Nat : n <= Len(u) /\ ~\E c : W(c, n)}
<1>0. Len(u) \in Nat
  OBVIOUS
<1>1. BySequence(u) = (CHOOSE c : P(c, Len(u)))[Len(u)]
  BY DEF BySequence
<1>a. \A x \in Good : \A k \in 1..Len(u) : Step(x, k) \in Good
  <2> SUFFICES ASSUME NEW x \in Seq(S), NEW k \in 1..Len(u) PROVE Step(x, k) \in Seq(S)
    OBVIOUS
  <2> DEFINE J == {j \in 1..Len(x) : x[j].seq <= u[k].seq}
  <2>0. \A n \in Nat : IsFiniteSet(1..n) /\ Cardinality(1..n) = n
    BY FS_Interval
  <2>1. IsFiniteSet(1..Len(x)) /\ Cardinality(1..Len(x)) = Len(x) /\ Len(x) \in Nat
    BY <2>0
  <2>2. J \subseteq 1..Len(x)
    OBVIOUS
  <2>3. Cardinality(J) \in Nat /\ Cardinality(J) <= Len(x)
    <3> HIDE DEF J
    <3> QED BY <2>1, <2>2, FS_Subset, FS_CardinalityType
  <2>4. PICK i \in 1..Len(x) + 1 : i = 1 + Cardinality(J)
    <3> HIDE DEF J
    <3> QED BY <2>1, <2>3
  <2>5. u[k] \in S
    OBVIOUS
  <2>6. SubSeq(x, 1, i - 1) \in Seq(S) /\ SubSeq(x, i, Len(x)) \in Seq(S)
    <3> HIDE DEF J
    <3> QED BY <2>1, <2>4
  <2>7. InsertAt(x, i, u[k]) \in Seq(S)
    <3> HIDE DEF J
    <3> QED BY <2>5, <2>6 DEF InsertAt
  <2> QED BY <2>4, <2>7
<1>b. o \in Good
  OBVIOUS
<1> HIDE DEF Step, o, Good
<1>2. W([k \in {0} |-> o], 0)
  <2>1. 0..0 = {0}
    OBVIOUS
  <2> QED BY <2>1, <1>b
<1>3. ASSUME NEW n \in Nat, n + 1 <= Len(u), NEW c, W(c, n)
      PROVE  W([k \in 0..n + 1 |-> IF k = n + 1 THEN Step(c[n], n + 1) ELSE c[k]], n + 1)
  <2> DEFINE g == [k \in 0..n + 1 |-> IF k = n + 1 THEN Step(c[n], n + 1) ELSE c[k]]
  <2>1. ASSUME NEW k \in 0..n + 1
        PROVE  g[k] = (IF k = 0 THEN o ELSE Step(g[k - 1], k)) /\ g[k] \in Good
    <3>1. CASE k = n + 1
      <4>1. k # 0 /\ k - 1 = n /\ n \in 0..n + 1 /\ n # n + 1 /\ n \in 0..n /\ k \in 1..Len(u)
        BY <1>0, <1>3, <3>1
      <4>2. g[k] = Step(c[n], n + 1) /\ g[n] = c[n]
        BY <3>1, <4>1
      <4>3. c[n] \in Good
        BY <1>3, <4>1
      <4> QED BY <1>a, <3>1, <4>1, <4>2, <4>3
    <3>2. CASE k # n + 1
      <4>1. k \in 0..n /\ g[k] = c[k]
        BY <3>2
      <4>2. c[k] = (IF k = 0 THEN o ELSE Step(c[k - 1], k)) /\ c[k] \in Good
        BY <1>3, <4>1
      <4>3. k # 0 => k - 1 \in 0..n + 1 /\ k - 1 # n + 1
        BY <4>1
      <4>4. k # 0 => g[k - 1] = c[k - 1]
        BY <4>3
      <4> QED BY <4>1, <4>2, <4>4
    <3> QED BY <3>1, <3>2
  <2>2. g = [k \in 0..n + 1 |-> g[k]]
    OBVIOUS
  <2> HIDE DEF g
  <2>3. g = [k \in 0..n + 1 |-> IF k = 0 THEN o ELSE Step(g[k - 1], k)]
    BY <2>1, <2>2
  <2>4. W(g, n + 1)
    BY <2>1, <2>3
  <2> QED BY <2>4 DEF g
<1>4. \E c : P(c, Len(u))
  <2> SUFFICES ASSUME Len(u) \in T PROVE FALSE
    BY <1>0
  <2>1. PICK n \in T : \A m \in T : n <= m
    <3>1. T \subseteq Nat /\ T # {}
      OBVIOUS
    <3> HIDE DEF T
    <3> QED BY <3>1, LeastNumber
  <2>2. n # 0
    BY <2>1, <1>2
  <2>3. n \in Nat /\ n <= Len(u)
    BY <2>1
  <2>4. n - 1 \in Nat /\ n - 1 \notin T /\ n - 1 <= Len(u)
    <3> HIDE DEF T
    <3> QED BY <1>0, <2>1, <2>2, <2>3
  <2>5. PICK c : W(c, n - 1)
    BY <2>4
  <2>6. (n - 1) + 1 = n
    BY <2>3
  <2>7. \E g : W(g, n)
    <3> HIDE DEF W
    <3> QED BY <1>3, <2>3, <2>4, <2>5, <2>6
  <2> QED BY <2>1, <2>7
<1>5. PICK run : run = (CHOOSE c : P(c, Len(u))) /\ P(run, Len(u))
  <2> HIDE DEF P
  <2> QED BY <1>4
<1>6. ASSUME NEW k \in 0..Len(u)
      PROVE  run[k] = IF k = 0 THEN o ELSE Step(run[k - 1], k)
  BY <1>5
<1>7. \A k \in 0..Len(u) : run[k] \in Good
  <2> DEFINE Bad == {k \in 0..Len(u) : run[k] \notin Good}
  <2> SUFFICES ASSUME Bad # {} PROVE FALSE
    OBVIOUS
  <2>1. PICK n \in Bad : \A m \in Bad : n <= m
    <3>1. Bad \subseteq Nat
      BY <1>0
    <3> HIDE DEF Bad
    <3> QED BY <3>1, LeastNumber
  <2>2. n \in 0..Len(u) /\ run[n] \notin Good
    BY <2>1
  <2>3. n # 0
    BY <1>6, <1>b, <2>2
  <2>4. n - 1 \in 0..Len(u) /\ n \in 1..Len(u) /\ n - 1 \notin Bad
    <3>1. n - 1 \in 0..Len(u) /\ n \in 1..Len(u) /\ ~(n <= n - 1)
      BY <1>0, <2>2, <2>3
    <3> HIDE DEF Bad
    <3> QED BY <2>1, <3>1
  <2>5. run[n - 1] \in Good
    BY <2>4
  <2>6. run[n] = Step(run[n - 1], n)
    BY <1>6, <2>2, <2>3
  <2> QED BY <1>a, <2>2, <2>4, <2>5, <2>6
<1> QED BY <1>0, <1>1, <1>5, <1>7 DEF Good

----------------------------------------------------------------------------
(* The operations.                                                         *)

LEMMA IdIsNumber ==
  ASSUME NEW Ids, Ids \subseteq Nat, NEW id \in {None} \cup Ids
  PROVE  id \in Int
  BY DEF None

LEMMA OverlayType ==
  ASSUME NEW levels \in [Levels -> Nat], NEW changed \in Changes
  PROVE  Overlay(levels, changed) \in [Levels -> Nat]
<1>1. PICK set \in SUBSET Levels : changed \in [set -> Nat]
  BY DEF Changes
<1> QED BY <1>1 DEF Overlay

LEMMA ZeroLevels == NoLevels \in [Levels -> Nat]
  BY DEF NoLevels

LEMMA ResetType ==
  ASSUME NEW Ids, NEW f \in Books(Ids), NEW gen \in Nat
  PROVE  /\ Reset(f, gen, TRUE) \in Books(Ids)
         /\ Reset(f, gen, TRUE).gen = gen
         /\ Reset(f, gen, TRUE).epoch = f.epoch + 1
         /\ ~Reset(f, gen, TRUE).sync
         /\ Reset(f, gen, TRUE).pending = <<>>
<1>1. f.epoch \in Nat /\ None \in Int
  BY DEF Books, None
<1> QED BY <1>1, ZeroLevels DEF Reset, Books

LEMMA DesynchronizedType ==
  ASSUME NEW Ids, NEW f \in Books(Ids)
  PROVE  /\ Desynchronized(f) \in Books(Ids)
         /\ ~Desynchronized(f).sync
         /\ Desynchronized(f).gen = f.gen /\ Desynchronized(f).epoch = f.epoch
         /\ Desynchronized(f).pending = f.pending
<1>1. None \in Int
  BY DEF None
<1> QED BY <1>1 DEF Desynchronized, Books

(* What an update applied in its place may lead to *)
Advances(G, Ids, f, e) ==
    {o \in [book : Books(Ids), status : {"ACCEPTED", "BOOK_INVALIDATED"}] :
        /\ o.book.sync => /\ Correct(G, Ids, o.book) /\ f.sync
                          /\ o.book.since = f.since /\ o.book.seq = e.seq
        /\ o.book.gen = f.gen /\ o.book.epoch = f.epoch /\ o.book.pending = f.pending}

(* A fitting update applied in its place leaves a synchronized book        *)
(* correct, or no longer synchronized.                                     *)
LEMMA AppliedKeeps ==
  ASSUME NEW Ids, Ids \subseteq Nat, NEW G, NEW f \in Books(Ids), NEW e \in BookEvents(Ids),
         f.sync => Correct(G, Ids, f), Fits(G, e), e.kind = "update",
         f.seq < e.seq, e.prev <= f.seq
  PROVE  Applied(f, e) \in Advances(G, Ids, f, e)
<1> DEFINE levels == Overlay(f.levels, e.levels)
           a == [f EXCEPT !.levels = levels, !.seq = e.seq]
           b == [f EXCEPT !.levels = levels]
<1>1. f.levels \in [Levels -> Nat] /\ e.levels \in Changes /\ e.seq \in Ids
  BY DEF Books, BookEvents
<1>2. levels \in [Levels -> Nat]
  BY <1>1, OverlayType
<1>3. f.sync => <<e.seq, levels>> \in G
  BY DEF Fits, Correct
<1> HIDE DEF levels
<1>4. CASE Sound(levels)
  <2>1. Applied(f, e) = [book |-> a, status |-> "ACCEPTED"]
    BY <1>4 DEF Applied, Outcome, levels
  <2>2. /\ a \in Books(Ids) /\ a.sync = f.sync /\ a.levels = levels /\ a.seq = e.seq
        /\ a.since = f.since /\ a.gen = f.gen /\ a.epoch = f.epoch /\ a.pending = f.pending
    BY <1>1, <1>2 DEF Books
  <2>3. f.sync => Correct(G, Ids, a)
    BY <1>1, <1>3, <1>4, <2>2 DEF Correct
  <2> HIDE DEF a
  <2> QED BY <2>1, <2>2, <2>3 DEF Advances
<1>5. CASE ~Sound(levels)
  <2>1. Applied(f, e) = [book |-> Desynchronized(b), status |-> "BOOK_INVALIDATED"]
    BY <1>5 DEF Applied, Outcome, levels
  <2>2. b \in Books(Ids) /\ b.gen = f.gen /\ b.epoch = f.epoch /\ b.pending = f.pending
    BY <1>2 DEF Books
  <2> HIDE DEF b
  <2>3. /\ Desynchronized(b) \in Books(Ids) /\ ~Desynchronized(b).sync
        /\ Desynchronized(b).gen = b.gen /\ Desynchronized(b).epoch = b.epoch
        /\ Desynchronized(b).pending = b.pending
    BY <2>2, DesynchronizedType
  <2> QED BY <2>1, <2>2, <2>3 DEF Advances
<1> QED BY <1>4, <1>5

(* The book g that an event leaves: typed and bounded, generation and      *)
(* epoch do not fall, and within the epoch the synchronization continues.  *)
Follows(Ids, f, g) ==
    /\ g \in Books(Ids) /\ Len(g.pending) <= PendingCapacity
    /\ g.gen >= f.gen /\ g.epoch >= f.epoch
    /\ g.epoch = f.epoch /\ g.sync => f.sync /\ g.since = f.since /\ g.seq >= f.seq

LEMMA BufferedKeeps ==
  ASSUME NEW Ids, NEW G, NEW f \in Books(Ids), NEW e \in BookEvents(Ids),
         PendingCapacity \in Nat \ {0}, Len(f.pending) <= PendingCapacity,
         ~f.sync, e.gen = f.gen, e.kind = "update", Fits(G, e),
         \A i \in 1..Len(f.pending) : f.pending[i].kind = "update" /\ Fits(G, f.pending[i])
  PROVE  /\ Follows(Ids, f, Buffered(f, e).book)
         /\ Exact(G, Ids, Buffered(f, e).book)
         /\ ~Buffered(f, e).book.sync /\ Buffered(f, e).book.gen = e.gen
<1>0. f.gen \in Nat /\ f.epoch \in Nat /\ e.gen \in Nat /\ f.pending \in Seq(BookEvents(Ids))
  BY DEF Books, BookEvents
<1>1. CASE Len(f.pending) >= PendingCapacity
  <2> DEFINE g == Reset(f, e.gen, TRUE)
  <2>1. Buffered(f, e).book = g
    BY <1>1 DEF Buffered, Outcome
  <2>2. g \in Books(Ids) /\ g.gen = e.gen /\ g.epoch = f.epoch + 1 /\ ~g.sync /\ g.pending = <<>>
    BY <1>0, ResetType, ZenonT(60)
  <2> HIDE DEF g
  <2>3. Len(g.pending) = 0
    BY <2>2
  <2> QED BY <1>0, <2>1, <2>2, <2>3 DEF Follows, Exact
<1>2. CASE ~(Len(f.pending) >= PendingCapacity)
  <2> DEFINE g == [f EXCEPT !.pending = Append(@, e)]
  <2>1. Buffered(f, e).book = g
    BY <1>2 DEF Buffered, Outcome
  <2>2. /\ Append(f.pending, e) \in Seq(BookEvents(Ids))
        /\ Len(Append(f.pending, e)) = Len(f.pending) + 1
    BY <1>0
  <2>3. /\ g \in Books(Ids) /\ g.pending = Append(f.pending, e)
        /\ g.gen = f.gen /\ g.epoch = f.epoch /\ ~g.sync
    BY <2>2 DEF Books
  <2> HIDE DEF g
  <2>4. Len(f.pending) \in Nat
    BY <1>0
  <2>5. ASSUME NEW i \in 1..Len(g.pending)
        PROVE  g.pending[i].kind = "update" /\ Fits(G, g.pending[i])
    <3>1. CASE i = Len(f.pending) + 1
      <4>1. g.pending[i] = e
        BY <1>0, <2>3, <3>1
      <4> QED BY <4>1
    <3>2. CASE i # Len(f.pending) + 1
      <4>1. i \in 1..Len(f.pending)
        BY <2>2, <2>3, <2>4, <3>2
      <4>2. g.pending[i] = f.pending[i]
        BY <1>0, <2>3, <4>1
      <4> QED BY <4>1, <4>2
    <3> QED BY <3>1, <3>2
  <2>6. Len(g.pending) <= PendingCapacity
    BY <1>2, <2>2, <2>3, <2>4
  <2> QED BY <1>0, <2>1, <2>3, <2>5, <2>6 DEF Follows, Exact
<1> QED BY <1>1, <1>2

(* apply_update *)
LEMMA UpdateKeeps ==
  ASSUME NEW Ids, Ids \subseteq Nat, NEW G, NEW f \in Books(Ids), NEW e \in BookEvents(Ids),
         PendingCapacity \in Nat \ {0}, Len(f.pending) <= PendingCapacity,
         e.kind = "update", Fits(G, e), e.gen = f.gen => Exact(G, Ids, f)
  PROVE  /\ Follows(Ids, f, ApplyUpdate(f, e).book)
         /\ e.gen >= f.gen => Exact(G, Ids, ApplyUpdate(f, e).book)
         /\ ApplyUpdate(f, e).book.gen \in {f.gen, e.gen}
<1>0. /\ f.gen \in Nat /\ f.epoch \in Nat /\ e.gen \in Nat /\ e.prev \in Int
      /\ e.seq \in Int /\ f.seq \in Int
  <2>1. f.seq \in {None} \cup Ids /\ e.seq \in Ids
    BY DEF Books, BookEvents
  <2>2. e.seq \in Int /\ f.seq \in Int
    BY <2>1, IdIsNumber
  <2> QED BY <2>2 DEF Books, BookEvents
<1>f. Follows(Ids, f, f)
  BY <1>0 DEF Follows
<1>1. CASE e.gen < f.gen
  <2>1. ApplyUpdate(f, e).book = f
    BY <1>1 DEF ApplyUpdate, Outcome
  <2> QED BY <1>0, <1>1, <1>f, <2>1
<1>2. CASE e.gen > f.gen
  <2> DEFINE r == Reset(f, e.gen, TRUE)
  <2>0. ~(e.gen < f.gen)
    BY <1>0, <1>2
  <2>1. ApplyUpdate(f, e) = Buffered(r, e)
    BY <1>2, <2>0, Zenon DEF ApplyUpdate
  <2>2. r \in Books(Ids) /\ r.gen = e.gen /\ r.epoch = f.epoch + 1 /\ ~r.sync /\ r.pending = <<>>
    BY <1>0, ResetType, ZenonT(60)
  <2> HIDE DEF r
  <2>3. Len(r.pending) = 0
    BY <2>2
  <2>4. /\ Follows(Ids, r, Buffered(r, e).book) /\ Exact(G, Ids, Buffered(r, e).book)
        /\ ~Buffered(r, e).book.sync /\ Buffered(r, e).book.gen = e.gen
    BY <2>2, <2>3, BufferedKeeps
  <2>5. Buffered(r, e).book.gen \in Nat /\ Buffered(r, e).book.epoch \in Nat
    BY <2>4 DEF Follows, Books
  <2> QED BY <1>0, <1>2, <2>1, <2>2, <2>4, <2>5, SMTT(30) DEF Follows
<1>3. CASE e.gen = f.gen /\ ~f.sync
  <2>1. ApplyUpdate(f, e) = Buffered(f, e)
    BY <1>0, <1>3 DEF ApplyUpdate
  <2>2. \A i \in 1..Len(f.pending) : f.pending[i].kind = "update" /\ Fits(G, f.pending[i])
    BY <1>3 DEF Exact
  <2> QED BY <1>3, <2>1, <2>2, BufferedKeeps
<1>4. CASE e.gen = f.gen /\ f.sync /\ e.seq <= f.seq
  <2>1. ApplyUpdate(f, e).book = f
    BY <1>0, <1>4 DEF ApplyUpdate, Outcome
  <2> QED BY <1>4, <1>f, <2>1
<1>5. CASE e.gen = f.gen /\ f.sync /\ ~(e.seq <= f.seq) /\ e.prev # f.seq
  <2> DEFINE r == [Desynchronized(f) EXCEPT !.pending = <<>>]
  <2>1. ApplyUpdate(f, e) = Buffered(r, e)
    BY <1>0, <1>5 DEF ApplyUpdate
  <2>2. r \in Books(Ids) /\ r.gen = f.gen /\ r.epoch = f.epoch /\ ~r.sync /\ r.pending = <<>>
    <3>1. None \in Int /\ <<>> \in Seq(BookEvents(Ids))
      BY DEF None
    <3> QED BY <3>1 DEF Desynchronized, Books
  <2> HIDE DEF r
  <2>3. Len(r.pending) = 0
    BY <2>2
  <2>4. /\ Follows(Ids, r, Buffered(r, e).book) /\ Exact(G, Ids, Buffered(r, e).book)
        /\ ~Buffered(r, e).book.sync /\ Buffered(r, e).book.gen = e.gen
    BY <1>5, <2>2, <2>3, BufferedKeeps
  <2> QED BY <2>1, <2>2, <2>4 DEF Follows
<1>6. CASE e.gen = f.gen /\ f.sync /\ ~(e.seq <= f.seq) /\ e.prev = f.seq
  <2> DEFINE o == Applied(f, e)
  <2>1. ApplyUpdate(f, e) = o
    BY <1>0, <1>6 DEF ApplyUpdate
  <2>2. Exact(G, Ids, f) /\ Correct(G, Ids, f) /\ f.seq < e.seq /\ e.prev <= f.seq
    BY <1>0, <1>6 DEF Exact
  <2>3. o \in Advances(G, Ids, f, e)
    BY <1>6, <2>2, AppliedKeeps
  <2> HIDE DEF o
  <2>4. PICK g \in Books(Ids) : g = o.book
    BY <2>3 DEF Advances
  <2>5. /\ g.sync => Correct(G, Ids, g) /\ g.since = f.since /\ g.seq = e.seq
        /\ g.gen = f.gen /\ g.epoch = f.epoch /\ g.pending = f.pending
    BY <2>3, <2>4 DEF Advances
  <2>6. Exact(G, Ids, g)
    BY <2>2, <2>5 DEF Exact
  <2> QED BY <1>0, <1>6, <2>1, <2>2, <2>4, <2>5, <2>6 DEF Follows
<1> QED BY <1>0, <1>1, <1>2, <1>3, <1>4, <1>5, <1>6

(* A pending update replayed: the outcome stays what the loaded snapshot   *)
(* made it, further on or no longer synchronized.                          *)
Replays(G, Ids, g) ==
    {o \in [book : Books(Ids), status : {"ACCEPTED", "BOOK_INVALIDATED"}] :
        /\ o.book.sync => /\ Correct(G, Ids, o.book) /\ g.sync
                          /\ o.book.since = g.since /\ o.book.seq >= g.seq
        /\ o.book.gen = g.gen /\ o.book.epoch = g.epoch /\ o.book.pending = <<>>}

LEMMA ReplayStepKeeps ==
  ASSUME NEW Ids, Ids \subseteq Nat, NEW G, NEW s \in Books(Ids), s.seq \in Ids,
         NEW o \in Replays(G, Ids, s), NEW e \in BookEvents(Ids), e.kind = "update", Fits(G, e)
  PROVE  ReplayStep(o, e) \in Replays(G, Ids, s)
<1>f. PICK f \in Books(Ids) : f = o.book
  BY DEF Replays
<1>0. /\ o \in [book : Books(Ids), status : {"ACCEPTED", "BOOK_INVALIDATED"}]
      /\ f.sync => Correct(G, Ids, f) /\ s.sync /\ f.since = s.since /\ f.seq >= s.seq
      /\ f.gen = s.gen /\ f.epoch = s.epoch /\ f.pending = <<>>
  BY <1>f DEF Replays
<1>1. e.seq \in Ids /\ e.prev \in Int /\ f.seq \in {None} \cup Ids
  BY DEF Books, BookEvents
<1>2. f.seq \in Int /\ e.seq \in Int /\ s.seq \in Int
  BY <1>1, IdIsNumber
<1>3. CASE o.status # "ACCEPTED" \/ e.seq <= f.seq
  BY <1>3, <1>f DEF ReplayStep
<1>4. CASE ~(o.status # "ACCEPTED" \/ e.seq <= f.seq) /\ e.prev > f.seq
  <2>1. ReplayStep(o, e) = [book |-> Desynchronized(f), status |-> "BOOK_INVALIDATED"]
    BY <1>4, <1>f DEF ReplayStep, Outcome
  <2>2. /\ Desynchronized(f) \in Books(Ids) /\ ~Desynchronized(f).sync
        /\ Desynchronized(f).gen = f.gen /\ Desynchronized(f).epoch = f.epoch
        /\ Desynchronized(f).pending = f.pending
    BY DesynchronizedType
  <2> QED BY <1>0, <2>1, <2>2 DEF Replays
<1>5. CASE ~(o.status # "ACCEPTED" \/ e.seq <= f.seq) /\ ~(e.prev > f.seq)
  <2>1. ReplayStep(o, e) = Applied(f, e)
    BY <1>5, <1>f DEF ReplayStep
  <2>2. /\ f.sync => Correct(G, Ids, f) /\ s.sync /\ f.since = s.since /\ f.seq >= s.seq
        /\ f.seq < e.seq /\ e.prev <= f.seq
    BY <1>0, <1>1, <1>2, <1>5
  <2>3. Applied(f, e) \in Advances(G, Ids, f, e)
    BY <2>2, AppliedKeeps
  <2>4. f.sync => e.seq >= s.seq
    BY <1>2, <2>2
  <2>5. PICK p \in [book : Books(Ids), status : {"ACCEPTED", "BOOK_INVALIDATED"}] :
            p = Applied(f, e)
    BY <2>3 DEF Advances
  <2>6. /\ p.book.sync => /\ Correct(G, Ids, p.book) /\ f.sync
                          /\ p.book.since = f.since /\ p.book.seq = e.seq
        /\ p.book.gen = f.gen /\ p.book.epoch = f.epoch /\ p.book.pending = f.pending
    BY <2>3, <2>5 DEF Advances
  <2>7. p \in Replays(G, Ids, s)
    BY <1>0, <2>2, <2>4, <2>6 DEF Replays
  <2> QED BY <2>1, <2>5, <2>7
<1> QED BY <1>3, <1>4, <1>5

(* The book a snapshot loads *)
Loaded(f, e) ==
    LET levels == Overlay(NoLevels, e.levels)
    IN  [Reset(f, e.gen, ~Continuing(f, e)) EXCEPT
            !.levels = levels, !.seq = e.seq, !.sync = TwoSided(levels),
            !.since = IF ~TwoSided(levels) THEN None
                      ELSE IF Continuing(f, e) THEN f.since ELSE e.at]

LEMMA LoadedType ==
  ASSUME NEW Ids, NEW f \in Books(Ids), NEW e \in BookEvents(Ids)
  PROVE  LET l == Loaded(f, e)
             levels == Overlay(NoLevels, e.levels)
         IN  /\ l \in Books(Ids) /\ l.pending = <<>> /\ l.gen = e.gen
             /\ l.seq = e.seq /\ l.sync = TwoSided(levels) /\ l.levels = levels
             /\ l.epoch = IF Continuing(f, e) THEN f.epoch ELSE f.epoch + 1
             /\ TwoSided(levels) => l.since = IF Continuing(f, e) THEN f.since ELSE e.at
<1> DEFINE levels == Overlay(NoLevels, e.levels)
           l == Loaded(f, e)
<1>0. /\ f.epoch \in Nat /\ e.gen \in Nat /\ e.seq \in Ids /\ e.levels \in Changes
      /\ e.at \in Int /\ f.since \in Int
  BY DEF Books, BookEvents
<1>l. levels \in [Levels -> Nat]
  BY <1>0, ZeroLevels, OverlayType
<1>d. l = [Reset(f, e.gen, ~Continuing(f, e)) EXCEPT
              !.levels = levels, !.seq = e.seq, !.sync = TwoSided(levels),
              !.since = IF ~TwoSided(levels) THEN None
                        ELSE IF Continuing(f, e) THEN f.since ELSE e.at]
  BY DEF Loaded
<1> HIDE DEF levels, l
<1>t. TwoSided(levels) \in BOOLEAN /\ None \in Int
  BY DEF TwoSided, None
<1>1. CASE Continuing(f, e)
  <2>1. PICK r \in Books(Ids) :
          /\ r = Reset(f, e.gen, ~Continuing(f, e))
          /\ r.gen = e.gen /\ r.epoch = f.epoch /\ r.pending = <<>>
    <3> DEFINE q == [gen |-> e.gen, epoch |-> f.epoch, seq |-> None, sync |-> FALSE,
                     since |-> None, levels |-> NoLevels, pending |-> <<>>]
    <3>1. Reset(f, e.gen, ~Continuing(f, e)) = q
      BY <1>1, Zenon DEF Reset
    <3>2. None \in Int
      BY DEF None
    <3>3. q \in Books(Ids) /\ q.gen = e.gen /\ q.epoch = f.epoch /\ q.pending = <<>>
      BY <1>0, <3>2, ZeroLevels DEF Books
    <3> HIDE DEF q
    <3> QED BY <3>1, <3>3
  <2> DEFINE since == IF ~TwoSided(levels) THEN None ELSE f.since
             L == [r EXCEPT !.levels = levels, !.seq = e.seq, !.sync = TwoSided(levels),
                            !.since = since]
  <2>2. l = L
    BY <1>1, <1>d, <2>1, Zenon
  <2>3. /\ L \in Books(Ids) /\ L.pending = <<>> /\ L.gen = e.gen
        /\ L.seq = e.seq /\ L.sync = TwoSided(levels) /\ L.levels = levels
        /\ L.epoch = f.epoch /\ L.since = since
    <3>1. since \in Int
      BY <1>0, <1>t
    <3> HIDE DEF since
    <3> QED BY <1>0, <1>l, <1>t, <2>1, <3>1 DEF Books
  <2> HIDE DEF l, L
  <2> QED BY <1>1, <2>2, <2>3 DEF l, levels
<1>2. CASE ~Continuing(f, e)
  <2>1. PICK r \in Books(Ids) :
          /\ r = Reset(f, e.gen, ~Continuing(f, e))
          /\ r.gen = e.gen /\ r.epoch = f.epoch + 1 /\ r.pending = <<>>
    <3> DEFINE q == [gen |-> e.gen, epoch |-> f.epoch + 1, seq |-> None, sync |-> FALSE,
                     since |-> None, levels |-> NoLevels, pending |-> <<>>]
    <3>1. Reset(f, e.gen, ~Continuing(f, e)) = q
      BY <1>2, Zenon DEF Reset
    <3>2. None \in Int
      BY DEF None
    <3>3. q \in Books(Ids) /\ q.gen = e.gen /\ q.epoch = f.epoch + 1 /\ q.pending = <<>>
      BY <1>0, <3>2, ZeroLevels DEF Books
    <3> HIDE DEF q
    <3> QED BY <3>1, <3>3
  <2> DEFINE since == IF ~TwoSided(levels) THEN None ELSE e.at
             L == [r EXCEPT !.levels = levels, !.seq = e.seq, !.sync = TwoSided(levels),
                            !.since = since]
  <2>2. l = L
    BY <1>2, <1>d, <2>1, Zenon
  <2>3. /\ L \in Books(Ids) /\ L.pending = <<>> /\ L.gen = e.gen
        /\ L.seq = e.seq /\ L.sync = TwoSided(levels) /\ L.levels = levels
        /\ L.epoch = f.epoch + 1 /\ L.since = since
    <3>1. since \in Int
      BY <1>0, <1>t
    <3> HIDE DEF since
    <3> QED BY <1>0, <1>l, <1>t, <2>1, <3>1 DEF Books
  <2> HIDE DEF l, L
  <2> QED BY <1>2, <2>2, <2>3 DEF l, levels
<1> QED BY <1>1, <1>2

(* apply_snapshot *)
LEMMA SnapshotKeeps ==
  ASSUME NEW Ids, Ids \subseteq Nat, NEW G, NEW f \in Books(Ids), NEW e \in BookEvents(Ids),
         PendingCapacity \in Nat \ {0}, Len(f.pending) <= PendingCapacity,
         e.kind = "snapshot", Fits(G, e), e.gen = f.gen => Exact(G, Ids, f)
  PROVE  /\ Follows(Ids, f, ApplySnapshot(f, e).book)
         /\ e.gen >= f.gen => Exact(G, Ids, ApplySnapshot(f, e).book)
         /\ ApplySnapshot(f, e).book.gen \in {f.gen, e.gen}
<1>0. /\ f.gen \in Nat /\ f.epoch \in Nat /\ e.gen \in Nat
      /\ e.at \in Int /\ f.since \in Int /\ e.seq \in Ids /\ e.levels \in Changes
      /\ f.pending \in Seq(BookEvents(Ids))
  BY DEF Books, BookEvents
<1>i. e.seq \in Int /\ f.seq \in Int
  <2>1. f.seq \in {None} \cup Ids
    BY DEF Books
  <2> QED BY <1>0, <2>1, IdIsNumber
<1>1. Follows(Ids, f, f)
  BY <1>0, <1>i DEF Follows
<1> DEFINE levels == Overlay(NoLevels, e.levels)
           updates == IF e.gen = f.gen THEN BySequence(f.pending) ELSE <<>>
           l == Loaded(f, e)
<1>2. levels \in [Levels -> Nat] /\ <<e.seq, levels>> \in G
  <2>1. levels \in [Levels -> Nat]
    BY <1>0, ZeroLevels, OverlayType
  <2> QED BY <2>1 DEF Fits
<1>3. CASE e.gen < f.gen
  <2>1. ApplySnapshot(f, e).book = f
    BY <1>3 DEF ApplySnapshot, Outcome
  <2> QED BY <1>0, <1>1, <1>3, <2>1
<1>4. CASE ~(e.gen < f.gen) /\ Continuing(f, e) /\ e.seq <= f.seq
  <2>1. ApplySnapshot(f, e).book = f
    BY <1>4 DEF ApplySnapshot, Outcome
  <2>2. e.gen = f.gen
    BY <1>4 DEF Continuing
  <2> QED BY <1>1, <2>1, <2>2
<1>5. CASE ~(e.gen < f.gen) /\ ~(Continuing(f, e) /\ e.seq <= f.seq)
  <2> HIDE DEF levels
  <2>1. /\ l \in Books(Ids) /\ l.pending = <<>> /\ l.gen = e.gen
        /\ l.seq = e.seq /\ l.sync = TwoSided(levels) /\ l.levels = levels
        /\ l.epoch = IF Continuing(f, e) THEN f.epoch ELSE f.epoch + 1
        /\ TwoSided(levels) => l.since = IF Continuing(f, e) THEN f.since ELSE e.at
    BY LoadedType DEF levels
  <2>2. ApplySnapshot(f, e)
          = IF TwoSided(levels) /\ ~Sound(levels)
            THEN Outcome(Desynchronized(l), "BOOK_INVALIDATED")
            ELSE Replayed(Outcome(l, "ACCEPTED"), updates)
    BY <1>5 DEF ApplySnapshot, Loaded, levels
  <2>3. PICK L : L = l
    OBVIOUS
  <2>4. PICK u : u = updates
    OBVIOUS
  <2>5. ApplySnapshot(f, e)
          = IF TwoSided(levels) /\ ~Sound(levels)
            THEN Outcome(Desynchronized(L), "BOOK_INVALIDATED")
            ELSE Replayed(Outcome(L, "ACCEPTED"), u)
    BY <2>2, <2>3, <2>4
  <2>6. /\ L \in Books(Ids) /\ L.pending = <<>> /\ L.gen = e.gen
        /\ L.seq = e.seq /\ L.sync = TwoSided(levels) /\ L.levels = levels
        /\ L.epoch = IF Continuing(f, e) THEN f.epoch ELSE f.epoch + 1
        /\ TwoSided(levels) => L.since = IF Continuing(f, e) THEN f.since ELSE e.at
    BY <2>1, <2>3
  <2> DEFINE U == {x \in BookEvents(Ids) : x.kind = "update" /\ Fits(G, x)}
  <2>7. u \in Seq(U)
    <3>1. CASE e.gen = f.gen
      <4>1. \A i \in 1..Len(f.pending) : f.pending[i] \in U
        BY <1>0, <3>1 DEF Exact
      <4> HIDE DEF U
      <4>2. f.pending \in Seq(U)
        BY <1>0, <4>1, SMTT(30)
      <4> QED BY <2>4, <3>1, <4>2, SortedType
    <3>2. CASE e.gen # f.gen
      <4> HIDE DEF U
      <4> QED BY <2>4, <3>2
    <3> QED BY <3>1, <3>2
  <2> HIDE DEF l, updates
  <2>8. ASSUME NEW g \in Books(Ids), g.gen = L.gen, g.epoch = L.epoch, g.pending = <<>>,
               g.sync => Correct(G, Ids, g) /\ g.since = L.since /\ g.seq >= L.seq,
               g.sync => TwoSided(levels)
        PROVE  Follows(Ids, f, g) /\ Exact(G, Ids, g)
    <3>1. Len(g.pending) = 0
      BY <2>8
    <3>2. Exact(G, Ids, g)
      BY <2>8, <3>1 DEF Exact
    <3>3. g.gen >= f.gen /\ g.epoch >= f.epoch /\ Len(g.pending) <= PendingCapacity
      BY <1>0, <1>5, <2>6, <2>8, <3>1
    <3>4. ASSUME g.epoch = f.epoch, g.sync
          PROVE  f.sync /\ g.since = f.since /\ g.seq >= f.seq
      <4>1. Continuing(f, e)
        BY <1>0, <2>6, <2>8, <3>4
      <4>2. g.since = f.since /\ g.seq >= e.seq /\ ~(e.seq <= f.seq)
        BY <1>5, <2>6, <2>8, <3>4, <4>1
      <4>3. g.seq \in Int
        <5>1. g.seq \in {None} \cup Ids
          BY DEF Books
        <5> QED BY <5>1, IdIsNumber
      <4>4. g.seq >= f.seq
        BY <1>i, <4>2, <4>3
      <4> QED BY <4>1, <4>2, <4>4 DEF Continuing
    <3> QED BY <2>8, <3>2, <3>3, <3>4 DEF Follows
  <2>9. CASE TwoSided(levels) /\ ~Sound(levels)
    <3>1. ApplySnapshot(f, e).book = Desynchronized(L)
      BY <2>5, <2>9 DEF Outcome
    <3>2. PICK g \in Books(Ids) : g = Desynchronized(L)
      BY <2>6, DesynchronizedType
    <3>3. ~g.sync /\ g.gen = L.gen /\ g.epoch = L.epoch /\ g.pending = <<>>
      BY <2>6, <3>2, DesynchronizedType
    <3> QED BY <2>6, <2>8, <3>1, <3>2, <3>3
  <2>10. CASE ~TwoSided(levels) \/ Sound(levels)
    <3> DEFINE Good == Replays(G, Ids, L)
               o == [book |-> L, status |-> "ACCEPTED"]
    <3>1. ApplySnapshot(f, e) = Replayed(o, u)
      BY <2>5, <2>10 DEF Outcome
    <3>2. L.sync => Correct(G, Ids, L)
      BY <1>0, <1>2, <2>6, <2>10 DEF Correct
    <3>3. o \in Good
      BY <1>i, <2>6, <3>2 DEF Replays
    <3>4. ASSUME NEW x \in Good, NEW i \in 1..Len(u)
          PROVE  ReplayStep(x, u[i]) \in Good
      <4>1. PICK ev \in U : ev = u[i]
        <5> HIDE DEF U
        <5> QED BY <2>7
      <4>2. ev \in BookEvents(Ids) /\ ev.kind = "update" /\ Fits(G, ev)
        OBVIOUS
      <4>3. L.seq \in Ids
        BY <1>0, <2>6
      <4>4. ReplayStep(x, ev) \in Good
        BY <2>6, <4>2, <4>3, ReplayStepKeeps
      <4> QED BY <4>1, <4>4
    <3>e. ASSUME NEW x \in Good PROVE Outcome(x.book, "BOOK_INVALIDATED") \in Good
      BY DEF Replays, Outcome
    <3> HIDE DEF Good, o, U
    <3>5. Replayed(o, u) \in Good
      BY <2>7, <3>3, <3>4, <3>e, ReplayKeeps
    <3>6. PICK p \in [book : Books(Ids), status : {"ACCEPTED", "BOOK_INVALIDATED"}] :
            p = Replayed(o, u)
      BY <3>5 DEF Replays, Good
    <3>7. PICK g \in Books(Ids) : g = p.book
      OBVIOUS
    <3>8. /\ g.sync => Correct(G, Ids, g) /\ L.sync /\ g.since = L.since /\ g.seq >= L.seq
          /\ g.gen = L.gen /\ g.epoch = L.epoch /\ g.pending = <<>>
      BY <3>5, <3>6, <3>7 DEF Replays, Good
    <3>9. g.sync => TwoSided(levels)
      BY <2>6, <3>8
    <3> QED BY <2>6, <2>8, <3>1, <3>6, <3>7, <3>8, <3>9
  <2> QED BY <2>9, <2>10
<1> QED BY <1>3, <1>4, <1>5

(* An event that fits leaves the book correct and continues it, whichever  *)
(* branch takes it.                                                        *)
LEMMA ApplyKeeps ==
  ASSUME NEW Ids, Ids \subseteq Nat, NEW G, NEW f \in Books(Ids), NEW e \in BookEvents(Ids),
         PendingCapacity \in Nat \ {0}, Len(f.pending) <= PendingCapacity,
         Fits(G, e), e.gen = f.gen => Exact(G, Ids, f)
  PROVE  /\ Follows(Ids, f, Apply(f, e).book)
         /\ e.gen >= f.gen \/ Exact(G, Ids, f) => Exact(G, Ids, Apply(f, e).book)
         /\ Apply(f, e).book.gen \in {f.gen, e.gen}
<1>0. e.gen < f.gen => Apply(f, e).book = f
  BY DEF Apply, ApplySnapshot, ApplyUpdate, Outcome
<1>g. e.gen \in Nat /\ f.gen \in Nat
  BY DEF BookEvents, Books
<1>1. CASE e.kind = "snapshot"
  <2>1. Apply(f, e) = ApplySnapshot(f, e)
    BY <1>1 DEF Apply
  <2>2. /\ Follows(Ids, f, ApplySnapshot(f, e).book)
        /\ e.gen >= f.gen => Exact(G, Ids, ApplySnapshot(f, e).book)
        /\ ApplySnapshot(f, e).book.gen \in {f.gen, e.gen}
    BY <1>1, SnapshotKeeps
  <2> QED BY <1>0, <1>g, <2>1, <2>2
<1>2. CASE e.kind = "update"
  <2>1. Apply(f, e) = ApplyUpdate(f, e)
    BY <1>2 DEF Apply
  <2>2. /\ Follows(Ids, f, ApplyUpdate(f, e).book)
        /\ e.gen >= f.gen => Exact(G, Ids, ApplyUpdate(f, e).book)
        /\ ApplyUpdate(f, e).book.gen \in {f.gen, e.gen}
    BY <1>2, UpdateKeeps
  <2> QED BY <1>0, <1>g, <2>1, <2>2
<1> QED BY <1>1, <1>2 DEF BookEvents

----------------------------------------------------------------------------
(* A book of generation g that follows another: where it is synchronized   *)
(* it has the other's levels, and nothing of it is beyond the sequence id  *)
(* s of the other.                                                         *)
Behind(g, levels, s) ==
    {f \in Books(Nat) :
        f.gen = g =>
            /\ f.sync => f.levels = levels /\ f.seq <= s
            /\ \A i \in 1..Len(f.pending) : f.pending[i].seq <= s}

(* The updates kept are older than the snapshot: the replay skips them.    *)
LEMMA ReplaySkips ==
  ASSUME NEW S, NEW u \in Seq(S), NEW L,
         \A i \in 1..Len(u) : u[i].seq <= L.seq
  PROVE  Replayed(Outcome(L, "ACCEPTED"), u).book = L
<1> DEFINE Good == {Outcome(L, "ACCEPTED"), Outcome(L, "BOOK_INVALIDATED")}
<1>1. \A x \in Good : x.book = L
  BY DEF Outcome
<1>2. ASSUME NEW x \in Good, NEW i \in 1..Len(u) PROVE ReplayStep(x, u[i]) \in Good
  <2>1. ReplayStep(x, u[i]) = x
    BY <1>1 DEF ReplayStep
  <2> QED BY <2>1
<1>3. ASSUME NEW x \in Good PROVE Outcome(x.book, "BOOK_INVALIDATED") \in Good
  BY <1>1
<1>4. Outcome(L, "ACCEPTED") \in Good
  OBVIOUS
<1> HIDE DEF Good
<1>5. Replayed(Outcome(L, "ACCEPTED"), u) \in Good
  BY <1>2, <1>3, <1>4, ReplayKeeps
<1> QED BY <1>1, <1>5

LEMMA SnapshotTracks ==
  ASSUME NEW g \in Nat, NEW before, NEW s \in Int, NEW f \in Behind(g, before, s),
         NEW e \in BookEvents(Nat), e.kind = "snapshot", e.gen = g, f.gen <= g, s <= e.seq,
         e.seq = s => before = Overlay(NoLevels, e.levels)
  PROVE  ApplySnapshot(f, e).book \in Behind(g, Overlay(NoLevels, e.levels), e.seq)
<1>0. /\ f \in Books(Nat) /\ f.gen \in Nat /\ e.seq \in Nat /\ f.seq \in Int
      /\ f.pending \in Seq(BookEvents(Nat))
  <2>1. f \in Books(Nat)
    BY DEF Behind
  <2> QED BY <2>1 DEF Books, BookEvents, None
<1>1. CASE Continuing(f, e) /\ e.seq <= f.seq
  <2>1. ApplySnapshot(f, e).book = f
    BY <1>0, <1>1 DEF ApplySnapshot, Outcome
  <2>2. f.gen = g /\ f.sync
    BY <1>1 DEF Continuing
  <2>3. f.levels = before /\ f.seq <= s /\ \A i \in 1..Len(f.pending) : f.pending[i].seq <= s
    BY <2>2 DEF Behind
  <2>4. e.seq = s
    BY <1>0, <1>1, <2>3
  <2> QED BY <1>0, <2>1, <2>3, <2>4 DEF Behind
<1>2. CASE ~(Continuing(f, e) /\ e.seq <= f.seq)
  <2> DEFINE levels == Overlay(NoLevels, e.levels)
  <2>1. PICK u : u = IF e.gen = f.gen THEN BySequence(f.pending) ELSE <<>>
    OBVIOUS
  <2>2. PICK L : L = Loaded(f, e)
    OBVIOUS
  <2>3. ApplySnapshot(f, e)
          = IF TwoSided(levels) /\ ~Sound(levels)
            THEN Outcome(Desynchronized(L), "BOOK_INVALIDATED")
            ELSE Replayed(Outcome(L, "ACCEPTED"), u)
    <3>1. ~(e.gen < f.gen)
      BY <1>0
    <3> QED BY <1>2, <2>1, <2>2, <3>1 DEF ApplySnapshot, Loaded
  <2>4. /\ L \in Books(Nat) /\ L.pending = <<>> /\ L.gen = e.gen
        /\ L.seq = e.seq /\ L.levels = levels
    BY <1>0, <2>2, LoadedType
  <2> HIDE DEF levels
  <2>5. ASSUME NEW h \in Books(Nat), h.pending = <<>>,
               h.sync => h.seq = e.seq /\ h.levels = levels
        PROVE  h \in Behind(g, levels, e.seq)
    <3>1. Len(h.pending) = 0
      BY <2>5
    <3> QED BY <1>0, <2>5, <3>1 DEF Behind
  <2>6. CASE TwoSided(levels) /\ ~Sound(levels)
    <3>1. ApplySnapshot(f, e).book = Desynchronized(L)
      BY <2>3, <2>6 DEF Outcome
    <3>2. PICK h \in Books(Nat) : h = Desynchronized(L)
      BY <2>4, DesynchronizedType
    <3>3. ~h.sync /\ h.pending = <<>>
      BY <2>4, <3>2, DesynchronizedType
    <3> QED BY <2>5, <3>1, <3>2, <3>3 DEF levels
  <2>7. CASE ~(TwoSided(levels) /\ ~Sound(levels))
    <3> DEFINE S == {x \in BookEvents(Nat) : x.seq <= e.seq}
    <3>1. u \in Seq(S)
      <4>1. CASE e.gen = f.gen
        <5>1. ASSUME NEW i \in 1..Len(f.pending) PROVE f.pending[i] \in S
          <6>1. PICK x \in BookEvents(Nat) : x = f.pending[i]
            BY <1>0
          <6>2. x.seq <= s /\ x.seq \in Nat
            BY <4>1, <6>1 DEF Behind, BookEvents
          <6>3. x.seq <= e.seq
            BY <1>0, <6>2
          <6> QED BY <6>1, <6>3
        <5> HIDE DEF S
        <5>2. f.pending \in Seq(S)
          BY <1>0, <5>1
        <5> QED BY <2>1, <4>1, <5>2, SortedType
      <4>2. CASE e.gen # f.gen
        <5> HIDE DEF S
        <5> QED BY <2>1, <4>2
      <4> QED BY <4>1, <4>2
    <3>2. ASSUME NEW i \in 1..Len(u) PROVE u[i].seq <= L.seq
      <4>1. u[i] \in S
        <5> HIDE DEF S
        <5> QED BY <3>1
      <4> QED BY <2>4, <4>1
    <3> HIDE DEF S
    <3>3. Replayed(Outcome(L, "ACCEPTED"), u).book = L
      BY <3>1, <3>2, ReplaySkips
    <3>4. ApplySnapshot(f, e).book = L
      BY <2>3, <2>7, <3>3
    <3> QED BY <2>4, <2>5, <3>4 DEF levels
  <2> QED BY <2>6, <2>7
<1> QED BY <1>1, <1>2

LEMMA UpdateTracks ==
  ASSUME NEW g \in Nat, NEW before, NEW s \in Int, NEW f \in Behind(g, before, s),
         NEW e \in BookEvents(Nat), e.kind = "update", e.gen = g, f.gen <= g, s <= e.seq,
         e.seq = s => before = Overlay(before, e.levels)
  PROVE  ApplyUpdate(f, e).book \in Behind(g, Overlay(before, e.levels), e.seq)
<1> DEFINE after == Overlay(before, e.levels)
<1>0. /\ f \in Books(Nat) /\ f.gen \in Nat /\ e.seq \in Nat /\ f.seq \in Int
      /\ f.pending \in Seq(BookEvents(Nat)) /\ e.gen \in Nat
  <2>1. f \in Books(Nat)
    BY DEF Behind
  <2> QED BY <2>1 DEF Books, BookEvents, None
<1>b. ASSUME NEW r \in Books(Nat), ~r.sync,
             \A i \in 1..Len(r.pending) : r.pending[i].seq <= e.seq
      PROVE  Buffered(r, e).book \in Behind(g, after, e.seq)
  <2> HIDE DEF after
  <2>1. CASE Len(r.pending) >= PendingCapacity
    <3>1. PICK h \in Books(Nat) : h = Reset(r, e.gen, TRUE)
      BY <1>0, ResetType
    <3>2. ~h.sync /\ h.pending = <<>>
      BY <1>0, <3>1, ResetType
    <3>3. Buffered(r, e).book = h
      BY <2>1, <3>1 DEF Buffered, Outcome
    <3>4. Len(h.pending) = 0
      BY <3>2
    <3> QED BY <3>2, <3>3, <3>4 DEF Behind
  <2>2. CASE ~(Len(r.pending) >= PendingCapacity)
    <3>0. r.pending \in Seq(BookEvents(Nat)) /\ Len(r.pending) \in Nat
      BY DEF Books
    <3>1. PICK p : p = Append(r.pending, e)
      OBVIOUS
    <3>2. p \in Seq(BookEvents(Nat)) /\ \A i \in 1..Len(p) : p[i].seq <= e.seq
      <4>1. p \in Seq(BookEvents(Nat)) /\ Len(p) = Len(r.pending) + 1
        BY <3>0, <3>1
      <4>2. ASSUME NEW i \in 1..Len(p) PROVE p[i].seq <= e.seq
        <5>1. CASE i = Len(p)
          BY <1>0, <3>0, <3>1, <4>1, <5>1
        <5>2. CASE i # Len(p)
          <6>1. i \in 1..Len(r.pending)
            BY <3>0, <4>1, <5>2
          <6>2. p[i] = r.pending[i]
            BY <3>0, <3>1, <6>1
          <6> QED BY <1>b, <6>1, <6>2
        <5> QED BY <5>1, <5>2
      <4> QED BY <4>1, <4>2
    <3>3. PICK h : h = [r EXCEPT !.pending = p]
      OBVIOUS
    <3>4. h \in Books(Nat) /\ ~h.sync /\ h.pending = p
      BY <1>b, <3>2, <3>3 DEF Books
    <3>5. Buffered(r, e).book = h
      BY <2>2, <3>1, <3>3 DEF Buffered, Outcome
    <3> QED BY <3>2, <3>4, <3>5 DEF Behind
  <2> QED BY <2>1, <2>2
<1> HIDE DEF after
<1>1. CASE e.gen > f.gen
  <2>1. PICK r \in Books(Nat) : r = Reset(f, e.gen, TRUE)
    BY <1>0, ResetType
  <2>2. ~r.sync /\ r.pending = <<>>
    BY <1>0, <2>1, ResetType
  <2>3. ~(e.gen < f.gen) /\ Len(r.pending) = 0
    BY <1>0, <2>2
  <2>4. ApplyUpdate(f, e) = Buffered(r, e)
    BY <1>1, <2>1, <2>3, Zenon DEF ApplyUpdate
  <2> QED BY <1>b, <2>2, <2>3, <2>4 DEF after
<1>2. CASE f.gen = g
  <2>0. /\ f.sync => f.levels = before /\ f.seq <= s
        /\ \A i \in 1..Len(f.pending) : f.pending[i].seq <= s
    BY <1>2 DEF Behind
  <2>1. \A i \in 1..Len(f.pending) : f.pending[i].seq <= e.seq
    <3> SUFFICES ASSUME NEW i \in 1..Len(f.pending) PROVE f.pending[i].seq <= e.seq
      OBVIOUS
    <3>1. PICK x \in BookEvents(Nat) : x = f.pending[i]
      BY <1>0
    <3>2. x.seq \in Nat /\ x.seq <= s
      BY <2>0, <3>1 DEF BookEvents
    <3> QED BY <1>0, <3>1, <3>2
  <2>2. CASE ~f.sync
    <3>1. ApplyUpdate(f, e) = Buffered(f, e)
      BY <1>0, <1>2, <2>2 DEF ApplyUpdate
    <3> QED BY <1>0, <1>b, <2>1, <2>2, <3>1 DEF after
  <2>3. CASE f.sync /\ e.seq <= f.seq
    <3>1. ApplyUpdate(f, e).book = f
      BY <1>0, <1>2, <2>3 DEF ApplyUpdate, Outcome
    <3>2. e.seq = s
      BY <1>0, <2>0, <2>3
    <3> QED BY <1>0, <2>0, <2>3, <3>1, <3>2 DEF Behind
  <2>4. CASE f.sync /\ ~(e.seq <= f.seq) /\ e.prev # f.seq
    <3>1. PICK r : r = [Desynchronized(f) EXCEPT !.pending = <<>>]
      OBVIOUS
    <3>2. r \in Books(Nat) /\ ~r.sync /\ r.pending = <<>>
      <4>1. None \in Int /\ <<>> \in Seq(BookEvents(Nat))
        BY DEF None
      <4> QED BY <1>0, <3>1, <4>1 DEF Desynchronized, Books
    <3>3. Len(r.pending) = 0
      BY <3>2
    <3>4. ApplyUpdate(f, e) = Buffered(r, e)
      BY <1>0, <1>2, <2>4, <3>1 DEF ApplyUpdate
    <3> QED BY <1>b, <3>2, <3>3, <3>4 DEF after
  <2>5. CASE f.sync /\ ~(e.seq <= f.seq) /\ e.prev = f.seq
    <3>1. f.levels = before /\ e.levels \in Changes /\ f.levels \in [Levels -> Nat]
      BY <1>0, <2>0, <2>5 DEF Books, BookEvents
    <3>2. PICK levels \in [Levels -> Nat] : levels = Overlay(before, e.levels)
      BY <3>1, OverlayType
    <3>3. PICK a : a = [f EXCEPT !.levels = levels, !.seq = e.seq]
      OBVIOUS
    <3>4. PICK b : b = [f EXCEPT !.levels = levels]
      OBVIOUS
    <3>5. ApplyUpdate(f, e) = IF Sound(levels) THEN Outcome(a, "ACCEPTED")
                              ELSE Outcome(Desynchronized(b), "BOOK_INVALIDATED")
      BY <1>0, <1>2, <2>5, <3>1, <3>2, <3>3, <3>4 DEF ApplyUpdate, Applied
    <3>6. a \in Books(Nat) /\ a.levels = levels /\ a.seq = e.seq /\ a.pending = f.pending
      BY <1>0, <3>2, <3>3 DEF Books
    <3>7. a \in Behind(g, levels, e.seq)
      BY <1>0, <2>1, <3>6 DEF Behind
    <3>8. b \in Books(Nat) /\ b.pending = f.pending
      BY <1>0, <3>2, <3>4 DEF Books
    <3>9. PICK d \in Books(Nat) : d = Desynchronized(b)
      BY <3>8, DesynchronizedType
    <3>10. ~d.sync /\ d.pending = f.pending
      BY <3>8, <3>9, DesynchronizedType
    <3>11. d \in Behind(g, levels, e.seq)
      BY <2>1, <3>10 DEF Behind
    <3> QED BY <3>2, <3>5, <3>7, <3>9, <3>11 DEF Outcome
  <2> QED BY <2>2, <2>3, <2>4, <2>5
<1> QED BY <1>0, <1>1, <1>2

(* A book that follows another still does once it has the event of the     *)
(* other's next book.                                                      *)
LEMMA ApplyTracks ==
  ASSUME NEW g \in Nat, NEW before, NEW after, NEW s \in Int, NEW f \in Behind(g, before, s),
         NEW e \in BookEvents(Nat), e.gen = g, f.gen <= g, s <= e.seq,
         e.seq = s => before = after,
         after = Overlay(IF e.kind = "snapshot" THEN NoLevels ELSE before, e.levels)
  PROVE  Apply(f, e).book \in Behind(g, after, e.seq)
<1>1. CASE e.kind = "snapshot"
  BY <1>1, SnapshotTracks DEF Apply
<1>2. CASE e.kind = "update"
  BY <1>2, UpdateTracks DEF Apply
<1> QED BY <1>1, <1>2 DEF BookEvents

LEMMA BehindStill ==
  ASSUME NEW g, NEW levels, NEW s \in Int, NEW t \in Int, s <= t, NEW f \in Behind(g, levels, s)
  PROVE  f \in Behind(g, levels, t)
<1>1. /\ f \in Books(Nat) /\ f.seq \in Int /\ f.pending \in Seq(BookEvents(Nat))
  <2>1. f \in Books(Nat)
    BY DEF Behind
  <2> QED BY <2>1 DEF Books, None
<1>2. ASSUME f.gen = g, NEW i \in 1..Len(f.pending) PROVE f.pending[i].seq <= t
  <2>1. PICK x \in BookEvents(Nat) : x = f.pending[i]
    BY <1>1
  <2>2. x.seq \in Nat /\ x.seq <= s
    BY <1>2, <2>1 DEF Behind, BookEvents
  <2> QED BY <2>1, <2>2
<1>3. f.gen = g /\ f.sync => f.levels = levels /\ f.seq <= t
  BY <1>1 DEF Behind
<1> QED BY <1>1, <1>2, <1>3 DEF Behind
=============================================================================
