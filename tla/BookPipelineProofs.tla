------------------------- MODULE BookPipelineProofs -------------------------
(***************************************************************************)
(* The Binance local order book, and its events on their way to the        *)
(* feature book, proved for every exchange, buffer, wire, feed, capacity   *)
(* and number of reconnections, on the live and on the replay path.        *)
(*                                                                         *)
(* The connector's invariant (BookInv) follows the diffs on their way:     *)
(* those in the buffer, in hand and on the wire keep the exchange's order. *)
(* A snapshot that is installed but has not met its diff is exact, and     *)
(* once a diff behind it has shown that it is too old, no diff to come can *)
(* bridge it: so the book cannot go LIVE on it while another snapshot is   *)
(* under way.                                                              *)
(*                                                                         *)
(* The pipeline's invariant (PInv) adds that what is in the feed are the   *)
(* exchange's own changes, that an event in processing has its place       *)
(* there, and that the feature book and the updates it keeps belong to the *)
(* exchange's book, whatever generation they carry (FeatureBookProofs,     *)
(* with the exchange's books for the correct ones).                        *)
(***************************************************************************)
EXTENDS BookPipeline, SequenceTheorems, TLAPS

FP == INSTANCE FeatureBookProofs

----------------------------------------------------------------------------
(* The exchange's book                                                     *)

LEMMA MinIsLeast ==
  ASSUME NEW T, T \subseteq Nat, T # {}
  PROVE  Min(T) \in T /\ \A m \in T : Min(T) <= m
  BY FP!LeastNumber DEF Min

LEMMA MaxIsGreatest ==
  ASSUME NEW n \in Nat, NEW T, T \subseteq 0..n, T # {}
  PROVE  Max(T) \in T /\ \A m \in T : m <= Max(T)
  BY FP!GreatestNumber DEF Max

LEMMA QuantityType ==
  ASSUME NEW k \in 1..MaxId, NEW l \in DOMAIN Change[k]
  PROVE  l \in Levels /\ Change[k][l] \in Nat
  BY ExchangeAssumption

LEMMA BookAtType ==
  ASSUME NEW n \in 0..MaxId
  PROVE  BookAt(n) \in [Levels -> Nat]
<1> SUFFICES ASSUME NEW l \in Levels, Setting(l, n) # {}
             PROVE  Change[Max(Setting(l, n))][l] \in Nat
  BY DEF BookAt
<1>1. MaxId \in Nat
  BY ExchangeAssumption
<1>2. Setting(l, n) \subseteq 0..n
  BY <1>1 DEF Setting
<1>3. Max(Setting(l, n)) \in Setting(l, n)
  BY <1>1, <1>2, MaxIsGreatest
<1> QED BY <1>1, <1>3, QuantityType DEF Setting

(* A message whose changes begin no later than the next one to come, laid  *)
(* over the book at s, gives the book at the message's last change.        *)
LEMMA OverlayIsExact ==
  ASSUME NEW s \in 0..MaxId, NEW d, d.first \in Nat, d.final \in 0..MaxId,
         d.first <= s + 1, s <= d.final
  PROVE  [l \in Levels |-> IF l \in Touched(d) THEN BookAt(d.final)[l] ELSE BookAt(s)[l]]
           = BookAt(d.final)
<1>1. MaxId \in Nat
  BY ExchangeAssumption
<1>2. ASSUME NEW l \in Levels, l \notin Touched(d)
      PROVE  BookAt(d.final)[l] = BookAt(s)[l]
  <2>1. Setting(l, s) \subseteq Setting(l, d.final)
    BY <1>1 DEF Setting
  <2>2. ASSUME NEW k \in Setting(l, d.final) PROVE k \in Setting(l, s)
    <3>1. k \in 1..d.final /\ l \in DOMAIN Change[k]
      BY DEF Setting
    <3>2. k \notin d.first..d.final
      BY <1>2, <3>1 DEF Touched
    <3> QED BY <1>1, <3>1, <3>2 DEF Setting
  <2>3. Setting(l, s) = Setting(l, d.final)
    BY <2>1, <2>2
  <2> QED BY <2>3 DEF BookAt
<1> QED BY <1>2 DEF BookAt

----------------------------------------------------------------------------
(* The connector's book                                                    *)

Statuses == {"BUFFERING", "LIVE", "RESYNC_REQUIRED"}
Ids == {None} \cup 1..MaxId
Books == [status : Statuses, gen : Nat, seq : Ids, levels : [Levels -> Nat],
          buffer : Seq(Diffs), pending : Ids]

(* A diff carries the changes behind its predecessor up to its last. *)
GoodDiff(d) == d \in Diffs /\ d.first = d.prev + 1 /\ d.prev < d.final

InOrder(s) == \A i, j \in DOMAIN s : i <= j => s[i].first <= s[j].first

Elements(s) == {s[i] : i \in DOMAIN s}
Stream == Elements(book.buffer) \cup inHand \cup Elements(wire)

Streaming ==
    /\ \A d \in Stream : GoodDiff(d) /\ d.final <= sentId
    /\ InOrder(book.buffer) /\ InOrder(wire)
    /\ \A b \in Elements(book.buffer), d \in inHand \cup Elements(wire) : b.first <= d.first
    /\ \A d \in inHand, w \in Elements(wire) : d.first <= w.first

(* What is in the book, LIVE or with a snapshot waiting for its diff. *)
ExactBook(b) ==
    /\ b.status = "LIVE" =>
          b.seq # None /\ b.pending = None /\ b.levels = BookAt(b.seq)
    /\ b.pending # None => b.seq = b.pending /\ b.levels = BookAt(b.pending)

Asking == task.phase \in {"requested", "fetched"}

(* A snapshot that has been given up is behind every diff to come. *)
GivenUp ==
    book.pending # None /\ (book.status = "RESYNC_REQUIRED" \/ Asking) =>
        book.pending <= sentId /\ \A d \in Stream : book.pending < d.first

Held == task.phase = "fetched" => task.last # None
Settled ==
    /\ book.status = "LIVE" => ~Asking
    /\ task.phase = "emitting" /\ book.status = "BUFFERING" => book.pending # None

BookInv ==
    /\ TypeOK /\ Streaming /\ ExactBook(book) /\ GivenUp /\ Held /\ Settled /\ HealthIsHonest

----------------------------------------------------------------------------
(* The operators of the book. *)

LEMMA Numbers == MaxId \in Nat /\ MaxId >= 1 /\ None = -1
  BY ExchangeAssumption DEF None

(* Laying a diff that overlaps or follows the book's sequence id over an   *)
(* exact book gives an exact book.                                         *)
LEMMA ApplyUpdateExact ==
  ASSUME NEW b \in Books, NEW d, GoodDiff(d), b.seq \in 1..MaxId,
         b.levels = BookAt(b.seq), d.first <= b.seq + 1, b.seq <= d.final
  PROVE  /\ ApplyUpdate(b, d) \in Books
         /\ ApplyUpdate(b, d).seq = d.final /\ d.final \in 1..MaxId
         /\ ApplyUpdate(b, d).levels = BookAt(d.final)
         /\ ApplyUpdate(b, d).status = b.status /\ ApplyUpdate(b, d).gen = b.gen
         /\ ApplyUpdate(b, d).buffer = b.buffer /\ ApplyUpdate(b, d).pending = b.pending
<1>1. d.first \in 1..MaxId /\ d.final \in 1..MaxId
  BY DEF GoodDiff, Diffs
<1>2. ApplyUpdate(b, d) = [b EXCEPT !.seq = d.final, !.levels =
        [l \in Levels |-> IF l \in Touched(d) THEN BookAt(d.final)[l] ELSE b.levels[l]]]
  BY DEF ApplyUpdate, Books
<1>3. [l \in Levels |-> IF l \in Touched(d) THEN BookAt(d.final)[l] ELSE b.levels[l]]
        = BookAt(d.final)
  BY <1>1, OverlayIsExact, Numbers
<1>4. ApplyUpdate(b, d) = [b EXCEPT !.seq = d.final, !.levels = BookAt(d.final)]
  BY <1>2, <1>3
<1>5. BookAt(d.final) \in [Levels -> Nat]
  BY <1>1, BookAtType, Numbers
<1> QED BY <1>1, <1>4, <1>5 DEF Books, Ids

(* The end of a sequence *)
Ending(t, s) == \E j \in 1..Len(s) + 1 : t = SubSeq(s, j, Len(s))

LEMMA EndingFacts ==
  ASSUME NEW S, NEW s \in Seq(S), NEW t, Ending(t, s)
  PROVE  /\ t \in Seq(S) /\ Len(t) <= Len(s)
         /\ Elements(t) \subseteq Elements(s)
         /\ InOrder(s) => InOrder(t)
<1>1. PICK j \in 1..Len(s) + 1 : t = SubSeq(s, j, Len(s))
  BY DEF Ending
<1>2. t \in Seq(S) /\ Len(t) = Len(s) - j + 1
  BY <1>1
<1>3. \A i \in 1..Len(t) : t[i] = s[i + j - 1] /\ i + j - 1 \in 1..Len(s)
  BY <1>1, <1>2
<1>4. DOMAIN t = 1..Len(t) /\ DOMAIN s = 1..Len(s)
  BY <1>2
<1>5. Elements(t) \subseteq Elements(s)
  BY <1>3, <1>4 DEF Elements
<1>6. InOrder(s) => InOrder(t)
  <2> SUFFICES ASSUME InOrder(s), NEW a \in 1..Len(t), NEW c \in 1..Len(t), a <= c
               PROVE  t[a].first <= t[c].first
    BY <1>4 DEF InOrder
  <2>1. a + j - 1 <= c + j - 1
    BY <1>2
  <2> QED BY <2>1, <1>3, <1>4 DEF InOrder
<1> QED BY <1>2, <1>5, <1>6

(* The chain is well defined: a function on the places of the buffer, each *)
(* of its values one step from the one before.                             *)
LEMMA ChainDefined ==
  ASSUME NEW b \in Books, NEW first \in 1..Len(b.buffer)
  PROVE  /\ Chain(b, first)[first]
              = [book |-> ApplyUpdate(b, b.buffer[first]), rest |-> <<>>]
         /\ \A k \in first + 1 .. Len(b.buffer) :
              Chain(b, first)[k] = ChainStep(Chain(b, first)[k - 1], b.buffer[k])
<1> DEFINE start == [book |-> ApplyUpdate(b, b.buffer[first]), rest |-> <<>>]
           Step(x, k) == ChainStep(x, b.buffer[k])
           P(c, n) == c = [k \in first..n |-> IF k = first THEN start ELSE Step(c[k - 1], k)]
           T == {n \in Nat : n >= first /\ ~\E c : P(c, n)}
<1>0. Len(b.buffer) \in Nat /\ first \in Nat /\ first <= Len(b.buffer)
  BY DEF Books
<1>1. Chain(b, first) = CHOOSE c : P(c, Len(b.buffer))
  BY DEF Chain
<1> HIDE DEF start, Step
<1>2. P([k \in {first} |-> start], first)
  <2>1. first..first = {first}
    BY <1>0
  <2> QED BY <2>1
<1>3. ASSUME NEW n \in Nat, n >= first, NEW c, P(c, n)
      PROVE  P([k \in first..n + 1 |-> IF k = n + 1 THEN Step(c[n], n + 1) ELSE c[k]], n + 1)
  <2> DEFINE g == [k \in first..n + 1 |-> IF k = n + 1 THEN Step(c[n], n + 1) ELSE c[k]]
  <2>1. ASSUME NEW k \in first..n + 1
        PROVE  g[k] = IF k = first THEN start ELSE Step(g[k - 1], k)
    <3>1. CASE k = n + 1
      <4>1. k # first /\ k - 1 = n /\ n \in first..n + 1 /\ n # n + 1
        BY <1>0, <1>3, <3>1
      <4>2. g[k] = Step(c[n], n + 1) /\ g[n] = c[n]
        BY <3>1, <4>1
      <4> QED BY <3>1, <4>1, <4>2
    <3>2. CASE k = first
      <4>1. first \in first..n /\ k # n + 1
        BY <1>0, <1>3, <3>2
      <4>2. c[first] = start
        BY <1>3, <4>1
      <4>3. g[k] = c[k]
        BY <4>1
      <4> QED BY <3>2, <4>2, <4>3
    <3>3. CASE k # n + 1 /\ k # first
      <4>1. k \in first..n /\ k - 1 \in first..n + 1 /\ k - 1 # n + 1
        BY <1>0, <3>3
      <4>2. g[k] = c[k] /\ g[k - 1] = c[k - 1]
        BY <3>3, <4>1
      <4>3. c[k] = Step(c[k - 1], k)
        BY <1>3, <3>3, <4>1
      <4> QED BY <3>3, <4>2, <4>3
    <3> QED BY <3>1, <3>2, <3>3
  <2>2. g = [k \in first..n + 1 |-> g[k]]
    OBVIOUS
  <2> HIDE DEF g
  <2>3. g = [k \in first..n + 1 |-> IF k = first THEN start ELSE Step(g[k - 1], k)]
    BY <2>1, <2>2
  <2>4. P(g, n + 1)
    BY <2>3
  <2> QED BY <2>4 DEF g
<1>4. \E c : P(c, Len(b.buffer))
  <2> SUFFICES ASSUME Len(b.buffer) \in T PROVE FALSE
    BY <1>0
  <2>1. PICK n \in T : \A m \in T : n <= m
    <3>1. T \subseteq Nat /\ T # {}
      OBVIOUS
    <3> HIDE DEF T
    <3> QED BY <3>1, FP!LeastNumber
  <2>2. n # first
    BY <2>1, <1>2
  <2>a. n \in Nat /\ n >= first
    BY <2>1
  <2>3. n - 1 \in Nat /\ n - 1 >= first /\ n - 1 \notin T
    <3> HIDE DEF T
    <3> QED BY <1>0, <2>a, <2>1, <2>2
  <2>4. PICK c : P(c, n - 1)
    BY <2>3
  <2>5. \E g : P(g, n - 1 + 1)
    <3> HIDE DEF P
    <3> QED BY <2>3, <2>4, <1>3
  <2>6. n - 1 + 1 = n
    BY <2>1
  <2> QED BY <2>1, <2>5, <2>6
<1>5. P(Chain(b, first), Len(b.buffer))
  <2> HIDE DEF P
  <2> QED BY <1>1, <1>4
<1>6. Chain(b, first)[first] = start
  <2>1. first \in first..Len(b.buffer)
    BY <1>0
  <2> QED BY <1>5, <2>1
<1>7. ASSUME NEW k \in first + 1 .. Len(b.buffer)
      PROVE  Chain(b, first)[k] = Step(Chain(b, first)[k - 1], k)
  <2>1. k \in first..Len(b.buffer) /\ k # first
    BY <1>0
  <2> QED BY <1>5, <2>1
<1> QED BY <1>6, <1>7 DEF start, Step

(* What the chain keeps at every place k of the buffer: the book is exact  *)
(* and of the same generation, and the rest ends what has been read.       *)
ChainKeeps(b, c, k) ==
    /\ c = [book |-> c.book, rest |-> c.rest] /\ c.book \in Books
    /\ c.book.seq \in 1..MaxId /\ c.book.levels = BookAt(c.book.seq)
    /\ c.book.gen = b.gen
    /\ c.rest \in Seq(Diffs) /\ Len(c.rest) <= k
    /\ \A i \in 1..Len(c.rest) : c.rest[i] = b.buffer[k - Len(c.rest) + i]

LEMMA ChainStepKeeps ==
  ASSUME NEW b \in Books, NEW k \in 1..Len(b.buffer), NEW c, ChainKeeps(b, c, k - 1),
         GoodDiff(b.buffer[k])
  PROVE  ChainKeeps(b, ChainStep(c, b.buffer[k]), k)
<1> DEFINE d == b.buffer[k]
           r == c.rest
<1>0. Len(b.buffer) \in Nat /\ k \in Nat /\ d \in Diffs /\ Len(r) \in Nat
  BY DEF GoodDiff, Books, ChainKeeps
<1>c. c = [book |-> c.book, rest |-> r] /\ c.book \in Books
  BY DEF ChainKeeps
<1>1. CASE r # <<>>
  <2>1. ChainStep(c, d) = [book |-> c.book, rest |-> Append(r, d)]
    BY <1>1, <1>c DEF ChainStep
  <2>2. /\ Append(r, d) \in Seq(Diffs) /\ Len(Append(r, d)) = Len(r) + 1
        /\ Len(r) + 1 <= k
    BY <1>0 DEF ChainKeeps
  <2>3. ASSUME NEW i \in 1..Len(r) + 1
        PROVE  Append(r, d)[i] = b.buffer[k - (Len(r) + 1) + i]
    <3>1. CASE i = Len(r) + 1
      <4>1. k - (Len(r) + 1) + i = k
        BY <1>0, <3>1
      <4>2. Append(r, d)[i] = d
        BY <1>0, <3>1 DEF ChainKeeps
      <4> QED BY <4>1, <4>2
    <3>2. CASE i # Len(r) + 1
      <4>1. i \in 1..Len(r) /\ k - (Len(r) + 1) + i = k - 1 - Len(r) + i
        BY <1>0, <3>2
      <4>2. Append(r, d)[i] = r[i]
        BY <4>1, <1>0 DEF ChainKeeps
      <4> QED BY <4>1, <4>2 DEF ChainKeeps
    <3> QED BY <3>1, <3>2
  <2>9. ChainKeeps(b, ChainStep(c, d), k)
    <3> HIDE DEF r, d
    <3> QED BY <2>1, <2>2, <2>3, <1>c DEF ChainKeeps
  <2> QED BY <2>9
<1>2. CASE r = <<>> /\ d.final <= c.book.seq
  <2>1. ChainStep(c, d) = c
    BY <1>2 DEF ChainStep
  <2>2. Len(r) = 0
    BY <1>2
  <2>3. Len(r) <= k /\ \A i \in 1..Len(r) : FALSE
    BY <2>2, <1>0
  <2>9. ChainKeeps(b, c, k)
    BY <2>3, <1>c DEF ChainKeeps
  <2> QED BY <2>1, <2>9
<1>3. CASE r = <<>> /\ ~(d.final <= c.book.seq) /\ d.prev # c.book.seq
  <2>1. ChainStep(c, d) = [book |-> c.book, rest |-> <<d>>]
    BY <1>3, <1>c DEF ChainStep
  <2>2. <<d>> \in Seq(Diffs) /\ Len(<<d>>) = 1 /\ <<d>>[1] = d /\ k - 1 + 1 = k
    BY <1>0
  <2>3. \A i \in 1..1 : <<d>>[i] = b.buffer[k - 1 + i]
    BY <2>2
  <2>9. ChainKeeps(b, ChainStep(c, d), k)
    <3> HIDE DEF r, d
    <3> QED BY <2>1, <2>2, <2>3, <1>c, <1>0 DEF ChainKeeps
  <2> QED BY <2>9
<1>4. CASE r = <<>> /\ ~(d.final <= c.book.seq) /\ d.prev = c.book.seq
  <2>1. ChainStep(c, d) = [book |-> ApplyUpdate(c.book, d), rest |-> <<>>]
    BY <1>4, <1>c DEF ChainStep
  <2>2. d.first <= c.book.seq + 1 /\ c.book.seq <= d.final /\ c.book.seq \in 1..MaxId
    BY <1>4, Numbers DEF GoodDiff, Diffs, ChainKeeps
  <2>3. /\ ApplyUpdate(c.book, d) \in Books
        /\ ApplyUpdate(c.book, d).seq = d.final /\ d.final \in 1..MaxId
        /\ ApplyUpdate(c.book, d).levels = BookAt(d.final)
        /\ ApplyUpdate(c.book, d).gen = c.book.gen
    BY <2>2, <1>c, ApplyUpdateExact DEF ChainKeeps
  <2>4. <<>> \in Seq(Diffs) /\ Len(<<>>) = 0
    OBVIOUS
  <2>5. Len(<<>>) <= k /\ \A i \in 1..Len(<<>>) : FALSE
    BY <2>4, <1>0
  <2>9. ChainKeeps(b, ChainStep(c, d), k)
    <3> HIDE DEF r, d
    <3> QED BY <2>1, <2>3, <2>4, <2>5, <1>c DEF ChainKeeps
  <2> QED BY <2>9
<1> QED BY <1>1, <1>2, <1>3, <1>4

LEMMA ChainKept ==
  ASSUME NEW b \in Books, NEW first \in 1..Len(b.buffer),
         \A d \in Elements(b.buffer) : GoodDiff(d),
         b.pending \in 1..MaxId, b.seq = b.pending, b.levels = BookAt(b.pending),
         Bridges(b.buffer[first], b.pending)
  PROVE  ChainKeeps(b, Chain(b, first)[Len(b.buffer)], Len(b.buffer))
<1> DEFINE Q(k) == ChainKeeps(b, Chain(b, first)[k], k)
           T == {k \in Nat : k \in first..Len(b.buffer) /\ ~Q(k)}
<1>0. Len(b.buffer) \in Nat /\ first \in Nat /\ first <= Len(b.buffer) /\ first >= 1
  BY DEF Books
<1>1. \A k \in 1..Len(b.buffer) : GoodDiff(b.buffer[k])
  BY DEF Elements, Books
<1>2. Q(first)
  <2> DEFINE d == b.buffer[first]
             u == ApplyUpdate(b, d)
  <2>1. GoodDiff(d) /\ d.first <= b.seq + 1 /\ b.seq <= d.final
    BY <1>1, Numbers DEF Bridges, GoodDiff, Diffs
  <2>2. /\ u \in Books /\ u.seq = d.final /\ d.final \in 1..MaxId
        /\ u.levels = BookAt(d.final) /\ u.gen = b.gen
    BY <2>1, ApplyUpdateExact
  <2>3. Chain(b, first)[first] = [book |-> u, rest |-> <<>>]
    BY ChainDefined
  <2>4. <<>> \in Seq(Diffs) /\ Len(<<>>) = 0
    OBVIOUS
  <2>5. Len(<<>>) <= first /\ \A i \in 1..Len(<<>>) : FALSE
    BY <2>4, <1>0
  <2> HIDE DEF u, d
  <2> QED BY <2>2, <2>3, <2>4, <2>5 DEF ChainKeeps
<1>3. ASSUME NEW k \in first + 1 .. Len(b.buffer), Q(k - 1) PROVE Q(k)
  <2>1. k \in 1..Len(b.buffer)
    BY <1>0
  <2>2. Chain(b, first)[k] = ChainStep(Chain(b, first)[k - 1], b.buffer[k])
    BY ChainDefined
  <2> QED BY <2>1, <2>2, <1>1, <1>3, ChainStepKeeps
<1> HIDE DEF Q
<1>4. T = {}
  <2> SUFFICES ASSUME T # {} PROVE FALSE
    OBVIOUS
  <2>1. PICK n \in T : \A m \in T : n <= m
    <3>1. T \subseteq Nat
      OBVIOUS
    <3> HIDE DEF T
    <3> QED BY <3>1, FP!LeastNumber
  <2>2. n \in Nat /\ n \in first..Len(b.buffer) /\ ~Q(n)
    BY <2>1
  <2>3. n # first
    BY <2>2, <1>2
  <2>4. n - 1 \in Nat /\ n - 1 \notin T
    <3> HIDE DEF T
    <3> QED BY <1>0, <2>1, <2>2, <2>3
  <2>5. n - 1 \in first..Len(b.buffer) /\ n \in first + 1 .. Len(b.buffer)
    BY <1>0, <2>2, <2>3
  <2>6. Q(n - 1)
    BY <2>4, <2>5
  <2> QED BY <2>2, <2>5, <2>6, <1>3
<1>5. Len(b.buffer) \in first..Len(b.buffer)
  BY <1>0
<1> QED BY <1>0, <1>4, <1>5 DEF Q

(* What _try_activate_snapshot may come to, for a book with an exact       *)
(* pending snapshot and a buffer in the exchange's order.                  *)
Waiting(b, r) ==
    /\ \A d \in Elements(b.buffer) : ~(d.final >= b.pending)
    /\ r = Result([b EXCEPT !.buffer = <<>>], "BUFFERED", FALSE)

TooOld(b, r) ==
    \E t \in Seq(Diffs) :
        /\ Ending(t, b.buffer) /\ t # <<>> /\ \A d \in Elements(t) : b.pending < d.first
        /\ r = Result([b EXCEPT !.buffer = t, !.status = "RESYNC_REQUIRED"],
                      "RETRY_SNAPSHOT", TRUE)

Broken(b, r) ==
    \E t \in Seq(Diffs) :
        /\ Ending(t, b.buffer)
        /\ r = Result([status |-> "RESYNC_REQUIRED", gen |-> b.gen + 1, seq |-> None,
                       levels |-> NoLevels, buffer |-> t, pending |-> None],
                      "SEQUENCE_GAP", TRUE)

Activated(b, r) ==
    \E live \in Books :
        /\ \E d \in Elements(b.buffer) : Bridges(d, b.pending)
        /\ live.status = "LIVE" /\ live.gen = b.gen /\ live.seq # None
        /\ live.levels = BookAt(live.seq) /\ live.buffer = <<>> /\ live.pending = None
        /\ r = Result(live, "SNAPSHOT_APPLIED", FALSE)

Installed(b) ==
    /\ b \in Books /\ b.status # "LIVE"
    /\ b.pending # None /\ b.seq = b.pending /\ b.levels = BookAt(b.pending)
    /\ \A d \in Elements(b.buffer) : GoodDiff(d)
    /\ InOrder(b.buffer)

LEMMA SelectFinal ==
  ASSUME NEW s \in Seq(Diffs), NEW last \in 1..MaxId, NEW k,
         k = SelectInSeq(s, LAMBDA d : d.final >= last)
  PROVE  /\ k \in 0..Len(s)
         /\ k # 0 => s[k].final >= last
         /\ k = 0 => \A i \in 1..Len(s) : ~(s[i].final >= last)
<1> DEFINE I == {i \in 1..Len(s) : s[i].final >= last}
<1>1. k = IF I # {} THEN Min(I) ELSE 0
  BY DEF SelectInSeq
<1>2. I \subseteq Nat
  OBVIOUS
<1>3. I # {} => Min(I) \in I
  <2> HIDE DEF I
  <2> QED BY <1>2, MinIsLeast
<1> QED BY <1>1, <1>3

LEMMA SelectBridging ==
  ASSUME NEW s \in Seq(Diffs), NEW last \in 1..MaxId, NEW k,
         k = SelectInSeq(s, LAMBDA d : Bridges(d, last))
  PROVE  /\ k \in 0..Len(s)
         /\ k # 0 => Bridges(s[k], last)
         /\ k = 0 => \A i \in 1..Len(s) : ~Bridges(s[i], last)
<1> DEFINE I == {i \in 1..Len(s) : Bridges(s[i], last)}
<1>1. k = IF I # {} THEN Min(I) ELSE 0
  BY DEF SelectInSeq
<1>2. I \subseteq Nat
  OBVIOUS
<1>3. I # {} => Min(I) \in I
  <2> HIDE DEF I
  <2> QED BY <1>2, MinIsLeast
<1> QED BY <1>1, <1>3

LEMMA LiveRecord ==
  ASSUME NEW b \in Books, NEW live,
         live = [b EXCEPT !.status = "LIVE", !.pending = None, !.buffer = <<>>]
  PROVE  /\ live \in Books /\ live.status = "LIVE" /\ live.gen = b.gen
         /\ live.seq = b.seq /\ live.levels = b.levels
         /\ live.buffer = <<>> /\ live.pending = None
<1>1. <<>> \in Seq(Diffs) /\ None \in Ids /\ "LIVE" \in Statuses
  BY DEF Ids, Statuses
<1> QED BY <1>1 DEF Books

LEMMA TryActivateOutcome ==
  ASSUME NEW b, Installed(b)
  PROVE  LET r == TryActivate(b)
         IN  Waiting(b, r) \/ TooOld(b, r) \/ Broken(b, r) \/ Activated(b, r)
<1> DEFINE last == b.pending
           keep == SelectInSeq(b.buffer, LAMBDA d : d.final >= last)
           buffer == IF keep = 0 THEN <<>> ELSE SubSeq(b.buffer, keep, Len(b.buffer))
           first == SelectInSeq(buffer, LAMBDA d : Bridges(d, last))
           trimmed == [b EXCEPT !.buffer = buffer]
           chain == Chain(trimmed, first)[Len(buffer)]
<1>0. b \in Books /\ last \in 1..MaxId /\ b.buffer \in Seq(Diffs) /\ Len(b.buffer) \in Nat
  BY DEF Installed, Books, Ids
<1>r. TryActivate(b) =
        IF buffer = <<>> THEN Result(trimmed, "BUFFERED", FALSE)
        ELSE IF first = 0 THEN
            IF buffer[1].first > last
            THEN Result([trimmed EXCEPT !.status = "RESYNC_REQUIRED"],
                        "RETRY_SNAPSHOT", TRUE)
            ELSE Result(trimmed, "BUFFERED", FALSE)
        ELSE IF chain.rest # <<>>
        THEN Result(Invalidated(chain.book, chain.rest), "SEQUENCE_GAP", TRUE)
        ELSE Result([chain.book EXCEPT !.status = "LIVE", !.pending = None, !.buffer = <<>>],
                    "SNAPSHOT_APPLIED", FALSE)
  BY DEF TryActivate
<1>k. /\ keep \in 0..Len(b.buffer) /\ (keep # 0 => b.buffer[keep].final >= last)
      /\ keep = 0 => \A i \in 1..Len(b.buffer) : ~(b.buffer[i].final >= last)
  BY <1>0, SelectFinal
<1> HIDE DEF keep
<1>b. buffer \in Seq(Diffs) /\ Ending(buffer, b.buffer)
  <2>1. CASE keep = 0
    <3>1. SubSeq(b.buffer, Len(b.buffer) + 1, Len(b.buffer)) = <<>>
      BY <1>0
    <3>2. Len(b.buffer) + 1 \in 1..Len(b.buffer) + 1
      BY <1>0
    <3> QED BY <2>1, <3>1, <3>2 DEF Ending
  <2>2. CASE keep # 0
    <3>1. keep \in 1..Len(b.buffer) + 1 /\ buffer = SubSeq(b.buffer, keep, Len(b.buffer))
      BY <1>0, <1>k, <2>2
    <3> QED BY <1>0, <3>1 DEF Ending
  <2> QED BY <2>1, <2>2
<1>h. buffer # <<>> => buffer[1].final >= last
  <2> SUFFICES ASSUME buffer # <<>> PROVE buffer[1].final >= last
    OBVIOUS
  <2>1. keep \in 1..Len(b.buffer) /\ buffer = SubSeq(b.buffer, keep, Len(b.buffer))
    BY <1>k, <1>0
  <2>2. buffer[1] = b.buffer[keep]
    BY <1>0, <2>1
  <2> QED BY <1>k, <2>1, <2>2
<1>m. buffer = <<>> => \A d \in Elements(b.buffer) : ~(d.final >= last)
  <2>1. keep # 0 => Len(buffer) = Len(b.buffer) - keep + 1
    BY <1>0, <1>k
  <2>2. keep # 0 => buffer # <<>>
    <3>1. keep # 0 => Len(buffer) >= 1
      <4> HIDE DEF buffer
      <4> QED BY <2>1, <1>0, <1>k
    <3>2. Len(<<>>) = 0
      OBVIOUS
    <3> HIDE DEF buffer
    <3> QED BY <3>1, <3>2
  <2>3. DOMAIN b.buffer = 1..Len(b.buffer)
    BY <1>0
  <2> QED BY <2>2, <2>3, <1>k DEF Elements
<1> HIDE DEF buffer
<1>f. /\ first \in 0..Len(buffer)
      /\ first # 0 => Bridges(buffer[first], last)
      /\ first = 0 => \A i \in 1..Len(buffer) : ~Bridges(buffer[i], last)
  BY <1>0, <1>b, SelectBridging
<1> HIDE DEF first
<1>e. /\ Len(buffer) \in Nat /\ Len(buffer) <= Len(b.buffer) /\ InOrder(buffer)
      /\ \A d \in Elements(buffer) : GoodDiff(d)
      /\ Elements(buffer) \subseteq Elements(b.buffer)
  BY <1>0, <1>b, EndingFacts DEF Installed
<1>1. CASE buffer = <<>>
  BY <1>1, <1>r, <1>m DEF Waiting
<1>2. CASE buffer # <<>> /\ first = 0
  <2>1. 1 \in 1..Len(buffer) /\ DOMAIN buffer = 1..Len(buffer)
    BY <1>2, <1>b, <1>e
  <2>2. buffer[1] \in Diffs /\ GoodDiff(buffer[1])
    BY <2>1, <1>b, <1>e DEF Elements
  <2>3. buffer[1].first > last
    <3>1. buffer[1].first \in Nat /\ buffer[1].final \in Nat /\ last \in Nat
      BY <1>0, <2>2, Numbers DEF Diffs
    <3>2. buffer[1].final >= last /\ ~Bridges(buffer[1], last)
      BY <1>2, <1>f, <1>h, <2>1
    <3> QED BY <3>1, <3>2 DEF Bridges
  <2>4. ASSUME NEW i \in 1..Len(buffer) PROVE last < buffer[i].first
    <3>1. buffer[1].first <= buffer[i].first
      BY <1>e, <2>1 DEF InOrder
    <3>2. buffer[i] \in Diffs
      BY <1>b, <2>1
    <3> QED BY <3>1, <3>2, <2>2, <2>3, <1>0 DEF Diffs
  <2>5. \A d \in Elements(buffer) : last < d.first
    BY <2>1, <2>4 DEF Elements
  <2>6. TryActivate(b) = Result([b EXCEPT !.buffer = buffer, !.status = "RESYNC_REQUIRED"],
                                "RETRY_SNAPSHOT", TRUE)
    BY <1>r, <1>2, <2>3 DEF Books
  <2>7. TooOld(b, TryActivate(b))
    BY <2>5, <2>6, <1>2, <1>b DEF TooOld
  <2> QED BY <2>7
<1>3. CASE buffer # <<>> /\ first # 0
  <2>1. /\ trimmed \in Books /\ trimmed.buffer = buffer /\ trimmed.pending = last
        /\ trimmed.seq = last /\ trimmed.levels = BookAt(last) /\ trimmed.gen = b.gen
    BY <1>0, <1>b DEF Books, Installed
  <2>2. first \in 1..Len(buffer) /\ Bridges(buffer[first], last)
    BY <1>f, <1>3, <1>e
  <2> HIDE DEF trimmed
  <2>3. ChainKeeps(trimmed, chain, Len(buffer))
    BY <1>0, <1>e, <2>1, <2>2, ChainKept
  <2>4. /\ chain.book \in Books /\ chain.book.gen = b.gen
        /\ chain.book.seq \in 1..MaxId /\ chain.book.levels = BookAt(chain.book.seq)
        /\ chain.rest \in Seq(Diffs) /\ Len(chain.rest) <= Len(buffer)
        /\ \A i \in 1..Len(chain.rest) :
             chain.rest[i] = buffer[Len(buffer) - Len(chain.rest) + i]
    BY <2>1, <2>3 DEF ChainKeeps
  <2> HIDE DEF chain
  <2>5. \E d \in Elements(b.buffer) : Bridges(d, last)
    <3>1. buffer[first] \in Elements(buffer)
      BY <2>2, <1>b DEF Elements
    <3> QED BY <3>1, <2>2, <1>e
  <2>6. CASE chain.rest = <<>>
    <3> DEFINE live == [chain.book EXCEPT !.status = "LIVE", !.pending = None,
                                          !.buffer = <<>>]
    <3>1. /\ live \in Books /\ live.status = "LIVE" /\ live.gen = b.gen
          /\ live.seq = chain.book.seq /\ live.levels = BookAt(live.seq)
          /\ live.buffer = <<>> /\ live.pending = None
      BY <2>4, LiveRecord
    <3>n. live.seq # None
      BY <2>4, <3>1, Numbers
    <3>2. TryActivate(b) = Result(live, "SNAPSHOT_APPLIED", FALSE)
      BY <1>r, <1>3, <2>6
    <3> HIDE DEF live
    <3>3. Activated(b, TryActivate(b))
      BY <3>1, <3>n, <3>2, <2>5 DEF Activated
    <3> QED BY <3>3
  <2>7. CASE chain.rest # <<>>
    <3>1. Ending(chain.rest, b.buffer)
      <4>1. PICK j \in 1..Len(b.buffer) + 1 : buffer = SubSeq(b.buffer, j, Len(b.buffer))
        BY <1>b DEF Ending
      <4>2. Len(buffer) = Len(b.buffer) - j + 1
        BY <4>1, <1>0
      <4>3. \A i \in 1..Len(buffer) : buffer[i] = b.buffer[i + j - 1]
        BY <4>1, <4>2, <1>0
      <4> DEFINE m == Len(b.buffer) - Len(chain.rest) + 1
                 t == SubSeq(b.buffer, m, Len(b.buffer))
      <4>n. Len(chain.rest) \in Nat /\ Len(chain.rest) <= Len(b.buffer)
        <5>1. Len(chain.rest) \in Nat
          BY <2>4
        <5> QED BY <5>1, <1>0, <1>e, <2>4
      <4>4. m \in 1..Len(b.buffer) + 1 /\ Len(b.buffer) - m + 1 = Len(chain.rest)
        <5>1. \A x, y \in Nat : y <= x => x - y + 1 \in 1..x + 1 /\ x - (x - y + 1) + 1 = y
          OBVIOUS
        <5> QED BY <5>1, <1>0, <4>n
      <4>5. t \in Seq(Diffs) /\ Len(t) = Len(chain.rest)
        <5> HIDE DEF m
        <5> QED BY <1>0, <4>n, <4>4
      <4>6. ASSUME NEW i \in 1..Len(chain.rest) PROVE t[i] = chain.rest[i]
        <5>1. t[i] = b.buffer[i + m - 1]
          <6> HIDE DEF m
          <6> QED BY <1>0, <4>n, <4>4
        <5>2. Len(buffer) - Len(chain.rest) + i \in 1..Len(buffer)
          BY <1>e, <2>4, <4>n
        <5>3. Len(buffer) - Len(chain.rest) + i + j - 1 = i + m - 1
          BY <1>0, <1>e, <4>n, <4>2
        <5> HIDE DEF m
        <5> QED BY <5>1, <5>2, <5>3, <4>3, <2>4
      <4> HIDE DEF t
      <4>7. t = chain.rest
        BY <4>5, <4>6, <2>4, SeqEqual
      <4> QED BY <4>4, <4>7 DEF Ending, t
    <3>2. TryActivate(b) = Result([status |-> "RESYNC_REQUIRED", gen |-> b.gen + 1,
               seq |-> None, levels |-> NoLevels, buffer |-> chain.rest, pending |-> None],
               "SEQUENCE_GAP", TRUE)
      BY <1>r, <1>3, <2>7, <2>4 DEF Invalidated
    <3>3. Broken(b, TryActivate(b))
      BY <3>1, <3>2, <2>4 DEF Broken
    <3> QED BY <3>3
  <2> QED BY <2>6, <2>7
<1> QED BY <1>1, <1>2, <1>3

LEMMA ElementsOf ==
  ASSUME NEW S, NEW s \in Seq(S)
  PROVE  /\ \A x \in S : Elements(Append(s, x)) = Elements(s) \cup {x}
         /\ s # <<>> => Elements(Tail(s)) \subseteq Elements(s) /\ Head(s) \in Elements(s)
         /\ Elements(<<>>) = {} /\ \A x : Elements(<<x>>) = {x}
<1>1. ASSUME NEW x \in S PROVE Elements(Append(s, x)) = Elements(s) \cup {x}
  <2> DEFINE t == Append(s, x)
  <2>1. /\ DOMAIN s = 1..Len(s) /\ DOMAIN t = 1..Len(s) + 1
        /\ \A i \in 1..Len(s) : t[i] = s[i]
        /\ t[Len(s) + 1] = x /\ Len(s) \in Nat
    OBVIOUS
  <2>2. \A i \in 1..Len(s) + 1 : i \in 1..Len(s) \/ i = Len(s) + 1
    BY <2>1
  <2>3. Len(s) + 1 \in 1..Len(s) + 1 /\ \A i \in 1..Len(s) : i \in 1..Len(s) + 1
    BY <2>1
  <2> HIDE DEF t
  <2>4. Elements(t) \subseteq Elements(s) \cup {x}
    BY <2>1, <2>2 DEF Elements
  <2>5. Elements(s) \cup {x} \subseteq Elements(t)
    BY <2>1, <2>3 DEF Elements
  <2> QED BY <2>4, <2>5 DEF t
<1>2. ASSUME s # <<>> PROVE Elements(Tail(s)) \subseteq Elements(s) /\ Head(s) \in Elements(s)
  <2>1. /\ DOMAIN Tail(s) = 1..Len(s) - 1 /\ Len(s) \in Nat /\ Len(s) >= 1
        /\ DOMAIN s = 1..Len(s) /\ Head(s) = s[1]
    BY <1>2
  <2>2. \A i \in 1..Len(s) - 1 : Tail(s)[i] = s[i + 1] /\ i + 1 \in 1..Len(s)
    BY <1>2, <2>1
  <2> QED BY <2>1, <2>2 DEF Elements
<1>3. Elements(<<>>) = {} /\ \A x : Elements(<<x>>) = {x}
  BY DEF Elements
<1> QED BY <1>1, <1>2, <1>3

LEMMA OrderOf ==
  ASSUME NEW s \in Seq(Diffs), InOrder(s)
  PROVE  /\ \A d \in Diffs : (\A e \in Elements(s) : e.first <= d.first) =>
                InOrder(Append(s, d))
         /\ s # <<>> => InOrder(Tail(s)) /\ \A e \in Elements(s) : Head(s).first <= e.first
         /\ InOrder(<<>>) /\ \A d \in Diffs : InOrder(<<d>>)
<1>0. DOMAIN s = 1..Len(s) /\ Len(s) \in Nat
  OBVIOUS
<1>1. ASSUME NEW d \in Diffs, \A e \in Elements(s) : e.first <= d.first
      PROVE  InOrder(Append(s, d))
  <2> DEFINE t == Append(s, d)
  <2>1. /\ DOMAIN t = 1..Len(s) + 1
        /\ \A i \in 1..Len(s) : t[i] = s[i]
        /\ t[Len(s) + 1] = d
    OBVIOUS
  <2> HIDE DEF t
  <2>2. ASSUME NEW i \in 1..Len(s) + 1, NEW j \in 1..Len(s) + 1, i <= j
        PROVE  t[i].first <= t[j].first
    <3>1. CASE j = Len(s) + 1 /\ i = Len(s) + 1
      BY <3>1, <2>1 DEF Diffs
    <3>2. CASE j = Len(s) + 1 /\ i # Len(s) + 1
      <4>1. i \in 1..Len(s)
        BY <1>0, <3>2
      <4>2. s[i] \in Elements(s)
        BY <4>1, <1>0 DEF Elements
      <4> QED BY <3>2, <4>1, <4>2, <2>1, <1>1
    <3>3. CASE j # Len(s) + 1
      <4>1. i \in 1..Len(s) /\ j \in 1..Len(s)
        BY <1>0, <2>2, <3>3
      <4> QED BY <4>1, <2>1, <2>2, <1>0 DEF InOrder
    <3> QED BY <3>1, <3>2, <3>3
  <2>3. InOrder(t)
    BY <2>1, <2>2 DEF InOrder
  <2> QED BY <2>3 DEF t
<1>2. ASSUME s # <<>>
      PROVE  InOrder(Tail(s)) /\ \A e \in Elements(s) : Head(s).first <= e.first
  <2>1. /\ DOMAIN Tail(s) = 1..Len(s) - 1 /\ Len(s) >= 1 /\ Head(s) = s[1]
    BY <1>2
  <2>2. \A i \in 1..Len(s) - 1 : Tail(s)[i] = s[i + 1] /\ i + 1 \in 1..Len(s)
    BY <1>2, <2>1, <1>0
  <2>3. ASSUME NEW i \in 1..Len(s) - 1, NEW j \in 1..Len(s) - 1, i <= j
        PROVE  Tail(s)[i].first <= Tail(s)[j].first
    <3>1. i + 1 <= j + 1
      BY <2>3
    <3> QED BY <3>1, <2>2, <1>0 DEF InOrder
  <2>4. \A i \in 1..Len(s) : 1 \in 1..Len(s) /\ 1 <= i
    BY <1>0
  <2>5. \A e \in Elements(s) : Head(s).first <= e.first
    BY <2>1, <2>4, <1>0 DEF InOrder, Elements
  <2> QED BY <2>1, <2>3, <2>5 DEF InOrder
<1>3. InOrder(<<>>) /\ \A d \in Diffs : InOrder(<<d>>)
  BY DEF InOrder, Diffs
<1> QED BY <1>1, <1>2, <1>3

----------------------------------------------------------------------------
(* The two steps that change the book. *)

(* A book with updates of the stream, in their order *)
SoundBook(b, source) ==
    /\ b \in Books /\ Len(b.buffer) <= MaxBuffer
    /\ Elements(b.buffer) \subseteq source /\ InOrder(b.buffer)
    /\ ExactBook(b)

LEMMA InvalidatedSound ==
  ASSUME NEW b \in Books, NEW buffer \in Seq(Diffs), Len(buffer) <= MaxBuffer,
         InOrder(buffer), NEW source, Elements(buffer) \subseteq source
  PROVE  /\ SoundBook(Invalidated(b, buffer), source)
         /\ Invalidated(b, buffer).status = "RESYNC_REQUIRED"
         /\ Invalidated(b, buffer).gen = b.gen + 1
         /\ Invalidated(b, buffer).pending = None
         /\ Invalidated(b, buffer).buffer = buffer
<1>1. NoLevels \in [Levels -> Nat] /\ None \in Ids /\ "RESYNC_REQUIRED" \in Statuses
  BY DEF NoLevels, Ids, Statuses
<1>2. b.gen + 1 \in Nat
  BY DEF Books
<1>3. Invalidated(b, buffer) \in Books
  BY <1>1, <1>2 DEF Invalidated, Books
<1> QED BY <1>3 DEF SoundBook, ExactBook, Invalidated

(* What an outcome of the activation leaves. *)
LEMMA OutcomeSound ==
  ASSUME NEW b, Installed(b), Len(b.buffer) <= MaxBuffer, NEW r,
         Waiting(b, r) \/ TooOld(b, r) \/ Broken(b, r) \/ Activated(b, r)
  PROVE  SoundBook(r.book, Elements(b.buffer)) /\ r = Result(r.book, r.transition, r.needs)
<1>0. /\ b \in Books /\ b.buffer \in Seq(Diffs) /\ Len(b.buffer) \in Nat
      /\ MaxBuffer \in Nat /\ MaxBuffer >= 1
  BY BookAssumption DEF Installed, Books
<1>1. CASE Waiting(b, r)
  <2>1. /\ r.book = [b EXCEPT !.buffer = <<>>]
        /\ r = Result(r.book, r.transition, r.needs)
    BY <1>1 DEF Waiting, Result
  <2>2. r.book \in Books /\ r.book.buffer = <<>>
    <3>1. <<>> \in Seq(Diffs)
      OBVIOUS
    <3> QED BY <1>0, <2>1, <3>1 DEF Books
  <2>3. ExactBook(r.book)
    BY <1>0, <2>1 DEF ExactBook, Installed, Books
  <2>4. Elements(<<>>) = {} /\ InOrder(<<>>) /\ Len(<<>>) = 0
    BY DEF Elements, InOrder
  <2> QED BY <1>0, <2>1, <2>2, <2>3, <2>4 DEF SoundBook
<1>2. CASE TooOld(b, r)
  <2>1. PICK t \in Seq(Diffs) :
        /\ Ending(t, b.buffer)
        /\ r = Result([b EXCEPT !.buffer = t, !.status = "RESYNC_REQUIRED"],
                      "RETRY_SNAPSHOT", TRUE)
    BY <1>2 DEF TooOld
  <2>2. /\ r.book = [b EXCEPT !.buffer = t, !.status = "RESYNC_REQUIRED"]
        /\ r = Result(r.book, r.transition, r.needs)
    BY <2>1 DEF Result
  <2>3. r.book \in Books /\ r.book.buffer = t
    BY <1>0, <2>2 DEF Books, Statuses
  <2>4. ExactBook(r.book)
    BY <1>0, <2>2 DEF ExactBook, Installed, Books
  <2>5. Len(t) <= Len(b.buffer) /\ Elements(t) \subseteq Elements(b.buffer) /\ InOrder(t)
    BY <1>0, <2>1, EndingFacts DEF Installed
  <2>6. Len(t) \in Nat
    OBVIOUS
  <2> QED BY <1>0, <2>2, <2>3, <2>4, <2>5, <2>6 DEF SoundBook
<1>3. CASE Broken(b, r)
  <2>1. PICK t \in Seq(Diffs) :
        /\ Ending(t, b.buffer)
        /\ r = Result(Invalidated(b, t), "SEQUENCE_GAP", TRUE)
    BY <1>3 DEF Broken, Invalidated
  <2>2. Len(t) <= Len(b.buffer) /\ Elements(t) \subseteq Elements(b.buffer) /\ InOrder(t)
    BY <1>0, <2>1, EndingFacts DEF Installed
  <2>3. Len(t) \in Nat /\ Len(t) <= MaxBuffer
    BY <1>0, <2>2
  <2>4. SoundBook(Invalidated(b, t), Elements(b.buffer))
    BY <1>0, <2>2, <2>3, InvalidatedSound
  <2>5. r.book = Invalidated(b, t) /\ r = Result(r.book, r.transition, r.needs)
    BY <2>1 DEF Result
  <2> QED BY <2>4, <2>5
<1>4. CASE Activated(b, r)
  <2>1. PICK live \in Books :
        /\ live.status = "LIVE" /\ live.seq # None
        /\ live.levels = BookAt(live.seq) /\ live.buffer = <<>> /\ live.pending = None
        /\ r = Result(live, "SNAPSHOT_APPLIED", FALSE)
    BY <1>4 DEF Activated
  <2>2. r.book = live /\ r = Result(r.book, r.transition, r.needs)
    BY <2>1 DEF Result
  <2>3. Elements(<<>>) = {} /\ InOrder(<<>>) /\ Len(<<>>) = 0
    BY DEF Elements, InOrder
  <2>4. ExactBook(live)
    BY <2>1 DEF ExactBook
  <2>5. /\ Elements(live.buffer) \subseteq Elements(b.buffer) /\ InOrder(live.buffer)
        /\ Len(live.buffer) <= MaxBuffer
    BY <1>0, <2>1, <2>3
  <2> QED BY <2>2, <2>4, <2>5 DEF SoundBook
<1> QED BY <1>1, <1>2, <1>3, <1>4

(* The buffer behind an update in hand, in order. *)
LEMMA Appended ==
  ASSUME BookInv, NEW d \in inHand
  PROVE  /\ GoodDiff(d) /\ d \in Diffs /\ book \in Books
         /\ Append(book.buffer, d) \in Seq(Diffs)
         /\ Len(Append(book.buffer, d)) = Len(book.buffer) + 1
         /\ Elements(Append(book.buffer, d)) = Elements(book.buffer) \cup {d}
         /\ InOrder(Append(book.buffer, d)) /\ InOrder(<<d>>)
         /\ Elements(Append(book.buffer, d)) \subseteq Stream
         /\ \A e \in Elements(Append(book.buffer, d)) : GoodDiff(e)
<1>1. GoodDiff(d) /\ d \in Diffs /\ book \in Books /\ book.buffer \in Seq(Diffs)
  BY DEF BookInv, Streaming, Stream, GoodDiff, TypeOK, Books, Statuses, Ids
<1>2. Elements(Append(book.buffer, d)) = Elements(book.buffer) \cup {d}
  BY <1>1, ElementsOf
<1>3. \A b \in Elements(book.buffer) : b.first <= d.first
  BY DEF BookInv, Streaming
<1>4. InOrder(Append(book.buffer, d)) /\ InOrder(<<d>>)
  BY <1>1, <1>3, OrderOf DEF BookInv, Streaming
<1>5. Elements(Append(book.buffer, d)) \subseteq Stream
  BY <1>2 DEF Stream
<1>6. \A e \in Elements(Append(book.buffer, d)) : GoodDiff(e)
  BY <1>5 DEF BookInv, Streaming
<1>7. Append(book.buffer, d) \in Seq(Diffs) /\ Len(Append(book.buffer, d)) = Len(book.buffer) + 1
  BY <1>1
<1> QED BY <1>1, <1>2, <1>4, <1>5, <1>6, <1>7

(* What ingest may come to. *)
Stays(r) ==
    /\ book.status = "LIVE" /\ r.book.status = "LIVE" /\ r.book.gen = book.gen
    /\ r.book.seq >= book.seq
    /\ ~r.needs /\ r.transition \in {"STALE_IGNORED", "UPDATE_APPLIED"}

Loses(r) ==
    /\ r.book.status = "RESYNC_REQUIRED" /\ r.book.gen = book.gen + 1
    /\ r.book.pending = None
    /\ r.needs /\ r.transition \in {"SEQUENCE_GAP", "BUFFER_OVERFLOW"}

Keeps(r) ==
    /\ book.status # "LIVE" /\ r.book.status = book.status
    /\ book.pending = None /\ r.book.pending = None
    /\ r.needs /\ r.transition = "BUFFERED"

GoesLive(r) ==
    /\ book.status # "LIVE" /\ r.book.status = "LIVE" /\ r.book.pending = None
    /\ ~r.needs /\ r.transition = "SNAPSHOT_APPLIED"

GivesUp(r, last) ==
    /\ book.status # "LIVE" /\ r.book.status = "RESYNC_REQUIRED" /\ r.book.pending = last
    /\ r.book.buffer # <<>> /\ \A d \in Elements(r.book.buffer) : last < d.first
    /\ r.needs /\ r.transition = "RETRY_SNAPSHOT"

Waits(r, last, status) ==
    /\ book.status # "LIVE" /\ r.book.status = status /\ r.book.pending = last
    /\ r.book.buffer = <<>>
    /\ ~r.needs /\ r.transition = "BUFFERED"

LEMMA IngestLive ==
  ASSUME BookInv, NEW d \in inHand, book.status = "LIVE", NEW r, r = Ingest(book, d)
  PROVE  /\ SoundBook(r.book, Elements(book.buffer) \cup {d})
         /\ Stays(r) \/ Loses(r)
<1>0. /\ book \in Books /\ GoodDiff(d) /\ d \in Diffs /\ SoundBook(book, Elements(book.buffer))
      /\ book.seq \in 1..MaxId /\ book.levels = BookAt(book.seq) /\ d.final \in 1..MaxId
      /\ d.prev \in 0..MaxId
  BY Appended DEF BookInv, Streaming, SoundBook, ExactBook, TypeOK, Books, Ids, Diffs
<1>1. CASE d.final <= book.seq
  <2>1. r = Result(book, "STALE_IGNORED", FALSE)
    BY <1>1 DEF Ingest
  <2>2. r.book = book /\ r.needs = FALSE /\ r.transition = "STALE_IGNORED"
    BY <2>1 DEF Result
  <2> QED BY <1>0, <2>2, Numbers DEF SoundBook, Stays
<1>2. CASE ~(d.final <= book.seq) /\ d.prev # book.seq
  <2>1. r = Result(Invalidated(book, <<d>>), "SEQUENCE_GAP", TRUE)
    BY <1>2 DEF Ingest
  <2>2. r.book = Invalidated(book, <<d>>) /\ r.needs /\ r.transition = "SEQUENCE_GAP"
    BY <2>1 DEF Result
  <2>3. /\ <<d>> \in Seq(Diffs) /\ Len(<<d>>) = 1 /\ Elements(<<d>>) = {d} /\ InOrder(<<d>>)
        /\ 1 <= MaxBuffer
    BY <1>0, Appended, ElementsOf, BookAssumption
  <2>4. /\ SoundBook(r.book, Elements(book.buffer) \cup {d})
        /\ r.book.status = "RESYNC_REQUIRED" /\ r.book.gen = book.gen + 1
        /\ r.book.pending = None
    <3>1. Elements(<<d>>) \subseteq Elements(book.buffer) \cup {d} /\ Len(<<d>>) <= MaxBuffer
      BY <2>3, BookAssumption
    <3>2. /\ SoundBook(Invalidated(book, <<d>>), Elements(book.buffer) \cup {d})
          /\ Invalidated(book, <<d>>).status = "RESYNC_REQUIRED"
          /\ Invalidated(book, <<d>>).gen = book.gen + 1
          /\ Invalidated(book, <<d>>).pending = None
      BY <1>0, <2>3, <3>1, InvalidatedSound
    <3> QED BY <2>2, <3>2
  <2> QED BY <2>2, <2>4 DEF Loses
<1>3. CASE ~(d.final <= book.seq) /\ d.prev = book.seq
  <2>1. r = Result(ApplyUpdate(book, d), "UPDATE_APPLIED", FALSE)
    BY <1>3 DEF Ingest
  <2>2. r.book = ApplyUpdate(book, d) /\ r.needs = FALSE /\ r.transition = "UPDATE_APPLIED"
    BY <2>1 DEF Result
  <2>3. d.first <= book.seq + 1 /\ book.seq <= d.final
    BY <1>0, <1>3, Numbers DEF GoodDiff
  <2>4. /\ r.book \in Books /\ r.book.seq = d.final /\ r.book.levels = BookAt(d.final)
        /\ r.book.status = book.status /\ r.book.gen = book.gen
        /\ r.book.buffer = book.buffer /\ r.book.pending = book.pending
    BY <1>0, <2>2, <2>3, ApplyUpdateExact
  <2>5. d.final # None
    BY <1>0, Numbers
  <2>6. ExactBook(r.book)
    BY <2>4, <2>5 DEF ExactBook, BookInv
  <2>7. SoundBook(r.book, Elements(book.buffer) \cup {d})
    BY <1>0, <2>4, <2>6 DEF SoundBook
  <2>8. Stays(r)
    BY <2>2, <2>3, <2>4, <1>0 DEF Stays
  <2> QED BY <2>7, <2>8
<1> QED BY <1>1, <1>2, <1>3

LEMMA IngestWaiting ==
  ASSUME BookInv, NEW d \in inHand, book.status # "LIVE", NEW r, r = Ingest(book, d)
  PROVE  /\ SoundBook(r.book, Elements(book.buffer) \cup {d})
         /\ \/ Loses(r) \/ Keeps(r)
            \/ GoesLive(r) /\ ~Asking
            \/ GivesUp(r, book.pending) /\ book.pending # None
            \/ Waits(r, book.pending, "BUFFERING") /\ book.pending # None /\ ~Asking
<1> DEFINE b == [book EXCEPT !.buffer = Append(@, d)]
<1>a. /\ GoodDiff(d) /\ d \in Diffs /\ book \in Books
      /\ Append(book.buffer, d) \in Seq(Diffs)
      /\ Len(Append(book.buffer, d)) = Len(book.buffer) + 1
      /\ Elements(Append(book.buffer, d)) = Elements(book.buffer) \cup {d}
      /\ InOrder(Append(book.buffer, d)) /\ InOrder(<<d>>)
      /\ Elements(Append(book.buffer, d)) \subseteq Stream
      /\ \A e \in Elements(Append(book.buffer, d)) : GoodDiff(e)
  BY Appended
<1>b. /\ b \in Books /\ b.buffer = Append(book.buffer, d) /\ b.status = book.status
      /\ b.gen = book.gen /\ b.seq = book.seq /\ b.levels = book.levels
      /\ b.pending = book.pending
  BY <1>a DEF Books
<1>n. Len(book.buffer) \in Nat /\ MaxBuffer \in Nat /\ MaxBuffer >= 1
  BY <1>a, BookAssumption DEF Books
<1>1. CASE Len(book.buffer) >= MaxBuffer
  <2>1. r = Result(Invalidated(book, <<d>>), "BUFFER_OVERFLOW", TRUE)
    BY <1>1 DEF Ingest, BufferUpdate
  <2>2. r.book = Invalidated(book, <<d>>) /\ r.needs /\ r.transition = "BUFFER_OVERFLOW"
    BY <2>1 DEF Result
  <2>3. <<d>> \in Seq(Diffs) /\ Len(<<d>>) = 1 /\ Elements(<<d>>) = {d}
    BY <1>a, ElementsOf
  <2>4. /\ SoundBook(r.book, Elements(book.buffer) \cup {d})
        /\ r.book.status = "RESYNC_REQUIRED" /\ r.book.gen = book.gen + 1
        /\ r.book.pending = None
    <3>1. Elements(<<d>>) \subseteq Elements(book.buffer) \cup {d} /\ Len(<<d>>) <= MaxBuffer
      BY <2>3, BookAssumption
    <3>2. /\ SoundBook(Invalidated(book, <<d>>), Elements(book.buffer) \cup {d})
          /\ Invalidated(book, <<d>>).status = "RESYNC_REQUIRED"
          /\ Invalidated(book, <<d>>).gen = book.gen + 1
          /\ Invalidated(book, <<d>>).pending = None
      BY <1>a, <1>n, <2>3, <3>1, InvalidatedSound
    <3> QED BY <2>2, <3>2
  <2> QED BY <2>2, <2>4 DEF Loses
<1>2. CASE ~(Len(book.buffer) >= MaxBuffer) /\ book.pending = None
  <2>1. r = Result(b, "BUFFERED", TRUE)
    BY <1>2 DEF Ingest, BufferUpdate
  <2>2. r.book = b /\ r.needs /\ r.transition = "BUFFERED"
    BY <2>1 DEF Result
  <2> HIDE DEF b
  <2>3. ExactBook(b)
    BY <1>b, <1>2 DEF ExactBook
  <2>4. SoundBook(r.book, Elements(book.buffer) \cup {d})
    <3>1. Len(b.buffer) <= MaxBuffer
      BY <1>a, <1>b, <1>n, <1>2
    <3> QED BY <1>a, <1>b, <2>2, <2>3, <3>1 DEF SoundBook
  <2>5. Keeps(r)
    BY <1>b, <1>2, <2>2 DEF Keeps
  <2> QED BY <2>4, <2>5
<1>3. CASE ~(Len(book.buffer) >= MaxBuffer) /\ book.pending # None
  <2>1. r = TryActivate(b)
    BY <1>3 DEF Ingest, BufferUpdate
  <2> HIDE DEF b
  <2>2. Installed(b) /\ Len(b.buffer) <= MaxBuffer
    BY <1>a, <1>b, <1>n, <1>3 DEF Installed, BookInv, ExactBook
  <2>3. Waiting(b, r) \/ TooOld(b, r) \/ Broken(b, r) \/ Activated(b, r)
    BY <2>1, <2>2, TryActivateOutcome
  <2>4. SoundBook(r.book, Elements(book.buffer) \cup {d})
    BY <2>2, <2>3, <1>a, <1>b, OutcomeSound
  <2>5. /\ book.pending \in Nat
        /\ \A e \in Elements(b.buffer) : e.first \in Nat /\ e.final \in Nat /\ e.first <= e.final
    <3>1. book.pending \in Nat
      BY <1>3, <1>a, Numbers DEF Books, Ids
    <3>2. ASSUME NEW e, GoodDiff(e)
          PROVE  e.first \in Nat /\ e.final \in Nat /\ e.first <= e.final
      <4>1. e.first \in 1..MaxId /\ e.final \in 1..MaxId /\ e.prev \in 0..MaxId
        BY <3>2 DEF GoodDiff, Diffs
      <4> QED BY <3>2, <4>1, Numbers DEF GoodDiff
    <3> QED BY <3>1, <3>2, <1>a, <1>b
  <2>6. (book.status = "RESYNC_REQUIRED" \/ Asking) =>
           \A e \in Elements(b.buffer) : book.pending < e.first
    BY <1>3, <1>a, <1>b DEF BookInv, GivenUp
  <2>7. d \in Elements(b.buffer)
    BY <1>a, <1>b
  <2>8. CASE Waiting(b, r)
    <3>1. r = Result([b EXCEPT !.buffer = <<>>], "BUFFERED", FALSE) /\ d.final < book.pending
      BY <2>5, <2>7, <2>8, <1>b DEF Waiting
    <3>2. ~(book.status = "RESYNC_REQUIRED" \/ Asking)
      BY <2>5, <2>6, <2>7, <3>1
    <3>3. book.status = "BUFFERING"
      BY <3>2, <1>a DEF Books, Statuses
    <3>4. /\ r.book.status = "BUFFERING" /\ r.book.pending = book.pending
          /\ r.book.buffer = <<>> /\ r.needs = FALSE /\ r.transition = "BUFFERED"
      BY <3>1, <3>3, <1>b DEF Result, Books
    <3> QED BY <2>4, <3>2, <3>4, <1>3 DEF Waits
  <2>9. CASE TooOld(b, r)
    <3>1. PICK t \in Seq(Diffs) :
        /\ t # <<>> /\ \A e \in Elements(t) : b.pending < e.first
        /\ r = Result([b EXCEPT !.buffer = t, !.status = "RESYNC_REQUIRED"],
                      "RETRY_SNAPSHOT", TRUE)
      BY <2>9 DEF TooOld
    <3>2. /\ r.book.status = "RESYNC_REQUIRED" /\ r.book.pending = book.pending
          /\ r.book.buffer = t /\ r.needs = TRUE /\ r.transition = "RETRY_SNAPSHOT"
      <4>1. /\ r.book = [b EXCEPT !.buffer = t, !.status = "RESYNC_REQUIRED"]
            /\ r.needs = TRUE /\ r.transition = "RETRY_SNAPSHOT"
        BY <3>1 DEF Result
      <4> QED BY <4>1, <1>b DEF Books
    <3> QED BY <2>4, <3>1, <3>2, <1>b, <1>3 DEF GivesUp
  <2>10. CASE Broken(b, r)
    <3>1. /\ r.book.status = "RESYNC_REQUIRED" /\ r.book.gen = b.gen + 1
          /\ r.book.pending = None /\ r.needs = TRUE /\ r.transition = "SEQUENCE_GAP"
      BY <2>10 DEF Broken, Result
    <3> QED BY <2>4, <3>1, <1>b DEF Loses
  <2>11. CASE Activated(b, r)
    <3>1. /\ r.book.status = "LIVE" /\ r.book.pending = None
          /\ r.needs = FALSE /\ r.transition = "SNAPSHOT_APPLIED"
      BY <2>11 DEF Activated, Result
    <3>2. PICK e \in Elements(b.buffer) : Bridges(e, b.pending)
      BY <2>11 DEF Activated
    <3>3. ~Asking
      BY <2>5, <2>6, <3>2, <1>b DEF Bridges
    <3> QED BY <2>4, <3>1, <3>3 DEF GoesLive
  <2> QED BY <2>3, <2>8, <2>9, <2>10, <2>11
<1> QED BY <1>1, <1>2, <1>3

LEMMA InstallOutcome ==
  ASSUME BookInv, task.phase = "fetched", NEW r, r = Install(book, task.last)
  PROVE  /\ SoundBook(r.book, Elements(book.buffer))
         /\ \/ Loses(r) \/ GoesLive(r) \/ GivesUp(r, task.last)
            \/ Waits(r, task.last, "BUFFERING")
<1> DEFINE last == task.last
           b == [book EXCEPT !.pending = last, !.seq = last, !.levels = BookAt(last),
                             !.status = "BUFFERING"]
<1>0. /\ book \in Books /\ last \in 1..MaxId /\ book.status # "LIVE"
      /\ Len(book.buffer) <= MaxBuffer /\ InOrder(book.buffer)
      /\ \A d \in Elements(book.buffer) : GoodDiff(d)
  BY DEF BookInv, TypeOK, Held, Settled, Asking, Streaming, Stream, Books, Statuses, Ids
<1>1. BookAt(last) \in [Levels -> Nat] /\ last \in Ids /\ last # None
  BY <1>0, BookAtType, Numbers DEF Ids
<1>2. /\ b \in Books /\ b.buffer = book.buffer /\ b.status = "BUFFERING"
      /\ b.gen = book.gen /\ b.seq = last /\ b.levels = BookAt(last) /\ b.pending = last
  BY <1>0, <1>1 DEF Books, Statuses
<1>3. r = TryActivate(b)
  BY DEF Install
<1> HIDE DEF b
<1>4. Installed(b)
  BY <1>0, <1>1, <1>2 DEF Installed
<1>5. Waiting(b, r) \/ TooOld(b, r) \/ Broken(b, r) \/ Activated(b, r)
  BY <1>3, <1>4, TryActivateOutcome
<1>6. SoundBook(r.book, Elements(book.buffer))
  BY <1>0, <1>2, <1>4, <1>5, OutcomeSound
<1>7. CASE Waiting(b, r)
  <2>1. r = Result([b EXCEPT !.buffer = <<>>], "BUFFERED", FALSE)
    BY <1>7 DEF Waiting
  <2>2. /\ r.book = [b EXCEPT !.buffer = <<>>]
        /\ r.needs = FALSE /\ r.transition = "BUFFERED"
    BY <2>1 DEF Result
  <2>3. r.book.status = "BUFFERING" /\ r.book.pending = last /\ r.book.buffer = <<>>
    BY <2>2, <1>2 DEF Books
  <2> QED BY <1>0, <1>6, <2>2, <2>3 DEF Waits
<1>8. CASE TooOld(b, r)
  <2>1. PICK t \in Seq(Diffs) :
        /\ t # <<>> /\ \A e \in Elements(t) : b.pending < e.first
        /\ r = Result([b EXCEPT !.buffer = t, !.status = "RESYNC_REQUIRED"],
                      "RETRY_SNAPSHOT", TRUE)
    BY <1>8 DEF TooOld
  <2>2. /\ r.book = [b EXCEPT !.buffer = t, !.status = "RESYNC_REQUIRED"]
        /\ r.needs = TRUE /\ r.transition = "RETRY_SNAPSHOT"
    BY <2>1 DEF Result
  <2>3. r.book.status = "RESYNC_REQUIRED" /\ r.book.pending = last /\ r.book.buffer = t
    BY <2>2, <1>2 DEF Books
  <2> QED BY <1>0, <1>2, <1>6, <2>1, <2>2, <2>3 DEF GivesUp
<1>9. CASE Broken(b, r)
  <2>1. /\ r.book.status = "RESYNC_REQUIRED" /\ r.book.gen = b.gen + 1
        /\ r.book.pending = None /\ r.needs = TRUE /\ r.transition = "SEQUENCE_GAP"
    BY <1>9 DEF Broken, Result
  <2> QED BY <1>2, <1>6, <2>1 DEF Loses
<1>10. CASE Activated(b, r)
  <2>1. /\ r.book.status = "LIVE" /\ r.book.pending = None
        /\ r.needs = FALSE /\ r.transition = "SNAPSHOT_APPLIED"
    BY <1>10 DEF Activated, Result
  <2> QED BY <1>0, <1>6, <2>1 DEF GoesLive
<1> QED BY <1>5, <1>7, <1>8, <1>9, <1>10

----------------------------------------------------------------------------
(* The invariant, step by step. *)

LEMMA BookInvInit == Init => BookInv
<1> SUFFICES ASSUME Init PROVE BookInv
  OBVIOUS
<1>1. /\ <<>> \in Seq(Diffs) /\ Len(<<>>) = 0 /\ DOMAIN <<>> = {}
      /\ NoLevels \in [Levels -> Nat]
  BY DEF NoLevels
<1>2. MaxInFlight \in Nat /\ MaxBuffer \in Nat /\ MaxRepeats \in Nat
  BY BookAssumption
<1>3. TypeOK
  <2>1. exId \in 1..MaxId /\ sentId \in 1..exId /\ repeats \in 0..MaxRepeats
    BY <1>2, Numbers DEF Init
  <2>2. wire \in Seq(Diffs) /\ Len(wire) <= MaxInFlight
    BY <1>1, <1>2 DEF Init
  <2>3. book \in Books /\ book.buffer = <<>>
    BY <1>1 DEF Init, Books, Ids, Statuses
  <2>4. Len(book.buffer) <= MaxBuffer
    BY <2>3, <1>1, <1>2
  <2>5. /\ connected \in BOOLEAN /\ inHand \subseteq Diffs
        /\ task \in [phase : {"none", "requested", "fetched", "emitting"}, last : Ids]
        /\ health \in [connected : BOOLEAN, resyncing : BOOLEAN, gap : BOOLEAN, gen : Nat,
                       rest : BOOLEAN]
    BY DEF Init, NoTask, Ids
  <2> QED BY <2>1, <2>2, <2>3, <2>4, <2>5 DEF TypeOK, Books, Statuses, Ids
<1>4. Stream = {} /\ Elements(<<>>) = {} /\ InOrder(<<>>)
  BY <1>1 DEF Init, Stream, Elements, InOrder
<1>5. Streaming
  BY <1>4 DEF Init, Streaming
<1> QED
  BY <1>3, <1>5, Numbers
  DEF Init, BookInv, ExactBook, GivenUp, Held, Settled, HealthIsHonest, NoTask, Asking

(* A new book whose buffer comes from the stream. *)
LEMMA StreamingKept ==
  ASSUME BookInv, NEW source, source \subseteq Stream, SoundBook(book', source),
         inHand' \subseteq inHand, UNCHANGED <<wire, sentId>>,
         \A e \in source, x \in inHand' \cup Elements(wire) : e.first <= x.first
  PROVE  Streaming' /\ Stream' \subseteq Stream
<1>1. Elements(book'.buffer) \subseteq source /\ InOrder(book'.buffer)
  BY DEF SoundBook
<1>2. Stream' \subseteq Stream
  BY <1>1 DEF Stream
<1> QED BY <1>1, <1>2 DEF BookInv, Streaming

(* A snapshot given up over the oldest update of a buffer is behind all of *)
(* the stream.                                                             *)
LEMMA GivenUpKept ==
  ASSUME Streaming', book' \in Books, sentId' \in Nat, book'.buffer # <<>>,
         book'.pending # None,
         \A d \in Elements(book'.buffer) : book'.pending < d.first
  PROVE  GivenUp'
<1>0. book'.pending \in Nat /\ book'.buffer \in Seq(Diffs)
  BY Numbers DEF Books, Ids
<1>1. PICK e \in Elements(book'.buffer) : TRUE
  <2>1. Head(book'.buffer) \in Elements(book'.buffer)
    BY <1>0, ElementsOf
  <2> QED BY <2>1
<1>2. \A d \in Stream' : d.first \in Nat /\ d.final \in Nat /\ d.prev \in Nat
  BY Numbers DEF Streaming, GoodDiff, Diffs
<1>3. e \in Stream' /\ book'.pending < e.first /\ e.first <= e.final /\ e.final <= sentId'
  <2>1. e \in Stream'
    BY DEF Stream
  <2>2. e.final <= sentId' /\ e.first = e.prev + 1 /\ e.prev < e.final
    BY <2>1 DEF Streaming, GoodDiff
  <2> QED BY <2>1, <2>2, <1>2
<1>4. ASSUME NEW d \in Stream' PROVE book'.pending < d.first
  <2>1. CASE d \in Elements(book'.buffer)
    BY <2>1
  <2>2. CASE d \in inHand' \cup Elements(wire')
    <3>1. e.first <= d.first
      BY <2>2 DEF Streaming
    <3> QED BY <3>1, <1>0, <1>2, <1>3
  <2> QED BY <2>1, <2>2 DEF Stream
<1>5. book'.pending <= sentId'
  BY <1>0, <1>2, <1>3
<1> QED BY <1>4, <1>5 DEF GivenUp

Phases == {"none", "requested", "fetched", "emitting"}
TaskRecords == [phase : Phases, last : Ids]
HealthRecords ==
    [connected : BOOLEAN, resyncing : BOOLEAN, gap : BOOLEAN, gen : Nat, rest : BOOLEAN]

LEMMA TypeOKParts ==
  TypeOK <=>
    /\ exId \in 1..MaxId /\ sentId \in 1..exId /\ repeats \in 0..MaxRepeats
    /\ wire \in Seq(Diffs) /\ Len(wire) <= MaxInFlight
    /\ connected \in BOOLEAN /\ inHand \subseteq Diffs
    /\ book \in Books /\ Len(book.buffer) <= MaxBuffer
    /\ task \in TaskRecords /\ health \in HealthRecords
  BY DEF TypeOK, Books, Statuses, Ids, TaskRecords, Phases, HealthRecords

LEMMA ScheduledType ==
  ASSUME task \in TaskRecords
  PROVE  /\ Scheduled(task) \in TaskRecords /\ Scheduled(task).phase # "none"
         /\ Scheduled(task).phase \in {task.phase, "requested"}
         /\ Scheduled(task).phase = "fetched" => Scheduled(task) = task
<1>1. CASE task.phase # "none"
  BY <1>1 DEF Scheduled
<1>2. CASE task.phase = "none"
  <2>1. Scheduled(task) = [phase |-> "requested", last |-> None]
    BY <1>2 DEF Scheduled
  <2> QED BY <2>1 DEF TaskRecords, Phases, Ids
<1> QED BY <1>1, <1>2

(* The marks keep the record's type and its connection. *)
LEMMA MarksType ==
  ASSUME NEW h \in HealthRecords, NEW gen \in Nat
  PROVE  /\ MarkResyncing(h, gen) \in HealthRecords /\ MarkResyncing(h, gen).resyncing
         /\ RecordGap(h, gen) \in HealthRecords /\ RecordGap(h, gen).resyncing
         /\ MarkLive(h, gen) \in HealthRecords /\ ~MarkLive(h, gen).gap
         /\ MarkLive(h, gen).gen = gen
<1> TRUE \in BOOLEAN /\ FALSE \in BOOLEAN
  OBVIOUS
<1>1. MarkResyncing(h, gen) \in HealthRecords /\ MarkResyncing(h, gen).resyncing
  BY DEF MarkResyncing, HealthRecords
<1>2. MarkLive(h, gen) \in HealthRecords /\ ~MarkLive(h, gen).gap /\ MarkLive(h, gen).gen = gen
  BY DEF MarkLive, HealthRecords
<1>3. RecordGap(h, gen) = [MarkResyncing(h, gen) EXCEPT !.gap = TRUE]
  BY DEF RecordGap
<1> HIDE DEF MarkResyncing
<1>4. RecordGap(h, gen) \in HealthRecords /\ RecordGap(h, gen).resyncing
  BY <1>1, <1>3 DEF HealthRecords
<1> QED BY <1>1, <1>2, <1>4

(* The health record after a step of the book *)
HonestAbout(h, b) ==
    h.connected /\ ~h.resyncing => b.status = "LIVE" /\ h.gen = b.gen /\ ~h.gap

LEMMA HealthAfterBook ==
  ASSUME health \in HealthRecords, NEW r, r.book \in Books, HealthIsHonest, NEW last,
         \/ Stays(r) \/ Loses(r) \/ Keeps(r) \/ GoesLive(r) \/ GivesUp(r, last)
         \/ Waits(r, last, "BUFFERING")
  PROVE  /\ HealthAfterIngest(health, r) \in HealthRecords
         /\ HonestAbout(HealthAfterIngest(health, r), r.book)
         /\ ~Stays(r) => /\ HealthAfterInstall(health, r) \in HealthRecords
                         /\ HonestAbout(HealthAfterInstall(health, r), r.book)
<1> DEFINE g == r.book.gen
<1>0. g \in Nat
  BY DEF Books
<1>1. /\ MarkResyncing(health, g) \in HealthRecords /\ MarkResyncing(health, g).resyncing
      /\ RecordGap(health, g) \in HealthRecords /\ RecordGap(health, g).resyncing
      /\ MarkLive(health, g) \in HealthRecords /\ ~MarkLive(health, g).gap
      /\ MarkLive(health, g).gen = g
  BY <1>0, MarksType
<1>2. CASE Stays(r) \/ GoesLive(r)
  <2>1. r.book.status = "LIVE" /\ ~r.needs /\ r.transition \notin {"SEQUENCE_GAP", "BUFFER_OVERFLOW"}
    BY <1>2 DEF Stays, GoesLive
  <2> QED BY <1>1, <2>1 DEF HealthAfterIngest, HealthAfterInstall, HonestAbout
<1>3. CASE Loses(r)
  <2>1. /\ r.book.status # "LIVE" /\ r.needs
        /\ r.transition \in {"SEQUENCE_GAP", "BUFFER_OVERFLOW"}
    BY <1>3 DEF Loses
  <2> QED BY <1>1, <2>1 DEF HealthAfterIngest, HealthAfterInstall, HonestAbout
<1>4. CASE Keeps(r) \/ GivesUp(r, last)
  <2>1. /\ r.book.status # "LIVE" /\ r.needs
        /\ r.transition \notin {"SEQUENCE_GAP", "BUFFER_OVERFLOW"}
    BY <1>4 DEF Keeps, GivesUp
  <2> QED BY <1>1, <2>1 DEF HealthAfterIngest, HealthAfterInstall, HonestAbout
<1>5. CASE Waits(r, last, "BUFFERING")
  <2>1. /\ r.book.status # "LIVE" /\ ~r.needs /\ book.status # "LIVE"
        /\ r.transition \notin {"SEQUENCE_GAP", "BUFFER_OVERFLOW"}
    BY <1>5 DEF Waits
  <2>2. ~(health.connected /\ ~health.resyncing)
    BY <2>1 DEF HealthIsHonest
  <2> QED BY <2>1, <2>2 DEF HealthAfterIngest, HealthAfterInstall, HonestAbout
<1> QED BY <1>2, <1>3, <1>4, <1>5

LEMMA IngestKeepsInv ==
  ASSUME BookInv, NEW d \in inHand, IngestDiff(d)
  PROVE  BookInv'
<1> DEFINE r == Ingest(book, d)
<1>a. /\ inHand' = {} /\ book' = r.book /\ health' = HealthAfterIngest(health, r)
      /\ task' = (IF r.needs THEN Scheduled(task) ELSE task)
      /\ UNCHANGED <<exId, sentId, repeats, wire, connected>>
  BY DEF IngestDiff, exchangeVars
<1>1. /\ SoundBook(r.book, Elements(book.buffer) \cup {d})
      /\ \/ (Stays(r) \/ Loses(r) \/ Keeps(r))
         \/ GoesLive(r) /\ ~Asking
         \/ GivesUp(r, book.pending) /\ book.pending # None
         \/ Waits(r, book.pending, "BUFFERING") /\ book.pending # None /\ ~Asking
  BY IngestLive, IngestWaiting
<1> HIDE DEF r
<1>t. TypeOK /\ task \in TaskRecords /\ health \in HealthRecords /\ sentId \in Nat
  BY TypeOKParts, Numbers DEF BookInv
<1>2. book' \in Books /\ Len(book'.buffer) <= MaxBuffer /\ ExactBook(book')
  BY <1>a, <1>1 DEF SoundBook
<1>3. /\ health' \in HealthRecords /\ HonestAbout(health', book')
  BY <1>a, <1>1, <1>2, <1>t, HealthAfterBook DEF BookInv
<1>4. /\ task' \in TaskRecords /\ (r.needs => task'.phase # "none")
      /\ task'.phase \in {task.phase, "requested"}
      /\ ~r.needs => task' = task
      /\ task'.phase = "fetched" => task' = task
  BY <1>a, <1>t, ScheduledType
<1>5. TypeOK'
  <2>1. /\ exId \in 1..MaxId /\ sentId \in 1..exId /\ repeats \in 0..MaxRepeats
        /\ wire \in Seq(Diffs) /\ Len(wire) <= MaxInFlight /\ connected \in BOOLEAN
    BY <1>t, TypeOKParts
  <2>2. inHand' \subseteq Diffs
    BY <1>a
  <2> QED BY <1>a, <1>2, <1>3, <1>4, <2>1, <2>2
          DEF TypeOK, Books, Statuses, Ids, TaskRecords, Phases, HealthRecords
<1>6. Streaming' /\ Stream' \subseteq Stream
  <2> DEFINE source == Elements(book.buffer) \cup {d}
  <2>1. source \subseteq Stream
    BY DEF Stream
  <2>2. \A e \in source, x \in inHand' \cup Elements(wire) : e.first <= x.first
    BY <1>a DEF BookInv, Streaming
  <2>3. SoundBook(book', source)
    BY <1>a, <1>1
  <2> HIDE DEF source
  <2> QED BY <1>a, <2>1, <2>2, <2>3, StreamingKept
<1>7. Held'
  BY <1>4 DEF BookInv, Held
<1>8. HealthIsHonest'
  BY <1>3 DEF HonestAbout, HealthIsHonest
<1>9. GivenUp' /\ Settled'
  <2>1. CASE Stays(r)
    <3>1. book'.status = "LIVE" /\ book'.pending = None /\ task' = task /\ book.status = "LIVE"
      BY <2>1, <1>a, <1>2, <1>4 DEF Stays, ExactBook
    <3> QED BY <3>1 DEF GivenUp, Settled, BookInv, Asking
  <2>2. CASE Loses(r) \/ Keeps(r)
    <3>1. book'.status # "LIVE" /\ book'.pending = None
      BY <2>2, <1>a DEF Loses, Keeps
    <3>2. ~(task'.phase = "emitting" /\ book'.status = "BUFFERING")
      BY <1>1, <1>4, <1>a, <2>2 DEF Loses, Keeps, BookInv, Settled
    <3> QED BY <3>1, <3>2 DEF GivenUp, Settled
  <2>3. CASE GoesLive(r) /\ ~Asking
    <3>1. book'.status = "LIVE" /\ book'.pending = None /\ task' = task
      BY <2>3, <1>a, <1>4 DEF GoesLive
    <3> QED BY <2>3, <3>1 DEF GivenUp, Settled, Asking
  <2>4. CASE GivesUp(r, book.pending) /\ book.pending # None
    <3>1. /\ book'.status # "LIVE" /\ book'.pending # None /\ book'.buffer # <<>>
          /\ \A e \in Elements(book'.buffer) : book'.pending < e.first
      BY <2>4, <1>a DEF GivesUp
    <3>2. sentId' \in Nat
      BY <1>a, <1>t
    <3>3. GivenUp'
      BY <3>1, <3>2, <1>2, <1>6, GivenUpKept
    <3> QED BY <3>1, <3>3 DEF Settled
  <2>5. CASE Waits(r, book.pending, "BUFFERING") /\ book.pending # None /\ ~Asking
    <3>1. book'.status = "BUFFERING" /\ task' = task /\ book'.pending = book.pending
      BY <2>5, <1>a, <1>4 DEF Waits
    <3> QED BY <2>5, <3>1 DEF GivenUp, Settled, Asking
  <2> QED BY <1>1, <2>1, <2>2, <2>3, <2>4, <2>5
<1> QED BY <1>2, <1>5, <1>6, <1>7, <1>8, <1>9 DEF BookInv

LEMMA InstallKeepsInv ==
  ASSUME BookInv, InstallSnapshot
  PROVE  BookInv'
<1> DEFINE r == Install(book, task.last)
<1>a. /\ task.phase = "fetched" /\ book' = r.book /\ health' = HealthAfterInstall(health, r)
      /\ task' = [task EXCEPT !.phase = "emitting"]
      /\ UNCHANGED <<exId, sentId, repeats, wire, connected, inHand>>
  BY DEF InstallSnapshot, exchangeVars, sessionVars
<1>1. /\ SoundBook(r.book, Elements(book.buffer))
      /\ \/ Loses(r) \/ GoesLive(r) \/ GivesUp(r, task.last)
         \/ Waits(r, task.last, "BUFFERING")
  BY <1>a, InstallOutcome
<1> HIDE DEF r
<1>t. /\ TypeOK /\ task \in TaskRecords /\ health \in HealthRecords /\ sentId \in Nat
      /\ task.last # None
  BY <1>a, TypeOKParts, Numbers DEF BookInv, Held
<1>2. book' \in Books /\ Len(book'.buffer) <= MaxBuffer /\ ExactBook(book')
  BY <1>a, <1>1 DEF SoundBook
<1>s. ~Stays(r)
  BY <1>a DEF BookInv, Settled, Asking, Stays
<1>3. /\ health' \in HealthRecords /\ HonestAbout(health', book')
  BY <1>a, <1>1, <1>2, <1>s, <1>t, HealthAfterBook DEF BookInv
<1>4. task' \in TaskRecords /\ task'.phase = "emitting"
  BY <1>a, <1>t DEF TaskRecords, Phases
<1>5. TypeOK'
  <2>1. /\ exId \in 1..MaxId /\ sentId \in 1..exId /\ repeats \in 0..MaxRepeats
        /\ wire \in Seq(Diffs) /\ Len(wire) <= MaxInFlight /\ connected \in BOOLEAN
        /\ inHand \subseteq Diffs
    BY <1>t, TypeOKParts
  <2> QED BY <1>a, <1>2, <1>3, <1>4, <2>1
          DEF TypeOK, Books, Statuses, Ids, TaskRecords, Phases, HealthRecords
<1>6. Streaming' /\ Stream' \subseteq Stream
  <2> DEFINE source == Elements(book.buffer)
  <2>1. source \subseteq Stream
    BY DEF Stream
  <2>2. \A e \in source, x \in inHand' \cup Elements(wire) : e.first <= x.first
    BY <1>a DEF BookInv, Streaming
  <2>3. SoundBook(book', source)
    BY <1>a, <1>1
  <2> HIDE DEF source
  <2> QED BY <1>a, <2>1, <2>2, <2>3, StreamingKept
<1>7. Held' /\ Settled'
  BY <1>a, <1>1, <1>4, <1>t DEF Held, Settled, Asking, Loses, GoesLive, GivesUp, Waits
<1>8. HealthIsHonest'
  BY <1>3 DEF HonestAbout, HealthIsHonest
<1>9. GivenUp'
  <2>1. CASE Loses(r) \/ GoesLive(r)
    BY <2>1, <1>a DEF Loses, GoesLive, GivenUp
  <2>2. CASE GivesUp(r, task.last)
    <3>1. /\ book'.pending # None /\ book'.buffer # <<>>
          /\ \A e \in Elements(book'.buffer) : book'.pending < e.first
      BY <2>2, <1>a, <1>t DEF GivesUp
    <3>2. sentId' \in Nat
      BY <1>a, <1>t
    <3> QED BY <3>1, <3>2, <1>2, <1>6, GivenUpKept
  <2>3. CASE Waits(r, task.last, "BUFFERING")
    BY <2>3, <1>a, <1>4 DEF Waits, GivenUp, Asking
  <2> QED BY <1>1, <2>1, <2>2, <2>3
<1> QED BY <1>2, <1>5, <1>6, <1>7, <1>8, <1>9 DEF BookInv

(* A step that leaves the book, its task's purpose and its stream alone. *)
LEMMA FrameKeepsInv ==
  ASSUME BookInv, TypeOK', UNCHANGED <<book, wire, inHand, sentId>>,
         task'.phase = "requested" => task.phase = "requested",
         task'.phase = "fetched" => task.phase \in {"requested", "fetched"} /\ task'.last # None,
         task'.phase = "emitting" => task.phase = "emitting",
         health'.connected /\ ~health'.resyncing =>
            health.connected /\ ~health.resyncing /\ health'.gen = health.gen
              /\ health'.gap = health.gap
  PROVE  BookInv'
<1>1. Streaming' /\ Stream' = Stream
  BY DEF BookInv, Streaming, Stream
<1>2. Asking' => Asking
  BY DEF Asking
<1>3. GivenUp' /\ Settled'
  BY <1>1, <1>2 DEF BookInv, GivenUp, Settled
<1> QED BY <1>1, <1>3 DEF BookInv, Held, HealthIsHonest

LEMMA SendKeepsInv ==
  ASSUME BookInv, NEW delivered \in BOOLEAN, SendDiff(delivered)
  PROVE  BookInv'
<1> DEFINE d == [first |-> sentId + 1, final |-> exId, prev |-> sentId]
<1>a. /\ sentId < exId /\ (delivered => Len(wire) < MaxInFlight) /\ sentId' = exId
      /\ wire' = (IF delivered THEN Append(wire, d) ELSE wire)
      /\ UNCHANGED <<exId, repeats, connected, inHand, book, task, health>>
  BY DEF SendDiff, bookVars
<1>t. /\ exId \in 1..MaxId /\ sentId \in 1..exId /\ wire \in Seq(Diffs)
      /\ Len(wire) <= MaxInFlight /\ book \in Books
  BY TypeOKParts DEF BookInv
<1>1. d \in Diffs /\ GoodDiff(d) /\ d.final <= sentId'
  BY <1>a, <1>t, Numbers DEF Diffs, GoodDiff
<1>2. \A e \in Stream : e.first <= d.first /\ e.final <= sentId' /\ GoodDiff(e)
  <2> SUFFICES ASSUME NEW e \in Stream
               PROVE  e.first <= d.first /\ e.final <= sentId' /\ GoodDiff(e)
    OBVIOUS
  <2>1. GoodDiff(e) /\ e.final <= sentId
    BY DEF BookInv, Streaming
  <2>2. e.first \in 1..MaxId /\ e.final \in 1..MaxId /\ e.prev \in 0..MaxId
    BY <2>1 DEF GoodDiff, Diffs
  <2> QED BY <2>1, <2>2, <1>a, <1>t, Numbers DEF GoodDiff
<1> HIDE DEF d
<1>3. /\ wire' \in Seq(Diffs) /\ Len(wire') <= MaxInFlight
      /\ Elements(wire') \subseteq Elements(wire) \cup {d} /\ InOrder(wire')
  <2>1. CASE delivered
    <3>1. wire' = Append(wire, d) /\ Len(wire) < MaxInFlight
      BY <2>1, <1>a
    <3>2. \A e \in Elements(wire) : e.first <= d.first
      BY <1>2 DEF Stream
    <3>3. InOrder(wire') /\ Elements(wire') = Elements(wire) \cup {d}
      BY <3>1, <3>2, <1>1, <1>t, OrderOf, ElementsOf DEF BookInv, Streaming
    <3>4. wire' \in Seq(Diffs) /\ Len(wire') <= MaxInFlight
      BY <3>1, <1>t, <1>1, BookAssumption
    <3> QED BY <3>3, <3>4
  <2>2. CASE ~delivered
    BY <2>2, <1>a, <1>t DEF BookInv, Streaming
  <2> QED BY <2>1, <2>2
<1>4. Stream' \subseteq Stream \cup {d}
  BY <1>a, <1>3 DEF Stream
<1>5. Streaming'
  <2>1. \A e \in Stream' : GoodDiff(e) /\ e.final <= sentId'
    BY <1>1, <1>2, <1>4
  <2>2. \A b \in Elements(book.buffer), e \in inHand \cup Elements(wire) \cup {d} : b.first <= e.first
    BY <1>2 DEF BookInv, Streaming, Stream
  <2>3. \A e \in inHand, w \in Elements(wire) \cup {d} : e.first <= w.first
    BY <1>2 DEF BookInv, Streaming, Stream
  <2> QED BY <1>a, <1>3, <2>1, <2>2, <2>3 DEF Streaming, BookInv
<1>6. GivenUp'
  <2> SUFFICES ASSUME book'.pending # None, book'.status = "RESYNC_REQUIRED" \/ Asking'
               PROVE  book'.pending <= sentId' /\ \A e \in Stream' : book'.pending < e.first
    BY DEF GivenUp
  <2>1. book.pending <= sentId /\ \A e \in Stream : book.pending < e.first
    BY <1>a DEF BookInv, GivenUp, Asking
  <2>2. book.pending \in 1..MaxId
    BY <1>a, <1>t DEF Books, Ids
  <2>3. book.pending < d.first /\ book.pending <= sentId'
    BY <2>1, <2>2, <1>a, <1>t, Numbers DEF d
  <2> QED BY <1>a, <1>4, <2>1, <2>3
<1>7. TypeOK'
  <2>1. sentId' \in 1..exId'
    BY <1>a, <1>t, Numbers
  <2> QED BY <1>a, <1>3, <2>1 DEF BookInv, TypeOK
<1> QED BY <1>a, <1>5, <1>6, <1>7 DEF BookInv, Held, Settled, Asking, HealthIsHonest

LEMMA RepeatKeepsInv == BookInv /\ RepeatDiff => BookInv'
<1> SUFFICES ASSUME BookInv, RepeatDiff PROVE BookInv'
  OBVIOUS
<1> DEFINE d == wire[Len(wire)]
<1>a. /\ wire # <<>> /\ Len(wire) < MaxInFlight /\ repeats < MaxRepeats
      /\ repeats' = repeats + 1 /\ wire' = Append(wire, d)
      /\ UNCHANGED <<exId, sentId, connected, inHand, book, task, health>>
  BY DEF RepeatDiff, bookVars, Last
<1>t. wire \in Seq(Diffs) /\ repeats \in 0..MaxRepeats
  BY TypeOKParts DEF BookInv
<1>0. Len(wire) \in 1..Len(wire) /\ DOMAIN wire = 1..Len(wire) /\ Len(wire) \in Nat
  BY <1>a, <1>t
<1>1. d \in Diffs /\ d \in Elements(wire) /\ \A e \in Elements(wire) : e.first <= d.first
  <2>1. d \in Diffs /\ d \in Elements(wire)
    BY <1>0, <1>t DEF Elements
  <2>2. ASSUME NEW i \in 1..Len(wire) PROVE wire[i].first <= d.first
    <3>1. i <= Len(wire)
      BY <1>0
    <3> QED BY <3>1, <1>0 DEF BookInv, Streaming, InOrder
  <2> QED BY <2>1, <2>2, <1>0 DEF Elements
<1> HIDE DEF d
<1>2. Elements(wire') = Elements(wire) /\ InOrder(wire')
  <2>1. Elements(Append(wire, d)) = Elements(wire) \cup {d}
    BY <1>1, <1>t, ElementsOf
  <2>2. Elements(wire) \cup {d} = Elements(wire)
    BY <1>1
  <2>3. InOrder(Append(wire, d))
    BY <1>1, <1>t, OrderOf DEF BookInv, Streaming
  <2> QED BY <1>a, <2>1, <2>2, <2>3
<1>3. Stream' = Stream /\ Streaming'
  BY <1>a, <1>2 DEF BookInv, Streaming, Stream
<1>4. TypeOK'
  <2>1. wire' \in Seq(Diffs) /\ Len(wire') <= MaxInFlight
    BY <1>a, <1>t, <1>0, <1>1, BookAssumption
  <2>2. repeats' \in 0..MaxRepeats
    BY <1>a, <1>t, BookAssumption
  <2> QED BY <1>a, <2>1, <2>2 DEF BookInv, TypeOK
<1> QED BY <1>a, <1>3, <1>4 DEF BookInv, GivenUp, Held, Settled, Asking, HealthIsHonest

LEMMA ConnectKeepsInv == BookInv /\ Connect => BookInv'
<1> SUFFICES ASSUME BookInv, Connect PROVE BookInv'
  OBVIOUS
<1>a. /\ book' = Invalidated(book, <<>>) /\ connected' = TRUE
      /\ health' = MarkResyncing([health EXCEPT !.connected = TRUE], book'.gen)
      /\ task' = Scheduled(task)
      /\ UNCHANGED <<exId, sentId, repeats, wire, inHand>>
  BY DEF Connect, exchangeVars
<1>t. TypeOK /\ book \in Books /\ task \in TaskRecords /\ health \in HealthRecords
  BY TypeOKParts DEF BookInv
<1>1. <<>> \in Seq(Diffs) /\ Len(<<>>) <= MaxBuffer /\ InOrder(<<>>) /\ Elements(<<>>) = {}
  BY BookAssumption DEF InOrder, Elements
<1>2. /\ SoundBook(book', {}) /\ book'.status = "RESYNC_REQUIRED" /\ book'.pending = None
      /\ book' \in Books /\ book'.gen \in Nat /\ Len(book'.buffer) <= MaxBuffer
      /\ ExactBook(book')
  BY <1>a, <1>1, <1>t, InvalidatedSound, ZenonT(60) DEF SoundBook, Books
<1>3. health' \in HealthRecords /\ health'.resyncing
  <2>1. [health EXCEPT !.connected = TRUE] \in HealthRecords
    BY <1>t DEF HealthRecords
  <2> QED BY <1>a, <1>2, <2>1, MarksType
<1>4. task' \in TaskRecords /\ (task'.phase = "fetched" => task' = task)
  BY <1>a, <1>t, ScheduledType
<1>5. Streaming'
  BY <1>a, <1>2, StreamingKept
<1>6. TypeOK'
  <2>1. /\ exId \in 1..MaxId /\ sentId \in 1..exId /\ repeats \in 0..MaxRepeats
        /\ wire \in Seq(Diffs) /\ Len(wire) <= MaxInFlight /\ inHand \subseteq Diffs
    BY <1>t, TypeOKParts
  <2> QED BY <1>a, <1>2, <1>3, <1>4, <2>1
          DEF TypeOK, Books, Statuses, Ids, TaskRecords, Phases, HealthRecords
<1> QED BY <1>2, <1>3, <1>4, <1>5, <1>6
        DEF BookInv, GivenUp, Held, Settled, HealthIsHonest

LEMMA DisconnectKeepsInv == BookInv /\ Disconnect => BookInv'
<1> SUFFICES ASSUME BookInv, Disconnect PROVE BookInv'
  OBVIOUS
<1>a. /\ wire' = <<>> /\ connected' = FALSE
      /\ health' = [health EXCEPT !.connected = FALSE, !.resyncing = FALSE]
      /\ UNCHANGED <<exId, sentId, repeats, inHand, book, task>>
  BY DEF Disconnect, exchangeVars
<1>1. /\ wire' \in Seq(Diffs) /\ Len(wire') <= MaxInFlight /\ InOrder(wire')
      /\ Elements(wire') = {}
  BY <1>a, BookAssumption DEF InOrder, Elements
<1>2. Stream' \subseteq Stream /\ Streaming'
  BY <1>a, <1>1 DEF BookInv, Streaming, Stream
<1>3. health' \in HealthRecords /\ ~health'.connected
  <2>1. health \in HealthRecords
    BY TypeOKParts DEF BookInv
  <2> QED BY <1>a, <2>1 DEF HealthRecords
<1>4. TypeOK'
  BY <1>a, <1>1, <1>3 DEF BookInv, TypeOK, HealthRecords
<1> QED BY <1>a, <1>2, <1>3, <1>4
        DEF BookInv, GivenUp, Held, Settled, Asking, HealthIsHonest

LEMMA ReceiveKeepsInv == BookInv /\ ReceiveDiff => BookInv'
<1> SUFFICES ASSUME BookInv, ReceiveDiff PROVE BookInv'
  OBVIOUS
<1>a. /\ inHand = {} /\ wire # <<>> /\ inHand' = {Head(wire)} /\ wire' = Tail(wire)
      /\ UNCHANGED <<exId, sentId, repeats, connected, book, task, health>>
  BY DEF ReceiveDiff, exchangeVars, bookVars
<1>t. wire \in Seq(Diffs) /\ Len(wire) <= MaxInFlight
  BY TypeOKParts DEF BookInv
<1>1. /\ Elements(Tail(wire)) \subseteq Elements(wire) /\ Head(wire) \in Elements(wire)
      /\ InOrder(Tail(wire)) /\ \A e \in Elements(wire) : Head(wire).first <= e.first
  BY <1>a, <1>t, ElementsOf, OrderOf DEF BookInv, Streaming
<1>2. Stream' \subseteq Stream
  BY <1>a, <1>1 DEF Stream
<1>3. Streaming'
  BY <1>a, <1>1, <1>2 DEF BookInv, Streaming
<1>4. TypeOK'
  <2>1. wire' \in Seq(Diffs) /\ Len(wire') <= MaxInFlight /\ Head(wire) \in Diffs
    BY <1>a, <1>t, BookAssumption
  <2> QED BY <1>a, <2>1 DEF BookInv, TypeOK
<1> QED BY <1>a, <1>2, <1>3, <1>4
        DEF BookInv, GivenUp, Held, Settled, Asking, HealthIsHonest

LEMMA TaskKeepsInv ==
  ASSUME BookInv,
         \/ ExchangeChanges \/ (\E last \in 1..MaxId : FetchSnapshot(last))
         \/ RefreshFails \/ SnapshotDone
  PROVE  BookInv'
<1>t. /\ task \in TaskRecords /\ health \in HealthRecords /\ TypeOK
  BY TypeOKParts DEF BookInv
<1>1. CASE ExchangeChanges
  <2>1. /\ exId < MaxId /\ exId' = exId + 1
        /\ UNCHANGED <<sentId, repeats, wire, connected, inHand, book, task, health>>
    BY <1>1 DEF ExchangeChanges, sessionVars, bookVars
  <2>2. exId' \in 1..MaxId /\ sentId' \in 1..exId'
    BY <1>t, <2>1, Numbers, TypeOKParts
  <2>3. TypeOK'
    BY <1>t, <2>1, <2>2 DEF TypeOK
  <2> QED BY <2>1, <2>3, FrameKeepsInv DEF BookInv, Held
<1>2. ASSUME NEW last \in 1..MaxId, FetchSnapshot(last) PROVE BookInv'
  <2>1. /\ task.phase = "requested" /\ task' = [phase |-> "fetched", last |-> last]
        /\ UNCHANGED <<exId, sentId, repeats, wire, connected, inHand, book, health>>
    BY <1>2 DEF FetchSnapshot, exchangeVars, sessionVars
  <2>2. task' \in TaskRecords /\ task'.phase = "fetched" /\ task'.last # None
    BY <2>1, Numbers DEF TaskRecords, Phases, Ids
  <2>3. TypeOK'
    BY <1>t, <2>1, <2>2 DEF TypeOK, TaskRecords, Phases, Ids
  <2> QED BY <2>1, <2>2, <2>3, FrameKeepsInv
<1>3. CASE RefreshFails \/ SnapshotDone
  <2>1. /\ task' = NoTask
        /\ health' = health \/ \E rest \in BOOLEAN : health' = [health EXCEPT !.rest = rest]
        /\ UNCHANGED <<exId, sentId, repeats, wire, connected, inHand, book>>
    BY <1>3 DEF RefreshFails, SnapshotDone, exchangeVars, sessionVars
  <2>2. task' \in TaskRecords /\ task'.phase = "none"
    BY <2>1 DEF TaskRecords, Phases, Ids, NoTask
  <2>3. /\ health' \in HealthRecords /\ health'.connected = health.connected
        /\ health'.resyncing = health.resyncing /\ health'.gen = health.gen
        /\ health'.gap = health.gap
    BY <1>t, <2>1 DEF HealthRecords
  <2>4. TypeOK'
    BY <1>t, <2>1, <2>2, <2>3 DEF TypeOK, TaskRecords, Phases, Ids, HealthRecords
  <2> QED BY <2>1, <2>2, <2>3, <2>4, FrameKeepsInv
<1> QED BY <1>1, <1>2, <1>3

LEMMA BookInvStutter == BookInv /\ UNCHANGED bvars => BookInv'
<1> SUFFICES ASSUME BookInv, UNCHANGED bvars PROVE BookInv'
  OBVIOUS
<1>1. UNCHANGED <<exId, sentId, repeats, wire, connected, inHand, book, task, health>>
  BY DEF bvars, exchangeVars, sessionVars, bookVars
<1>2. TypeOK'
  BY <1>1 DEF BookInv, TypeOK
<1> QED BY <1>1, <1>2, FrameKeepsInv DEF BookInv, Held

LEMMA BookInvNext == BookInv /\ [Next]_bvars => BookInv'
<1> SUFFICES ASSUME BookInv, [Next]_bvars PROVE BookInv'
  OBVIOUS
<1> QED
  BY IngestKeepsInv, InstallKeepsInv, SendKeepsInv, RepeatKeepsInv, ConnectKeepsInv,
     DisconnectKeepsInv, ReceiveKeepsInv, TaskKeepsInv, BookInvStutter DEF Next

LEMMA BookInvariance == Spec => []BookInv
  BY BookInvInit, BookInvNext, PTL DEF Spec

----------------------------------------------------------------------------
(* Types, with the bound of the diff buffer, for every exchange, buffer    *)
(* capacity and number of frames on the wire.                              *)
THEOREM BookTypeCorrect == Spec => []TypeOK
<1>1. BookInv => TypeOK
  BY DEF BookInv
<1> QED BY <1>1, BookInvariance, PTL

(* A LIVE book is exactly the exchange's book at its sequence id, whatever *)
(* was lost, repeated, buffered or fetched on the way there (ingest,       *)
(* install_snapshot, _try_activate_snapshot).                              *)
THEOREM LiveIsExact == Spec => []LiveBookIsExact
<1>1. BookInv => LiveBookIsExact
  BY DEF BookInv, ExactBook, LiveBookIsExact
<1> QED BY <1>1, BookInvariance, PTL

(* No snapshot is installed over a LIVE book, however the snapshot task    *)
(* interleaves with gaps and reconnections (_schedule_depth_snapshot).     *)
THEOREM NeverOverLive == Spec => []NoInstallOverLive
<1>1. BookInv => NoInstallOverLive
  BY DEF BookInv, Settled, Asking, NoInstallOverLive
<1> QED BY <1>1, BookInvariance, PTL

(* The health registry never calls an open depth stream synchronized       *)
(* unless the book is LIVE and of the reported generation.                 *)
THEOREM HonestHealth == Spec => []HealthIsHonest
<1>1. BookInv => HealthIsHonest
  BY DEF BookInv
<1> QED BY <1>1, BookInvariance, PTL

(* Within one generation a LIVE book stays LIVE and moves only forward:    *)
(* every loss of continuity shows as a new generation (ingest, _overflow,  *)
(* begin_resync).                                                          *)
THEOREM Continuity == Spec => ContinuityWithinGeneration
<1> DEFINE Forward == book.status = "LIVE" /\ book'.gen = book.gen
                        => book'.status = "LIVE" /\ book'.seq >= book.seq
<1>1. BookInv /\ [Next]_bvars => [Forward]_bvars
  <2> SUFFICES ASSUME BookInv, Next, book.status = "LIVE", book'.gen = book.gen
               PROVE  book'.status = "LIVE" /\ book'.seq >= book.seq
    OBVIOUS
  <2>0. book \in Books /\ book.gen \in Nat /\ book.seq \in 1..MaxId
    BY TypeOKParts DEF BookInv, ExactBook, Books, Ids
  <2>1. ASSUME NEW d \in inHand, IngestDiff(d) PROVE book'.status = "LIVE" /\ book'.seq >= book.seq
    <3> DEFINE r == Ingest(book, d)
    <3>1. book' = r.book
      BY <2>1 DEF IngestDiff
    <3>2. Stays(r) \/ Loses(r)
      BY IngestLive
    <3> HIDE DEF r
    <3>3. ~Loses(r)
      BY <2>0, <3>1 DEF Loses
    <3> QED BY <3>1, <3>2, <3>3 DEF Stays
  <2>2. CASE Connect
    BY <2>0, <2>2 DEF Connect, Invalidated
  <2>3. CASE InstallSnapshot
    BY <2>3 DEF InstallSnapshot, BookInv, Settled, Asking
  <2>4. CASE UNCHANGED book
    BY <2>0, <2>4, Numbers
  <2> QED BY <2>1, <2>2, <2>3, <2>4
          DEF Next, ExchangeChanges, SendDiff, RepeatDiff, Disconnect, ReceiveDiff,
              FetchSnapshot, RefreshFails, SnapshotDone, bookVars
<1> QED BY <1>1, BookInvariance, PTL DEF Spec, ContinuityWithinGeneration

(* After every diff the book is LIVE, a snapshot still to be installed is  *)
(* under way, an installed one waits for the diffs that follow it, or the  *)
(* book says that it needs one and the task is still emitting the last: a  *)
(* failed or superseded snapshot never strands the book                    *)
(* (_handle_websocket_message, _schedule_depth_snapshot).                  *)
THEOREM DiffsRevive == Spec => DiffRevivesBook
<1> DEFINE Revived == \/ book'.status = "LIVE"
                      \/ task'.phase \in {"requested", "fetched"}
                      \/ task.phase = "emitting" /\ book'.status = "RESYNC_REQUIRED"
                      \/ book'.status = "BUFFERING" /\ book'.pending # None
                           /\ book'.buffer = <<>>
           Revives == \A d \in inHand : IngestDiff(d) => Revived
<1>1. BookInv /\ [Next]_bvars => [Revives]_bvars
  <2> SUFFICES ASSUME BookInv, NEW d \in inHand, IngestDiff(d) PROVE Revived
    OBVIOUS
  <2> DEFINE r == Ingest(book, d)
  <2>1. book' = r.book /\ task' = (IF r.needs THEN Scheduled(task) ELSE task)
    BY DEF IngestDiff
  <2>2. /\ \/ (Stays(r) \/ Loses(r) \/ Keeps(r))
           \/ GoesLive(r)
           \/ GivesUp(r, book.pending)
           \/ Waits(r, book.pending, "BUFFERING") /\ book.pending # None
    BY IngestLive, IngestWaiting
  <2> HIDE DEF r
  <2>3. r.needs => task'.phase \in {"requested", "fetched"} \/ task.phase = "emitting"
    <3>1. task \in TaskRecords
      BY TypeOKParts DEF BookInv
    <3> QED BY <2>1, <3>1 DEF Scheduled, TaskRecords, Phases
  <2>4. Keeps(r) /\ task.phase = "emitting" => r.book.status = "RESYNC_REQUIRED"
    BY TypeOKParts DEF Keeps, BookInv, Settled, Books, Statuses
  <2> QED BY <2>1, <2>2, <2>3, <2>4 DEF Stays, Loses, Keeps, GoesLive, GivesUp, Waits
<1> QED BY <1>1, BookInvariance, PTL DEF Spec, DiffRevivesBook

----------------------------------------------------------------------------
(* The events on their way                                                 *)

Slots ==
    {s \in [kind : {"snapshot", "update"}, first : Int, prev : Int, final : 1..MaxId,
            gen : Nat, emitted : BOOLEAN] :
        s.kind = "update" => s.prev \in 0..MaxId /\ s.first = s.prev + 1}

InFeed(kind) == \E i \in 1..Len(feed) : feed[i].kind = kind /\ ~feed[i].emitted

(* An event in processing has its place in the feed. *)
FeedInv ==
    /\ path \in Paths
    /\ feed \in Seq(Slots) /\ Len(feed) <= MaxFeed
    /\ inHand # {} => InFeed("update")
    /\ task.phase \in {"fetched", "emitting"} => InFeed("snapshot")

(* The exchange's books are the correct ones. *)
Genuine == {<<n, BookAt(n)>> : n \in 1..MaxId}

FeatureInv ==
    /\ fbook \in FP!Books(1..MaxId) /\ Len(fbook.pending) <= PendingCapacity
    /\ FP!Exact(Genuine, 1..MaxId, fbook)
    /\ bookAt \in {None} \cup 1..MaxId

PInv == BookInv /\ FeedInv /\ FeatureInv

----------------------------------------------------------------------------
(* The operators of the feature book are those its proofs are about.       *)
LEMMA SameSound == \A levels : FB!Sound(levels) = FP!Sound(levels)
  BY DEF FB!Sound, FB!TwoSided, FB!Side, FP!Sound, FP!TwoSided, FP!Side

LEMMA SameLoop == \A o, u : FB!Replayed(o, u) = FP!Replayed(o, u)
  BY DEF FB!Replayed, FB!ReplayStep, FB!Applied, FB!Outcome, FB!Desynchronized, FB!Overlay,
         FB!Sound, FB!TwoSided, FB!Side, FB!None,
         FP!Replayed, FP!ReplayStep, FP!Applied, FP!Outcome, FP!Desynchronized, FP!Overlay,
         FP!Sound, FP!TwoSided, FP!Side, FP!None

LEMMA SameSort == \A u : FB!BySequence(u) = FP!BySequence(u)
  BY Zenon DEF FB!BySequence, FP!BySequence, FB!InsertAt, FP!InsertAt, FB!Cardinality,
               FP!Cardinality

LEMMA SameUpdate == \A f, e : FB!ApplyUpdate(f, e) = FP!ApplyUpdate(f, e)
  BY DEF FB!ApplyUpdate, FB!Buffered, FB!Applied, FB!Outcome, FB!Desynchronized, FB!Reset,
         FB!Overlay, FB!Sound, FB!TwoSided, FB!Side, FB!NoLevels, FB!None,
         FP!ApplyUpdate, FP!Buffered, FP!Applied, FP!Outcome, FP!Desynchronized, FP!Reset,
         FP!Overlay, FP!Sound, FP!TwoSided, FP!Side, FP!NoLevels, FP!None

LEMMA SameSnapshot == \A f, e : FB!ApplySnapshot(f, e) = FP!ApplySnapshot(f, e)
  BY SameLoop, SameSort, SameSound
     DEF FB!ApplySnapshot, FB!Outcome, FB!Desynchronized, FB!Reset, FB!Overlay, FB!NoLevels,
         FB!None, FB!Continuing, FB!TwoSided, FB!Side,
         FP!ApplySnapshot, FP!Outcome, FP!Desynchronized, FP!Reset, FP!Overlay, FP!NoLevels,
         FP!None, FP!Continuing, FP!TwoSided, FP!Side

LEMMA SameApply == \A f, e : FB!Apply(f, e) = FP!Apply(f, e)
  BY SameUpdate, SameSnapshot DEF FB!Apply, FP!Apply

(* An event of the feed leads from a book of the exchange to another.      *)
LEMMA EventFits ==
  ASSUME NEW s \in Slots
  PROVE  /\ Event(s) \in FP!BookEvents(1..MaxId) /\ Event(s).at = s.final
         /\ FP!Fits(Genuine, Event(s))
<1> DEFINE changed == IF s.kind = "snapshot" THEN BookAt(s.final)
                      ELSE [l \in Touched(s) |-> BookAt(s.final)[l]]
<1>1. s.final \in 1..MaxId /\ s.final \in 0..MaxId /\ MaxId \in Nat
  BY ExchangeAssumption DEF Slots
<1>2. BookAt(s.final) \in [Levels -> Nat]
  BY <1>1, BookAtType
<1>3. s.kind = "update" => Touched(s) \subseteq Levels
  <2> SUFFICES ASSUME s.kind = "update", NEW k \in s.first..s.final
               PROVE  DOMAIN Change[k] \subseteq Levels
    BY DEF Touched
  <2>1. s.prev \in 0..MaxId /\ s.first = s.prev + 1
    BY DEF Slots
  <2>2. k \in 1..MaxId
    BY <1>1, <2>1
  <2> QED BY <2>2, ExchangeAssumption
<1>4. s.kind \in {"snapshot", "update"} /\ s.gen \in Nat /\ s.prev \in Int
  BY DEF Slots
<1>5. changed \in FP!Changes
  <2>1. CASE s.kind = "snapshot"
    BY <1>2, <2>1 DEF FP!Changes
  <2>2. CASE s.kind = "update"
    <3>1. changed \in [Touched(s) -> Nat] /\ Touched(s) \in SUBSET Levels
      BY <1>2, <1>3, <2>2
    <3> HIDE DEF changed
    <3> QED BY <3>1 DEF FP!Changes
  <2> QED BY <1>4, <2>1, <2>2
<1>6. Event(s) = [kind |-> s.kind, gen |-> s.gen, seq |-> s.final, prev |-> s.prev,
                  at |-> s.final, levels |-> changed]
  BY DEF Event
<1>7. /\ Event(s).kind = s.kind /\ Event(s).seq = s.final /\ Event(s).prev = s.prev
      /\ Event(s).levels = changed /\ Event(s).at = s.final
  BY <1>6
<1>8. Event(s) \in FP!BookEvents(1..MaxId)
  <2> HIDE DEF changed
  <2> QED BY <1>1, <1>4, <1>5, <1>6 DEF FP!BookEvents
<1>9. ASSUME s.kind = "snapshot"
      PROVE  <<s.final, FP!Overlay(FP!NoLevels, changed)>> \in Genuine
  <2>1. changed = BookAt(s.final)
    BY <1>9
  <2>2. FP!Overlay(FP!NoLevels, BookAt(s.final)) = BookAt(s.final)
    BY <1>2 DEF FP!Overlay
  <2> QED BY <1>1, <2>1, <2>2 DEF Genuine
<1>10. ASSUME s.kind = "update", NEW seq, NEW levels, <<seq, levels>> \in Genuine,
              seq < s.final, s.prev <= seq
       PROVE  <<s.final, FP!Overlay(levels, changed)>> \in Genuine
  <2>1. seq \in 1..MaxId /\ levels = BookAt(seq)
    BY <1>10 DEF Genuine
  <2>2. s.prev \in 0..MaxId /\ s.first = s.prev + 1
    BY <1>10 DEF Slots
  <2>3. /\ seq \in 0..MaxId /\ s.first \in Nat /\ s.first <= seq + 1 /\ seq <= s.final
    BY <1>1, <1>10, <2>1, <2>2
  <2>4. [l \in Levels |-> IF l \in Touched(s) THEN BookAt(s.final)[l] ELSE BookAt(seq)[l]]
          = BookAt(s.final)
    BY <1>1, <2>3, OverlayIsExact
  <2>5. changed = [l \in Touched(s) |-> BookAt(s.final)[l]]
    BY <1>10
  <2>6. FP!Overlay(levels, changed) = BookAt(s.final)
    BY <2>1, <2>4, <2>5 DEF FP!Overlay
  <2> QED BY <1>1, <2>6 DEF Genuine
<1> HIDE DEF changed
<1>11. FP!Fits(Genuine, Event(s))
  BY <1>7, <1>9, <1>10 DEF FP!Fits
<1> QED BY <1>7, <1>8, <1>11

----------------------------------------------------------------------------
(* The feed.                                                               *)

(* Taking an element out keeps the others, those behind it one place up.   *)
LEMMA RemoveAtFacts ==
  ASSUME NEW S, NEW s \in Seq(S), NEW i \in 1..Len(s)
  PROVE  /\ RemoveAt(s, i) \in Seq(S) /\ Len(RemoveAt(s, i)) = Len(s) - 1
         /\ \A j \in 1..Len(s) : j < i => RemoveAt(s, i)[j] = s[j]
         /\ \A j \in 1..Len(s) : j > i => RemoveAt(s, i)[j - 1] = s[j]
<1> DEFINE a == SubSeq(s, 1, i - 1)
           b == SubSeq(s, i + 1, Len(s))
<1>0. Len(s) \in Nat
  OBVIOUS
<1>1. a \in Seq(S) /\ Len(a) = i - 1 /\ \A j \in 1..i - 1 : a[j] = s[j]
  BY <1>0
<1>2. b \in Seq(S) /\ Len(b) = Len(s) - i /\ \A j \in 1..Len(s) - i : b[j] = s[i + j]
  BY <1>0
<1>3. RemoveAt(s, i) = a \o b
  BY DEF RemoveAt
<1> HIDE DEF a, b
<1>4. a \o b \in Seq(S) /\ Len(a \o b) = Len(s) - 1
  <2>1. a \in Seq(S) /\ b \in Seq(S)
    BY <1>1, <1>2
  <2>2. a \o b \in Seq(S) /\ Len(a \o b) = Len(a) + Len(b)
    BY <2>1, ConcatProperties
  <2> QED BY <1>0, <1>1, <1>2, <2>2
<1>5. ASSUME NEW j \in 1..Len(s), j < i PROVE (a \o b)[j] = s[j]
  <2>1. j \in 1..i - 1 /\ j \in 1..Len(a) + Len(b) /\ j <= Len(a)
    BY <1>0, <1>1, <1>2, <1>5
  <2>2. (a \o b)[j] = a[j]
    BY <1>1, <1>2, <2>1
  <2> QED BY <1>1, <2>1, <2>2
<1>6. ASSUME NEW j \in 1..Len(s), j > i PROVE (a \o b)[j - 1] = s[j]
  <2>1. /\ j - 1 \in 1..Len(a) + Len(b) /\ j - 1 > Len(a)
        /\ (j - 1) - Len(a) \in 1..Len(s) - i /\ i + ((j - 1) - Len(a)) = j
    BY <1>0, <1>1, <1>2, <1>6
  <2>2. (a \o b)[j - 1] = b[(j - 1) - Len(a)]
    BY <1>1, <1>2, <2>1
  <2> QED BY <1>2, <2>1, <2>2
<1> QED BY <1>3, <1>4, <1>5, <1>6

LEMMA SelectWaiting ==
  ASSUME feed \in Seq(Slots), NEW kind, InFeed(kind)
  PROVE  LET i == InProcess(kind)
         IN  i \in 1..Len(feed) /\ feed[i].kind = kind /\ ~feed[i].emitted
<1> DEFINE I == {i \in 1..Len(feed) : feed[i].kind = kind /\ ~feed[i].emitted}
<1>1. InProcess(kind) = IF I # {} THEN Min(I) ELSE 0
  BY DEF InProcess, SelectInSeq
<1>2. I \subseteq Nat /\ I # {}
  BY DEF InFeed
<1>3. Min(I) \in I
  <2> HIDE DEF I
  <2> QED BY <1>2, MinIsLeast
<1> QED BY <1>1, <1>2, <1>3

(* Emitting or losing an event leaves those of the other kind in           *)
(* processing.                                                             *)
LEMMA EmitKeeps ==
  ASSUME feed \in Seq(Slots), NEW kind, InFeed(kind), NEW gen \in Nat,
         Emit(kind, gen) \/ feed' = RemoveAt(feed, InProcess(kind))
  PROVE  /\ feed' \in Seq(Slots) /\ Len(feed') <= Len(feed)
         /\ \A other : other # kind /\ InFeed(other) => InFeed(other)'
<1>1. PICK i \in 1..Len(feed) :
        /\ i = InProcess(kind)
        /\ feed[i].kind = kind
  BY SelectWaiting
<1>2. PICK slot : slot = [feed[i] EXCEPT !.gen = gen, !.emitted = TRUE]
  OBVIOUS
<1>3. feed' = [feed EXCEPT ![i] = slot] \/ feed' = RemoveAt(feed, i)
  BY <1>1, <1>2 DEF Emit
<1>4. slot \in Slots
  <2>1. feed[i] \in Slots
    OBVIOUS
  <2> QED BY <1>2, <2>1 DEF Slots
<1>0. Len(feed) \in Nat
  OBVIOUS
<1>5. CASE feed' = [feed EXCEPT ![i] = slot]
  <2>1. feed' \in Seq(Slots) /\ Len(feed') = Len(feed)
    BY <1>4, <1>5
  <2>2. \A j \in 1..Len(feed) : j # i => feed'[j] = feed[j]
    BY <1>5
  <2>3. ASSUME NEW other, other # kind, InFeed(other) PROVE InFeed(other)'
    <3>1. PICK j \in 1..Len(feed) : feed[j].kind = other /\ ~feed[j].emitted
      BY <2>3 DEF InFeed
    <3>2. j # i
      BY <1>1, <2>3, <3>1
    <3> QED BY <2>1, <2>2, <3>1, <3>2 DEF InFeed
  <2> QED BY <1>0, <2>1, <2>3
<1>6. CASE feed' = RemoveAt(feed, i)
  <2>1. /\ feed' \in Seq(Slots) /\ Len(feed') = Len(feed) - 1
        /\ \A j \in 1..Len(feed) : j < i => feed'[j] = feed[j]
        /\ \A j \in 1..Len(feed) : j > i => feed'[j - 1] = feed[j]
    BY <1>6, RemoveAtFacts
  <2>2. ASSUME NEW other, other # kind, InFeed(other) PROVE InFeed(other)'
    <3>1. PICK j \in 1..Len(feed) : feed[j].kind = other /\ ~feed[j].emitted
      BY <2>2 DEF InFeed
    <3>2. j # i
      BY <1>1, <2>2, <3>1
    <3>3. CASE j < i
      <4>1. j \in 1..Len(feed')
        BY <1>0, <2>1, <3>3
      <4> QED BY <2>1, <3>1, <3>3, <4>1 DEF InFeed
    <3>4. CASE j > i
      <4>1. j - 1 \in 1..Len(feed')
        BY <1>0, <2>1, <3>4
      <4> QED BY <2>1, <3>1, <3>4, <4>1 DEF InFeed
    <3> QED BY <1>0, <3>2, <3>3, <3>4
  <2> QED BY <1>0, <2>1, <2>2
<1> QED BY <1>3, <1>5, <1>6

(* So does taking a new event in. *)
LEMMA AppendKeeps ==
  ASSUME feed \in Seq(Slots), NEW s \in Slots, ~s.emitted, feed' = Append(feed, s)
  PROVE  /\ feed' \in Seq(Slots) /\ Len(feed') = Len(feed) + 1 /\ InFeed(s.kind)'
         /\ \A other : InFeed(other) => InFeed(other)'
<1>0. Len(feed) \in Nat
  OBVIOUS
<1>1. /\ feed' \in Seq(Slots) /\ Len(feed') = Len(feed) + 1 /\ feed'[Len(feed) + 1] = s
      /\ \A j \in 1..Len(feed) : feed'[j] = feed[j]
  BY <1>0
<1>2. Len(feed) + 1 \in 1..Len(feed') /\ 1..Len(feed) \subseteq 1..Len(feed')
  BY <1>0, <1>1
<1>3. InFeed(s.kind)'
  BY <1>1, <1>2 DEF InFeed
<1>4. \A other : InFeed(other) => InFeed(other)'
  BY <1>1, <1>2 DEF InFeed
<1> QED BY <1>1, <1>3, <1>4

(* And delivering one that has been emitted. *)
LEMMA TailKeeps ==
  ASSUME feed \in Seq(Slots), feed # <<>>, Head(feed).emitted, feed' = Tail(feed)
  PROVE  /\ feed' \in Seq(Slots) /\ Len(feed') <= Len(feed) /\ Head(feed) \in Slots
         /\ \A other : InFeed(other) => InFeed(other)'
<1>0. Len(feed) \in Nat /\ Len(feed) >= 1
  OBVIOUS
<1>1. /\ feed' \in Seq(Slots) /\ Len(feed') = Len(feed) - 1 /\ Head(feed) = feed[1]
      /\ \A j \in 1..Len(feed') : feed'[j] = feed[j + 1] /\ feed[1] \in Slots
  BY <1>0
<1>2. feed[1] \in Slots
  BY <1>0
<1>3. ASSUME NEW other, InFeed(other) PROVE InFeed(other)'
  <2>1. PICK j \in 1..Len(feed) : feed[j].kind = other /\ ~feed[j].emitted
    BY <1>3 DEF InFeed
  <2>2. j # 1
    BY <1>1, <2>1
  <2>3. j - 1 \in 1..Len(feed') /\ (j - 1) + 1 = j
    BY <1>0, <1>1, <2>2
  <2> QED BY <1>1, <2>1, <2>3 DEF InFeed
<1> QED BY <1>0, <1>1, <1>2, <1>3

----------------------------------------------------------------------------
(* The invariant.                                                          *)

LEMMA PInvInit == PInit => PInv
<1> SUFFICES ASSUME PInit PROVE PInv
  OBVIOUS
<1>1. BookInv
  BY BookInvInit DEF PInit
<1>2. FeedInv
  <2>1. inHand = {} /\ task.phase = "none" /\ feed = <<>> /\ path \in Paths
    BY DEF PInit, Init, NoTask
  <2>2. <<>> \in Seq(Slots) /\ Len(<<>>) = 0
    OBVIOUS
  <2> QED BY <2>1, <2>2, PipelineAssumption DEF FeedInv
<1>3. FeatureInv
  <2>1. fbook = [gen |-> 0, epoch |-> 0, seq |-> -1, sync |-> FALSE, since |-> -1,
                 levels |-> [l \in Levels |-> 0], pending |-> <<>>]
    BY DEF PInit, FB!NewBook, FB!None, FB!NoLevels
  <2>2. fbook \in FP!Books(1..MaxId)
    BY <2>1 DEF FP!Books, FP!None
  <2>3. ~fbook.sync /\ fbook.pending = <<>> /\ Len(fbook.pending) = 0
    BY <2>1
  <2>4. bookAt = None
    BY DEF PInit
  <2> QED BY <2>2, <2>3, <2>4, PipelineAssumption DEF FeatureInv, FP!Exact
<1> QED BY <1>1, <1>2, <1>3 DEF PInv

(* The pipeline's steps are steps of the connector.                        *)
LEMMA ConnectorSteps == [PNext]_pvars => [Next]_bvars
<1>1. PNext => [Next]_bvars
  BY DEF PNext, Upstream, DiffReceived, DiffEmitted, SnapshotReceived, SnapshotEmitted,
         SnapshotLost, Deliver, Next
<1> QED BY <1>1 DEF pvars

LEMMA FeatureInvFrame ==
  ASSUME FeatureInv, UNCHANGED <<fbook, bookAt>>
  PROVE  FeatureInv'
  BY DEF FeatureInv

(* The steps of the connector that concern no event leave those in         *)
(* processing there.                                                       *)
LEMMA UpstreamKeepsFeed ==
  ASSUME PInv, Upstream
  PROVE  FeedInv'
<1>0. UNCHANGED <<feed, path>>
  BY DEF Upstream, featureVars
<1>1. inHand' = inHand
  BY DEF Upstream, ExchangeChanges, SendDiff, RepeatDiff, Connect, Disconnect, RefreshFails,
         InstallSnapshot, exchangeVars, sessionVars, bookVars
<1>2. task'.phase \in {"fetched", "emitting"} => task.phase \in {"fetched", "emitting"}
  <2>1. CASE Connect
    BY <2>1 DEF Connect, Scheduled
  <2>2. CASE RefreshFails
    BY <2>2 DEF RefreshFails, NoTask
  <2>3. CASE InstallSnapshot
    BY <2>3 DEF InstallSnapshot
  <2>4. CASE ExchangeChanges \/ (\E delivered \in BOOLEAN : SendDiff(delivered))
             \/ RepeatDiff \/ Disconnect
    BY <2>4 DEF ExchangeChanges, SendDiff, RepeatDiff, Disconnect, bookVars
  <2> QED BY <2>1, <2>2, <2>3, <2>4 DEF Upstream
<1> QED BY <1>0, <1>1, <1>2 DEF PInv, FeedInv, InFeed

LEMMA ReceiveKeepsFeed ==
  ASSUME PInv, DiffReceived
  PROVE  FeedInv'
<1> DEFINE d == Head(wire)
           s == Slot("update", d.first, d.prev, d.final)
<1>0. /\ inHand' = {d} /\ UNCHANGED <<task, path>> /\ wire # <<>>
      /\ feed' = Append(feed, s) /\ Len(feed) < MaxFeed
  BY DEF DiffReceived, ReceiveDiff, featureVars, bookVars
<1>1. wire \in Seq(Diffs) /\ \A x \in Elements(wire) : GoodDiff(x)
  BY DEF PInv, BookInv, TypeOK, Streaming, Stream
<1>2. GoodDiff(d)
  <2>1. d \in Elements(wire)
    BY <1>0, <1>1, ElementsOf
  <2> QED BY <1>1, <2>1
<1>3. s \in Slots /\ ~s.emitted /\ s.kind = "update"
  <2>1. d.final \in 1..MaxId /\ d.first \in Int /\ d.prev \in 0..MaxId /\ d.prev \in Int
        /\ d.first = d.prev + 1
    BY <1>2 DEF GoodDiff, Diffs
  <2> HIDE DEF d
  <2> QED BY <2>1 DEF Slot, Slots
<1>4. feed \in Seq(Slots) /\ Len(feed) \in Nat /\ path \in Paths
  BY DEF PInv, FeedInv
<1> HIDE DEF s, d
<1>5. /\ feed' \in Seq(Slots) /\ Len(feed') = Len(feed) + 1 /\ InFeed("update")'
      /\ \A other : InFeed(other) => InFeed(other)'
  BY <1>0, <1>3, <1>4, AppendKeeps
<1>6. Len(feed') <= MaxFeed
  BY <1>0, <1>4, <1>5, PipelineAssumption
<1> QED BY <1>0, <1>4, <1>5, <1>6 DEF PInv, FeedInv

LEMMA FetchKeepsFeed ==
  ASSUME PInv, SnapshotReceived
  PROVE  FeedInv'
<1>0. PICK last \in 1..MaxId :
        /\ feed' = Append(feed, Slot("snapshot", None, None, last)) /\ Len(feed) < MaxFeed
        /\ UNCHANGED <<inHand, path>>
  BY DEF SnapshotReceived, FetchSnapshot, featureVars, sessionVars
<1> DEFINE s == Slot("snapshot", None, None, last)
<1>1. s \in Slots /\ ~s.emitted /\ s.kind = "snapshot"
  BY DEF Slot, Slots, None
<1>2. feed \in Seq(Slots) /\ Len(feed) \in Nat /\ path \in Paths
  BY DEF PInv, FeedInv
<1> HIDE DEF s
<1>3. /\ feed' \in Seq(Slots) /\ Len(feed') = Len(feed) + 1 /\ InFeed("snapshot")'
      /\ \A other : InFeed(other) => InFeed(other)'
  BY <1>0, <1>1, <1>2, AppendKeeps DEF s
<1>4. Len(feed') <= MaxFeed
  BY <1>0, <1>2, <1>3, PipelineAssumption
<1> QED BY <1>0, <1>2, <1>3, <1>4 DEF PInv, FeedInv

LEMMA DiffEmitKeepsFeed ==
  ASSUME PInv, DiffEmitted
  PROVE  FeedInv'
<1>0. PICK d \in inHand : IngestDiff(d) /\ Emit("update", DiffGeneration) /\ path' = path
  BY DEF DiffEmitted
<1>1. inHand' = {} /\ (task' = task \/ task' = Scheduled(task))
  BY <1>0 DEF IngestDiff
<1>2. task'.phase \in {"fetched", "emitting"} => task.phase \in {"fetched", "emitting"}
  BY <1>1 DEF Scheduled
<1>3. BookInv'
  BY BookInvNext, ConnectorSteps DEF PInv, PNext
<1>4. PICK g \in Nat : g = DiffGeneration
  BY <1>3 DEF BookInv, TypeOK, DiffGeneration
<1>5. feed \in Seq(Slots) /\ Len(feed) \in Nat /\ path \in Paths /\ InFeed("update")
  BY <1>0 DEF PInv, FeedInv
<1>6. Emit("update", g)
  BY <1>0, <1>4
<1>7. /\ feed' \in Seq(Slots) /\ Len(feed') <= Len(feed)
      /\ \A other : other # "update" /\ InFeed(other) => InFeed(other)'
  BY <1>5, <1>6, EmitKeeps
<1>8. Len(feed') \in Nat /\ Len(feed') <= MaxFeed
  BY <1>5, <1>7, PipelineAssumption DEF PInv, FeedInv
<1>9. InFeed("snapshot") => InFeed("snapshot")'
  BY <1>7
<1> QED BY <1>0, <1>1, <1>2, <1>5, <1>7, <1>8, <1>9 DEF PInv, FeedInv

LEMMA SnapshotEmitKeepsFeed ==
  ASSUME PInv, SnapshotEmitted \/ SnapshotLost
  PROVE  FeedInv'
<1>0. /\ task.phase \in {"fetched", "emitting"} /\ task'.phase = "none" /\ UNCHANGED <<inHand, path>>
      /\ Emit("snapshot", 0) \/ feed' = RemoveAt(feed, InProcess("snapshot"))
  BY DEF SnapshotEmitted, SnapshotLost, SnapshotDone, RefreshFails, NoTask, sessionVars,
         SnapshotGeneration
<1>1. feed \in Seq(Slots) /\ Len(feed) \in Nat /\ path \in Paths /\ InFeed("snapshot")
  BY <1>0 DEF PInv, FeedInv
<1>2. /\ feed' \in Seq(Slots) /\ Len(feed') <= Len(feed)
      /\ \A other : other # "snapshot" /\ InFeed(other) => InFeed(other)'
  BY <1>0, <1>1, EmitKeeps
<1>3. Len(feed') \in Nat /\ Len(feed') <= MaxFeed
  BY <1>1, <1>2, PipelineAssumption DEF PInv, FeedInv
<1>4. InFeed("update") => InFeed("update")'
  BY <1>2
<1> QED BY <1>0, <1>1, <1>2, <1>3, <1>4 DEF PInv, FeedInv

LEMMA DeliverKeepsFeed ==
  ASSUME PInv, Deliver
  PROVE  FeedInv' /\ Head(feed) \in Slots
<1>0. /\ feed # <<>> /\ Head(feed).emitted /\ feed' = Tail(feed)
      /\ UNCHANGED <<inHand, task, path>>
  BY DEF Deliver, bvars, sessionVars, bookVars
<1>1. feed \in Seq(Slots) /\ Len(feed) \in Nat /\ path \in Paths
  BY DEF PInv, FeedInv
<1>2. /\ feed' \in Seq(Slots) /\ Len(feed') <= Len(feed) /\ Head(feed) \in Slots
      /\ \A other : InFeed(other) => InFeed(other)'
  BY <1>0, <1>1, TailKeeps
<1>3. Len(feed') \in Nat /\ Len(feed') <= MaxFeed
  BY <1>1, <1>2, PipelineAssumption DEF PInv, FeedInv
<1> QED BY <1>0, <1>1, <1>2, <1>3 DEF PInv, FeedInv

(* Delivering an event, rejected as late or applied in whichever branch.   *)
LEMMA DeliverKeepsBook ==
  ASSUME PInv, Deliver
  PROVE  FeatureInv' /\ (UNCHANGED fbook \/ FP!Follows(1..MaxId, fbook, fbook'))
<1>1. PICK e : e = Event(Head(feed))
  OBVIOUS
<1>2. e \in FP!BookEvents(1..MaxId) /\ e.at \in 1..MaxId /\ FP!Fits(Genuine, e)
  <2>1. Head(feed) \in Slots
    BY DeliverKeepsFeed
  <2>2. Head(feed).final \in 1..MaxId
    BY <2>1 DEF Slots
  <2> QED BY <1>1, <2>1, <2>2, EventFits
<1>3. /\ fbook \in FP!Books(1..MaxId) /\ Len(fbook.pending) <= PendingCapacity
      /\ FP!Exact(Genuine, 1..MaxId, fbook)
      /\ bookAt \in {None} \cup 1..MaxId
  BY DEF PInv, FeatureInv
<1>4. CASE bookAt # None /\ e.at < bookAt
  <2>1. UNCHANGED <<fbook, bookAt>>
    BY <1>1, <1>4 DEF Deliver, IngestBookEvent
  <2> QED BY <2>1, FeatureInvFrame DEF PInv
<1>5. CASE ~(bookAt # None /\ e.at < bookAt)
  <2>1. /\ fbook' = FB!Apply(fbook, e).book
        /\ bookAt' \in {e.at, None, bookAt}
    BY <1>1, <1>5 DEF Deliver, IngestBookEvent
  <2>2. fbook' = FP!Apply(fbook, e).book
    BY <2>1, SameApply
  <2>3. 1..MaxId \subseteq Nat /\ PendingCapacity \in Nat \ {0}
    BY PipelineAssumption
  <2>4. PICK f : f = fbook
    OBVIOUS
  <2>5. /\ FP!Follows(1..MaxId, f, FP!Apply(f, e).book)
        /\ FP!Exact(Genuine, 1..MaxId, FP!Apply(f, e).book)
    BY <1>2, <1>3, <2>3, <2>4, FP!ApplyKeeps
  <2>6. fbook' \in FP!Books(1..MaxId) /\ Len(fbook'.pending) <= PendingCapacity
    BY <2>2, <2>4, <2>5 DEF FP!Follows
  <2>7. FP!Exact(Genuine, 1..MaxId, fbook') /\ FP!Follows(1..MaxId, fbook, fbook')
    BY <2>2, <2>4, <2>5
  <2>8. bookAt' \in {None} \cup 1..MaxId
    BY <1>2, <1>3, <2>1
  <2> QED BY <2>6, <2>7, <2>8 DEF FeatureInv
<1> QED BY <1>4, <1>5

LEMMA PInvNext == PInv /\ [PNext]_pvars => PInv'
<1> SUFFICES ASSUME PInv, [PNext]_pvars PROVE PInv'
  OBVIOUS
<1>1. BookInv'
  BY BookInvNext, ConnectorSteps DEF PInv
<1>2. CASE \/ Upstream \/ DiffReceived \/ DiffEmitted
           \/ SnapshotReceived \/ SnapshotEmitted \/ SnapshotLost
  <2>1. FeedInv'
    BY <1>2, UpstreamKeepsFeed, ReceiveKeepsFeed, DiffEmitKeepsFeed, FetchKeepsFeed,
       SnapshotEmitKeepsFeed
  <2>2. UNCHANGED <<fbook, bookAt>>
    BY <1>2 DEF Upstream, DiffReceived, DiffEmitted, SnapshotReceived, SnapshotEmitted,
                SnapshotLost, featureVars
  <2> QED BY <1>1, <2>1, <2>2, FeatureInvFrame DEF PInv
<1>3. CASE Deliver
  BY <1>1, <1>3, DeliverKeepsFeed, DeliverKeepsBook DEF PInv
<1>4. CASE UNCHANGED pvars
  <2>1. UNCHANGED <<inHand, task, path, feed, fbook, bookAt>>
    BY <1>4 DEF pvars, bvars, sessionVars, bookVars
  <2> QED BY <1>1, <2>1 DEF PInv, FeedInv, InFeed, FeatureInv
<1> QED BY <1>2, <1>3, <1>4 DEF PNext

LEMMA PInvariance == PSpec => []PInv
  BY PInvInit, PInvNext, PTL DEF PSpec

----------------------------------------------------------------------------
(* Types, with the bounds of the feed and of the updates the feature book  *)
(* keeps while it waits for a snapshot (_buffer).                          *)
THEOREM PipelineTypeCorrect == PSpec => []PTypeOK
<1>1. PInv => PTypeOK
  <2> SUFFICES ASSUME PInv PROVE PTypeOK
    OBVIOUS
  <2>1. /\ fbook.gen \in Nat /\ fbook.epoch \in Nat /\ fbook.seq \in {None} \cup 1..MaxId
        /\ fbook.sync \in BOOLEAN /\ fbook.levels \in [Levels -> Nat]
    BY DEF PInv, FeatureInv, FP!Books, FP!None, None
  <2> QED BY <2>1 DEF PInv, FeedInv, FeatureInv, PTypeOK
<1> QED BY <1>1, PInvariance, PTL

(* A synchronized feature book is the exchange's book at its sequence id,  *)
(* sound, for every exchange, feed, capacity and number of reconnections,  *)
(* on the live and the replay path, whatever was lost, repeated, buffered, *)
(* sorted and replayed (apply_snapshot, apply_update).                     *)
THEOREM FeatureBookExact == PSpec => []FeatureBookIsExact
<1>1. PInv => FeatureBookIsExact
  <2> SUFFICES ASSUME PInv, fbook.sync
               PROVE  fbook.levels = BookAt(fbook.seq) /\ FB!Sound(fbook.levels)
    BY DEF FeatureBookIsExact
  <2>1. FP!Correct(Genuine, 1..MaxId, fbook)
    BY DEF PInv, FeatureInv, FP!Exact
  <2>2. fbook.levels = BookAt(fbook.seq)
    BY <2>1 DEF FP!Correct, Genuine
  <2> QED BY <2>1, <2>2, SameSound DEF FP!Correct
<1> QED BY <1>1, PInvariance, PTL

(* Generation and epoch of the feature book never fall, and within an      *)
(* epoch a lost synchronization is not regained, its start is fixed and    *)
(* the book moves only forward (_reset, apply_snapshot).                   *)
THEOREM EpochContinuity == PSpec => EpochsMarkContinuity
<1> DEFINE Kept ==
      /\ fbook'.gen >= fbook.gen /\ fbook'.epoch >= fbook.epoch
      /\ fbook'.epoch = fbook.epoch /\ fbook'.sync
           => fbook.sync /\ fbook'.since = fbook.since /\ fbook'.seq >= fbook.seq
<1>1. PInv /\ [PNext]_pvars => [Kept]_pvars
  <2> SUFFICES ASSUME PInv, PNext PROVE Kept
    OBVIOUS
  <2>1. UNCHANGED fbook \/ FP!Follows(1..MaxId, fbook, fbook')
    BY DeliverKeepsBook DEF PNext, Upstream, DiffReceived, DiffEmitted, SnapshotReceived,
                            SnapshotEmitted, SnapshotLost, featureVars
  <2>2. fbook.gen \in Nat /\ fbook.epoch \in Nat /\ fbook.seq \in Int
    <3>1. fbook.seq \in {-1} \cup 1..MaxId
      BY DEF PInv, FeatureInv, FP!Books, FP!None
    <3> QED BY <3>1 DEF PInv, FeatureInv, FP!Books
  <2> QED BY <2>1, <2>2 DEF FP!Follows
<1>2. EpochsMarkContinuity <=> [][Kept]_pvars
  BY PTL DEF EpochsMarkContinuity
<1> QED BY <1>1, <1>2, PInvariance, PTL DEF PSpec
=============================================================================
