------------------------ MODULE FeatureRuntimeProofs ------------------------
(***************************************************************************)
(* Theorems about FeatureRuntime, for every feed, skew, delay, retention,  *)
(* window bound, period and lookback: what its two kinds of history cover. *)
(*                                                                         *)
(* HistoryInv: the snapshots kept are the last of those without a bound,   *)
(* whose decisions are consecutive, so that those of the lookback are      *)
(* among them.                                                             *)
(*                                                                         *)
(* CoverInv: the samples of a metric are no older than the generation the  *)
(* decisions see.  A generation is a number, never "none seen yet": hence  *)
(* the shape of the books and of their checkpoints, through every branch   *)
(* of the feature book and every prune of a window.                        *)
(***************************************************************************)
EXTENDS FeatureRuntime, FiniteSetTheorems, SequenceTheorems, TLAPS

FP == INSTANCE FeatureBookProofs

----------------------------------------------------------------------------
(* Numbers                                                                 *)

LEMMA MaxOfTwo ==
  ASSUME NEW a \in Int, NEW b \in Int
  PROVE  Max({a, b}) = IF a >= b THEN a ELSE b
<1> DEFINE m == IF a >= b THEN a ELSE b
<1>1. m \in {a, b} /\ \A y \in {a, b} : m >= y
  OBVIOUS
<1>2. \A x \in {a, b} : (\A y \in {a, b} : x >= y) => x = m
  OBVIOUS
<1>3. Max({a, b}) = CHOOSE x \in {a, b} : \A y \in {a, b} : x >= y
  BY DEF Max
<1> HIDE DEF m
<1> QED
  BY <1>1, <1>2, <1>3 DEF m

LEMMA MinIsLeast ==
  ASSUME NEW T, T \subseteq Nat, T # {}
  PROVE  Min(T) \in T /\ \A m \in T : Min(T) <= m
  BY FP!LeastNumber DEF Min

LEMMA MaxIsGreatest ==
  ASSUME NEW n \in Nat, NEW T, T \subseteq 0..n, T # {}
  PROVE  Max(T) \in T /\ \A m \in T : m <= Max(T)
  BY FP!GreatestNumber DEF Max

----------------------------------------------------------------------------
(* The snapshots kept for the cross-venue engine                           *)

(* The time that k decisions take *)
Back(k) == k * FeatureUpdate

LEMMA BackOrder ==
  /\ FeatureUpdate \in Nat \ {0} /\ Back(0) = 0
  /\ \A k \in Nat : Back(k) \in Nat /\ Back(k + 1) = Back(k) + FeatureUpdate
  /\ \A j, k \in Nat : j < k => Back(j) < Back(k)
<1>1. PICK p : p = FeatureUpdate /\ p \in Nat \ {0}
  BY RuntimeAssumption
<1>2. ASSUME NEW k \in Nat PROVE k * p \in Nat /\ (k + 1) * p = k * p + p
  BY <1>1
<1>3. ASSUME NEW j \in Nat, NEW k \in Nat, j < k PROVE j * p < k * p
  <2>1. PICK n : n = k - j /\ n \in Nat \ {0} /\ k = j + n
    BY <1>3
  <2>2. n * p > 0 /\ k * p = j * p + n * p
    BY <1>1, <2>1
  <2> QED
    BY <1>1, <1>2, <2>1, <2>2
<1>4. 0 * p = 0
  BY <1>1
<1> QED
  BY <1>1, <1>2, <1>3, <1>4 DEF Back

(* The decisions of l are consecutive and end with d. *)
Consecutive(l, d) == \A i \in 1..Len(l) : l[i].decision = d - Back(Len(l) - i)

(* l has the snapshots of the decisions up to the last, in their order,    *)
(* and h those of them that the bound leaves.                              *)
Kept(l, h, last) ==
    /\ \E S : l \in Seq(S)
    /\ Consecutive(l, last)
    /\ h = Bounded(l)

HistoryInv == now \in Nat /\ \A x \in Venues : Kept(log[x], history[x], now)

(* A decision that is more than HistoryItems - 2 decisions back is beyond  *)
(* the lookback.                                                           *)
LEMMA HistoryItemsValue ==
  /\ ZscoreLookback \in Nat \ {0} /\ HistoryItems \in Nat \ {0, 1}
  /\ \A k \in Nat : Back(k) < ZscoreLookback => k <= HistoryItems - 2
<1>1. PICK z : z = ZscoreLookback /\ z \in Nat \ {0}
  BY SingleVenueAssumption
<1>2. PICK p : p = FeatureUpdate /\ p \in Nat \ {0}
  BY RuntimeAssumption
<1>3. PICK q : q = z \div p /\ q \in Nat /\ z < (q + 1) * p
  <2>1. PICK q : q = z \div p /\ q \in Nat
    BY <1>1, <1>2
  <2>2. PICK r : r = z % p /\ r \in 0..(p - 1) /\ z = p * q + r
    BY <1>1, <1>2, <2>1
  <2>3. (q + 1) * p = p * q + p
    BY <1>2, <2>1
  <2> QED
    BY <1>1, <1>2, <2>1, <2>2, <2>3
<1>4. HistoryItems = q + 2
  BY <1>1, <1>2, <1>3, MaxOfTwo DEF HistoryItems
<1>5. ASSUME NEW k \in Nat, Back(k) < z PROVE k <= q
  <2>1. Back(q + 1) = (q + 1) * p
    BY <1>2 DEF Back
  <2>2. Back(k) < Back(q + 1) /\ Back(k) \in Nat /\ Back(q + 1) \in Nat
    BY <1>1, <1>3, <1>5, <2>1, BackOrder
  <2>3. ~(q + 1 < k)
    <3> SUFFICES ASSUME q + 1 < k PROVE FALSE
      OBVIOUS
    <3>1. Back(q + 1) < Back(k)
      BY <1>3, BackOrder
    <3> QED
      BY <2>2, <3>1
  <2>4. k # q + 1
    <3> SUFFICES ASSUME k = q + 1 PROVE FALSE
      OBVIOUS
    <3> QED
      BY <2>2
  <2> QED
    BY <1>3, <2>3, <2>4
<1> QED
  BY <1>1, <1>3, <1>4, <1>5

LEMMA BoundedIs ==
  ASSUME NEW S, NEW l \in Seq(S)
  PROVE  /\ Bounded(l) \in Seq(S)
         /\ Len(Bounded(l)) = IF Len(l) <= HistoryItems THEN Len(l) ELSE HistoryItems
         /\ \A i \in 1..Len(Bounded(l)) :
                /\ i + Len(l) - Len(Bounded(l)) \in 1..Len(l)
                /\ Bounded(l)[i] = l[i + Len(l) - Len(Bounded(l))]
<1>1. HistoryItems \in Nat \ {0} /\ Len(l) \in Nat
  BY HistoryItemsValue
<1>2. PICK n : n = Len(l)
  OBVIOUS
<1>3. PICK k : k = Max({1, n - HistoryItems + 1})
  OBVIOUS
<1>4. k = IF n <= HistoryItems THEN 1 ELSE n - HistoryItems + 1
  BY <1>1, <1>2, <1>3, MaxOfTwo
<1>5. Bounded(l) = SubSeq(l, k, n)
  BY <1>2, <1>3 DEF Bounded
<1>6. k \in Nat \ {0} /\ n \in Nat /\ k <= n + 1
  BY <1>1, <1>2, <1>4
<1>7. /\ SubSeq(l, k, n) \in Seq(S) /\ Len(SubSeq(l, k, n)) = n - k + 1
      /\ \A i \in 1..(n - k + 1) : SubSeq(l, k, n)[i] = l[k + i - 1]
  BY <1>2, <1>6
<1>8. n - k + 1 = IF n <= HistoryItems THEN n ELSE HistoryItems
  BY <1>1, <1>4, <1>6
<1>9. \A i \in 1..(n - k + 1) : k + i - 1 = i + n - (n - k + 1) /\ i + n - (n - k + 1) \in 1..n
  BY <1>6
<1> QED
  BY <1>2, <1>5, <1>7, <1>8, <1>9

LEMMA BoundedAppend ==
  ASSUME NEW S, NEW l \in Seq(S), NEW s \in S
  PROVE  Bounded(Append(Bounded(l), s)) = Bounded(Append(l, s))
<1>1. PICK H : H = HistoryItems /\ H \in Nat \ {0}
  BY HistoryItemsValue
<1>2. PICK b : b = Bounded(l)
  OBVIOUS
<1>3. /\ b \in Seq(S) /\ Len(b) = IF Len(l) <= H THEN Len(l) ELSE H
      /\ \A i \in 1..Len(b) : i + Len(l) - Len(b) \in 1..Len(l) /\ b[i] = l[i + Len(l) - Len(b)]
  BY <1>1, <1>2, BoundedIs
<1>4. CASE Len(l) <= H
  <2>1. b = l
    BY <1>3, <1>4
  <2> QED
    BY <1>2, <2>1
<1>5. CASE ~(Len(l) <= H)
  <2>1. PICK p, q : p = Append(b, s) /\ q = Append(l, s)
    OBVIOUS
  <2>2. p \in Seq(S) /\ q \in Seq(S) /\ Len(p) = H + 1 /\ Len(q) = Len(l) + 1 /\ Len(l) \in Nat /\ Len(b) = H
    BY <1>1, <1>3, <1>5, <2>1
  <2>3. PICK c, d : c = Bounded(p) /\ d = Bounded(q)
    OBVIOUS
  <2>4. /\ c \in Seq(S) /\ Len(c) = H
        /\ \A i \in 1..H : c[i] = p[i + (H + 1) - H]
    <3>1. ~(H + 1 <= H)
      BY <1>1
    <3> QED
      BY <1>1, <2>2, <2>3, <3>1, BoundedIs
  <2>5. /\ d \in Seq(S) /\ Len(d) = H
        /\ \A i \in 1..H : d[i] = q[i + (Len(l) + 1) - H]
    <3>1. ~(Len(l) + 1 <= H)
      BY <1>1, <1>5, <2>2
    <3> QED
      BY <1>1, <2>2, <2>3, <3>1, BoundedIs
  <2>6. ASSUME NEW i \in 1..H PROVE c[i] = d[i]
    <3>1. CASE i = H
      <4>1. i + (H + 1) - H = Len(b) + 1 /\ i + (Len(l) + 1) - H = Len(l) + 1
        BY <1>1, <2>2, <3>1
      <4>2. p[Len(b) + 1] = s /\ q[Len(l) + 1] = s
        BY <1>3, <2>1
      <4>3. c[i] = p[Len(b) + 1] /\ d[i] = q[Len(l) + 1]
        BY <2>4, <2>5, <4>1
      <4> QED
        BY <4>2, <4>3
    <3>2. CASE i # H
      <4>1. i + (H + 1) - H = i + 1 /\ i + 1 \in 1..Len(b)
        BY <1>1, <2>2, <3>2
      <4>2. PICK j : j = i + (Len(l) + 1) - H
        OBVIOUS
      <4>3. j = (i + 1) + Len(l) - Len(b) /\ j \in 1..Len(l)
        BY <1>1, <1>5, <2>2, <3>2, <4>2
      <4>4. p[i + 1] = b[i + 1] /\ q[j] = l[j]
        BY <1>3, <2>1, <4>1, <4>3
      <4>5. b[i + 1] = l[j]
        BY <1>3, <4>1, <4>3
      <4> QED
        BY <2>4, <2>5, <4>1, <4>2, <4>4, <4>5
    <3> QED
      BY <3>1, <3>2
  <2> QED
    BY <1>1, <1>2, <2>1, <2>3, <2>4, <2>5, <2>6
<1> QED
  BY <1>4, <1>5

LEMMA SetOfSeq ==
  ASSUME NEW S, NEW l \in Seq(S)
  PROVE  ToSet(l) = {l[i] : i \in 1..Len(l)}
<1>1. DOMAIN l = 1..Len(l)
  OBVIOUS
<1> QED
  BY <1>1, Zenon DEF ToSet

(* What a decision selects of such a sequence: its last snapshot. *)
Latest(l) == IF l = <<>> THEN {} ELSE {l[Len(l)]}

LEMMA SelectsLatest ==
  ASSUME NEW f, NEW x, NEW l, f[x] = l, NEW d \in Nat, NEW S, l \in Seq(S), Consecutive(l, d)
  PROVE  SelectSnapshot(f, x, d) = Latest(l)
<1> DEFINE n == Len(l)
<1>1. n \in Nat
  OBVIOUS
<1>2. \A i \in 1..n : l[i].decision = d - Back(n - i)
  BY DEF Consecutive
<1>3. ToSet(l) = {l[i] : i \in 1..n}
  BY SetOfSeq
<1>4. SelectSnapshot(f, x, d) =
        {s \in {r \in ToSet(l) : r.decision <= d} : \A t \in {r \in ToSet(l) : r.decision <= d} :
                                                         t.decision <= s.decision}
  BY DEF SelectSnapshot
<1>5. l # <<>> => n # 0
  BY EmptySeq
<1>6. Latest(l) = IF l = <<>> THEN {} ELSE {l[n]}
  BY DEF Latest
<1>7. l = <<>> => n = 0
  OBVIOUS
<1> HIDE DEF n
<1>8. \A i \in 1..n : /\ l[i].decision \in Int /\ l[i].decision <= d
                      /\ i = n => l[i].decision = d
                      /\ i # n => l[i].decision < d
  <2> SUFFICES ASSUME NEW i \in 1..n
               PROVE  /\ l[i].decision \in Int /\ l[i].decision <= d
                      /\ i = n => l[i].decision = d
                      /\ i # n => l[i].decision < d
    OBVIOUS
  <2>1. PICK k : k = n - i /\ k \in Nat /\ (i = n <=> k = 0)
    BY <1>1
  <2>2. l[i].decision = d - Back(k)
    BY <1>2, <2>1
  <2>3. Back(k) \in Nat /\ (k = 0 => Back(k) = 0) /\ (k # 0 => 0 < Back(k))
    <3>1. k # 0 => Back(0) < Back(k)
      BY <2>1, BackOrder
    <3>2. k = 0 => Back(k) = Back(0)
      OBVIOUS
    <3> QED
      BY <2>1, <3>1, <3>2, BackOrder
  <2> QED
    BY <2>1, <2>2, <2>3
<1>9. {r \in ToSet(l) : r.decision <= d} = {l[i] : i \in 1..n}
  BY <1>1, <1>3, <1>8
<1>10. CASE l = <<>>
  BY <1>4, <1>6, <1>7, <1>9, <1>10
<1>11. CASE l # <<>>
  <2>1. n \in 1..n
    BY <1>1, <1>5, <1>11
  <2>2. \A i \in 1..n : l[i].decision <= l[n].decision /\ (l[n].decision <= l[i].decision => i = n)
    BY <1>1, <1>8, <2>1
  <2>3. SelectSnapshot(f, x, d) = {s \in {l[i] : i \in 1..n} : \A t \in {l[i] : i \in 1..n} :
                                                                  t.decision <= s.decision}
    BY <1>4, <1>9
  <2>4. SelectSnapshot(f, x, d) = {l[n]}
    BY <2>1, <2>2, <2>3
  <2> QED
    BY <1>6, <1>11, <2>4
<1> QED
  BY <1>10, <1>11

(* The kept part of a sequence: its decisions, its last, and everything    *)
(* within the lookback.                                                    *)
LEMMA KeptPart ==
  ASSUME NEW l, NEW h, NEW d \in Nat, NEW S, l \in Seq(S), h = Bounded(l), Consecutive(l, d)
  PROVE  /\ h \in Seq(S) /\ Latest(h) = Latest(l)
         /\ Consecutive(h, d)
         /\ \A s : s \in ToSet(h) => s \in ToSet(l)
         /\ \A s \in ToSet(l) : d - ZscoreLookback < s.decision => s \in ToSet(h)
<1>1. PICK H : H = HistoryItems /\ H \in Nat \ {0, 1} /\ ZscoreLookback \in Nat \ {0}
               /\ \A k \in Nat : Back(k) < ZscoreLookback => k <= H - 2
  BY HistoryItemsValue
<1> DEFINE n == Len(l)
           m == Len(h)
<1>2. /\ h \in Seq(S) /\ m = IF n <= HistoryItems THEN n ELSE HistoryItems
      /\ \A i \in 1..m : i + n - m \in 1..n /\ h[i] = l[i + n - m]
  BY BoundedIs
<1>3. m = (IF n <= H THEN n ELSE H) /\ n \in Nat /\ m \in Nat
  <2>1. n \in Nat /\ m \in Nat
    BY <1>2
  <2>2. m = IF n <= H THEN n ELSE H
    <3>1. m = IF n <= HistoryItems THEN n ELSE HistoryItems
      BY <1>2
    <3> HIDE DEF n, m
    <3> QED
      BY <1>1, <3>1
  <2> QED
    BY <2>1, <2>2
<1>4. \A i \in 1..n : l[i].decision = d - Back(n - i)
  BY DEF Consecutive
<1>5. (l = <<>> <=> n = 0) /\ (h = <<>> <=> m = 0)
  <2>1. \A s \in Seq(S) : s = <<>> <=> Len(s) = 0
    BY EmptySeq
  <2> QED
    BY <1>2, <2>1
<1>6. Latest(l) = (IF l = <<>> THEN {} ELSE {l[n]}) /\ Latest(h) = (IF h = <<>> THEN {} ELSE {h[m]})
  BY DEF Latest
<1>7. ToSet(l) = {l[i] : i \in 1..n} /\ ToSet(h) = {h[i] : i \in 1..m}
  BY <1>2, SetOfSeq
<1>8. Consecutive(h, d) <=> \A i \in 1..m : h[i].decision = d - Back(m - i)
  BY DEF Consecutive
<1> HIDE DEF n, m
<1>9. ASSUME NEW i \in 1..m PROVE h[i].decision = d - Back(m - i)
  <2>1. PICK j : j = i + n - m
    OBVIOUS
  <2>2. j \in 1..n /\ h[i] = l[j]
    BY <1>2, <2>1
  <2>3. h[i].decision = d - Back(n - j)
    BY <1>4, <2>2
  <2>4. n - j = m - i
    BY <1>3, <2>1
  <2> QED
    BY <2>3, <2>4
<1>10. Latest(h) = Latest(l)
  <2>1. CASE n = 0
    BY <1>1, <1>3, <1>5, <1>6, <2>1
  <2>2. CASE n # 0
    <3>1. m \in 1..m /\ m + n - m = n
      BY <1>1, <1>3, <2>2
    <3>2. h[m] = l[n]
      BY <1>2, <3>1
    <3> QED
      BY <1>1, <1>3, <1>5, <1>6, <2>2, <3>1, <3>2
  <2> QED
    BY <2>1, <2>2
<1>11. ASSUME NEW s \in ToSet(l), d - ZscoreLookback < s.decision
      PROVE  s \in ToSet(h)
  <2>1. PICK i \in 1..n : s = l[i]
    BY <1>7
  <2>2. PICK k : k = n - i /\ k \in Nat
    BY <1>3, <2>1
  <2>3. s.decision = d - Back(k) /\ Back(k) \in Nat
    BY <1>4, <2>1, <2>2, BackOrder
  <2>4. Back(k) < ZscoreLookback
    BY <1>1, <1>11, <2>3
  <2>5. n - i <= H - 2
    BY <1>1, <2>2, <2>4
  <2>6. i - n + m \in 1..m /\ (i - n + m) + n - m = i
    BY <1>1, <1>3, <2>1, <2>5
  <2>7. h[i - n + m] = s
    BY <1>2, <2>1, <2>6
  <2> QED
    BY <1>7, <2>6, <2>7
<1>12. ASSUME NEW s \in ToSet(h) PROVE s \in ToSet(l)
  BY <1>2, <1>7
<1> QED
  BY <1>2, <1>8, <1>9, <1>10, <1>11, <1>12

(* Only snapshots within the lookback enter the spread history. *)
LEMMA SameSpreads ==
  ASSUME NEW f, NEW g, NEW d,
         \A x \in Venues : \A s : s \in ToSet(g[x]) => s \in ToSet(f[x]),
         \A x \in Venues : \A s \in ToSet(f[x]) :
             d - ZscoreLookback < s.decision => s \in ToSet(g[x])
  PROVE  SpreadHistory(g, d) = SpreadHistory(f, d)
<1> DEFINE Paired(q) == /\ q[1].decision = q[2].decision
                        /\ d - ZscoreLookback < q[1].decision /\ q[1].decision < d
                        /\ q[1].mid # {} /\ q[2].mid # {}
           F == ToSet(f["BINANCE"]) \X ToSet(f["OKX"])
           G == ToSet(g["BINANCE"]) \X ToSet(g["OKX"])
           Spread(p) == [decision |-> p[1].decision, spread |-> <<Only(p[1].mid), Only(p[2].mid)>>,
                         gens |-> <<p[1].gen, p[2].gen>>]
<1>1. \A q : q \in G => q \in F
  BY DEF Venues
<1>2. \A q \in F : Paired(q) => q \in G
  BY DEF Venues
<1>3. {q \in F : Paired(q)} = {q \in G : Paired(q)}
  <2> HIDE DEF F, G, Paired
  <2> QED
    BY <1>1, <1>2
<1>4. /\ SpreadHistory(f, d) = {Spread(p) : p \in {q \in F : Paired(q)}}
      /\ SpreadHistory(g, d) = {Spread(p) : p \in {q \in G : Paired(q)}}
  BY DEF SpreadHistory
<1> HIDE DEF F, G, Paired, Spread
<1> QED
  BY <1>3, <1>4

LEMMA SameCross ==
  ASSUME NEW f, NEW g, NEW d,
         \A x \in Venues : SelectSnapshot(g, x, d) = SelectSnapshot(f, x, d),
         SpreadHistory(g, d) = SpreadHistory(f, d)
  PROVE  Cross(g, d) = Cross(f, d)
  BY DEF Cross, Venues

LEMMA KeptIsComplete == HistoryInv => SpreadHistoryComplete
<1> SUFFICES ASSUME HistoryInv PROVE Cross(history, now) = Cross(log, now)
  BY DEF SpreadHistoryComplete
<1>1. PICK f, g, d : f = log /\ g = history /\ d = now
  OBVIOUS
<1>2. d \in Nat /\ \A x \in Venues : Kept(f[x], g[x], d)
  BY <1>1 DEF HistoryInv
<1>3. ASSUME NEW x \in Venues
      PROVE  /\ SelectSnapshot(g, x, d) = SelectSnapshot(f, x, d)
             /\ \A s : s \in ToSet(g[x]) => s \in ToSet(f[x])
             /\ \A s \in ToSet(f[x]) : d - ZscoreLookback < s.decision => s \in ToSet(g[x])
  <2>1. PICK l, h : l = f[x] /\ h = g[x]
    OBVIOUS
  <2>2. PICK S : l \in Seq(S)
    BY <1>2, <2>1 DEF Kept
  <2>3. h = Bounded(l) /\ Consecutive(l, d)
    BY <1>2, <2>1 DEF Kept
  <2>4. /\ h \in Seq(S) /\ Latest(h) = Latest(l) /\ Consecutive(h, d)
        /\ \A s : s \in ToSet(h) => s \in ToSet(l)
        /\ \A s \in ToSet(l) : d - ZscoreLookback < s.decision => s \in ToSet(h)
    BY <1>2, <2>2, <2>3, KeptPart
  <2>5. SelectSnapshot(f, x, d) = Latest(l)
    BY <1>2, <2>1, <2>2, <2>3, SelectsLatest
  <2>6. SelectSnapshot(g, x, d) = Latest(h)
    BY <1>2, <2>1, <2>4, SelectsLatest
  <2> QED
    BY <2>1, <2>4, <2>5, <2>6
<1>4. SpreadHistory(g, d) = SpreadHistory(f, d)
  BY <1>3, SameSpreads
<1>5. Cross(g, d) = Cross(f, d)
  BY <1>3, <1>4, SameCross
<1> QED
  BY <1>1, <1>5

LEMMA KeptAppend ==
  ASSUME NEW l, NEW h, NEW d \in Nat, Kept(l, h, d), NEW s, s.decision = d + FeatureUpdate
  PROVE  Kept(Append(l, s), Bounded(Append(h, s)), d + FeatureUpdate)
<1>1. PICK R : l \in Seq(R)
  BY DEF Kept
<1>2. PICK S : S = R \cup {s}
  OBVIOUS
<1>3. l \in Seq(S) /\ s \in S
  BY <1>1, <1>2
<1>4. Bounded(Append(h, s)) = Bounded(Append(l, s))
  BY <1>3, BoundedAppend DEF Kept
<1>5. PICK k : k = Append(l, s)
  OBVIOUS
<1>6. /\ k \in Seq(S) /\ Len(k) = Len(l) + 1 /\ Len(l) \in Nat /\ k[Len(l) + 1] = s
      /\ \A i \in 1..Len(l) : k[i] = l[i]
  BY <1>3, <1>5
<1>7. \A i \in 1..Len(l) : l[i].decision = d - Back(Len(l) - i)
  BY DEF Kept, Consecutive
<1>8. ASSUME NEW i \in 1..(Len(l) + 1)
      PROVE  k[i].decision = (d + FeatureUpdate) - Back((Len(l) + 1) - i)
  <2>1. CASE i = Len(l) + 1
    <3>1. (Len(l) + 1) - i = 0 /\ k[i] = s
      BY <1>6, <2>1
    <3>2. Back((Len(l) + 1) - i) = 0
      BY <3>1, BackOrder
    <3> QED
      BY <3>1, <3>2, BackOrder
  <2>2. CASE i # Len(l) + 1
    <3>1. i \in 1..Len(l)
      BY <1>6, <2>2
    <3>2. k[i].decision = d - Back(Len(l) - i)
      BY <1>6, <1>7, <3>1
    <3>3. PICK j : j = Len(l) - i /\ j \in Nat /\ (Len(l) + 1) - i = j + 1
      BY <1>6, <3>1
    <3>4. Back(j) \in Nat /\ Back(j + 1) = Back(j) + FeatureUpdate /\ FeatureUpdate \in Nat
      BY <3>3, BackOrder
    <3> QED
      BY <3>2, <3>3, <3>4
  <2> QED
    BY <2>1, <2>2
<1>9. Consecutive(k, d + FeatureUpdate)
  BY <1>6, <1>8 DEF Consecutive
<1> QED
  BY <1>4, <1>5, <1>6, <1>9 DEF Kept

LEMMA KeptNothing ==
  ASSUME NEW d \in Nat
  PROVE  Kept(<<>>, <<>>, d)
<1>1. <<>> \in Seq({})
  OBVIOUS
<1>2. Consecutive(<<>>, d)
  BY DEF Consecutive
<1>3. PICK b : b = Bounded(<<>>)
  OBVIOUS
<1>4. b \in Seq({})
  BY <1>1, <1>3, BoundedIs
<1>5. b = <<>>
  BY <1>4
<1> QED
  BY <1>1, <1>2, <1>3, <1>5 DEF Kept

LEMMA SnapshotDecision ==
  ASSUME NEW v, NEW c, NEW m, NEW d
  PROVE  Snapshot(v, c, m, d).decision = d
  BY DEF Snapshot

LEMMA HistoryInit == Init => HistoryInv
<1> SUFFICES ASSUME Init PROVE HistoryInv
  OBVIOUS
<1>1. now = 0 /\ \A x \in Venues : history[x] = <<>> /\ log[x] = <<>>
  BY DEF Init
<1>2. Kept(<<>>, <<>>, 0)
  BY KeptNothing
<1> QED
  BY <1>1, <1>2 DEF HistoryInv

LEMMA HistoryEvent ==
  ASSUME HistoryInv, NEW x, NEW e, ConsumeEvent(x, e)
  PROVE  HistoryInv'
<1>1. now' = now /\ now \in Nat
  BY DEF ConsumeEvent, engine, HistoryInv
<1>2. \/ log' = log /\ history' = history
      \/ log' = [y \in Venues |-> <<>>] /\ history' = [y \in Venues |-> <<>>]
  BY DEF ConsumeEvent
<1>3. CASE log' = log /\ history' = history
  BY <1>1, <1>3 DEF HistoryInv
<1>4. CASE log' = [y \in Venues |-> <<>>] /\ history' = [y \in Venues |-> <<>>]
  <2>1. \A y \in Venues : log'[y] = <<>> /\ history'[y] = <<>>
    BY <1>4
  <2>2. Kept(<<>>, <<>>, now')
    BY <1>1, KeptNothing
  <2> QED
    BY <1>1, <2>1, <2>2 DEF HistoryInv
<1> QED
  BY <1>2, <1>3, <1>4

LEMMA HistoryTick ==
  ASSUME HistoryInv, FeatureTick
  PROVE  HistoryInv'
<1>1. PICK single : /\ \A x \in Venues : single[x].decision = now'
                    /\ log' = [x \in Venues |-> Append(log[x], single[x])]
                    /\ history' = [x \in Venues |-> Bounded(Append(history[x], single[x]))]
  <2> DEFINE single == [x \in Venues |-> Snapshot(venues[x], caches'[x], metrics'[x], now')]
  <2>1. /\ log' = [x \in Venues |-> Append(log[x], single[x])]
        /\ history' = [x \in Venues |-> Bounded(Append(history[x], single[x]))]
    BY DEF FeatureTick
  <2>2. \A x \in Venues : single[x].decision = now'
    BY SnapshotDecision
  <2> HIDE DEF single
  <2> QED
    BY <2>1, <2>2
<1>2. now \in Nat /\ now' = now + FeatureUpdate /\ now' \in Nat
  BY RuntimeAssumption DEF HistoryInv, FeatureTick
<1>3. ASSUME NEW x \in Venues PROVE Kept(log'[x], history'[x], now')
  <2>1. PICK l, h, d, s : l = log[x] /\ h = history[x] /\ d = now /\ s = single[x]
    OBVIOUS
  <2>2. Kept(l, h, d) /\ d \in Nat /\ s.decision = d + FeatureUpdate
    BY <1>1, <1>2, <2>1 DEF HistoryInv
  <2>3. Kept(Append(l, s), Bounded(Append(h, s)), d + FeatureUpdate)
    BY <2>2, KeptAppend
  <2>4. log'[x] = Append(l, s) /\ history'[x] = Bounded(Append(h, s)) /\ now' = d + FeatureUpdate
    BY <1>1, <1>2, <2>1
  <2> QED
    BY <2>3, <2>4
<1> QED
  BY <1>2, <1>3 DEF HistoryInv

(* The bound on the snapshots kept for the cross-venue engine never costs  *)
(* the spread's z-score a sample within its lookback, whatever the         *)
(* lookback, the feeds and the changes of generation (_history_items).     *)
THEOREM SpreadHistoriesComplete == Spec => []SpreadHistoryComplete
<1>1. ASSUME HistoryInv, [Next]_vars PROVE HistoryInv'
  <2>1. CASE FeatureTick
    BY <1>1, <2>1, HistoryTick
  <2>2. ASSUME NEW x \in Venues, MarketEvent(x) PROVE HistoryInv'
    BY <1>1, <2>2, HistoryEvent DEF MarketEvent
  <2>3. ASSUME NEW x \in Venues, NEW kind \in BookKinds, BookMessage(x, kind) PROVE HistoryInv'
    BY <1>1, <2>3, HistoryEvent DEF BookMessage
  <2>4. ASSUME UNCHANGED <<now, log, history>> PROVE HistoryInv'
    BY <1>1, <2>4 DEF HistoryInv
  <2>5. ASSUME NEW x \in Venues, NewGeneration(x) PROVE HistoryInv'
    BY <2>4, <2>5 DEF NewGeneration, engine
  <2>6. CASE UNCHANGED vars
    BY <2>4, <2>6 DEF vars, engine
  <2> QED
    BY <1>1, <2>1, <2>2, <2>3, <2>5, <2>6 DEF Next
<1> QED
  BY <1>1, HistoryInit, KeptIsComplete, PTL DEF Spec

----------------------------------------------------------------------------
(* Windows                                                                 *)

(* w is a window of items of S. *)
IsWindow(w, S) ==
    w \in [items : Seq(S), watermark : {w.watermark}, ordinal : {w.ordinal}, policy : {w.policy}]

LEMMA MaxIsNat ==
  ASSUME NEW a \in Nat, NEW b \in Int
  PROVE  Max({a, b}) \in Nat
  BY MaxOfTwo

LEMMA PruneKeeps ==
  ASSUME NEW S, NEW items \in Seq(S), NEW cutoff
  PROVE  Prune(items, cutoff) \in Seq(S)
<1> DEFINE T == {Len(items) + 1} \cup {i \in DOMAIN items : items[i].at > cutoff}
<1>1. Len(items) \in Nat /\ DOMAIN items = 1..Len(items)
  OBVIOUS
<1>2. T \subseteq Nat \ {0} /\ T # {}
  BY <1>1
<1>3. PICK k : k = Min(T)
  OBVIOUS
<1>4. k \in Nat \ {0}
  <2> HIDE DEF T
  <2> QED
    BY <1>2, <1>3, MinIsLeast
<1>5. PICK g : g = Max({k - 1, Len(items) - MaxItems})
  OBVIOUS
<1>6. g \in Nat
  BY <1>1, <1>4, <1>5, MaxIsNat, TimeWindowAssumption
<1>7. Prune(items, cutoff) = SubSeq(items, g + 1, Len(items))
  BY <1>3, <1>5 DEF Prune
<1> QED
  BY <1>1, <1>6, <1>7

LEMMA InsertKeeps ==
  ASSUME NEW S, NEW items \in Seq(S), NEW item \in S, NEW at
  PROVE  InsertAt(items, Cardinality({i \in DOMAIN items : items[i].at <= at}) + 1, item) \in Seq(S)
<1>1. Len(items) \in Nat /\ DOMAIN items = 1..Len(items)
  OBVIOUS
<1>2. PICK k : k = Cardinality({i \in DOMAIN items : items[i].at <= at})
  OBVIOUS
<1>3. k \in Nat
  <2>1. IsFiniteSet(1..Len(items))
    BY <1>1, FS_Interval
  <2>2. {i \in DOMAIN items : items[i].at <= at} \in SUBSET (1..Len(items))
    BY <1>1
  <2> QED
    BY <1>2, <2>1, <2>2, FS_Subset, FS_CardinalityType
<1>4. k <= Len(items)
  <2>1. IsFiniteSet(1..Len(items)) /\ Cardinality(1..Len(items)) = Len(items)
    BY <1>1, FS_Interval
  <2>2. {i \in DOMAIN items : items[i].at <= at} \in SUBSET (1..Len(items))
    BY <1>1
  <2> QED
    BY <1>2, <2>1, <2>2, FS_Subset
<1>0. PICK p : p = k + 1
  OBVIOUS
<1>5. PICK front, back : front = SubSeq(items, 1, p - 1) /\ back = SubSeq(items, p, Len(items))
  OBVIOUS
<1>6. front \in Seq(S)
  <2>1. front = SubSeq(items, 1, k)
    BY <1>0, <1>3, <1>5
  <2> QED
    BY <1>1, <1>3, <1>4, <2>1
<1>7. back \in Seq(S)
  BY <1>0, <1>1, <1>3, <1>4, <1>5
<1>8. InsertAt(items, p, item) = front \o <<item>> \o back
  BY <1>5, Zenon DEF InsertAt
<1>9. <<item>> \in Seq(S)
  OBVIOUS
<1>10. front \o <<item>> \in Seq(S)
  BY <1>6, <1>9, ConcatProperties
<1>11. front \o <<item>> \o back \in Seq(S)
  BY <1>7, <1>10, ConcatProperties
<1> QED
  BY <1>0, <1>2, <1>8, <1>11, Zenon

LEMMA AppendItemKeeps ==
  ASSUME NEW w, NEW S, IsWindow(w, S), NEW at, NEW value,
         [at |-> at, value |-> value, ordinal |-> w.ordinal + 1] \in S
  PROVE  IsWindow(AppendItem(w, at, value), S)
<1>1. CASE Admissibility(w, at) # "ACCEPTED"
  BY <1>1 DEF AppendItem
<1>2. CASE Admissibility(w, at) = "ACCEPTED"
  <2>1. PICK item : item = [at |-> at, value |-> value, ordinal |-> w.ordinal + 1]
    OBVIOUS
  <2>2. PICK items : items = w.items
    OBVIOUS
  <2>3. PICK grown : grown = InsertAt(items, Cardinality({i \in DOMAIN items : items[i].at <= at}) + 1, item)
    OBVIOUS
  <2>4. PICK mark : mark = Max({at, w.watermark})
    OBVIOUS
  <2>5. PICK kept : kept = Prune(grown, mark - w.policy.retention)
    OBVIOUS
  <2>6. items \in Seq(S)
    BY <2>2 DEF IsWindow
  <2>7. grown \in Seq(S)
    BY <2>1, <2>3, <2>6, InsertKeeps
  <2>8. kept \in Seq(S)
    BY <2>5, <2>7, PruneKeeps
  <2>9. AppendItem(w, at, value) =
          [w EXCEPT !.items = kept, !.watermark = mark, !.ordinal = w.ordinal + 1]
    BY <1>2, <2>1, <2>2, <2>3, <2>4, <2>5 DEF AppendItem
  <2> QED
    BY <2>8, <2>9 DEF IsWindow
<1> QED
  BY <1>1, <1>2

LEMMA WindowGrows ==
  ASSUME NEW w, NEW R, NEW S, IsWindow(w, R), R \subseteq S
  PROVE  IsWindow(w, S)
<1>1. w.items \in Seq(S)
  BY DEF IsWindow
<1> QED
  BY <1>1 DEF IsWindow

----------------------------------------------------------------------------
(* The feature book.  Its operators are those its proofs are about.        *)

LEMMA SameSound == \A levels : FB!Sound(levels) = FP!Sound(levels)
  BY DEF FB!Sound, FB!TwoSided, FB!Side, FP!Sound, FP!TwoSided, FP!Side

LEMMA SameLoop == \A o, u : FB!Replayed(o, u) = FP!Replayed(o, u)
  BY DEF FB!Replayed, FB!ReplayStep, FB!Applied, FB!Outcome, FB!Desynchronized, FB!Overlay,
         FB!Sound, FB!TwoSided, FB!Side, FB!None,
         FP!Replayed, FP!ReplayStep, FP!Applied, FP!Outcome, FP!Desynchronized, FP!Overlay,
         FP!Sound, FP!TwoSided, FP!Side, FP!None

LEMMA SameSort == \A u : FB!BySequence(u) = FP!BySequence(u)
  BY Zenon DEF FB!BySequence, FP!BySequence, FB!InsertAt, FP!InsertAt, FB!Cardinality,
               FP!Cardinality

LEMMA SameUpdate == \A f, e : FB!ApplyUpdate(f, e) = FP!ApplyUpdate(f, e)
  BY DEF FB!ApplyUpdate, FB!Buffered, FB!Applied, FB!Outcome, FB!Desynchronized, FB!Reset,
         FB!Overlay, FB!Sound, FB!TwoSided, FB!Side, FB!NoLevels, FB!None,
         FP!ApplyUpdate, FP!Buffered, FP!Applied, FP!Outcome, FP!Desynchronized, FP!Reset,
         FP!Overlay, FP!Sound, FP!TwoSided, FP!Side, FP!NoLevels, FP!None

LEMMA SameSnapshot == \A f, e : FB!ApplySnapshot(f, e) = FP!ApplySnapshot(f, e)
  BY SameLoop, SameSort, SameSound
     DEF FB!ApplySnapshot, FB!Outcome, FB!Desynchronized, FB!Reset, FB!Overlay, FB!NoLevels,
         FB!None, FB!Continuing, FB!TwoSided, FB!Side,
         FP!ApplySnapshot, FP!Outcome, FP!Desynchronized, FP!Reset, FP!Overlay, FP!NoLevels,
         FP!None, FP!Continuing, FP!TwoSided, FP!Side

LEMMA SameApply == \A f, e : FB!Apply(f, e) = FP!Apply(f, e)
  BY SameUpdate, SameSnapshot DEF FB!Apply, FP!Apply

(* The runtime's events, which carry an id, and the books they make. *)
RuntimeEvents ==
    [id : Nat, kind : BookKinds, gen : Nat, seq : Nat, prev : Int, at : Nat,
     levels : FP!Changes]

RuntimeBooks ==
    [gen : Nat, epoch : Nat, seq : {NoTime} \cup Nat, sync : BOOLEAN, since : Int,
     levels : [Levels -> Nat], pending : Seq(RuntimeEvents)]

Outcomes ==
    [book : RuntimeBooks,
     status : {"ACCEPTED", "BUFFERED_FOR_SNAPSHOT", "BOOK_INVALIDATED", "STALE_GENERATION",
               "STALE_SEQUENCE"}]

LEMMA OutcomeShape ==
  ASSUME NEW f \in RuntimeBooks
  PROVE  /\ FP!Outcome(f, "ACCEPTED") \in Outcomes
         /\ FP!Outcome(f, "BUFFERED_FOR_SNAPSHOT") \in Outcomes
         /\ FP!Outcome(f, "BOOK_INVALIDATED") \in Outcomes
         /\ FP!Outcome(f, "STALE_GENERATION") \in Outcomes
         /\ FP!Outcome(f, "STALE_SEQUENCE") \in Outcomes
  BY DEF FP!Outcome, Outcomes

LEMMA ResetShape ==
  ASSUME NEW f \in RuntimeBooks, NEW gen \in Nat, NEW advance \in BOOLEAN
  PROVE  FP!Reset(f, gen, advance) \in RuntimeBooks
<1>1. FP!NoLevels \in [Levels -> Nat]
  BY DEF FP!NoLevels
<1>2. <<>> \in Seq(RuntimeEvents)
  OBVIOUS
<1> HIDE DEF FP!NoLevels
<1> QED
  BY <1>1, <1>2 DEF FP!Reset, RuntimeBooks, FP!None, NoTime

LEMMA DesynchronizedShape ==
  ASSUME NEW f \in RuntimeBooks
  PROVE  FP!Desynchronized(f) \in RuntimeBooks
<1>1. FP!None \in Int
  BY DEF FP!None
<1> QED
  BY <1>1 DEF FP!Desynchronized, RuntimeBooks

LEMMA OverlayShape ==
  ASSUME NEW levels \in [Levels -> Nat], NEW changed \in FP!Changes
  PROVE  FP!Overlay(levels, changed) \in [Levels -> Nat]
  BY FP!OverlayType

LEMMA AppliedShape ==
  ASSUME NEW f \in RuntimeBooks, NEW e \in RuntimeEvents
  PROVE  FP!Applied(f, e) \in Outcomes
<1>1. PICK levels : levels = FP!Overlay(f.levels, e.levels)
  OBVIOUS
<1>2. levels \in [Levels -> Nat]
  BY <1>1, OverlayShape DEF RuntimeBooks, RuntimeEvents
<1>3. [f EXCEPT !.levels = levels, !.seq = e.seq] \in RuntimeBooks
  BY <1>2 DEF RuntimeBooks, RuntimeEvents
<1>4. [f EXCEPT !.levels = levels] \in RuntimeBooks
  BY <1>2 DEF RuntimeBooks
<1>5. FP!Desynchronized([f EXCEPT !.levels = levels]) \in RuntimeBooks
  BY <1>4, DesynchronizedShape
<1>6. PICK a, b : /\ a = [f EXCEPT !.levels = levels, !.seq = e.seq]
                  /\ b = FP!Desynchronized([f EXCEPT !.levels = levels])
  OBVIOUS
<1>7. FP!Applied(f, e) = IF FP!Sound(levels) THEN FP!Outcome(a, "ACCEPTED")
                         ELSE FP!Outcome(b, "BOOK_INVALIDATED")
  BY <1>1, <1>6, Zenon DEF FP!Applied
<1> QED
  BY <1>3, <1>5, <1>6, <1>7 DEF FP!Outcome, Outcomes

LEMMA BufferedShape ==
  ASSUME NEW f \in RuntimeBooks, NEW e \in RuntimeEvents
  PROVE  FP!Buffered(f, e) \in Outcomes
<1>1. f.pending \in Seq(RuntimeEvents)
  BY DEF RuntimeBooks
<1>2. PICK p : p = Append(f.pending, e)
  OBVIOUS
<1>3. p \in Seq(RuntimeEvents)
  BY <1>1, <1>2
<1>4. [f EXCEPT !.pending = p] \in RuntimeBooks
  BY <1>3 DEF RuntimeBooks
<1>5. FP!Reset(f, e.gen, TRUE) \in RuntimeBooks
  BY ResetShape DEF RuntimeEvents
<1>6. PICK a, b : a = FP!Reset(f, e.gen, TRUE) /\ b = [f EXCEPT !.pending = p]
  OBVIOUS
<1>7. \/ FP!Buffered(f, e) = FP!Outcome(a, "BOOK_INVALIDATED")
      \/ FP!Buffered(f, e) = FP!Outcome(b, "BUFFERED_FOR_SNAPSHOT")
  BY <1>2, <1>6, Zenon DEF FP!Buffered
<1> QED
  BY <1>4, <1>5, <1>6, <1>7, OutcomeShape

LEMMA StepShape ==
  ASSUME NEW o \in Outcomes, NEW e \in RuntimeEvents
  PROVE  FP!ReplayStep(o, e) \in Outcomes
<1>1. o.book \in RuntimeBooks
  BY DEF Outcomes
<1>2. FP!Applied(o.book, e) \in Outcomes
  BY <1>1, AppliedShape
<1>3. FP!Desynchronized(o.book) \in RuntimeBooks
  BY <1>1, DesynchronizedShape
<1>4. FP!Outcome(FP!Desynchronized(o.book), "BOOK_INVALIDATED") \in Outcomes
  BY <1>3 DEF FP!Outcome, Outcomes
<1>5. FP!ReplayStep(o, e) \in {o, FP!Applied(o.book, e), FP!Outcome(FP!Desynchronized(o.book), "BOOK_INVALIDATED")}
  BY Zenon DEF FP!ReplayStep
<1> QED
  BY <1>2, <1>4, <1>5

LEMMA ReplayedShape ==
  ASSUME NEW o \in Outcomes, NEW u \in Seq(RuntimeEvents)
  PROVE  FP!Replayed(o, u) \in Outcomes
<1>1. \A x \in Outcomes : \A i \in 1..Len(u) : FP!ReplayStep(x, u[i]) \in Outcomes
  <2> SUFFICES ASSUME NEW x \in Outcomes, NEW i \in 1..Len(u)
               PROVE  FP!ReplayStep(x, u[i]) \in Outcomes
    OBVIOUS
  <2>1. u[i] \in RuntimeEvents
    OBVIOUS
  <2> QED
    BY <2>1, StepShape
<1>2. \A x \in Outcomes : FP!Outcome(x.book, "BOOK_INVALIDATED") \in Outcomes
  BY DEF FP!Outcome, Outcomes
<1> QED
  BY <1>1, <1>2, FP!ReplayKeeps

LEMMA SnapshotShape ==
  ASSUME NEW f \in RuntimeBooks, NEW e \in RuntimeEvents
  PROVE  FP!ApplySnapshot(f, e) \in Outcomes
<1>1. PICK pending : pending = IF e.gen = f.gen THEN FP!BySequence(f.pending) ELSE <<>>
  OBVIOUS
<1>2. pending \in Seq(RuntimeEvents)
  <2>1. f.pending \in Seq(RuntimeEvents)
    BY DEF RuntimeBooks
  <2>2. FP!BySequence(f.pending) \in Seq(RuntimeEvents)
    BY <2>1, FP!SortedType
  <2>3. <<>> \in Seq(RuntimeEvents)
    OBVIOUS
  <2> QED
    BY <1>1, <2>2, <2>3
<1>3. PICK levels : levels = FP!Overlay(FP!NoLevels, e.levels)
  OBVIOUS
<1>4. levels \in [Levels -> Nat]
  BY <1>3, OverlayShape, FP!ZeroLevels DEF RuntimeEvents
<1>5. PICK c \in BOOLEAN : c = FP!Continuing(f, e)
  <2>1. FP!Continuing(f, e) \in BOOLEAN
    BY DEF FP!Continuing, RuntimeBooks
  <2> QED
    BY <2>1
<1>6. PICK t \in BOOLEAN : t = FP!TwoSided(levels)
  <2>1. FP!TwoSided(levels) \in BOOLEAN
    BY DEF FP!TwoSided
  <2> QED
    BY <2>1
<1>7. PICK r : r = FP!Reset(f, e.gen, ~c)
  OBVIOUS
<1>8. r \in RuntimeBooks
  BY <1>5, <1>7, ResetShape DEF RuntimeEvents
<1>9. PICK since : since = IF ~t THEN FP!None ELSE IF c THEN f.since ELSE e.at
  OBVIOUS
<1>10. since \in Int
  BY <1>9 DEF RuntimeBooks, RuntimeEvents, FP!None
<1>11. PICK loaded : loaded = [r EXCEPT !.levels = levels, !.seq = e.seq, !.sync = t, !.since = since]
  OBVIOUS
<1>12. loaded \in RuntimeBooks
  BY <1>4, <1>6, <1>8, <1>10, <1>11 DEF RuntimeBooks, RuntimeEvents
<1>13. FP!Desynchronized(loaded) \in RuntimeBooks
  BY <1>12, DesynchronizedShape
<1>14. FP!Outcome(loaded, "ACCEPTED") \in Outcomes
  BY <1>12 DEF FP!Outcome, Outcomes
<1>15. FP!Replayed(FP!Outcome(loaded, "ACCEPTED"), pending) \in Outcomes
  BY <1>2, <1>14, ReplayedShape
<1>16. FP!ApplySnapshot(f, e) \in
         {FP!Outcome(f, "STALE_GENERATION"), FP!Outcome(f, "STALE_SEQUENCE"),
          FP!Outcome(FP!Desynchronized(loaded), "BOOK_INVALIDATED"),
          FP!Replayed(FP!Outcome(loaded, "ACCEPTED"), pending)}
  BY <1>1, <1>3, <1>5, <1>6, <1>7, <1>9, <1>11, Zenon DEF FP!ApplySnapshot
<1> QED
  BY <1>13, <1>15, <1>16 DEF FP!Outcome, Outcomes

LEMMA UpdateShape ==
  ASSUME NEW f \in RuntimeBooks, NEW e \in RuntimeEvents
  PROVE  FP!ApplyUpdate(f, e) \in Outcomes
<1>1. FP!Reset(f, e.gen, TRUE) \in RuntimeBooks
  BY ResetShape DEF RuntimeEvents
<1>2. FP!Buffered(FP!Reset(f, e.gen, TRUE), e) \in Outcomes
  BY <1>1, BufferedShape
<1>3. FP!Desynchronized(f) \in RuntimeBooks
  BY DesynchronizedShape
<1>4. PICK g \in RuntimeBooks : g = FP!Desynchronized(f)
  BY <1>3
<1>d. PICK d : d = [g EXCEPT !.pending = <<>>]
  OBVIOUS
<1>5. d \in RuntimeBooks
  <2>1. <<>> \in Seq(RuntimeEvents)
    OBVIOUS
  <2> QED
    BY <1>d, <2>1 DEF RuntimeBooks
<1>6. FP!Buffered(d, e) \in Outcomes
  BY <1>5, BufferedShape
<1>7. FP!ApplyUpdate(f, e) \in
         {FP!Outcome(f, "STALE_GENERATION"), FP!Outcome(f, "STALE_SEQUENCE"),
          FP!Buffered(FP!Reset(f, e.gen, TRUE), e), FP!Buffered(f, e), FP!Buffered(d, e),
          FP!Applied(f, e)}
  BY <1>4, <1>d, Zenon DEF FP!ApplyUpdate
<1> QED
  BY <1>2, <1>6, <1>7, BufferedShape, AppliedShape, OutcomeShape

LEMMA ApplyShape ==
  ASSUME NEW f \in RuntimeBooks, NEW e \in RuntimeEvents
  PROVE  FB!Apply(f, e) \in Outcomes
<1>1. FB!Apply(f, e) = FP!Apply(f, e)
  BY SameApply
<1> QED
  BY <1>1, SnapshotShape, UpdateShape DEF FP!Apply

----------------------------------------------------------------------------
(* A venue's book and its checkpoints                                      *)

(* Every checkpoint has the generation of a book. *)
Checkpoints(w) == \E S : IsWindow(w, S) /\ \A s \in S : s.value.gen \in Nat

VenueOK(v) ==
    /\ v \in [trades : {v.trades}, prices : {v.prices}, marks : {v.marks},
              scalars : {v.scalars}, health : {v.health}, book : RuntimeBooks,
              bookAt : {v.bookAt}, lineage : {v.lineage}, history : {v.history}]
    /\ Checkpoints(v.history)

LEMMA CheckpointAdded ==
  ASSUME NEW w, Checkpoints(w), NEW at, NEW value, value.gen \in Nat
  PROVE  Checkpoints(AppendItem(w, at, value))
<1>1. PICK S : IsWindow(w, S) /\ \A s \in S : s.value.gen \in Nat
  BY DEF Checkpoints
<1>2. PICK item : item = [at |-> at, value |-> value, ordinal |-> w.ordinal + 1]
  OBVIOUS
<1>3. PICK R : R = S \cup {item}
  OBVIOUS
<1>4. item.value = value
  BY <1>2
<1>5. \A s \in R : s.value.gen \in Nat
  BY <1>1, <1>3, <1>4
<1>6. IsWindow(w, R)
  BY <1>1, <1>3, WindowGrows
<1>7. IsWindow(AppendItem(w, at, value), R)
  BY <1>2, <1>3, <1>6, AppendItemKeeps
<1> QED
  BY <1>5, <1>7 DEF Checkpoints

LEMMA NewVenueOK ==
  ASSUME NEW policy
  PROVE  VenueOK(NewVenue(policy))
<1>1. FB!NewBook \in RuntimeBooks
  <2>1. FB!NoLevels \in [Levels -> Nat]
    BY DEF FB!NoLevels
  <2>2. <<>> \in Seq(RuntimeEvents)
    OBVIOUS
  <2> QED
    BY <2>1, <2>2 DEF FB!NewBook, RuntimeBooks, FB!None, NoTime
<1>2. PICK p : p = InsertLate(Retention, Retention)
  OBVIOUS
<1>3. IsWindow(NewWindow(p), {})
  BY DEF IsWindow, NewWindow
<1>4. Checkpoints(NewWindow(p))
  BY <1>3 DEF Checkpoints
<1>5. PICK v : v = NewVenue(policy)
  OBVIOUS
<1>6. v.history = NewWindow(p)
  BY <1>2, <1>5 DEF NewVenue
<1>7. v \in [trades : {v.trades}, prices : {v.prices}, marks : {v.marks},
              scalars : {v.scalars}, health : {v.health}, book : RuntimeBooks,
              bookAt : {v.bookAt}, lineage : {v.lineage}, history : {v.history}]
  BY <1>1, <1>5 DEF NewVenue
<1> QED
  BY <1>4, <1>5, <1>6, <1>7 DEF VenueOK

LEMMA IngestBookOK ==
  ASSUME NEW v, VenueOK(v), NEW e \in RuntimeEvents
  PROVE  VenueOK(Ingest(v, e))
<1>1. Ingest(v, e) = IngestBook(v, e)
  <2>1. e.kind \in {"snapshot", "update"}
    BY DEF RuntimeEvents, BookKinds
  <2> QED
    BY <2>1 DEF Ingest, BookKinds, ScalarKinds
<1>2. PICK o : o = FB!Apply(v.book, e)
  OBVIOUS
<1>3. v.book \in RuntimeBooks
  BY DEF VenueOK
<1>4. o \in Outcomes
  BY <1>2, <1>3, ApplyShape
<1>5. o.book \in RuntimeBooks /\ o.book.gen \in Nat
  BY <1>4 DEF Outcomes, RuntimeBooks
<1>6. PICK lineage : lineage = BookLineage(v, e)
  OBVIOUS
<1>7. PICK c : c = Checkpoint(v, e, o, lineage)
  OBVIOUS
<1>8. c.gen \in Nat
  BY <1>5, <1>7 DEF Checkpoint
<1>9. PICK h : h = AppendItem(v.history, e.at, c)
  OBVIOUS
<1>10. Checkpoints(h)
  BY <1>8, <1>9, CheckpointAdded DEF VenueOK
<1>11. PICK at : at = IF o.status = "ACCEPTED" THEN e.at
                      ELSE IF o.book.gen # v.book.gen THEN NoTime ELSE v.bookAt
  OBVIOUS
<1>12. PICK u : u = [v EXCEPT !.book = o.book, !.lineage = lineage, !.bookAt = at, !.history = h]
  OBVIOUS
<1>13. IngestBook(v, e) \in {v, u}
  BY <1>2, <1>6, <1>7, <1>9, <1>11, <1>12, Zenon DEF IngestBook
<1>14. /\ u \in [trades : {u.trades}, prices : {u.prices}, marks : {u.marks},
              scalars : {u.scalars}, health : {u.health}, book : RuntimeBooks,
              bookAt : {u.bookAt}, lineage : {u.lineage}, history : {u.history}]
       /\ u.history = h
  BY <1>5, <1>12 DEF VenueOK
<1>15. VenueOK(u)
  BY <1>10, <1>14 DEF VenueOK
<1> QED
  BY <1>1, <1>13, <1>15

LEMMA IngestOtherOK ==
  ASSUME NEW v, VenueOK(v), NEW e, e.kind \in {"trade", "bba", "mark", "health"} \cup ScalarKinds
  PROVE  VenueOK(Ingest(v, e))
<1> DEFINE Ok(u) == /\ u \in [trades : {u.trades}, prices : {u.prices}, marks : {u.marks},
                              scalars : {u.scalars}, health : {u.health}, book : RuntimeBooks,
                              bookAt : {u.bookAt}, lineage : {u.lineage}, history : {u.history}]
                    /\ u.history = v.history
<1>1. Ok(IngestPrice(v, e))
  <2>1. PICK t, m, p : IngestPrice(v, e) = [v EXCEPT !.trades = t, !.marks = m, !.prices = p]
    BY Zenon DEF IngestPrice
  <2> QED
    BY <2>1 DEF VenueOK
<1>2. \A s : Ok([v EXCEPT !.scalars = s]) /\ Ok([v EXCEPT !.health = s])
  BY DEF VenueOK
<1>4. \/ Ingest(v, e) = IngestPrice(v, e)
      \/ \E s : Ingest(v, e) = [v EXCEPT !.scalars = s]
      \/ \E s : Ingest(v, e) = [v EXCEPT !.health = s]
  BY DEF Ingest, ScalarKinds, BookKinds
<1> HIDE DEF Ok
<1>5. Ok(Ingest(v, e))
  <2>1. CASE Ingest(v, e) = IngestPrice(v, e)
    BY <1>1, <2>1, Zenon
  <2>2. ASSUME NEW s, Ingest(v, e) = [v EXCEPT !.scalars = s] PROVE Ok(Ingest(v, e))
    BY <1>2, <2>2, Zenon
  <2>3. ASSUME NEW s, Ingest(v, e) = [v EXCEPT !.health = s] PROVE Ok(Ingest(v, e))
    BY <1>2, <2>3, Zenon
  <2> QED
    BY <1>4, <2>1, <2>2, <2>3, Zenon
<1> QED
  BY <1>5 DEF Ok, VenueOK

(* The view of a decision has a generation. *)
LEMMA ViewGeneration ==
  ASSUME NEW v, VenueOK(v), NEW d
  PROVE  BookViewAsOf(v, d).gen \in Nat
<1>1. PICK S : IsWindow(v.history, S) /\ \A s \in S : s.value.gen \in Nat
  BY DEF VenueOK, Checkpoints
<1>2. PICK items : items = v.history.items
  OBVIOUS
<1>3. items \in Seq(S)
  BY <1>1, <1>2 DEF IsWindow
<1>4. Len(items) \in Nat /\ DOMAIN items = 1..Len(items)
  BY <1>3
<1>5. PICK upto : upto = {i \in DOMAIN items : items[i].at <= d}
  OBVIOUS
<1>6. CASE upto = {}
  <2>1. BookViewAsOf(v, d) = NoView
    BY <1>2, <1>5, <1>6 DEF BookViewAsOf, LatestAtOrBefore
  <2> QED
    BY <2>1 DEF NoView
<1>7. CASE upto # {}
  <2>1. upto \subseteq 0..Len(items) /\ upto \subseteq 1..Len(items)
    BY <1>4, <1>5
  <2>2. PICK k : k = Max(upto)
    OBVIOUS
  <2>3. k \in 1..Len(items)
    BY <1>4, <1>7, <2>1, <2>2, MaxIsGreatest
  <2>4. PICK s : s = items[k]
    OBVIOUS
  <2>5. s \in S
    BY <1>3, <2>3, <2>4
  <2>6. LatestAtOrBefore(v.history, d) = {s}
    BY <1>2, <1>5, <1>7, <2>2, <2>4, Zenon DEF LatestAtOrBefore
  <2>7. BookViewAsOf(v, d) = s.value
    BY <2>6 DEF BookViewAsOf
  <2> QED
    BY <1>1, <2>5, <2>7
<1> QED
  BY <1>6, <1>7

----------------------------------------------------------------------------
(* The metric histories                                                    *)

(* The samples of w are no older than since. *)
Covers(w, since) == \E S : IsWindow(w, S) /\ \A s \in S : s.at \in Nat /\ since <= s.at

MetricOK(m, since) ==
    /\ m \in [window : {m.window}, at : Int, ready : BOOLEAN]
    /\ Covers(m.window, since)
    /\ m.ready => since <= m.at - ZscoreLookback

LEMMA EmptyCovers ==
  ASSUME NEW w, NEW S, IsWindow(w, S), w.items = <<>>, NEW since
  PROVE  Covers(w, since)
<1>1. IsWindow(w, {})
  BY DEF IsWindow
<1> QED
  BY <1>1 DEF Covers

LEMMA CoversAppended ==
  ASSUME NEW w, NEW since \in Nat, Covers(w, since), NEW at \in Nat, since <= at, NEW value
  PROVE  Covers(AppendItem(w, at, value), since)
<1>1. PICK S : IsWindow(w, S) /\ \A s \in S : s.at \in Nat /\ since <= s.at
  BY DEF Covers
<1>2. PICK item : item = [at |-> at, value |-> value, ordinal |-> w.ordinal + 1]
  OBVIOUS
<1>3. PICK R : R = S \cup {item}
  OBVIOUS
<1>4. item.at = at
  BY <1>2
<1>5. \A s \in R : s.at \in Nat /\ since <= s.at
  BY <1>1, <1>3, <1>4
<1>6. IsWindow(w, R)
  BY <1>1, <1>3, WindowGrows
<1>7. IsWindow(AppendItem(w, at, value), R)
  BY <1>2, <1>3, <1>6, AppendItemKeeps
<1> QED
  BY <1>5, <1>7 DEF Covers

LEMMA NewMetricOK ==
  ASSUME NEW since
  PROVE  MetricOK(NewMetric, since) /\ NewMetric.window.items = <<>>
<1>1. PICK p : p = DropLate(ZscoreLookback)
  OBVIOUS
<1>2. PICK w : w = NewWindow(p)
  OBVIOUS
<1>3. IsWindow(w, {}) /\ w.items = <<>>
  BY <1>2 DEF IsWindow, NewWindow
<1>4. Covers(w, since)
  BY <1>3, EmptyCovers
<1>5. NewMetric = [window |-> w, at |-> -1, ready |-> FALSE]
  BY <1>1, <1>2 DEF NewMetric, NoTime
<1> QED
  BY <1>3, <1>4, <1>5 DEF MetricOK

LEMMA RecordedOK ==
  ASSUME NEW m, NEW since \in Nat, MetricOK(m, since), NEW d \in Nat, since <= d, NEW value
  PROVE  MetricOK(Recorded(m, d, value), since)
<1>0. ZscoreLookback \in Nat
  BY HistoryItemsValue
<1>1. PICK w : w = IF value = {} THEN m.window ELSE AppendItem(m.window, d, Only(value))
  OBVIOUS
<1>2. Covers(w, since)
  BY <1>1, CoversAppended DEF MetricOK
<1>3. PICK samples : samples = m.window.items
  OBVIOUS
<1>4. PICK spread \in BOOLEAN :
        spread = \E i, j \in DOMAIN samples : ~SameRatio(samples[i].value, samples[j].value)
  OBVIOUS
<1>6. PICK ready \in BOOLEAN :
        ready = (value # {} /\ spread /\ samples[1].at <= d - ZscoreLookback)
  OBVIOUS
<1>7. Recorded(m, d, value) = [window |-> w, at |-> d, ready |-> ready]
  BY <1>1, <1>3, <1>4, <1>6 DEF Recorded
<1>8. ASSUME ready PROVE since <= d - ZscoreLookback
  <2>1. PICK S : IsWindow(m.window, S) /\ \A s \in S : s.at \in Nat /\ since <= s.at
    BY DEF MetricOK, Covers
  <2>2. samples \in Seq(S)
    BY <1>3, <2>1 DEF IsWindow
  <2>3. spread /\ samples[1].at <= d - ZscoreLookback
    BY <1>6, <1>8
  <2>4. DOMAIN samples # {}
    BY <1>4, <2>3
  <2>5. 1 \in DOMAIN samples
    BY <2>2, <2>4
  <2>6. samples[1] \in S
    BY <2>2, <2>5
  <2>7. PICK a : a = samples[1].at
    OBVIOUS
  <2>8. a \in Nat /\ since <= a
    BY <2>1, <2>6, <2>7
  <2>9. a <= d - ZscoreLookback
    BY <2>3, <2>7
  <2> QED
    BY <1>0, <2>8, <2>9
<1> QED
  BY <1>2, <1>7, <1>8 DEF MetricOK

(* The samples that survive the scope are of the generation since then. *)
LEMMA ScopeOK ==
  ASSUME NEW ms, NEW last \in {NoTime} \cup Nat, NEW gen \in Nat, NEW since \in Nat, NEW d \in Nat,
         since <= d, NEW then, then = IF gen = last THEN since ELSE d,
         \A m \in Metrics : /\ MetricOK(ms[m], since)
                            /\ last = NoTime => ms[m].window.items = <<>> /\ ~ms[m].ready,
         NEW m \in Metrics
  PROVE  MetricOK(ClearScope(ms, last, gen)[m], then)
<1>1. CASE last = NoTime
  <2>1. gen # last
    BY <1>1 DEF NoTime
  <2>2. ClearScope(ms, last, gen)[m] = ms[m]
    BY <1>1 DEF ClearScope
  <2>3. PICK S : IsWindow(ms[m].window, S)
    BY DEF MetricOK, Covers
  <2>4. Covers(ms[m].window, then)
    BY <1>1, <2>3, EmptyCovers
  <2> QED
    BY <1>1, <2>2, <2>4 DEF MetricOK
<1>2. CASE last # NoTime /\ last # gen
  <2>1. ClearScope(ms, last, gen)[m] = NewMetric
    BY <1>2 DEF ClearScope
  <2> QED
    BY <2>1, NewMetricOK
<1>3. CASE last = gen
  <2>1. ClearScope(ms, last, gen)[m] = ms[m]
    BY <1>3 DEF ClearScope
  <2> QED
    BY <1>3, <2>1
<1> QED
  BY <1>1, <1>2, <1>3

LEMMA RecordOK ==
  ASSUME NEW ms, NEW last \in {NoTime} \cup Nat, NEW v, VenueOK(v), NEW c,
         NEW since \in Nat, NEW d \in Nat, since <= d,
         NEW then, then = IF BookViewAsOf(v, d).gen = last THEN since ELSE d,
         \A m \in Metrics : /\ MetricOK(ms[m], since)
                            /\ last = NoTime => ms[m].window.items = <<>> /\ ~ms[m].ready,
         NEW m \in Metrics
  PROVE  MetricOK(RecordMetrics(ms, last, v, c, d)[m], then)
<1>1. PICK view : view = BookViewAsOf(v, d)
  OBVIOUS
<1>2. PICK gen \in Nat : gen = view.gen
  BY <1>1, ViewGeneration
<1>3. PICK scoped : scoped = ClearScope(ms, last, gen)
  OBVIOUS
<1>4. MetricOK(scoped[m], then)
  BY <1>1, <1>2, <1>3, ScopeOK
<1>5. then \in Nat /\ then <= d
  OBVIOUS
<1>6. PICK value : value = MetricValue(m, v, c, view, d)
  OBVIOUS
<1>7. PICK q : q = scoped[m]
  OBVIOUS
<1>8. MetricOK(Recorded(q, d, value), then)
  BY <1>4, <1>5, <1>7, RecordedOK
<1>9. MetricOK([q EXCEPT !.ready = FALSE], then)
  BY <1>4, <1>7 DEF MetricOK
<1>10. RecordMetrics(ms, last, v, c, d)[m] \in {[q EXCEPT !.ready = FALSE], Recorded(q, d, value)}
  BY <1>1, <1>2, <1>3, <1>6, <1>7, Zenon DEF RecordMetrics
<1> QED
  BY <1>8, <1>9, <1>10

----------------------------------------------------------------------------
(* The runtime                                                             *)

CoverInv ==
    /\ now \in Nat /\ events \in Nat
    /\ stream \in [Venues -> [gen : Nat, seq : Nat]]
    /\ venues = [x \in Venues |-> venues[x]]
    /\ \A x \in Venues :
        /\ VenueOK(venues[x])
        /\ lastGen[x] \in {NoTime} \cup Nat
        /\ genSince[x] \in Nat /\ genSince[x] <= now
        /\ \A m \in Metrics :
            /\ MetricOK(metrics[x][m], genSince[x])
            /\ lastGen[x] = NoTime => metrics[x][m].window.items = <<>> /\ ~metrics[x][m].ready

LEMMA CoverIsCovered == CoverInv => ReadyMetricsAreCovered
  BY DEF CoverInv, MetricOK, ReadyMetricsAreCovered

LEMMA CoverInit ==
  ASSUME Init
  PROVE  CoverInv
<1>1. PICK p : venues = [x \in Venues |-> NewVenue(p)]
  BY DEF Init
<1>2. /\ now = 0 /\ events = 0 /\ stream = [x \in Venues |-> [gen |-> 1, seq |-> 0]]
      /\ metrics = [x \in Venues |-> [m \in Metrics |-> NewMetric]]
      /\ lastGen = [x \in Venues |-> NoTime] /\ genSince = [x \in Venues |-> 0]
  BY DEF Init
<1>3. venues = [x \in Venues |-> venues[x]]
  BY <1>1
<1>4. ASSUME NEW x \in Venues
      PROVE  /\ VenueOK(venues[x])
             /\ lastGen[x] = NoTime /\ genSince[x] = 0
             /\ \A m \in Metrics : metrics[x][m] = NewMetric
  BY <1>1, <1>2, NewVenueOK
<1>5. \A x \in Venues, m \in Metrics :
          /\ MetricOK(metrics[x][m], genSince[x])
          /\ metrics[x][m].window.items = <<>> /\ ~metrics[x][m].ready
  <2>1. ~NewMetric.ready
    BY DEF NewMetric
  <2> QED
    BY <1>4, <2>1, NewMetricOK
<1> QED
  BY <1>2, <1>3, <1>4, <1>5 DEF CoverInv

LEMMA TimesAreNat ==
  ASSUME now \in Nat
  PROVE  Times \subseteq Nat
<1>1. now + 1 - MaxDelay \in Int /\ now + FeatureUpdate + Skew \in Int
  BY RuntimeAssumption
<1>2. Max({1, now + 1 - MaxDelay}) \in Nat
  BY <1>1, MaxIsNat
<1> QED
  BY <1>1, <1>2 DEF Times

LEMMA BookEventsType ==
  ASSUME CoverInv, NEW x \in Venues, NEW e \in BookEvents(x)
  PROVE  e \in RuntimeEvents
<1>1. PICK s : s = stream[x]
  OBVIOUS
<1>2. s.gen \in Nat /\ s.seq \in Nat /\ events \in Nat /\ now \in Nat
  BY <1>1 DEF CoverInv
<1>3. Times \subseteq Nat
  BY <1>2, TimesAreNat
<1>4. ASSUME NEW kind \in BookKinds, NEW seq \in Nat, NEW at \in Nat, NEW levels \in SUBSET Levels
      PROVE  BookEvent(x, kind, seq, at, levels) \in RuntimeEvents
  <2>1. PICK ch : ch = [l \in levels |-> at]
    OBVIOUS
  <2>2. ch \in [levels -> Nat]
    BY <2>1
  <2>3. ch \in FP!Changes
    BY <2>2 DEF FP!Changes
  <2>4. BookEvent(x, kind, seq, at, levels) =
          [id |-> events + 1, kind |-> kind, gen |-> s.gen, seq |-> seq, prev |-> seq - 1,
           at |-> at, levels |-> ch]
    BY <1>1, <2>1 DEF BookEvent
  <2> QED
    BY <1>2, <2>3, <2>4 DEF RuntimeEvents
<1>5. PICK next, top : next = s.seq + 1 /\ top = Max({1, s.seq})
  OBVIOUS
<1>6. next \in Nat /\ top \in Nat
  BY <1>2, <1>5, MaxIsNat
<1>7. \/ \E at \in Times, t \in SUBSET Levels : e = BookEvent(x, "update", next, at, t)
      \/ \E seq \in 1..top, at \in Times, t \in SUBSET Levels : e = BookEvent(x, "snapshot", seq, at, t)
  <2> DEFINE U == {BookEvent(x, "update", next, at, t) : at \in Times, t \in {{l} : l \in Levels}}
             V == {BookEvent(x, "snapshot", seq, at, t) :
                      seq \in 1..top, at \in Times, t \in {u \in SUBSET Levels : TwoSided(u)}}
  <2>1. BookEvents(x) = U \cup V
    BY <1>1, <1>5 DEF BookEvents
  <2>2. \A u \in U : \E at \in Times, t \in SUBSET Levels : u = BookEvent(x, "update", next, at, t)
    OBVIOUS
  <2>3. \A u \in V : \E seq \in 1..top, at \in Times, t \in SUBSET Levels :
            u = BookEvent(x, "snapshot", seq, at, t)
    OBVIOUS
  <2> HIDE DEF U, V
  <2> QED
    BY <2>1, <2>2, <2>3
<1>8. ASSUME NEW at \in Times, NEW t \in SUBSET Levels, e = BookEvent(x, "update", next, at, t)
      PROVE  e \in RuntimeEvents
  <2>1. "update" \in BookKinds /\ at \in Nat
    BY <1>3 DEF BookKinds
  <2> QED
    BY <1>4, <1>6, <1>8, <2>1
<1>9. ASSUME NEW seq \in 1..top, NEW at \in Times, NEW t \in SUBSET Levels,
             e = BookEvent(x, "snapshot", seq, at, t)
      PROVE  e \in RuntimeEvents
  <2>1. "snapshot" \in BookKinds /\ at \in Nat /\ seq \in Nat
    BY <1>3, <1>6 DEF BookKinds
  <2> QED
    BY <1>4, <1>9, <2>1
<1> QED
  BY <1>7, <1>8, <1>9

(* An event changes the venue it belongs to, and no metric. *)
LEMMA CoverEvent ==
  ASSUME CoverInv, NEW x \in Venues, NEW e, ConsumeEvent(x, e),
         VenueOK(Ingest(venues[x], e)), stream' \in [Venues -> [gen : Nat, seq : Nat]]
  PROVE  CoverInv'
<1>1. PICK v : v = Ingest(venues[x], e)
  OBVIOUS
<1>2. /\ events' = events + 1 /\ venues' = [venues EXCEPT ![x] = v]
      /\ now' = now /\ metrics' = metrics /\ lastGen' = lastGen /\ genSince' = genSince
  BY <1>1 DEF ConsumeEvent, engine
<1>3. VenueOK(v)
  BY <1>1
<1>4. venues = [y \in Venues |-> venues[y]]
  BY DEF CoverInv
<1>5. ASSUME NEW y \in Venues PROVE venues'[y] = IF y = x THEN v ELSE venues[y]
  BY <1>2, <1>4
<1>6. venues' = [y \in Venues |-> venues'[y]]
  BY <1>2, <1>4
<1>7. ASSUME NEW y \in Venues PROVE VenueOK(venues'[y])
  BY <1>3, <1>5 DEF CoverInv
<1>8. now' \in Nat /\ events' \in Nat
  BY <1>2 DEF CoverInv
<1>9. ASSUME NEW y \in Venues
      PROVE  /\ lastGen'[y] \in {NoTime} \cup Nat
             /\ genSince'[y] \in Nat /\ genSince'[y] <= now'
             /\ \A m \in Metrics :
                 /\ MetricOK(metrics'[y][m], genSince'[y])
                 /\ lastGen'[y] = NoTime => metrics'[y][m].window.items = <<>> /\ ~metrics'[y][m].ready
  BY <1>2 DEF CoverInv
<1> QED
  BY <1>6, <1>7, <1>8, <1>9 DEF CoverInv

LEMMA CoverTick ==
  ASSUME CoverInv, FeatureTick
  PROVE  CoverInv'
<1>1. /\ now' = now + FeatureUpdate /\ stream' = stream /\ venues' = venues /\ events' = events
      /\ metrics' = [x \in Venues |->
                        RecordMetrics(metrics[x], lastGen[x], venues[x], caches'[x], now')]
      /\ lastGen' = [x \in Venues |-> BookViewAsOf(venues[x], now').gen]
      /\ genSince' = [x \in Venues |-> IF lastGen'[x] = lastGen[x] THEN genSince[x] ELSE now']
  BY DEF FeatureTick
<1>2. now \in Nat /\ now' \in Nat /\ now <= now'
  BY <1>1, RuntimeAssumption DEF CoverInv
<1>3. ASSUME NEW x \in Venues
      PROVE  /\ VenueOK(venues'[x])
             /\ lastGen'[x] \in Nat
             /\ genSince'[x] \in Nat /\ genSince'[x] <= now'
             /\ \A m \in Metrics : MetricOK(metrics'[x][m], genSince'[x])
  <2>1. PICK ms, last, v, c, since, d :
          /\ ms = metrics[x] /\ last = lastGen[x] /\ v = venues[x] /\ c = caches'[x]
          /\ since = genSince[x] /\ d = now'
    OBVIOUS
  <2>2. /\ VenueOK(v) /\ last \in {NoTime} \cup Nat /\ since \in Nat /\ d \in Nat /\ since <= d
        /\ \A m \in Metrics : /\ MetricOK(ms[m], since)
                              /\ last = NoTime => ms[m].window.items = <<>> /\ ~ms[m].ready
    <3>1. /\ VenueOK(venues[x]) /\ lastGen[x] \in {NoTime} \cup Nat /\ genSince[x] \in Nat
          /\ genSince[x] <= now
          /\ \A m \in Metrics :
              /\ MetricOK(metrics[x][m], genSince[x])
              /\ lastGen[x] = NoTime => metrics[x][m].window.items = <<>> /\ ~metrics[x][m].ready
      BY DEF CoverInv
    <3>2. genSince[x] <= now'
      BY <1>2, <3>1
    <3> QED
      BY <1>2, <2>1, <3>1, <3>2, Zenon
  <2>3. lastGen'[x] = BookViewAsOf(v, d).gen
    BY <1>1, <2>1, Zenon
  <2>4. genSince'[x] = IF BookViewAsOf(v, d).gen = last THEN since ELSE d
    BY <1>1, <2>1, <2>3, Zenon
  <2>5. metrics'[x] = RecordMetrics(ms, last, v, c, d)
    BY <1>1, <2>1, Zenon
  <2>6. PICK then : then = IF BookViewAsOf(v, d).gen = last THEN since ELSE d
    OBVIOUS
  <2>7. \A m \in Metrics : MetricOK(RecordMetrics(ms, last, v, c, d)[m], then)
    BY <2>2, <2>6, RecordOK
  <2>8. BookViewAsOf(v, d).gen \in Nat
    BY <2>2, ViewGeneration
  <2>9. then \in Nat /\ then <= d /\ genSince'[x] = then
    BY <2>2, <2>4, <2>6
  <2>10. VenueOK(venues'[x])
    BY <1>1, <2>1, <2>2
  <2> QED
    BY <2>1, <2>3, <2>5, <2>7, <2>8, <2>9, <2>10
<1>4. \A x \in Venues : lastGen'[x] # NoTime
  BY <1>3 DEF NoTime
<1>5. /\ events' \in Nat /\ stream' \in [Venues -> [gen : Nat, seq : Nat]]
      /\ venues' = [x \in Venues |-> venues'[x]]
  BY <1>1 DEF CoverInv
<1> QED
  BY <1>2, <1>3, <1>4, <1>5 DEF CoverInv

(* A z-score counts as warm only when its samples cover the lookback       *)
(* within the book generation the decisions have seen, whatever is         *)
(* ingested late, evicted or rebuilt in between (clear_scope, record).     *)
THEOREM MetricsAreCovered == Spec => []ReadyMetricsAreCovered
<1>1. ASSUME CoverInv, [Next]_vars PROVE CoverInv'
  <2>1. CASE FeatureTick
    BY <1>1, <2>1, CoverTick
  <2>2. ASSUME NEW x \in Venues, MarketEvent(x) PROVE CoverInv'
    <3>1. PICK e \in MarketEvents(x) : ConsumeEvent(x, e)
      BY <2>2 DEF MarketEvent
    <3>2. stream' \in [Venues -> [gen : Nat, seq : Nat]]
      BY <1>1, <2>2 DEF MarketEvent, CoverInv
    <3>3. e.kind \in {"trade", "bba", "mark", "health"} \cup ScalarKinds
      BY <3>1 DEF MarketEvents
    <3>4. VenueOK(venues[x])
      BY <1>1 DEF CoverInv
    <3>5. VenueOK(Ingest(venues[x], e))
      BY <3>3, <3>4, IngestOtherOK
    <3> QED
      BY <1>1, <3>1, <3>2, <3>5, CoverEvent
  <2>3. ASSUME NEW x \in Venues, NEW kind \in BookKinds, BookMessage(x, kind) PROVE CoverInv'
    <3>1. PICK e \in BookEvents(x) : /\ ConsumeEvent(x, e)
                                     /\ stream' = [stream EXCEPT ![x].seq = Max({@, e.seq})]
      BY <2>3 DEF BookMessage
    <3>2. e \in RuntimeEvents
      BY <1>1, BookEventsType
    <3>3. stream' \in [Venues -> [gen : Nat, seq : Nat]]
      <4>1. stream \in [Venues -> [gen : Nat, seq : Nat]]
        BY <1>1 DEF CoverInv
      <4>2. PICK q : q = Max({stream[x].seq, e.seq})
        OBVIOUS
      <4>3. q \in Nat
        BY <3>2, <4>1, <4>2, MaxIsNat DEF RuntimeEvents
      <4>4. stream' = [stream EXCEPT ![x].seq = q]
        BY <3>1, <4>2
      <4> QED
        BY <4>1, <4>3, <4>4
    <3>4. VenueOK(venues[x])
      BY <1>1 DEF CoverInv
    <3>5. VenueOK(Ingest(venues[x], e))
      BY <3>2, <3>4, IngestBookOK
    <3> QED
      BY <1>1, <3>1, <3>3, <3>5, CoverEvent
  <2>4. ASSUME NEW x \in Venues, NewGeneration(x) PROVE CoverInv'
    <3>1. stream \in [Venues -> [gen : Nat, seq : Nat]]
      BY <1>1 DEF CoverInv
    <3>2. stream' = [stream EXCEPT ![x] = [gen |-> stream[x].gen + 1, seq |-> 0]]
      BY <2>4 DEF NewGeneration
    <3>3. stream' \in [Venues -> [gen : Nat, seq : Nat]]
      BY <3>1, <3>2
    <3>4. UNCHANGED <<now, events, venues, lastGen, genSince, metrics>>
      BY <2>4 DEF NewGeneration, engine
    <3> QED
      BY <1>1, <3>3, <3>4 DEF CoverInv
  <2>5. CASE UNCHANGED vars
    <3>1. UNCHANGED <<now, events, stream, venues, lastGen, genSince, metrics>>
      BY <2>5 DEF vars, engine
    <3> QED
      BY <1>1, <3>1 DEF CoverInv
  <2> QED
    BY <1>1, <2>1, <2>2, <2>3, <2>4, <2>5 DEF Next
<1> QED
  BY <1>1, CoverInit, CoverIsCovered, PTL DEF Spec
=============================================================================
