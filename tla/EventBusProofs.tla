--------------------------- MODULE EventBusProofs ---------------------------
(***************************************************************************)
(* Proofs about EventBus: the type invariant, the order in which each      *)
(* consumer handles a publisher's events, and what drain and close promise,*)
(* for any number of consumers, publishers, events and any capacity.       *)
(***************************************************************************)
EXTENDS EventBus, NaturalsInduction, WellFoundedInduction, SequenceTheorems, TLAPS

----------------------------------------------------------------------------
(* The inductive invariant.                                                *)

(* What a consumer has been given: handled, being handled or queued. *)
Given(done, hand, items) == Range(done) \cup hand \cup (Range(items) \ {STOP})

AllOf(c) == Given(processed[c], consumer[c].handling, queues[c].items)

Before(e, f) == e # STOP /\ f # STOP /\ e.by = f.by => e.no < f.no

(* Each publisher's events are in order along the whole line. *)
InLine(done, hand, items) ==
    /\ \A i, j \in 1..Len(done) : i < j => Before(done[i], done[j])
    /\ \A i \in 1..Len(done) : \A e \in hand : Before(done[i], e)
    /\ \A i \in 1..Len(done) : \A k \in 1..Len(items) : Before(done[i], items[k])
    /\ \A e \in hand : \A k \in 1..Len(items) : Before(e, items[k])
    /\ \A i, j \in 1..Len(items) : i < j => Before(items[i], items[j])

(* The events of `before' are ahead of every STOP of the line. *)
AheadOfStop(before, done, hand, items) ==
    \A k \in 1..Len(items) : items[k] = STOP =>
        \A e \in before : e \in Range(done) \cup hand \/ \E j \in 1..k - 1 : items[j] = e

(* The publish of p has still to reach consumer c. *)
Awaits(p, c) ==
    \/ pub[p].pc = "waiting" /\ pub[p].at <= c
    \/ pub[p].pc = "put" /\ pub[p].at < c

Delivered(c, e) == e \in AllOf(c) \/ consumer[c].task = "failed"

(* Where the tasks can be. *)
Places ==
    /\ \A p \in Publishers : pub[p].pc # "idle" => pub[p].at \in Consumers /\ pub[p].no > 0
    /\ close.pc \in {"waiting", "put", "retry"} => close.at \in Consumers
    /\ \A c \in Consumers :
        /\ consumer[c].task = "none" <=> ~started
        /\ consumer[c].handling # {} => consumer[c].task = "running"
        /\ \A e, f \in consumer[c].handling : e = f

Lined == \A c \in Consumers : InLine(processed[c], consumer[c].handling, queues[c].items)

(* No consumer has been given an event its publisher has yet to put there. *)
Ahead ==
    \A c \in Consumers : \A e \in AllOf(c) :
        e.no <= pub[e.by].no /\ (Awaits(e.by, c) => e.no < pub[e.by].no)

(* A publish under way has reached the consumers behind it. *)
Reached ==
    \A p \in Publishers : \A c \in Consumers :
        pub[p].pc # "idle" /\ ~Awaits(p, c) => Delivered(c, EventOf(p))

Returned == \A e \in returned : \A c \in Consumers : Delivered(c, e)

(* A consumer the drain has joined has handled what the drain is about. *)
Draining ==
    /\ drain.before \subseteq returned
    /\ \A c \in drain.joined :
        drain.before \subseteq Range(processed[c]) \/ consumer[c].task = "failed"

(* STOP follows what close has to drain, and is there only after close. *)
Stops ==
    /\ close.before \subseteq returned
    /\ \A c \in Consumers :
        /\ ~Closing => STOP \notin Range(queues[c].items) /\ consumer[c].task # "stopped"
        /\ consumer[c].task # "failed" =>
            AheadOfStop(close.before, processed[c], consumer[c].handling, queues[c].items)
        /\ consumer[c].task = "stopped" => close.before \subseteq Range(processed[c])
    /\ close.pc = "closed" /\ started /\ ~close.errors =>
        \A c \in Consumers : consumer[c].task = "stopped"

BusInv ==
    /\ TypeOK /\ Places /\ Lined /\ Ahead /\ Reached /\ Returned /\ Draining /\ Stops

----------------------------------------------------------------------------
(* Lines: what the operations do to them.                                  *)

(* One consumer's record, or one publisher's, is replaced. *)
LEMMA EntryReplaced ==
  ASSUME NEW S, NEW T, NEW f \in [S -> T], NEW s \in S, NEW t \in T
  PROVE  [f EXCEPT ![s] = t] \in [S -> T]
  OBVIOUS

ConsumerTasks == [task : {"none", "running", "stopped", "failed"}, handling : SUBSET Events]
PublishStates == [pc : {"idle", "waiting", "put"}, at : 0..N + 1, no : 0..MaxEvents]

(* A step changes one field of a consumer's record or of a publisher's. *)
LEMMA FieldsReplaced ==
  /\ \A r \in ConsumerTasks, h \in SUBSET Events : [r EXCEPT !.handling = h] \in ConsumerTasks
  /\ \A r \in ConsumerTasks : [r EXCEPT !.task = "running"] \in ConsumerTasks
  /\ \A r \in PublishStates, pc \in {"idle", "waiting", "put"} :
        [r EXCEPT !.pc = pc] \in PublishStates
  BY DEF ConsumerTasks, PublishStates

LEMMA RecordTypes ==
  TypeOK => consumer \in [Consumers -> ConsumerTasks] /\ pub \in [Publishers -> PublishStates]
  BY DEF TypeOK, ConsumerTasks, PublishStates

(* STOP is no event. *)
LEMMA StopIsNoEvent == STOP \notin Events /\ (\A e \in Events : e.by \in Publishers /\ e.no \in Nat)
  BY BusAssumption DEF STOP, Events

(* The elements of a sequence after an append. *)
LEMMA RangeAppend ==
  ASSUME NEW S, NEW s \in Seq(S), NEW x \in S
  PROVE  /\ Append(s, x) \in Seq(S) /\ Len(Append(s, x)) = Len(s) + 1
         /\ \A i \in 1..Len(s) : Append(s, x)[i] = s[i]
         /\ Append(s, x)[Len(s) + 1] = x
         /\ Range(Append(s, x)) = Range(s) \cup {x}
<1>1. /\ Append(s, x) \in Seq(S) /\ Len(Append(s, x)) = Len(s) + 1
      /\ \A i \in 1..Len(s) : Append(s, x)[i] = s[i]
      /\ Append(s, x)[Len(s) + 1] = x
  OBVIOUS
<1>2. /\ DOMAIN s = 1..Len(s) /\ DOMAIN Append(s, x) = 1..(Len(s) + 1) /\ Len(s) \in Nat
  BY <1>1
<1>3. 1..(Len(s) + 1) = (1..Len(s)) \cup {Len(s) + 1}
  BY <1>2
<1>4. Range(Append(s, x)) = {Append(s, x)[i] : i \in 1..Len(s)} \cup {x}
  BY <1>1, <1>2, <1>3 DEF Range
<1>5. {Append(s, x)[i] : i \in 1..Len(s)} = {s[i] : i \in 1..Len(s)}
  BY <1>1
<1> QED
  BY <1>1, <1>2, <1>4, <1>5 DEF Range

(* The elements of a sequence without its head. *)
LEMMA RangeTail ==
  ASSUME NEW S, NEW s \in Seq(S), s # <<>>
  PROVE  /\ Head(s) = s[1] /\ Head(s) \in S /\ Len(s) \in Nat /\ Len(s) >= 1
         /\ Tail(s) \in Seq(S) /\ Len(Tail(s)) = Len(s) - 1
         /\ \A i \in 1..Len(Tail(s)) : Tail(s)[i] = s[i + 1]
         /\ Range(s) = Range(Tail(s)) \cup {Head(s)}
<1>1. /\ Len(s) \in Nat /\ Len(s) >= 1 /\ Head(s) = s[1] /\ Head(s) \in S
      /\ Tail(s) \in Seq(S) /\ Len(Tail(s)) = Len(s) - 1
      /\ \A i \in 1..Len(Tail(s)) : Tail(s)[i] = s[i + 1]
  <2>1. Len(s) \in Nat /\ Len(s) # 0
    BY EmptySeq
  <2> QED
    BY <2>1
<1>2. DOMAIN s = 1..Len(s) /\ DOMAIN Tail(s) = 1..(Len(s) - 1)
  BY <1>1
<1>3. ASSUME NEW x \in Range(s) PROVE x \in Range(Tail(s)) \cup {Head(s)}
  <2>1. PICK i \in 1..Len(s) : x = s[i]
    BY <1>2 DEF Range
  <2>2. CASE i = 1
    BY <1>1, <2>1, <2>2
  <2>3. CASE i # 1
    <3>1. i - 1 \in 1..(Len(s) - 1) /\ Tail(s)[i - 1] = s[i]
      BY <1>1, <2>1, <2>3
    <3> QED
      BY <1>2, <2>1, <3>1 DEF Range
  <2> QED
    BY <2>2, <2>3
<1>4. ASSUME NEW x \in Range(Tail(s)) \cup {Head(s)} PROVE x \in Range(s)
  <2>1. CASE x = Head(s)
    BY <1>1, <1>2, <2>1 DEF Range
  <2>2. CASE x \in Range(Tail(s))
    <3>1. PICK i \in 1..(Len(s) - 1) : x = Tail(s)[i]
      BY <1>2, <2>2 DEF Range
    <3>2. i + 1 \in 1..Len(s) /\ x = s[i + 1]
      BY <1>1, <3>1
    <3> QED
      BY <1>2, <3>2 DEF Range
  <2> QED
    BY <1>4, <2>1, <2>2
<1> QED
  BY <1>1, <1>3, <1>4

(* An event joins the end of a line: it is in order when it follows        *)
(* everything its publisher has put there.                                 *)
LEMMA LineTakesEvent ==
  ASSUME NEW done \in Seq(Events), NEW hand \in SUBSET Events,
         NEW items \in Seq(Events \cup {STOP}), NEW e \in Events, NEW before,
         InLine(done, hand, items),
         \A f \in Given(done, hand, items) : f.by = e.by => f.no < e.no
  PROVE  /\ Given(done, hand, Append(items, e)) = Given(done, hand, items) \cup {e}
         /\ InLine(done, hand, Append(items, e))
         /\ AheadOfStop(before, done, hand, items) =>
                AheadOfStop(before, done, hand, Append(items, e))
<1> DEFINE more == Append(items, e)
<1>0. e # STOP /\ e \in Events \cup {STOP}
  BY StopIsNoEvent
<1>1. /\ more \in Seq(Events \cup {STOP}) /\ Len(more) = Len(items) + 1
      /\ \A i \in 1..Len(items) : more[i] = items[i]
      /\ more[Len(items) + 1] = e
      /\ Range(more) = Range(items) \cup {e}
      /\ Len(items) \in Nat /\ Len(done) \in Nat
  BY <1>0, RangeAppend
<1>2. /\ DOMAIN items = 1..Len(items) /\ DOMAIN done = 1..Len(done)
  OBVIOUS
<1>3. Given(done, hand, more) = Given(done, hand, items) \cup {e}
  BY <1>0, <1>1 DEF Given
<1>4. /\ \A i \in 1..Len(done) : Before(done[i], e)
      /\ \A f \in hand : Before(f, e)
      /\ \A k \in 1..Len(items) : Before(items[k], e)
  BY <1>2 DEF Before, Given, Range
<1> HIDE DEF more
<1>5. InLine(done, hand, more)
  <2>1. \A k \in 1..Len(more) : (k \in 1..Len(items) /\ more[k] = items[k]) \/ (k = Len(items) + 1 /\ more[k] = e)
    BY <1>1
  <2>2. \A i \in 1..Len(done) : \A k \in 1..Len(more) : Before(done[i], more[k])
    BY <1>4, <2>1 DEF InLine
  <2>3. \A f \in hand : \A k \in 1..Len(more) : Before(f, more[k])
    BY <1>4, <2>1 DEF InLine
  <2>4. ASSUME NEW i \in 1..Len(more), NEW j \in 1..Len(more), i < j
        PROVE  Before(more[i], more[j])
    <3>1. i \in 1..Len(items) /\ more[i] = items[i]
      BY <1>1, <2>1, <2>4
    <3> QED
      BY <1>4, <2>1, <2>4, <3>1 DEF InLine
  <2> QED
    BY <2>2, <2>3, <2>4 DEF InLine
<1>6. ASSUME AheadOfStop(before, done, hand, items) PROVE AheadOfStop(before, done, hand, more)
  <2> SUFFICES ASSUME NEW k \in 1..Len(more), more[k] = STOP, NEW f \in before
               PROVE  f \in Range(done) \cup hand \/ \E j \in 1..k - 1 : more[j] = f
    BY DEF AheadOfStop
  <2>1. k \in 1..Len(items) /\ items[k] = STOP
    BY <1>0, <1>1
  <2>2. CASE f \in Range(done) \cup hand
    BY <2>2
  <2>3. CASE f \notin Range(done) \cup hand
    <3>1. PICK j \in 1..k - 1 : items[j] = f
      BY <1>6, <2>1, <2>3 DEF AheadOfStop
    <3>2. j \in 1..Len(items)
      BY <2>1
    <3> QED
      BY <1>1, <3>1, <3>2
  <2> QED
    BY <2>2, <2>3
<1> QED
  BY <1>3, <1>5, <1>6 DEF more

(* STOP joins the end of a line that holds everything close has to drain. *)
LEMMA LineTakesStop ==
  ASSUME NEW done \in Seq(Events), NEW hand \in SUBSET Events,
         NEW items \in Seq(Events \cup {STOP}), NEW before,
         InLine(done, hand, items)
  PROVE  /\ Given(done, hand, Append(items, STOP)) = Given(done, hand, items)
         /\ InLine(done, hand, Append(items, STOP))
         /\ AheadOfStop(before, done, hand, items) /\ before \subseteq Given(done, hand, items)
                => AheadOfStop(before, done, hand, Append(items, STOP))
<1> DEFINE more == Append(items, STOP)
<1>1. /\ more \in Seq(Events \cup {STOP}) /\ Len(more) = Len(items) + 1
      /\ \A i \in 1..Len(items) : more[i] = items[i]
      /\ more[Len(items) + 1] = STOP
      /\ Range(more) = Range(items) \cup {STOP}
      /\ Len(items) \in Nat /\ Len(done) \in Nat
  BY RangeAppend
<1>2. DOMAIN items = 1..Len(items)
  OBVIOUS
<1>3. Given(done, hand, more) = Given(done, hand, items)
  BY <1>1 DEF Given
<1> HIDE DEF more
<1>4. \A k \in 1..Len(more) : \/ k \in 1..Len(items) /\ more[k] = items[k]
                              \/ k = Len(items) + 1 /\ more[k] = STOP
  BY <1>1
<1>5. InLine(done, hand, more)
  <2>1. \A i \in 1..Len(done) : \A k \in 1..Len(more) : Before(done[i], more[k])
    BY <1>4 DEF InLine, Before
  <2>2. \A f \in hand : \A k \in 1..Len(more) : Before(f, more[k])
    BY <1>4 DEF InLine, Before
  <2>3. ASSUME NEW i \in 1..Len(more), NEW j \in 1..Len(more), i < j
        PROVE  Before(more[i], more[j])
    <3>1. i \in 1..Len(items) /\ more[i] = items[i]
      BY <1>1, <1>4, <2>3
    <3>2. CASE j \in 1..Len(items) /\ more[j] = items[j]
      BY <2>3, <3>1, <3>2 DEF InLine
    <3>3. CASE more[j] = STOP
      BY <3>3 DEF Before
    <3> QED
      BY <1>4, <3>2, <3>3
  <2> QED
    BY <2>1, <2>2, <2>3 DEF InLine
<1>6. ASSUME AheadOfStop(before, done, hand, items), before \subseteq Given(done, hand, items)
      PROVE  AheadOfStop(before, done, hand, more)
  <2> SUFFICES ASSUME NEW k \in 1..Len(more), more[k] = STOP, NEW f \in before,
                      f \notin Range(done) \cup hand
               PROVE  \E j \in 1..k - 1 : more[j] = f
    BY DEF AheadOfStop
  <2>1. PICK j \in 1..Len(items) : items[j] = f /\ j < k
    <3>1. CASE k \in 1..Len(items) /\ more[k] = items[k]
      <4>1. PICK j \in 1..k - 1 : items[j] = f
        BY <1>6, <3>1 DEF AheadOfStop
      <4> QED
        BY <3>1, <4>1
    <3>2. CASE k = Len(items) + 1
      <4>1. f \in Range(items)
        BY <1>6 DEF Given
      <4>2. PICK j \in 1..Len(items) : items[j] = f
        BY <1>2, <4>1 DEF Range
      <4> QED
        BY <3>2, <4>2, <1>1
    <3> QED
      BY <1>4, <3>1, <3>2
  <2> QED
    BY <1>1, <2>1
<1> QED
  BY <1>3, <1>5, <1>6 DEF more

(* An idle consumer takes the head of its line. *)
LEMMA LineGivesHead ==
  ASSUME NEW done \in Seq(Events), NEW items \in Seq(Events \cup {STOP}), items # <<>>,
         NEW before, InLine(done, {}, items)
  PROVE  /\ Head(items) # STOP =>
             /\ Head(items) \in Events
             /\ Given(done, {Head(items)}, Tail(items)) = Given(done, {}, items)
             /\ InLine(done, {Head(items)}, Tail(items))
             /\ AheadOfStop(before, done, {}, items) =>
                    AheadOfStop(before, done, {Head(items)}, Tail(items))
         /\ Head(items) = STOP =>
             /\ Given(done, {}, Tail(items)) = Given(done, {}, items)
             /\ InLine(done, {}, Tail(items))
             /\ AheadOfStop(before, done, {}, items) =>
                    /\ before \subseteq Range(done)
                    /\ AheadOfStop(before, done, {}, Tail(items))
<1> DEFINE rest == Tail(items)
           h == Head(items)
<1>1. /\ h = items[1] /\ h \in Events \cup {STOP} /\ Len(items) \in Nat /\ Len(items) >= 1
      /\ rest \in Seq(Events \cup {STOP}) /\ Len(rest) = Len(items) - 1
      /\ \A i \in 1..Len(rest) : rest[i] = items[i + 1]
      /\ Range(items) = Range(rest) \cup {h}
  BY RangeTail
<1> HIDE DEF rest, h
<1>2. \A i \in 1..Len(rest) : i + 1 \in 1..Len(items) /\ 1 < i + 1 /\ rest[i] = items[i + 1]
  BY <1>1
<1>3. 1 \in 1..Len(items)
  BY <1>1
<1>4. /\ \A i \in 1..Len(done) : Before(done[i], h)
      /\ \A i \in 1..Len(done) : \A k \in 1..Len(rest) : Before(done[i], rest[k])
      /\ \A k \in 1..Len(rest) : Before(h, rest[k])
  BY <1>1, <1>2, <1>3 DEF InLine
<1>5. \A i, j \in 1..Len(rest) : i < j => Before(rest[i], rest[j])
  <2> SUFFICES ASSUME NEW i \in 1..Len(rest), NEW j \in 1..Len(rest), i < j
               PROVE  Before(rest[i], rest[j])
    OBVIOUS
  <2>1. i + 1 < j + 1
    BY <1>1
  <2> QED
    BY <1>2, <2>1 DEF InLine
<1>6. InLine(done, {h}, rest) /\ InLine(done, {}, rest)
  BY <1>4, <1>5 DEF InLine
<1>7. /\ h # STOP => Given(done, {h}, rest) = Given(done, {}, items)
      /\ h = STOP => Given(done, {}, rest) = Given(done, {}, items)
  BY <1>1 DEF Given
<1>8. ASSUME AheadOfStop(before, done, {}, items), h = STOP
      PROVE  before \subseteq Range(done) /\ AheadOfStop(before, done, {}, rest)
  <2>1. \A e \in before : e \in Range(done) \/ \E j \in 1..1 - 1 : items[j] = e
    BY <1>1, <1>3, <1>8 DEF AheadOfStop
  <2>2. before \subseteq Range(done)
    BY <2>1
  <2> QED
    BY <2>2 DEF AheadOfStop
<1>9. ASSUME AheadOfStop(before, done, {}, items), h # STOP
      PROVE  AheadOfStop(before, done, {h}, rest)
  <2> SUFFICES ASSUME NEW k \in 1..Len(rest), rest[k] = STOP, NEW f \in before,
                      f \notin Range(done), f # h
               PROVE  \E j \in 1..k - 1 : rest[j] = f
    BY DEF AheadOfStop
  <2>1. k + 1 \in 1..Len(items) /\ items[k + 1] = STOP
    BY <1>2
  <2>2. PICK j \in 1..(k + 1) - 1 : items[j] = f
    BY <1>9, <2>1 DEF AheadOfStop
  <2>3. j # 1
    BY <1>1, <2>2
  <2>4. j - 1 \in 1..k - 1 /\ j - 1 \in 1..Len(rest)
    BY <2>3, <1>1
  <2>5. rest[j - 1] = items[(j - 1) + 1] /\ (j - 1) + 1 = j
    BY <1>2, <2>4
  <2> QED
    BY <2>2, <2>4, <2>5
<1> QED
  BY <1>1, <1>6, <1>7, <1>8, <1>9 DEF rest, h

(* The event being handled joins the handled ones. *)
LEMMA LineHandles ==
  ASSUME NEW done \in Seq(Events), NEW items \in Seq(Events \cup {STOP}), NEW e \in Events,
         NEW before, InLine(done, {e}, items)
  PROVE  /\ Given(Append(done, e), {}, items) = Given(done, {e}, items)
         /\ InLine(Append(done, e), {}, items)
         /\ AheadOfStop(before, done, {e}, items) => AheadOfStop(before, Append(done, e), {}, items)
<1> DEFINE more == Append(done, e)
<1>1. /\ more \in Seq(Events) /\ Len(more) = Len(done) + 1 /\ Len(done) \in Nat
      /\ \A i \in 1..Len(done) : more[i] = done[i]
      /\ more[Len(done) + 1] = e
      /\ Range(more) = Range(done) \cup {e}
  BY RangeAppend
<1> HIDE DEF more
<1>2. \A k \in 1..Len(more) : \/ k \in 1..Len(done) /\ more[k] = done[k]
                              \/ k = Len(done) + 1 /\ more[k] = e
  BY <1>1
<1>3. Given(more, {}, items) = Given(done, {e}, items)
  BY <1>1 DEF Given
<1>4. InLine(more, {}, items)
  <2>1. ASSUME NEW i \in 1..Len(more), NEW j \in 1..Len(more), i < j
        PROVE  Before(more[i], more[j])
    <3>1. i \in 1..Len(done) /\ more[i] = done[i]
      BY <1>1, <1>2, <2>1
    <3> QED
      BY <1>2, <2>1, <3>1 DEF InLine
  <2>2. \A i \in 1..Len(more) : \A k \in 1..Len(items) : Before(more[i], items[k])
    BY <1>2 DEF InLine
  <2> QED
    BY <2>1, <2>2 DEF InLine
<1>5. AheadOfStop(before, done, {e}, items) => AheadOfStop(before, more, {}, items)
  BY <1>1 DEF AheadOfStop
<1> QED
  BY <1>3, <1>4, <1>5 DEF more

(* A handler raises: the event it had is dropped. *)
LEMMA LineDrops ==
  ASSUME NEW done, NEW hand, NEW items, InLine(done, hand, items)
  PROVE  Given(done, {}, items) \subseteq Given(done, hand, items) /\ InLine(done, {}, items)
BY DEF Given, InLine

----------------------------------------------------------------------------
(* Queues.                                                                 *)

(* A set of numbers has a least one: induction by least counterexample.    *)
LEMMA LeastNumber ==
  ASSUME NEW T, T \subseteq Nat, T # {}
  PROVE  \E n \in T : \A m \in T : n <= m
<1> DEFINE R == {p \in Nat \X Nat : p[1] < p[2]}
<1>1. IsWellFoundedOn(R, Nat)
  BY NatLessThanWellFounded DEF OpToRel
<1>2. PICK x \in T : \A y \in T : <<y, x>> \notin R
  <2> HIDE DEF R
  <2> QED BY <1>1, WFMin
<1>3. ASSUME NEW y \in T PROVE x <= y
  <2>1. <<y, x>> \in Nat \X Nat /\ <<y, x>>[1] = y /\ <<y, x>>[2] = x
    OBVIOUS
  <2> QED BY <1>2, <2>1
<1> QED BY <1>3

(* Removing the first occurrence of an element leaves a sequence. *)
LEMMA RemoveFirstType ==
  ASSUME NEW S, NEW s \in Seq(S), NEW t
  PROVE  RemoveFirst(s, t) \in Seq(S)
<1>1. CASE ~\E i \in 1..Len(s) : s[i] = t
  BY <1>1 DEF RemoveFirst
<1>2. CASE \E i \in 1..Len(s) : s[i] = t
  <2> DEFINE k == SelectInSeq(s, LAMBDA v : v = t)
  <2>1. k \in 1..Len(s)
    <3> DEFINE I == {i \in 1..Len(s) : s[i] = t}
    <3>1. I # {} /\ k = CHOOSE i \in I : \A j \in I : i <= j
      BY <1>2 DEF SelectInSeq, Min
    <3>2. \E i \in I : \A j \in I : i <= j
      <4>1. PICK m \in I : TRUE
        BY <3>1
      <4>2. I \subseteq Nat
        OBVIOUS
      <4> HIDE DEF I
      <4> QED
        BY <4>1, <4>2, LeastNumber
    <3>3. k \in I
      BY <3>1, <3>2
    <3> QED
      BY <3>3
  <2>2. RemoveFirst(s, t) = RemoveAt(s, k)
    BY <1>2 DEF RemoveFirst
  <2> HIDE DEF k
  <2>3. SubSeq(s, 1, k - 1) \in Seq(S) /\ SubSeq(s, k + 1, Len(s)) \in Seq(S)
    BY <2>1
  <2> QED
    BY <2>2, <2>3 DEF RemoveAt
<1> QED
  BY <1>1, <1>2

(* An item is put on a queue with room. *)
LEMMA PutType ==
  ASSUME NEW Items, NEW q, IsQueue(q, Items, Tasks, Capacity), NEW item \in Items,
         ~Full(q, Capacity)
  PROVE  /\ IsQueue(PutNowait(q, item), Items, Tasks, Capacity)
         /\ PutNowait(q, item).items = Append(q.items, item)
<1>1. /\ q.items \in Seq(Items) /\ Len(q.items) < Capacity /\ Len(q.items) \in Nat
  BY BusAssumption DEF IsQueue, Full
<1>2. Append(q.items, item) \in Seq(Items) /\ Len(Append(q.items, item)) = Len(q.items) + 1
  BY <1>1
<1>3. PutNowait(q, item).items = Append(q.items, item)
  BY DEF PutNowait, IsQueue
<1>4. PutNowait(q, item) \in [items : Seq(Items), fresh : SUBSET Tasks, parked : Seq(Tasks),
                              woken : SUBSET Tasks]
  BY <1>2 DEF PutNowait, IsQueue
<1> QED
  BY <1>1, <1>2, <1>3, <1>4, BusAssumption DEF IsQueue

(* A putter starts, with nothing put yet. *)
LEMMA StartType ==
  ASSUME NEW Items, NEW q, IsQueue(q, Items, Tasks, Capacity), NEW t \in Tasks
  PROVE  IsQueue(StartPut(q, t), Items, Tasks, Capacity) /\ StartPut(q, t).items = q.items
BY DEF StartPut, IsQueue

(* Waking a putter moves no item. *)
LEMMA WakeType ==
  ASSUME NEW Items, NEW q, IsQueue(q, Items, Tasks, Capacity)
  PROVE  IsQueue(Wake(q), Items, Tasks, Capacity) /\ Wake(q).items = q.items
<1>1. CASE q.parked = <<>>
  BY <1>1 DEF Wake
<1>2. CASE q.parked # <<>>
  <2>1. Head(q.parked) \in Tasks /\ Tail(q.parked) \in Seq(Tasks)
    BY <1>2 DEF IsQueue
  <2>2. q.woken \cup {Head(q.parked)} \in SUBSET Tasks
    BY <2>1 DEF IsQueue
  <2> QED
    BY <1>2, <2>1, <2>2 DEF Wake, IsQueue
<1> QED
  BY <1>1, <1>2

(* Taking an item removes the head. *)
LEMMA GetType ==
  ASSUME NEW Items, NEW q, IsQueue(q, Items, Tasks, Capacity), q.items # <<>>
  PROVE  IsQueue(Get(q), Items, Tasks, Capacity) /\ Get(q).items = Tail(q.items)
<1> DEFINE taken == [q EXCEPT !.items = Tail(@)]
<1>1. /\ Tail(q.items) \in Seq(Items) /\ Len(Tail(q.items)) = Len(q.items) - 1
      /\ Len(q.items) \in Nat /\ Len(q.items) <= Capacity
  BY RangeTail DEF IsQueue
<1>2. taken.items = Tail(q.items)
  BY DEF IsQueue
<1>3. taken \in [items : Seq(Items), fresh : SUBSET Tasks, parked : Seq(Tasks),
                 woken : SUBSET Tasks]
  BY <1>1 DEF IsQueue
<1>4. IsQueue(taken, Items, Tasks, Capacity)
  <2>1. Len(taken.items) <= Capacity
    BY <1>1, <1>2, BusAssumption
  <2> QED
    BY <1>3, <2>1 DEF IsQueue
<1>5. Get(q) = Wake(taken)
  BY DEF Get
<1> HIDE DEF taken
<1> QED
  BY <1>2, <1>4, <1>5, WakeType

(* A putter runs: it puts its item if there is room. *)
LEMMA RunType ==
  ASSUME NEW Items, NEW q, IsQueue(q, Items, Tasks, Capacity), NEW t \in Tasks,
         NEW item \in Items
  PROVE  /\ IsQueue(RunPut(q, t, item, Capacity), Items, Tasks, Capacity)
         /\ RunPut(q, t, item, Capacity).items =
                IF Full(q, Capacity) THEN q.items ELSE Append(q.items, item)
<1> DEFINE ran == [q EXCEPT !.fresh = @ \ {t}, !.woken = @ \ {t}]
<1>1. IsQueue(ran, Items, Tasks, Capacity) /\ ran.items = q.items
  BY DEF IsQueue
<1>2. Full(ran, Capacity) = Full(q, Capacity)
  BY <1>1 DEF Full
<1>3. RunPut(q, t, item, Capacity) =
        IF Full(q, Capacity) THEN [ran EXCEPT !.parked = Append(@, t)] ELSE PutNowait(ran, item)
  BY DEF RunPut
<1> HIDE DEF ran
<1>4. CASE Full(q, Capacity)
  <2>1. Append(ran.parked, t) \in Seq(Tasks)
    BY <1>1 DEF IsQueue
  <2>2. /\ IsQueue([ran EXCEPT !.parked = Append(@, t)], Items, Tasks, Capacity)
        /\ [ran EXCEPT !.parked = Append(@, t)].items = q.items
    BY <1>1, <2>1 DEF IsQueue
  <2> QED
    BY <1>3, <1>4, <2>2
<1>5. CASE ~Full(q, Capacity)
  BY <1>1, <1>2, <1>3, <1>5, PutType
<1> QED
  BY <1>4, <1>5

(* A putter is cancelled: no item moves. *)
LEMMA CancelType ==
  ASSUME NEW Items, NEW q, IsQueue(q, Items, Tasks, Capacity), NEW t
  PROVE  /\ IsQueue(CancelPut(q, t, Capacity), Items, Tasks, Capacity)
         /\ CancelPut(q, t, Capacity).items = q.items
<1> DEFINE gone == [q EXCEPT !.fresh = @ \ {t}, !.woken = @ \ {t},
                             !.parked = RemoveFirst(@, t)]
<1>1. RemoveFirst(q.parked, t) \in Seq(Tasks)
  BY RemoveFirstType DEF IsQueue
<1>2. IsQueue(gone, Items, Tasks, Capacity) /\ gone.items = q.items
  BY <1>1 DEF IsQueue
<1>3. CancelPut(q, t, Capacity) = IF t \in q.woken /\ ~Full(q, Capacity) THEN Wake(gone) ELSE gone
  BY DEF CancelPut
<1> HIDE DEF gone
<1> QED
  BY <1>2, <1>3, WakeType

(* The first full queue, and what an offer puts where. *)
LEMMA OfferedQueues ==
  ASSUME TypeOK, NEW targets \in SUBSET Consumers, NEW from \in Nat, NEW t \in Tasks,
         NEW item \in Events \cup {STOP}
  PROVE  /\ FirstFull(from, targets) \in 1..N + 1
         /\ FirstFull(from, targets) <= N =>
                FirstFull(from, targets) \in targets /\ FirstFull(from, targets) >= from
         /\ DOMAIN Offered(t, item, from, targets) = Consumers
         /\ \A c \in Consumers :
             /\ IsQueue(Offered(t, item, from, targets)[c], Events \cup {STOP}, Tasks, Capacity)
             /\ Offered(t, item, from, targets)[c].items =
                    IF c \in targets /\ c >= from /\ c < FirstFull(from, targets)
                    THEN Append(queues[c].items, item) ELSE queues[c].items
<1> DEFINE full == {c \in targets : c >= from /\ Full(queues[c], Capacity)}
           stop == FirstFull(from, targets)
           after == Offered(t, item, from, targets)
<1>0. N \in Nat /\ Consumers = 1..N
  BY BusAssumption DEF Consumers
<1>1. stop = IF full = {} THEN N + 1 ELSE CHOOSE c \in full : \A d \in full : c <= d
  BY DEF FirstFull
<1>2. full # {} => \E c \in full : \A d \in full : c <= d
  <2>1. full \subseteq Nat
    <3>1. \A c \in full : c \in 1..N
      BY <1>0
    <3> HIDE DEF full
    <3> QED
      BY <1>0, <3>1
  <2> HIDE DEF full
  <2> QED
    BY <2>1, LeastNumber
<1>3. full # {} => stop \in full /\ \A d \in full : stop <= d
  BY <1>1, <1>2
<1>4. /\ stop \in 1..N + 1 /\ (stop <= N => stop \in targets /\ stop >= from)
      /\ \A c \in targets : c >= from /\ c < stop => ~Full(queues[c], Capacity)
  <2>1. CASE full = {}
    BY <1>0, <1>1, <2>1
  <2>2. CASE full # {}
    <3>1. stop \in targets /\ stop >= from /\ stop \in 1..N /\ (\A d \in full : stop <= d)
      BY <1>0, <1>3, <2>2
    <3>2. \A c \in targets : c >= from /\ Full(queues[c], Capacity) => stop <= c
      BY <3>1
    <3> QED
      BY <1>0, <3>1, <3>2
  <2> QED
    BY <2>1, <2>2
<1>5. after = [c \in Consumers |->
            IF c = stop THEN StartPut(queues[c], t)
            ELSE IF c \in targets /\ c >= from /\ c < stop THEN PutNowait(queues[c], item)
            ELSE queues[c]]
  BY DEF Offered
<1> HIDE DEF stop, after, full
<1>6. ASSUME NEW c \in Consumers
      PROVE  /\ IsQueue(after[c], Events \cup {STOP}, Tasks, Capacity)
             /\ after[c].items = IF c \in targets /\ c >= from /\ c < stop
                                 THEN Append(queues[c].items, item) ELSE queues[c].items
  <2>1. IsQueue(queues[c], Events \cup {STOP}, Tasks, Capacity)
    BY DEF TypeOK
  <2>2. CASE c = stop
    <3>1. after[c] = StartPut(queues[c], t) /\ ~(c < stop)
      BY <1>5, <2>2, <1>4
    <3> QED
      BY <2>1, <3>1, StartType
  <2>3. CASE c # stop /\ c \in targets /\ c >= from /\ c < stop
    <3>1. after[c] = PutNowait(queues[c], item) /\ ~Full(queues[c], Capacity)
      BY <1>4, <1>5, <2>3
    <3> QED
      BY <2>1, <2>3, <3>1, PutType
  <2>4. CASE c # stop /\ ~(c \in targets /\ c >= from /\ c < stop)
    <3>1. after[c] = queues[c]
      BY <1>5, <2>4
    <3> QED
      BY <2>1, <2>4, <3>1
  <2> QED
    BY <2>2, <2>3, <2>4
<1>7. DOMAIN after = Consumers
  BY <1>5
<1> QED
  BY <1>4, <1>6, <1>7 DEF stop, after

----------------------------------------------------------------------------
(* What a step keeps.                                                      *)

(* What had been delivered still is. *)
NothingLost == \A c \in Consumers : \A e \in Events : Delivered(c, e) => Delivered(c, e)'

(* The lines of all consumers are as they were. *)
LinesStay ==
    \A c \in Consumers :
        /\ processed'[c] = processed[c] /\ queues'[c].items = queues[c].items
        /\ consumer'[c].handling = consumer[c].handling
        /\ consumer'[c].task = "failed" <=> consumer[c].task = "failed"

(* The types of one consumer's line. *)
LEMMA LineTypes ==
  ASSUME TypeOK, NEW c \in Consumers
  PROVE  /\ processed[c] \in Seq(Events) /\ queues[c].items \in Seq(Events \cup {STOP})
         /\ consumer[c].handling \in SUBSET Events
         /\ consumer[c].task \in {"none", "running", "stopped", "failed"}
         /\ AllOf(c) \subseteq Events
<1>1. /\ processed[c] \in Seq(Events) /\ queues[c].items \in Seq(Events \cup {STOP})
      /\ consumer[c].handling \in SUBSET Events
      /\ consumer[c].task \in {"none", "running", "stopped", "failed"}
  BY DEF TypeOK, IsQueue
<1>2. Range(processed[c]) \subseteq Events /\ Range(queues[c].items) \subseteq Events \cup {STOP}
  BY <1>1 DEF Range
<1> QED
  BY <1>1, <1>2 DEF AllOf, Given

(* The event of a publish under way. *)
LEMMA EventOfType ==
  ASSUME TypeOK, Places, NEW p \in Publishers, pub[p].pc # "idle"
  PROVE  EventOf(p) \in Events /\ pub[p].at \in Consumers /\ pub[p].no \in 1..MaxEvents
<1>1. pub[p].no \in 0..MaxEvents /\ pub[p].no > 0 /\ pub[p].at \in Consumers
  BY DEF TypeOK, Places
<1> QED
  BY <1>1, BusAssumption DEF EventOf, Events

LEMMA StayKeepsLines ==
  ASSUME TypeOK, Lined, LinesStay
  PROVE  Lined' /\ NothingLost /\ (\A c \in Consumers : AllOf(c)' = AllOf(c))
<1>1. \A c \in Consumers : AllOf(c)' = AllOf(c)
  BY DEF LinesStay, AllOf
<1>2. NothingLost
  BY <1>1 DEF NothingLost, Delivered, LinesStay
<1>3. Lined'
  BY DEF Lined, LinesStay
<1> QED
  BY <1>1, <1>2, <1>3

LEMMA ReachedKept ==
  ASSUME TypeOK, Places, Reached, NothingLost, pub' = pub
  PROVE  Reached'
<1> SUFFICES ASSUME NEW p \in Publishers, NEW c \in Consumers,
                    (pub[p].pc # "idle" /\ ~Awaits(p, c))'
             PROVE  Delivered(c, EventOf(p))'
  BY DEF Reached
<1>1. pub[p].pc # "idle" /\ ~Awaits(p, c)
  BY DEF Awaits
<1>2. Delivered(c, EventOf(p)) /\ EventOf(p) \in Events
  BY <1>1, EventOfType DEF Reached
<1>3. Delivered(c, EventOf(p))' <=> (EventOf(p) \in AllOf(c)' \/ consumer'[c].task = "failed")
  BY DEF Delivered, EventOf
<1> QED
  BY <1>2, <1>3 DEF NothingLost, Delivered

LEMMA AheadKept ==
  ASSUME Ahead, pub' = pub, \A c \in Consumers : AllOf(c)' \subseteq AllOf(c)
  PROVE  Ahead'
<1> SUFFICES ASSUME NEW c \in Consumers, NEW e \in AllOf(c)'
             PROVE  /\ e.no <= pub'[e.by].no
                    /\ (Awaits(e.by, c))' => e.no < pub'[e.by].no
  BY DEF Ahead
<1>1. e \in AllOf(c)
  OBVIOUS
<1>2. (Awaits(e.by, c))' <=> Awaits(e.by, c)
  BY DEF Awaits
<1> QED
  BY <1>1, <1>2 DEF Ahead

LEMMA ReturnedKept ==
  ASSUME TypeOK, Returned, NothingLost, returned' = returned
  PROVE  Returned'
<1> SUFFICES ASSUME NEW e \in returned, NEW c \in Consumers PROVE Delivered(c, e)'
  BY DEF Returned
<1> QED
  BY DEF Returned, NothingLost, TypeOK

(* Consumers that handle no less and stay failed keep a drain's promise. *)
LEMMA DrainingKept ==
  ASSUME TypeOK, Draining, drain' = drain, returned \subseteq returned',
         \A c \in Consumers : /\ Range(processed[c]) \subseteq Range(processed'[c])
                              /\ consumer[c].task = "failed" => consumer'[c].task = "failed"
  PROVE  Draining'
BY DEF Draining, TypeOK

(* Nothing but the publishers' and the queues' putters moves. *)
LEMMA StopsKept ==
  ASSUME Stops, LinesStay, close' = close, returned' = returned, started' = started,
         consumer' = consumer
  PROVE  Stops'
BY DEF Stops, LinesStay, Closing

(* A step that leaves lines, publishers and returns alone. *)
LEMMA QuietStep ==
  ASSUME BusInv, LinesStay, pub' = pub, returned' = returned
  PROVE  Lined' /\ Ahead' /\ Reached' /\ Returned' /\ (drain' = drain => Draining')
<1>1. Lined' /\ NothingLost /\ (\A c \in Consumers : AllOf(c)' = AllOf(c))
  BY StayKeepsLines DEF BusInv
<1>2. Ahead'
  BY <1>1, AheadKept DEF BusInv
<1>3. Reached'
  BY <1>1, ReachedKept DEF BusInv
<1>4. Returned'
  BY <1>1, ReturnedKept DEF BusInv
<1>5. drain' = drain => Draining'
  BY DrainingKept DEF BusInv, LinesStay
<1> QED
  BY <1>1, <1>2, <1>3, <1>4, <1>5

LEMMA StartKeeps ==
  ASSUME BusInv, Start
  PROVE  BusInv'
<1>a. /\ ~started /\ ~Closing /\ started' = TRUE
      /\ consumer' = [c \in Consumers |-> [consumer[c] EXCEPT !.task = "running"]]
      /\ queues' = queues /\ pub' = pub /\ drain' = drain /\ close' = close
      /\ processed' = processed /\ returned' = returned
  BY DEF Start
<1>b. \A c \in Consumers : /\ consumer[c].task = "none" /\ consumer'[c].task = "running"
                           /\ consumer'[c].handling = consumer[c].handling
  BY <1>a DEF BusInv, Places, TypeOK
<1>1. LinesStay
  BY <1>a, <1>b DEF LinesStay
<1>2. Lined' /\ Ahead' /\ Reached' /\ Returned' /\ Draining'
  BY <1>a, <1>1, QuietStep
<1>3. TypeOK'
  <2>1. consumer' \in [Consumers -> [task : {"none", "running", "stopped", "failed"},
                                     handling : SUBSET Events]]
    <3>1. \A c \in Consumers : [consumer[c] EXCEPT !.task = "running"] \in ConsumerTasks
      BY RecordTypes, FieldsReplaced DEF BusInv
    <3> QED
      BY <1>a, <3>1 DEF ConsumerTasks
  <2> QED
    BY <1>a, <2>1 DEF BusInv, TypeOK
<1>4. Places'
  BY <1>a, <1>b DEF BusInv, Places
<1>5. Stops'
  <2>1. ~Closing' /\ close.pc = "none"
    BY <1>a DEF Closing
  <2>2. \A c \in Consumers :
          /\ STOP \notin Range(queues[c].items)
          /\ AheadOfStop(close.before, processed[c], consumer[c].handling, queues[c].items)
    BY <1>a, <1>b DEF BusInv, Stops
  <2>3. \A c \in Consumers :
          /\ STOP \notin Range(queues'[c].items)
          /\ AheadOfStop(close.before, processed[c], consumer[c].handling, queues[c].items)'
    BY <1>a, <1>b, <2>2
  <2> QED
    BY <1>a, <1>b, <2>1, <2>3 DEF BusInv, Stops
<1> QED
  BY <1>2, <1>3, <1>4, <1>5 DEF BusInv

(* A publish goes on: its event is in order wherever it is put now. *)
LEMMA PublishOnKeeps ==
  ASSUME BusInv, NEW p \in Publishers, NEW no \in 1..MaxEvents, NEW from \in 1..N + 1,
         PublishOn(p, no, from), pub[p].no <= no,
         \A c \in Consumers : c >= from => \A f \in AllOf(c) : f.by = p => f.no < no,
         \A c \in Consumers : c < from => Delivered(c, [by |-> p, no |-> no])
  PROVE  BusInv'
<1> DEFINE e == [by |-> p, no |-> no]
           stop == FirstFull(from, Consumers)
<1>0. /\ N \in Nat \ {0} /\ Consumers = 1..N /\ e \in Events /\ e.by = p /\ e.no = no
      /\ p \in Tasks /\ from \in Nat /\ MaxEvents \in Nat /\ Consumers \in SUBSET Consumers
  BY BusAssumption DEF Consumers, Events, Tasks
<1>a. /\ queues' = Offered(p, e, from, Consumers)
      /\ pub' = [pub EXCEPT ![p] = [pc |-> IF stop > N THEN "idle" ELSE "waiting",
                                    at |-> stop, no |-> no]]
      /\ returned' = IF stop > N THEN returned \cup {e} ELSE returned
      /\ started' = started /\ consumer' = consumer /\ drain' = drain
      /\ close' = close /\ processed' = processed
  BY DEF PublishOn
<1> HIDE DEF e
<1>1. /\ stop \in 1..N + 1 /\ (stop <= N => stop \in Consumers /\ stop >= from)
      /\ DOMAIN queues' = Consumers
      /\ \A c \in Consumers :
          /\ IsQueue(queues'[c], Events \cup {STOP}, Tasks, Capacity)
          /\ queues'[c].items = IF c \in Consumers /\ c >= from /\ c < stop
                                THEN Append(queues[c].items, e) ELSE queues[c].items
  <2>1. /\ TypeOK /\ e \in Events \cup {STOP} /\ p \in Tasks /\ from \in Nat
        /\ Consumers \in SUBSET Consumers
    BY <1>0 DEF BusInv
  <2>2. /\ stop \in 1..N + 1 /\ (stop <= N => stop \in Consumers /\ stop >= from)
        /\ DOMAIN Offered(p, e, from, Consumers) = Consumers
        /\ \A c \in Consumers :
            /\ IsQueue(Offered(p, e, from, Consumers)[c], Events \cup {STOP}, Tasks, Capacity)
            /\ Offered(p, e, from, Consumers)[c].items =
                  IF c \in Consumers /\ c >= from /\ c < stop
                  THEN Append(queues[c].items, e) ELSE queues[c].items
    BY <2>1, OfferedQueues, ZenonT(60)
  <2> HIDE DEF stop
  <2> QED
    BY <1>a, <2>2
<1> HIDE DEF stop
<1>2. /\ pub'[p].pc = (IF stop > N THEN "idle" ELSE "waiting")
      /\ pub'[p].at = stop /\ pub'[p].no = no
      /\ \A r \in Publishers : r # p => pub'[r] = pub[r]
  BY <1>a DEF BusInv, TypeOK
<1>3. ASSUME NEW c \in Consumers, c >= from, c < stop
      PROVE  /\ AllOf(c)' = AllOf(c) \cup {e}
             /\ InLine(processed[c], consumer[c].handling, queues[c].items)'
             /\ AheadOfStop(close.before, processed[c], consumer[c].handling, queues[c].items) =>
                    AheadOfStop(close.before, processed[c], consumer[c].handling, queues[c].items)'
             /\ Range(queues'[c].items) = Range(queues[c].items) \cup {e}
  <2>1. /\ processed[c] \in Seq(Events) /\ queues[c].items \in Seq(Events \cup {STOP})
        /\ consumer[c].handling \in SUBSET Events
    BY LineTypes DEF BusInv
  <2>2. InLine(processed[c], consumer[c].handling, queues[c].items)
    BY DEF BusInv, Lined
  <2>3. \A f \in Given(processed[c], consumer[c].handling, queues[c].items) :
            f.by = e.by => f.no < e.no
    BY <1>0, <1>3 DEF AllOf
  <2>4. queues'[c].items = Append(queues[c].items, e)
    BY <1>1, <1>3
  <2>5. Range(Append(queues[c].items, e)) = Range(queues[c].items) \cup {e}
    BY <1>0, <2>1, RangeAppend
  <2>6. /\ Given(processed[c], consumer[c].handling, Append(queues[c].items, e)) =
              Given(processed[c], consumer[c].handling, queues[c].items) \cup {e}
        /\ InLine(processed[c], consumer[c].handling, Append(queues[c].items, e))
        /\ AheadOfStop(close.before, processed[c], consumer[c].handling, queues[c].items) =>
             AheadOfStop(close.before, processed[c], consumer[c].handling, Append(queues[c].items, e))
    BY <1>0, <2>1, <2>2, <2>3, LineTakesEvent
  <2> QED
    BY <1>a, <2>4, <2>5, <2>6 DEF AllOf
<1>4. ASSUME NEW c \in Consumers, ~(c >= from /\ c < stop)
      PROVE  AllOf(c)' = AllOf(c) /\ queues'[c].items = queues[c].items
  BY <1>a, <1>1, <1>4 DEF AllOf
<1>5. Lined'
  <2>1. \A c \in Consumers : InLine(processed[c], consumer[c].handling, queues[c].items)'
    <3> SUFFICES ASSUME NEW c \in Consumers
                 PROVE  InLine(processed[c], consumer[c].handling, queues[c].items)'
      OBVIOUS
    <3>1. CASE c >= from /\ c < stop
      BY <1>3, <3>1
    <3>2. CASE ~(c >= from /\ c < stop)
      <4>1. queues'[c].items = queues[c].items
        BY <1>4, <3>2
      <4> QED
        BY <1>a, <4>1 DEF BusInv, Lined
    <3> QED
      BY <3>1, <3>2
  <2> QED
    BY <2>1 DEF Lined
<1>6. \A c \in Consumers : AllOf(c) \subseteq AllOf(c)' /\ AllOf(c)' \subseteq AllOf(c) \cup {e}
  BY <1>3, <1>4
<1>7. NothingLost
  BY <1>a, <1>6 DEF NothingLost, Delivered
<1>8. \A c \in Consumers : c < stop => Delivered(c, e)'
  <2> SUFFICES ASSUME NEW c \in Consumers, c < stop PROVE Delivered(c, e)'
    OBVIOUS
  <2>1. CASE c >= from
    BY <1>3, <2>1 DEF Delivered
  <2>2. CASE ~(c >= from)
    <3>1. Delivered(c, e)
      BY <1>0, <2>2 DEF e
    <3> QED
      BY <1>0, <1>7, <3>1 DEF NothingLost
  <2> QED
    BY <2>1, <2>2
<1>9. Ahead'
  <2> SUFFICES ASSUME NEW c \in Consumers, NEW f \in AllOf(c)'
               PROVE  /\ f.no <= pub'[f.by].no
                      /\ (Awaits(f.by, c))' => f.no < pub'[f.by].no
    BY DEF Ahead
  <2>0. f \in Events /\ f.by \in Publishers /\ f.no \in Nat
    BY <1>0, <1>6, LineTypes, StopIsNoEvent DEF BusInv
  <2>1. CASE f.by # p
    <3>1. f \in AllOf(c) /\ pub'[f.by] = pub[f.by]
      BY <1>0, <1>2, <1>6, <2>0, <2>1
    <3>2. (Awaits(f.by, c))' <=> Awaits(f.by, c)
      BY <3>1 DEF Awaits
    <3> QED
      BY <3>1, <3>2 DEF BusInv, Ahead
  <2>2. CASE f.by = p
    <3>1. (Awaits(p, c))' => stop <= c
      BY <1>2 DEF Awaits
    <3>2. CASE f \in AllOf(c)
      <4>1. f.no <= pub[p].no
        BY <2>2, <3>2 DEF BusInv, Ahead
      <4>2. f.no <= no
        BY <2>0, <4>1, <1>0 DEF BusInv, TypeOK
      <4>3. (Awaits(p, c))' => c >= from
        <5>1. CASE stop <= N
          BY <1>0, <1>1, <3>1, <5>1
        <5>2. CASE ~(stop <= N)
          BY <1>0, <1>1, <3>1, <5>2
        <5> QED
          BY <5>1, <5>2
      <4> QED
        BY <1>2, <2>2, <3>2, <4>2, <4>3
    <3>3. CASE f \notin AllOf(c)
      <4>1. f = e /\ c < stop
        BY <1>4, <1>6, <3>3, <1>1, <1>0
      <4>2. ~(Awaits(p, c))'
        BY <3>1, <4>1, <1>0, <1>1
      <4> QED
        BY <1>0, <1>2, <2>2, <4>1, <4>2
    <3> QED
      BY <3>2, <3>3
  <2> QED
    BY <2>1, <2>2
<1>10. Reached'
  <2> SUFFICES ASSUME NEW r \in Publishers, NEW c \in Consumers,
                      (pub[r].pc # "idle" /\ ~Awaits(r, c))'
               PROVE  Delivered(c, EventOf(r))'
    BY DEF Reached
  <2>1. CASE r # p
    <3>1. pub'[r] = pub[r] /\ EventOf(r)' = EventOf(r)
      BY <1>2, <2>1 DEF EventOf
    <3>2. pub[r].pc # "idle" /\ ~Awaits(r, c)
      BY <3>1 DEF Awaits
    <3>3. Delivered(c, EventOf(r)) /\ EventOf(r) \in Events
      BY <3>2, EventOfType DEF BusInv, Reached
    <3>4. Delivered(c, EventOf(r))' <=> (EventOf(r) \in AllOf(c)' \/ consumer'[c].task = "failed")
      BY <3>1 DEF Delivered
    <3> QED
      BY <1>6, <1>a, <3>3, <3>4 DEF Delivered
  <2>2. CASE r = p
    <3>1. EventOf(r)' = e
      BY <1>2, <2>2 DEF EventOf, e
    <3>2. pub'[p].pc = "waiting" /\ ~(stop <= c)
      BY <1>2, <2>2 DEF Awaits
    <3>3. Delivered(c, e)' /\ (Delivered(c, e)' <=> (e \in AllOf(c)' \/ consumer'[c].task = "failed"))
      BY <1>0, <1>1, <1>8, <3>2 DEF Delivered, e
    <3> QED
      BY <3>1, <3>3 DEF Delivered
  <2> QED
    BY <2>1, <2>2
<1>11. Returned'
  <2> SUFFICES ASSUME NEW f \in returned', NEW c \in Consumers PROVE Delivered(c, f)'
    BY DEF Returned
  <2>1. CASE f \in returned
    BY <1>7, <2>1 DEF NothingLost, BusInv, Returned, TypeOK
  <2>2. CASE f \notin returned
    <3>1. f = e /\ c < stop
      BY <1>a, <2>2, <1>0, <1>1
    <3> QED
      BY <1>8, <3>1
  <2> QED
    BY <2>1, <2>2
<1>12. Draining'
  BY <1>a, DrainingKept DEF BusInv
<1>13. Stops'
  <2>1. close.before \subseteq returned'
    BY <1>a DEF BusInv, Stops
  <2>2. \A c \in Consumers :
          /\ ~Closing => STOP \notin Range(queues'[c].items)
          /\ consumer[c].task # "failed" =>
              AheadOfStop(close.before, processed[c], consumer[c].handling, queues[c].items)'
    <3> SUFFICES ASSUME NEW c \in Consumers
                 PROVE  /\ ~Closing => STOP \notin Range(queues'[c].items)
                        /\ consumer[c].task # "failed" =>
                            AheadOfStop(close.before, processed[c], consumer[c].handling, queues[c].items)'
      OBVIOUS
    <3>0. /\ ~Closing => STOP \notin Range(queues[c].items)
          /\ consumer[c].task # "failed" =>
                AheadOfStop(close.before, processed[c], consumer[c].handling, queues[c].items)
      BY DEF BusInv, Stops
    <3>1. CASE c >= from /\ c < stop
      BY <1>0, <1>3, <3>0, <3>1, StopIsNoEvent
    <3>2. CASE ~(c >= from /\ c < stop)
      <4>1. queues'[c].items = queues[c].items
        BY <1>4, <3>2
      <4> QED
        BY <1>a, <3>0, <4>1
    <3> QED
      BY <3>1, <3>2
  <2> QED
    BY <1>a, <2>1, <2>2 DEF BusInv, Stops, Closing
<1>14. TypeOK'
  <2>1. pub' \in [Publishers -> [pc : {"idle", "waiting", "put"}, at : 0..N + 1, no : 0..MaxEvents]]
    <3>1. /\ stop \in 0..N + 1 /\ no \in 0..MaxEvents
          /\ (IF stop > N THEN "idle" ELSE "waiting") \in {"idle", "waiting", "put"}
      BY <1>0, <1>1
    <3> QED
      BY <1>a, <3>1 DEF BusInv, TypeOK
  <2>2. returned' \subseteq Events
    BY <1>0, <1>a DEF BusInv, TypeOK
  <2> QED
    BY <1>a, <1>1, <2>1, <2>2 DEF BusInv, TypeOK
<1>15. Places'
  <2>1. \A r \in Publishers : pub'[r].pc # "idle" => pub'[r].at \in Consumers /\ pub'[r].no > 0
    BY <1>0, <1>1, <1>2 DEF BusInv, Places
  <2> QED
    BY <1>a, <2>1 DEF BusInv, Places
<1> QED
  BY <1>5, <1>9, <1>10, <1>11, <1>12, <1>13, <1>14, <1>15 DEF BusInv

LEMMA PublishKeeps ==
  ASSUME BusInv, NEW p \in Publishers, Publish(p) \/ PublishResumes(p)
  PROVE  BusInv'
<1>0. /\ pub[p].no \in 0..MaxEvents /\ MaxEvents \in Nat /\ N \in Nat \ {0} /\ Consumers = 1..N
  BY BusAssumption DEF BusInv, TypeOK, Consumers
<1>1. CASE Publish(p)
  <2>1. /\ pub[p].no + 1 \in 1..MaxEvents /\ 1 \in 1..N + 1 /\ PublishOn(p, pub[p].no + 1, 1)
        /\ pub[p].no <= pub[p].no + 1
    BY <1>0, <1>1 DEF Publish
  <2>2. \A c \in Consumers : \A f \in AllOf(c) : f.by = p => f.no < pub[p].no + 1
    <3> SUFFICES ASSUME NEW c \in Consumers, NEW f \in AllOf(c), f.by = p
                 PROVE  f.no < pub[p].no + 1
      OBVIOUS
    <3>1. f.no <= pub[p].no /\ f.no \in Nat
      BY LineTypes, StopIsNoEvent DEF BusInv, Ahead
    <3> QED
      BY <1>0, <3>1
  <2>3. \A c \in Consumers : ~(c < 1)
    BY <1>0
  <2> QED
    BY <2>1, <2>2, <2>3, PublishOnKeeps
<1>2. CASE PublishResumes(p)
  <2>1. /\ pub[p].pc = "put" /\ PublishOn(p, pub[p].no, pub[p].at + 1)
    BY <1>2 DEF PublishResumes
  <2>2. EventOf(p) \in Events /\ pub[p].at \in Consumers /\ pub[p].no \in 1..MaxEvents
    BY <2>1, EventOfType DEF BusInv
  <2>3. pub[p].at + 1 \in 1..N + 1 /\ pub[p].no <= pub[p].no
    BY <1>0, <2>2
  <2>4. \A c \in Consumers : c >= pub[p].at + 1 =>
            \A f \in AllOf(c) : f.by = p => f.no < pub[p].no
    <3> SUFFICES ASSUME NEW c \in Consumers, c >= pub[p].at + 1, NEW f \in AllOf(c), f.by = p
                 PROVE  f.no < pub[p].no
      OBVIOUS
    <3>1. Awaits(p, c)
      BY <1>0, <2>1, <2>2 DEF Awaits
    <3> QED
      BY <3>1 DEF BusInv, Ahead
  <2>5. \A c \in Consumers : c < pub[p].at + 1 => Delivered(c, [by |-> p, no |-> pub[p].no])
    <3> SUFFICES ASSUME NEW c \in Consumers, c < pub[p].at + 1
                 PROVE  Delivered(c, [by |-> p, no |-> pub[p].no])
      OBVIOUS
    <3>1. ~Awaits(p, c)
      BY <1>0, <2>1, <2>2 DEF Awaits
    <3>2. Delivered(c, EventOf(p))
      BY <2>1, <3>1 DEF BusInv, Reached
    <3> QED
      BY <3>2 DEF EventOf
  <2> QED
    BY <2>1, <2>2, <2>3, <2>4, <2>5, PublishOnKeeps
<1> QED
  BY <1>1, <1>2

(* A publish ends without its event having reached everyone. *)
LEMMA RaiseKeeps ==
  ASSUME BusInv, NEW p \in Publishers, pub[p].pc # "idle", PublishRaises(p)
  PROVE  BusInv'
<1>0. pub[p].at \in Consumers
  BY EventOfType DEF BusInv
<1>a. /\ queues' = IF pub[p].pc = "put" THEN queues
                   ELSE [queues EXCEPT ![pub[p].at] = CancelPut(@, p, Capacity)]
      /\ pub' = [pub EXCEPT ![p].pc = "idle"]
      /\ started' = started /\ consumer' = consumer /\ drain' = drain
      /\ close' = close /\ processed' = processed /\ returned' = returned
  BY DEF PublishRaises
<1>1. /\ DOMAIN queues' = Consumers
      /\ \A c \in Consumers : /\ IsQueue(queues'[c], Events \cup {STOP}, Tasks, Capacity)
                              /\ queues'[c].items = queues[c].items
  <2>1. /\ DOMAIN queues = Consumers
        /\ \A c \in Consumers : IsQueue(queues[c], Events \cup {STOP}, Tasks, Capacity)
    BY DEF BusInv, TypeOK
  <2>2. \A c \in Consumers :
          /\ IsQueue(CancelPut(queues[c], p, Capacity), Events \cup {STOP}, Tasks, Capacity)
          /\ CancelPut(queues[c], p, Capacity).items = queues[c].items
    BY <2>1, CancelType
  <2>3. \A c \in Consumers : queues'[c] = queues[c] \/ queues'[c] = CancelPut(queues[c], p, Capacity)
    BY <1>a, <2>1
  <2>4. DOMAIN queues' = Consumers
    BY <1>a, <2>1
  <2> QED
    BY <2>1, <2>2, <2>3, <2>4
<1>2. LinesStay
  BY <1>a, <1>1 DEF LinesStay
<1>3. Lined' /\ NothingLost /\ (\A c \in Consumers : AllOf(c)' = AllOf(c))
  BY <1>2, StayKeepsLines DEF BusInv
<1>4. /\ pub'[p].pc = "idle" /\ pub'[p].no = pub[p].no
      /\ \A r \in Publishers : r # p => pub'[r] = pub[r]
  BY <1>a DEF BusInv, TypeOK
<1>5. Ahead'
  <2> SUFFICES ASSUME NEW c \in Consumers, NEW f \in AllOf(c)
               PROVE  /\ f.no <= pub'[f.by].no
                      /\ (Awaits(f.by, c))' => f.no < pub'[f.by].no
    BY <1>3 DEF Ahead
  <2>0. f.by \in Publishers
    BY LineTypes, StopIsNoEvent DEF BusInv
  <2>1. pub'[f.by].no = pub[f.by].no
    BY <1>4, <2>0
  <2>2. (Awaits(f.by, c))' => Awaits(f.by, c)
    BY <1>4, <2>0 DEF Awaits
  <2> QED
    BY <2>1, <2>2 DEF BusInv, Ahead
<1>6. Reached'
  <2> SUFFICES ASSUME NEW r \in Publishers, NEW c \in Consumers,
                      (pub[r].pc # "idle" /\ ~Awaits(r, c))'
               PROVE  Delivered(c, EventOf(r))'
    BY DEF Reached
  <2>1. r # p /\ pub'[r] = pub[r] /\ EventOf(r)' = EventOf(r)
    BY <1>4 DEF EventOf
  <2>2. pub[r].pc # "idle" /\ ~Awaits(r, c)
    BY <2>1 DEF Awaits
  <2>3. Delivered(c, EventOf(r))
    BY <2>2 DEF BusInv, Reached
  <2> QED
    BY <1>3, <1>a, <2>1, <2>3 DEF Delivered
<1>7. Returned'
  BY <1>3, <1>a, ReturnedKept DEF BusInv
<1>8. Draining'
  BY <1>a, DrainingKept DEF BusInv
<1>9. Stops'
  BY <1>a, <1>2, StopsKept DEF BusInv
<1>10. TypeOK'
  <2>1. pub' \in [Publishers -> PublishStates]
    <3>1. [pub[p] EXCEPT !.pc = "idle"] \in PublishStates
      BY RecordTypes, FieldsReplaced DEF BusInv
    <3> QED
      BY <1>a, <3>1, RecordTypes, EntryReplaced DEF BusInv
  <2> QED
    BY <1>a, <1>1, <2>1 DEF BusInv, TypeOK, PublishStates
<1>11. Places'
  <2>1. \A r \in Publishers : pub'[r].pc # "idle" => pub'[r].at \in Consumers /\ pub'[r].no > 0
    BY <1>4 DEF BusInv, Places
  <2> QED
    BY <1>a, <2>1 DEF BusInv, Places
<1> QED
  BY <1>3, <1>5, <1>6, <1>7, <1>8, <1>9, <1>10, <1>11 DEF BusInv

(* A putter runs. *)
LEMMA PuttingKeeps ==
  ASSUME BusInv, NEW p \in Publishers, Putting(p)
  PROVE  BusInv'
<1>p. PICK c0 \in Consumers : c0 = pub[p].at
  BY EventOfType DEF BusInv, Putting
<1>e. PICK e \in Events : e = EventOf(p)
  BY EventOfType DEF BusInv, Putting
<1>a. /\ pub[p].pc = "waiting"
      /\ queues' = [queues EXCEPT ![c0] = RunPut(@, p, e, Capacity)]
      /\ pub' = [pub EXCEPT ![p].pc = IF Full(queues[c0], Capacity) THEN "waiting" ELSE "put"]
      /\ started' = started /\ consumer' = consumer /\ drain' = drain
      /\ close' = close /\ processed' = processed /\ returned' = returned
  BY <1>p, <1>e DEF Putting
<1>0. /\ c0 \in Consumers /\ e \in Events /\ e.by = p /\ e.no = pub[p].no /\ p \in Tasks
      /\ pub[p].no \in 1..MaxEvents /\ Consumers = 1..N /\ N \in Nat
  BY <1>a, <1>e, EventOfType, BusAssumption DEF BusInv, Tasks, Consumers, EventOf
<1>1. /\ pub'[p].pc = (IF Full(queues[c0], Capacity) THEN "waiting" ELSE "put")
      /\ pub'[p].no = pub[p].no /\ pub'[p].at = pub[p].at
      /\ \A r \in Publishers : r # p => pub'[r] = pub[r]
  BY <1>a DEF BusInv, TypeOK
<1>2. /\ DOMAIN queues' = Consumers
      /\ \A c \in Consumers : IsQueue(queues'[c], Events \cup {STOP}, Tasks, Capacity)
      /\ \A c \in Consumers : c # c0 => queues'[c] = queues[c]
      /\ queues'[c0].items = IF Full(queues[c0], Capacity) THEN queues[c0].items
                             ELSE Append(queues[c0].items, e)
  <2>1. /\ DOMAIN queues = Consumers /\ e \in Events \cup {STOP}
        /\ \A c \in Consumers : IsQueue(queues[c], Events \cup {STOP}, Tasks, Capacity)
    BY <1>0 DEF BusInv, TypeOK
  <2>2. /\ IsQueue(RunPut(queues[c0], p, e, Capacity), Events \cup {STOP}, Tasks, Capacity)
        /\ RunPut(queues[c0], p, e, Capacity).items =
              IF Full(queues[c0], Capacity) THEN queues[c0].items ELSE Append(queues[c0].items, e)
    <3> DEFINE Items == Events \cup {STOP}
    <3>1. IsQueue(queues[c0], Items, Tasks, Capacity) /\ e \in Items /\ p \in Tasks
      BY <1>0, <2>1
    <3> HIDE DEF Items
    <3>2. /\ IsQueue(RunPut(queues[c0], p, e, Capacity), Items, Tasks, Capacity)
          /\ RunPut(queues[c0], p, e, Capacity).items =
                IF Full(queues[c0], Capacity) THEN queues[c0].items ELSE Append(queues[c0].items, e)
      BY <3>1, RunType
    <3> QED
      BY <3>2 DEF Items
  <2>3. /\ DOMAIN queues' = Consumers /\ queues'[c0] = RunPut(queues[c0], p, e, Capacity)
        /\ \A c \in Consumers : c # c0 => queues'[c] = queues[c]
    BY <1>0, <1>a, <2>1
  <2> QED
    BY <2>1, <2>2, <2>3
<1>3. TypeOK'
  <2>1. pub' \in [Publishers -> PublishStates]
    <3>1. PICK pc \in {"idle", "waiting", "put"} : pub' = [pub EXCEPT ![p].pc = pc]
      BY <1>a
    <3>2. [pub[p] EXCEPT !.pc = pc] \in PublishStates
      BY RecordTypes, FieldsReplaced DEF BusInv
    <3> QED
      BY <3>1, <3>2, RecordTypes, EntryReplaced DEF BusInv
  <2> QED
    BY <1>a, <1>2, <2>1 DEF BusInv, TypeOK, PublishStates
<1>4. Places'
  <2>1. \A r \in Publishers : pub'[r].pc # "idle" => pub'[r].at \in Consumers /\ pub'[r].no > 0
    BY <1>a, <1>1 DEF BusInv, Places
  <2> QED
    BY <1>a, <2>1 DEF BusInv, Places
<1>5. Draining'
  BY <1>a, DrainingKept DEF BusInv
<1>6. CASE Full(queues[c0], Capacity)
  <2>1. LinesStay
    BY <1>a, <1>2, <1>6 DEF LinesStay
  <2>2. pub' = pub
    <3>1. pub' = [pub EXCEPT ![p].pc = "waiting"]
      BY <1>a, <1>6
    <3> QED
      BY <1>a, <3>1 DEF BusInv, TypeOK
  <2>3. Lined' /\ Ahead' /\ Reached' /\ Returned'
    BY <1>a, <2>1, <2>2, QuietStep
  <2>4. Stops'
    BY <1>a, <2>1, StopsKept DEF BusInv
  <2> QED
    BY <1>3, <1>4, <1>5, <2>3, <2>4 DEF BusInv
<1>7. CASE ~Full(queues[c0], Capacity)
  <2>1. Awaits(p, c0) /\ pub'[p].pc = "put"
    BY <1>p, <1>0, <1>1, <1>7, <1>a DEF Awaits
  <2>2. /\ AllOf(c0)' = AllOf(c0) \cup {e}
        /\ InLine(processed[c0], consumer[c0].handling, queues[c0].items)'
        /\ AheadOfStop(close.before, processed[c0], consumer[c0].handling, queues[c0].items) =>
             AheadOfStop(close.before, processed[c0], consumer[c0].handling, queues[c0].items)'
        /\ Range(queues'[c0].items) = Range(queues[c0].items) \cup {e}
    <3>1. /\ processed[c0] \in Seq(Events) /\ queues[c0].items \in Seq(Events \cup {STOP})
          /\ consumer[c0].handling \in SUBSET Events
      BY <1>0, LineTypes DEF BusInv
    <3>2. InLine(processed[c0], consumer[c0].handling, queues[c0].items)
      BY <1>0 DEF BusInv, Lined
    <3>3. \A f \in Given(processed[c0], consumer[c0].handling, queues[c0].items) :
              f.by = e.by => f.no < e.no
      BY <1>0, <2>1 DEF AllOf, BusInv, Ahead
    <3>4. queues'[c0].items = Append(queues[c0].items, e)
      BY <1>2, <1>7
    <3>5. Range(Append(queues[c0].items, e)) = Range(queues[c0].items) \cup {e}
      BY <1>0, <3>1, RangeAppend
    <3>6. /\ Given(processed[c0], consumer[c0].handling, Append(queues[c0].items, e)) =
                Given(processed[c0], consumer[c0].handling, queues[c0].items) \cup {e}
          /\ InLine(processed[c0], consumer[c0].handling, Append(queues[c0].items, e))
          /\ AheadOfStop(close.before, processed[c0], consumer[c0].handling, queues[c0].items) =>
               AheadOfStop(close.before, processed[c0], consumer[c0].handling, Append(queues[c0].items, e))
      BY <1>0, <3>1, <3>2, <3>3, LineTakesEvent
    <3> QED
      BY <1>a, <3>4, <3>5, <3>6 DEF AllOf
  <2>3. \A c \in Consumers : c # c0 => AllOf(c)' = AllOf(c)
    BY <1>a, <1>2 DEF AllOf
  <2>5. Lined'
    <3>1. InLine(processed'[c0], consumer'[c0].handling, queues'[c0].items)
      BY <2>2
    <3> SUFFICES ASSUME NEW c \in Consumers
                 PROVE  InLine(processed'[c], consumer'[c].handling, queues'[c].items)
      BY DEF Lined
    <3>2. CASE c # c0
      BY <1>a, <1>2, <3>2 DEF BusInv, Lined
    <3> QED
      BY <3>1, <3>2
  <2>6. \A c \in Consumers :
          /\ AllOf(c) \subseteq AllOf(c)'
          /\ AllOf(c)' \subseteq AllOf(c) \cup {e}
          /\ e \in AllOf(c)' /\ e \notin AllOf(c) => c = c0
    <3>1. \A c \in Consumers : c = c0 => AllOf(c)' = AllOf(c) \cup {e}
      BY <2>2
    <3> QED
      BY <2>3, <3>1
  <2>7. NothingLost
    BY <1>a, <2>6 DEF NothingLost, Delivered
  <2>8. Ahead'
    <3> SUFFICES ASSUME NEW c \in Consumers, NEW f \in AllOf(c)'
                 PROVE  /\ f.no <= pub'[f.by].no
                        /\ (Awaits(f.by, c))' => f.no < pub'[f.by].no
      BY DEF Ahead
    <3>0. f \in Events /\ f.by \in Publishers /\ f.no \in Nat
      BY <1>0, <2>6, LineTypes, StopIsNoEvent DEF BusInv
    <3>1. pub'[f.by].no = pub[f.by].no
      BY <1>1, <3>0
    <3>2. (Awaits(f.by, c))' => Awaits(f.by, c) /\ (f.by = p => c # c0)
      BY <1>p, <1>0, <1>1, <1>a, <2>1, <3>0 DEF Awaits
    <3>3. CASE f \in AllOf(c)
      BY <3>1, <3>2, <3>3 DEF BusInv, Ahead
    <3>4. CASE f \notin AllOf(c)
      <4>1. f = e /\ c = c0
        BY <2>6, <3>4
      <4> QED
        BY <1>0, <3>1, <3>2, <4>1
    <3> QED
      BY <3>3, <3>4
  <2>9. Reached'
    <3> SUFFICES ASSUME NEW r \in Publishers, NEW c \in Consumers,
                        (pub[r].pc # "idle" /\ ~Awaits(r, c))'
                 PROVE  Delivered(c, EventOf(r))'
      BY DEF Reached
    <3>1. EventOf(r)' = EventOf(r)
      BY <1>1 DEF EventOf
    <3>2. CASE r = p /\ c = c0
      <4>1. e \in AllOf(c)'
        BY <2>2, <3>2
      <4> QED
        BY <1>e, <3>1, <3>2, <4>1 DEF Delivered
    <3>3. CASE ~(r = p /\ c = c0)
      <4>1. pub[r].pc # "idle" /\ ~Awaits(r, c)
        BY <1>p, <1>0, <1>1, <1>a, <2>1, <3>3 DEF Awaits
      <4>2. Delivered(c, EventOf(r))
        BY <4>1 DEF BusInv, Reached
      <4> QED
        BY <1>a, <2>6, <3>1, <4>2 DEF Delivered
    <3> QED
      BY <3>2, <3>3
  <2>10. Returned'
    BY <1>a, <2>7, ReturnedKept DEF BusInv
  <2>11. Stops'
    <3>1. \A c \in Consumers :
            /\ ~Closing => STOP \notin Range(queues'[c].items)
            /\ consumer[c].task # "failed" =>
                AheadOfStop(close.before, processed[c], consumer[c].handling, queues[c].items)'
      <4> SUFFICES ASSUME NEW c \in Consumers
                   PROVE  /\ ~Closing => STOP \notin Range(queues'[c].items)
                          /\ consumer[c].task # "failed" =>
                              AheadOfStop(close'.before, processed'[c], consumer'[c].handling,
                                          queues'[c].items)
        OBVIOUS
      <4>0. /\ ~Closing => STOP \notin Range(queues[c].items)
            /\ consumer[c].task # "failed" =>
                  AheadOfStop(close.before, processed[c], consumer[c].handling, queues[c].items)
        BY DEF BusInv, Stops
      <4>1. CASE c # c0
        BY <1>a, <1>2, <4>0, <4>1
      <4>2. CASE c = c0
        BY <1>a, <1>0, <2>2, <4>0, <4>2, StopIsNoEvent
      <4> QED
        BY <4>1, <4>2
    <3> QED
      BY <1>a, <3>1 DEF BusInv, Stops, Closing
  <2> QED
    BY <1>3, <1>4, <1>5, <2>5, <2>8, <2>9, <2>10, <2>11 DEF BusInv
<1> QED
  BY <1>6, <1>7

(* A step of one consumer's task: what holds of its line holds of all.     *)
LEMMA ConsumerMoves ==
  ASSUME BusInv, NEW c \in Consumers, TypeOK',
         started' = started, pub' = pub, drain' = drain, close' = close, returned' = returned,
         \A d \in Consumers : d # c => /\ processed'[d] = processed[d] /\ queues'[d] = queues[d]
                                       /\ consumer'[d] = consumer[d],
         Range(processed[c]) \subseteq Range(processed'[c]),
         consumer[c].task = "running", consumer'[c].task \in {"running", "stopped", "failed"},
         consumer'[c].handling # {} => consumer'[c].task = "running",
         \A e, f \in consumer'[c].handling : e = f,
         Given(processed'[c], consumer'[c].handling, queues'[c].items) \subseteq AllOf(c),
         AllOf(c) \subseteq Given(processed'[c], consumer'[c].handling, queues'[c].items)
            \/ consumer'[c].task = "failed",
         InLine(processed'[c], consumer'[c].handling, queues'[c].items),
         ~Closing => /\ STOP \notin Range(queues'[c].items) /\ consumer'[c].task # "stopped",
         consumer'[c].task # "failed" =>
            AheadOfStop(close.before, processed'[c], consumer'[c].handling, queues'[c].items),
         consumer'[c].task = "stopped" => close.before \subseteq Range(processed'[c])
  PROVE  BusInv'
<1>1. \A d \in Consumers : /\ AllOf(d)' \subseteq AllOf(d)
                           /\ AllOf(d) \subseteq AllOf(d)' \/ consumer'[d].task = "failed"
  BY DEF AllOf
<1>2. \A d \in Consumers : consumer[d].task = "failed" => consumer'[d].task = "failed"
  OBVIOUS
<1>3. NothingLost
  BY <1>1, <1>2 DEF NothingLost, Delivered
<1>4. Ahead' /\ Reached' /\ Returned'
  BY <1>1, <1>3, AheadKept, ReachedKept, ReturnedKept DEF BusInv
<1>5. Draining'
  <2>1. \A d \in Consumers : Range(processed[d]) \subseteq Range(processed'[d])
    OBVIOUS
  <2> QED
    BY <1>2, <2>1, DrainingKept DEF BusInv
<1>6. Lined'
  <2> SUFFICES ASSUME NEW d \in Consumers
               PROVE  InLine(processed'[d], consumer'[d].handling, queues'[d].items)
    BY DEF Lined
  <2>1. CASE d = c
    BY <2>1
  <2>2. CASE d # c
    <3>1. InLine(processed[d], consumer[d].handling, queues[d].items)
      BY DEF BusInv, Lined
    <3>2. /\ processed'[d] = processed[d] /\ queues'[d] = queues[d] /\ consumer'[d] = consumer[d]
      BY <2>2
    <3> QED
      BY <3>1, <3>2
  <2> QED
    BY <2>1, <2>2
<1>7. Places'
  <2>1. \A d \in Consumers :
          /\ consumer'[d].task = "none" <=> ~started
          /\ consumer'[d].handling # {} => consumer'[d].task = "running"
          /\ \A e, f \in consumer'[d].handling : e = f
    BY DEF BusInv, Places
  <2> QED
    BY <2>1 DEF BusInv, Places
<1>8. Stops'
  <2>1. \A d \in Consumers :
          /\ ~Closing => STOP \notin Range(queues'[d].items) /\ consumer'[d].task # "stopped"
          /\ consumer'[d].task # "failed" =>
              AheadOfStop(close.before, processed'[d], consumer'[d].handling, queues'[d].items)
          /\ consumer'[d].task = "stopped" => close.before \subseteq Range(processed'[d])
    <3> SUFFICES ASSUME NEW d \in Consumers, d # c
                 PROVE
          /\ ~Closing => STOP \notin Range(queues'[d].items) /\ consumer'[d].task # "stopped"
          /\ consumer'[d].task # "failed" =>
              AheadOfStop(close.before, processed'[d], consumer'[d].handling, queues'[d].items)
          /\ consumer'[d].task = "stopped" => close.before \subseteq Range(processed'[d])
      OBVIOUS
    <3>2. /\ processed'[d] = processed[d] /\ queues'[d] = queues[d] /\ consumer'[d] = consumer[d]
      OBVIOUS
    <3> QED
      BY <3>2 DEF BusInv, Stops
  <2>2. ~(close.pc = "closed" /\ started /\ ~close.errors)
    BY DEF BusInv, Stops
  <2>3. close'.before \subseteq returned'
    BY DEF BusInv, Stops
  <2> QED
    BY <2>1, <2>2, <2>3 DEF Stops, Closing
<1> QED
  BY <1>4, <1>5, <1>6, <1>7, <1>8 DEF BusInv

LEMMA TakeKeeps ==
  ASSUME BusInv, NEW c \in Consumers, Take(c)
  PROVE  BusInv'
<1> DEFINE items == queues[c].items
           h == Head(items)
<1>a. /\ consumer[c].task = "running" /\ consumer[c].handling = {} /\ items # <<>>
      /\ queues' = [queues EXCEPT ![c] = Get(@)]
      /\ consumer' = [consumer EXCEPT ![c] = IF h = STOP THEN [task |-> "stopped", handling |-> {}]
                                             ELSE [@ EXCEPT !.handling = {h}]]
      /\ started' = started /\ pub' = pub /\ drain' = drain /\ close' = close
      /\ processed' = processed /\ returned' = returned
  BY DEF Take
<1>1. /\ processed[c] \in Seq(Events) /\ items \in Seq(Events \cup {STOP})
  BY LineTypes DEF BusInv
<1>2. /\ InLine(processed[c], {}, items)
      /\ AheadOfStop(close.before, processed[c], {}, items)
      /\ AllOf(c) = Given(processed[c], {}, items)
      /\ ~Closing => STOP \notin Range(items)
  BY <1>a DEF BusInv, Lined, Stops, AllOf
<1>3. /\ DOMAIN queues' = Consumers
      /\ \A d \in Consumers : IsQueue(queues'[d], Events \cup {STOP}, Tasks, Capacity)
      /\ queues'[c].items = Tail(items)
      /\ \A d \in Consumers : d # c => queues'[d] = queues[d]
  <2>1. /\ DOMAIN queues = Consumers
        /\ \A d \in Consumers : IsQueue(queues[d], Events \cup {STOP}, Tasks, Capacity)
    BY DEF BusInv, TypeOK
  <2>2. IsQueue(Get(queues[c]), Events \cup {STOP}, Tasks, Capacity) /\ Get(queues[c]).items = Tail(items)
    BY <1>a, <2>1, GetType
  <2> QED
    BY <1>a, <2>1, <2>2
<1>4. Range(items) = Range(Tail(items)) \cup {h}
  BY <1>1, <1>a, RangeTail
<1>5. /\ h # STOP =>
             /\ h \in Events
             /\ Given(processed[c], {h}, Tail(items)) = Given(processed[c], {}, items)
             /\ InLine(processed[c], {h}, Tail(items))
             /\ AheadOfStop(close.before, processed[c], {h}, Tail(items))
      /\ h = STOP =>
             /\ Given(processed[c], {}, Tail(items)) = Given(processed[c], {}, items)
             /\ InLine(processed[c], {}, Tail(items))
             /\ close.before \subseteq Range(processed[c])
             /\ AheadOfStop(close.before, processed[c], {}, Tail(items))
  <2> HIDE DEF items
  <2> QED
    BY <1>1, <1>2, <1>a, LineGivesHead DEF h
<1> HIDE DEF items, h
<1>6. /\ h = STOP => consumer'[c].task = "stopped" /\ consumer'[c].handling = {}
      /\ h # STOP => consumer'[c].task = "running" /\ consumer'[c].handling = {h}
      /\ \A d \in Consumers : d # c => consumer'[d] = consumer[d]
  BY <1>a DEF BusInv, TypeOK
<1>7. consumer' \in [Consumers -> [task : {"none", "running", "stopped", "failed"},
                                   handling : SUBSET Events]]
  <2>1. CASE h = STOP
    BY <1>a, <2>1 DEF BusInv, TypeOK
  <2>2. CASE h # STOP
    <3>1. {h} \in SUBSET Events
      BY <1>5, <2>2
    <3>2. consumer' = [consumer EXCEPT ![c] = [@ EXCEPT !.handling = {h}]]
      BY <1>a, <2>2
    <3>3. [consumer[c] EXCEPT !.handling = {h}] \in ConsumerTasks
      BY <3>1, RecordTypes, FieldsReplaced DEF BusInv
    <3> QED
      BY <3>2, <3>3, RecordTypes, EntryReplaced DEF BusInv, ConsumerTasks
  <2> QED
    BY <2>1, <2>2
<1>8. TypeOK'
  BY <1>a, <1>3, <1>7 DEF BusInv, TypeOK
<1>9. /\ Given(processed'[c], consumer'[c].handling, queues'[c].items) = AllOf(c)
      /\ InLine(processed'[c], consumer'[c].handling, queues'[c].items)
      /\ AheadOfStop(close.before, processed'[c], consumer'[c].handling, queues'[c].items)
      /\ consumer'[c].task = "stopped" => close.before \subseteq Range(processed'[c])
  <2>1. CASE h = STOP
    BY <1>a, <1>2, <1>3, <1>5, <1>6, <2>1
  <2>2. CASE h # STOP
    BY <1>a, <1>2, <1>3, <1>5, <1>6, <2>2
  <2> QED
    BY <2>1, <2>2
<1>10. ~Closing => /\ STOP \notin Range(queues'[c].items) /\ consumer'[c].task # "stopped"
  BY <1>2, <1>3, <1>4, <1>6
<1>11. /\ consumer'[c].task \in {"running", "stopped", "failed"}
       /\ consumer'[c].handling # {} => consumer'[c].task = "running"
       /\ \A e, f \in consumer'[c].handling : e = f
  BY <1>6
<1>12. /\ \A d \in Consumers : d # c => /\ processed'[d] = processed[d] /\ queues'[d] = queues[d]
                                         /\ consumer'[d] = consumer[d]
       /\ Range(processed[c]) \subseteq Range(processed'[c])
  BY <1>a, <1>3, <1>6
<1> QED
  BY <1>a, <1>8, <1>9, <1>10, <1>11, <1>12, ConsumerMoves

LEMMA HandledKeeps ==
  ASSUME BusInv, NEW c \in Consumers, Handled(c)
  PROVE  BusInv'
<1>a. /\ consumer' = [consumer EXCEPT ![c].handling = {}]
      /\ started' = started /\ queues' = queues /\ pub' = pub /\ drain' = drain
      /\ close' = close /\ returned' = returned
  BY DEF Handled
<1>e. PICK e \in consumer[c].handling : processed' = [processed EXCEPT ![c] = Append(@, e)]
  BY DEF Handled
<1>1. /\ processed[c] \in Seq(Events) /\ queues[c].items \in Seq(Events \cup {STOP})
      /\ e \in Events
  BY LineTypes DEF BusInv
<1>2. consumer[c].task = "running" /\ consumer[c].handling = {e}
  BY DEF BusInv, Places
<1>3. /\ InLine(processed[c], {e}, queues[c].items)
      /\ AheadOfStop(close.before, processed[c], {e}, queues[c].items)
      /\ AllOf(c) = Given(processed[c], {e}, queues[c].items)
      /\ ~Closing => STOP \notin Range(queues[c].items)
  BY <1>2 DEF BusInv, Lined, Stops, AllOf
<1>4. /\ consumer'[c].task = "running" /\ consumer'[c].handling = {}
      /\ \A d \in Consumers : d # c => consumer'[d] = consumer[d]
      /\ processed'[c] = Append(processed[c], e)
      /\ \A d \in Consumers : d # c => processed'[d] = processed[d]
  BY <1>a, <1>e, <1>2 DEF BusInv, TypeOK
<1>5. /\ Given(processed'[c], consumer'[c].handling, queues'[c].items) = AllOf(c)
      /\ InLine(processed'[c], consumer'[c].handling, queues'[c].items)
      /\ AheadOfStop(close.before, processed'[c], consumer'[c].handling, queues'[c].items)
  <2>1. /\ Given(Append(processed[c], e), {}, queues[c].items) = Given(processed[c], {e}, queues[c].items)
        /\ InLine(Append(processed[c], e), {}, queues[c].items)
        /\ AheadOfStop(close.before, Append(processed[c], e), {}, queues[c].items)
    BY <1>1, <1>3, LineHandles
  <2> QED
    BY <1>a, <1>3, <1>4, <2>1
<1>6. Range(processed[c]) \subseteq Range(processed'[c])
  BY <1>1, <1>4, RangeAppend
<1>7. TypeOK'
  <2>1. consumer' \in [Consumers -> [task : {"none", "running", "stopped", "failed"},
                                     handling : SUBSET Events]]
    <3>1. [consumer[c] EXCEPT !.handling = {}] \in ConsumerTasks
      BY RecordTypes, FieldsReplaced DEF BusInv
    <3> QED
      BY <1>a, <3>1, RecordTypes, EntryReplaced DEF BusInv, ConsumerTasks
  <2>2. processed' \in [Consumers -> Seq(Events)]
    <3>1. Append(processed[c], e) \in Seq(Events)
      BY <1>1
    <3> QED
      BY <1>e, <3>1 DEF BusInv, TypeOK
  <2> QED
    BY <1>a, <2>1, <2>2 DEF BusInv, TypeOK
<1> QED
  BY <1>a, <1>2, <1>3, <1>4, <1>5, <1>6, <1>7, ConsumerMoves

LEMMA RaisingKeeps ==
  ASSUME BusInv, NEW c \in Consumers, HandlerRaises(c)
  PROVE  BusInv'
<1>a. /\ consumer[c].handling # {}
      /\ consumer' = [consumer EXCEPT ![c] = [task |-> "failed", handling |-> {}]]
      /\ started' = started /\ queues' = queues /\ pub' = pub /\ drain' = drain
      /\ close' = close /\ processed' = processed /\ returned' = returned
  BY DEF HandlerRaises
<1>1. consumer[c].task = "running" /\ (~Closing => STOP \notin Range(queues[c].items))
  BY <1>a DEF BusInv, Places, Stops
<1>2. /\ consumer'[c].task = "failed" /\ consumer'[c].handling = {}
      /\ \A d \in Consumers : d # c => consumer'[d] = consumer[d]
  BY <1>a DEF BusInv, TypeOK
<1>3. /\ Given(processed'[c], consumer'[c].handling, queues'[c].items) \subseteq AllOf(c)
      /\ InLine(processed'[c], consumer'[c].handling, queues'[c].items)
  <2>1. InLine(processed[c], consumer[c].handling, queues[c].items)
    BY DEF BusInv, Lined
  <2> QED
    BY <1>a, <1>2, <2>1, LineDrops DEF AllOf
<1>4. TypeOK'
  <2>1. consumer' \in [Consumers -> [task : {"none", "running", "stopped", "failed"},
                                     handling : SUBSET Events]]
    BY <1>a DEF BusInv, TypeOK
  <2> QED
    BY <1>a, <2>1 DEF BusInv, TypeOK
<1> QED
  BY <1>a, <1>1, <1>2, <1>3, <1>4, ConsumerMoves

(* Drain. *)
LEMMA DrainKeeps ==
  ASSUME BusInv, DrainBegins \/ DrainStep
  PROVE  BusInv'
<1>a. /\ started' = started /\ queues' = queues /\ consumer' = consumer /\ pub' = pub
      /\ close' = close /\ processed' = processed /\ returned' = returned
  BY DEF DrainBegins, DrainStep, Join, DrainReturns, DrainRaises
<1>1. LinesStay
  BY <1>a DEF LinesStay
<1>2. Lined' /\ Ahead' /\ Reached' /\ Returned'
  BY <1>a, <1>1, QuietStep
<1>3. Stops'
  BY <1>a, <1>1, StopsKept DEF BusInv
<1>4. Places'
  BY <1>a DEF BusInv, Places
<1>5. drain \in [pc : {"idle", "joining"}, joined : SUBSET Consumers, before : SUBSET Events,
                 no : 0..MaxDrains] /\ returned \in SUBSET Events /\ MaxDrains \in Nat
  BY BusAssumption DEF BusInv, TypeOK
<1>6. Draining' /\ drain' \in [pc : {"idle", "joining"}, joined : SUBSET Consumers,
                               before : SUBSET Events, no : 0..MaxDrains]
  <2>1. CASE DrainBegins
    <3>1. /\ drain' = [pc |-> "joining", joined |-> {}, before |-> returned, no |-> drain.no + 1]
          /\ drain.no < MaxDrains
      BY <2>1 DEF DrainBegins
    <3>2. drain.no + 1 \in 0..MaxDrains
      BY <1>5, <3>1
    <3> QED
      BY <1>5, <1>a, <3>1, <3>2 DEF Draining
  <2>2. ASSUME NEW c \in Consumers, Join(c)
        PROVE  Draining' /\ drain' \in [pc : {"idle", "joining"}, joined : SUBSET Consumers,
                                        before : SUBSET Events, no : 0..MaxDrains]
    <3>1. /\ queues[c].items = <<>> /\ consumer[c].handling = {}
          /\ drain' = [drain EXCEPT !.joined = @ \cup {c}]
      BY <2>2 DEF Join, Joined
    <3>2. AllOf(c) = Range(processed[c])
      <4>1. Range(<<>>) = {}
        BY DEF Range
      <4> QED
        BY <3>1, <4>1 DEF AllOf, Given
    <3>3. drain.before \subseteq returned
      BY DEF BusInv, Draining
    <3>4. drain.before \subseteq Range(processed[c]) \/ consumer[c].task = "failed"
      BY <3>2, <3>3 DEF BusInv, Returned, Delivered
    <3>5. drain'.before = drain.before /\ drain'.joined = drain.joined \cup {c}
      BY <1>5, <3>1
    <3>6. drain.joined \cup {c} \in SUBSET Consumers
      BY <1>5
    <3>7. drain' \in [pc : {"idle", "joining"}, joined : SUBSET Consumers,
                      before : SUBSET Events, no : 0..MaxDrains]
      BY <1>5, <3>1, <3>6
    <3> QED
      BY <1>a, <3>3, <3>4, <3>5, <3>7 DEF BusInv, Draining
  <2>3. CASE DrainReturns \/ DrainRaises
    <3>1. drain' = [drain EXCEPT !.pc = "idle", !.joined = {}, !.before = {}]
      BY <2>3 DEF DrainReturns, DrainRaises
    <3>2. drain'.joined = {} /\ drain'.before = {}
      BY <1>5, <3>1
    <3>3. drain' \in [pc : {"idle", "joining"}, joined : SUBSET Consumers,
                      before : SUBSET Events, no : 0..MaxDrains]
      BY <1>5, <3>1
    <3> QED
      BY <3>2, <3>3 DEF Draining
  <2> QED
    BY <2>1, <2>2, <2>3 DEF DrainStep
<1>7. TypeOK'
  BY <1>a, <1>6 DEF BusInv, TypeOK
<1> QED
  BY <1>2, <1>3, <1>4, <1>6, <1>7 DEF BusInv

(* The steps of close that put nothing. *)
LEMMA CloseQuietKeeps ==
  ASSUME BusInv, \/ CloseBegins \/ CloseLosesConsumer \/ Closed
                 \/ (CloseRuns /\ ~started)
  PROVE  BusInv'
<1>a. /\ started' = started /\ consumer' = consumer /\ pub' = pub /\ drain' = drain
      /\ processed' = processed /\ returned' = returned
  BY DEF CloseBegins, CloseLosesConsumer, Closed, CloseRuns
<1>1. /\ DOMAIN queues' = Consumers
      /\ \A c \in Consumers : /\ IsQueue(queues'[c], Events \cup {STOP}, Tasks, Capacity)
                              /\ queues'[c].items = queues[c].items
  <2>1. /\ DOMAIN queues = Consumers
        /\ \A c \in Consumers : IsQueue(queues[c], Events \cup {STOP}, Tasks, Capacity)
    BY DEF BusInv, TypeOK
  <2>2. \A c \in Consumers :
          /\ IsQueue(CancelPut(queues[c], Closer, Capacity), Events \cup {STOP}, Tasks, Capacity)
          /\ CancelPut(queues[c], Closer, Capacity).items = queues[c].items
    BY <2>1, CancelType
  <2>3. queues' = queues \/ queues' = [queues EXCEPT ![close.at] = CancelPut(@, Closer, Capacity)]
    BY DEF CloseBegins, CloseLosesConsumer, Closed, CloseRuns
  <2>4. DOMAIN queues' = Consumers
    BY <2>1, <2>3
  <2>5. \A c \in Consumers : queues'[c] = queues[c] \/ queues'[c] = CancelPut(queues[c], Closer, Capacity)
    BY <2>1, <2>3
  <2> QED
    BY <2>1, <2>2, <2>4, <2>5
<1>2. LinesStay
  BY <1>a, <1>1 DEF LinesStay
<1>3. Lined' /\ Ahead' /\ Reached' /\ Returned' /\ Draining'
  BY <1>a, <1>2, QuietStep
<1>4. /\ close \in [pc : {"none", "scheduled", "waiting", "put", "retry", "gather", "closed"},
                    at : 0..N + 1, errors : BOOLEAN, before : SUBSET Events]
      /\ returned \in SUBSET Events
  BY DEF BusInv, TypeOK
<1>5. ASSUME close'.before = close.before \/ ~Closing, close'.before \subseteq returned,
             close'.pc # "none",
             close'.pc = "closed" /\ started /\ ~close'.errors =>
                \A c \in Consumers : consumer[c].task = "stopped"
      PROVE  Stops'
  <2>1. \A c \in Consumers :
          /\ consumer[c].task # "failed" =>
              AheadOfStop(close'.before, processed[c], consumer[c].handling, queues[c].items)
          /\ consumer[c].task = "stopped" => close'.before \subseteq Range(processed[c])
    <3>1. CASE close'.before = close.before
      BY <3>1 DEF BusInv, Stops
    <3>2. CASE ~Closing
      <4> SUFFICES ASSUME NEW c \in Consumers
                   PROVE
          /\ consumer[c].task # "failed" =>
              AheadOfStop(close'.before, processed[c], consumer[c].handling, queues[c].items)
          /\ consumer[c].task = "stopped" => close'.before \subseteq Range(processed[c])
        OBVIOUS
      <4>1. STOP \notin Range(queues[c].items) /\ consumer[c].task # "stopped"
        BY <3>2 DEF BusInv, Stops
      <4>2. \A k \in 1..Len(queues[c].items) : queues[c].items[k] # STOP
        <5>1. queues[c].items \in Seq(Events \cup {STOP})
          BY LineTypes DEF BusInv
        <5>2. DOMAIN queues[c].items = 1..Len(queues[c].items)
          BY <5>1
        <5> QED
          BY <4>1, <5>2 DEF Range
      <4> QED
        BY <4>1, <4>2 DEF AheadOfStop
    <3> QED
      BY <1>5, <3>1, <3>2
  <2>2. \A c \in Consumers :
          /\ consumer'[c].task # "failed" =>
              AheadOfStop(close'.before, processed'[c], consumer'[c].handling, queues'[c].items)
          /\ consumer'[c].task = "stopped" => close'.before \subseteq Range(processed'[c])
    BY <1>a, <1>1, <2>1
  <2>3. Closing'
    BY <1>5 DEF Closing
  <2> QED
    BY <1>a, <1>5, <2>2, <2>3 DEF Stops
<1>6. ASSUME close' \in [pc : {"none", "scheduled", "waiting", "put", "retry", "gather", "closed"},
                         at : 0..N + 1, errors : BOOLEAN, before : SUBSET Events],
             close'.pc \in {"waiting", "put", "retry"} => close'.at \in Consumers
      PROVE  TypeOK' /\ Places'
  <2>1. TypeOK'
    BY <1>a, <1>1, <1>6 DEF BusInv, TypeOK
  <2>2. Places'
    BY <1>a, <1>6 DEF BusInv, Places
  <2> QED
    BY <2>1, <2>2
<1>7. CASE CloseBegins
  <2>1. ~Closing /\ close' = [close EXCEPT !.pc = "scheduled", !.before = returned]
    BY <1>7 DEF CloseBegins
  <2>2. close'.pc = "scheduled" /\ close'.before = returned
    BY <1>4, <2>1
  <2>3. close' \in [pc : {"none", "scheduled", "waiting", "put", "retry", "gather", "closed"},
                    at : 0..N + 1, errors : BOOLEAN, before : SUBSET Events]
    BY <1>4, <2>1
  <2> QED
    BY <1>3, <1>5, <1>6, <2>1, <2>2, <2>3 DEF BusInv
<1>8. CASE CloseLosesConsumer
  <2>1. close.pc = "waiting" /\ close' = [close EXCEPT !.pc = "retry", !.errors = TRUE]
    BY <1>8 DEF CloseLosesConsumer
  <2>2. close'.pc = "retry" /\ close'.before = close.before /\ close'.at = close.at
    BY <1>4, <2>1
  <2>3. close' \in [pc : {"none", "scheduled", "waiting", "put", "retry", "gather", "closed"},
                    at : 0..N + 1, errors : BOOLEAN, before : SUBSET Events]
    BY <1>4, <2>1
  <2>4. close.before \subseteq returned /\ close.at \in Consumers
    BY <2>1 DEF BusInv, Stops, Places
  <2> QED
    BY <1>3, <1>5, <1>6, <2>2, <2>3, <2>4 DEF BusInv
<1>9. CASE Closed
  <2>1. /\ close.pc = "gather" /\ (\A c \in Consumers : Done(c))
        /\ close' = [close EXCEPT !.pc = "closed", !.errors = @ \/ Failed]
    BY <1>9 DEF Closed
  <2>2. close'.pc = "closed" /\ close'.before = close.before /\ close'.errors = (close.errors \/ Failed)
    BY <1>4, <2>1
  <2>3. close' \in [pc : {"none", "scheduled", "waiting", "put", "retry", "gather", "closed"},
                    at : 0..N + 1, errors : BOOLEAN, before : SUBSET Events]
    <3>1. (close.errors \/ Failed) \in BOOLEAN
      OBVIOUS
    <3> QED
      BY <1>4, <2>1, <3>1
  <2>4. close.before \subseteq returned
    BY DEF BusInv, Stops
  <2>5. ~close'.errors => \A c \in Consumers : consumer[c].task = "stopped"
    BY <2>1, <2>2 DEF Failed, Done
  <2> QED
    BY <1>3, <1>5, <1>6, <2>2, <2>3, <2>4, <2>5 DEF BusInv
<1>10. CASE CloseRuns /\ ~started
  <2>1. close' = [close EXCEPT !.pc = "closed"]
    BY <1>10 DEF CloseRuns
  <2>2. close'.pc = "closed" /\ close'.before = close.before
    BY <1>4, <2>1
  <2>3. close' \in [pc : {"none", "scheduled", "waiting", "put", "retry", "gather", "closed"},
                    at : 0..N + 1, errors : BOOLEAN, before : SUBSET Events]
    BY <1>4, <2>1
  <2>4. close.before \subseteq returned
    BY DEF BusInv, Stops
  <2> QED
    BY <1>3, <1>5, <1>6, <1>10, <2>2, <2>3, <2>4 DEF BusInv
<1> QED
  BY <1>7, <1>8, <1>9, <1>10

(* STOP is put on the queues of some consumers. *)
LEMMA StopPutKeeps ==
  ASSUME BusInv, NEW some \in SUBSET Consumers, TypeOK', Closing,
         started' = started, consumer' = consumer, pub' = pub, drain' = drain,
         processed' = processed, returned' = returned,
         \A c \in Consumers : queues'[c].items = IF c \in some THEN Append(queues[c].items, STOP)
                                                 ELSE queues[c].items,
         close'.before = close.before, close'.pc \in {"waiting", "put", "gather"},
         close'.pc # "gather" => close'.at \in Consumers
  PROVE  BusInv'
<1>1. ASSUME NEW c \in Consumers
      PROVE  /\ AllOf(c)' = AllOf(c)
             /\ InLine(processed'[c], consumer'[c].handling, queues'[c].items)
             /\ consumer[c].task # "failed" =>
                  AheadOfStop(close.before, processed'[c], consumer'[c].handling, queues'[c].items)
  <2>1. /\ processed[c] \in Seq(Events) /\ queues[c].items \in Seq(Events \cup {STOP})
        /\ consumer[c].handling \in SUBSET Events
    BY LineTypes DEF BusInv
  <2>2. /\ InLine(processed[c], consumer[c].handling, queues[c].items)
        /\ consumer[c].task # "failed" =>
              AheadOfStop(close.before, processed[c], consumer[c].handling, queues[c].items)
    BY DEF BusInv, Lined, Stops
  <2>3. consumer[c].task # "failed" =>
            close.before \subseteq Given(processed[c], consumer[c].handling, queues[c].items)
    BY DEF BusInv, Stops, Returned, Delivered, AllOf
  <2>4. CASE c \in some
    <3>1. /\ Given(processed[c], consumer[c].handling, Append(queues[c].items, STOP)) =
                Given(processed[c], consumer[c].handling, queues[c].items)
          /\ InLine(processed[c], consumer[c].handling, Append(queues[c].items, STOP))
          /\ consumer[c].task # "failed" =>
               AheadOfStop(close.before, processed[c], consumer[c].handling, Append(queues[c].items, STOP))
      BY <2>1, <2>2, <2>3, LineTakesStop
    <3>2. queues'[c].items = Append(queues[c].items, STOP)
      BY <2>4
    <3> QED
      BY <3>1, <3>2 DEF AllOf
  <2>5. CASE c \notin some
    <3>1. queues'[c].items = queues[c].items
      BY <2>5
    <3> QED
      BY <2>2, <3>1 DEF AllOf
  <2> QED
    BY <2>4, <2>5
<1>2. \A c \in Consumers : AllOf(c)' = AllOf(c)
  BY <1>1
<1>3. NothingLost
  BY <1>2 DEF NothingLost, Delivered
<1>4. Ahead' /\ Reached' /\ Returned' /\ Draining'
  BY <1>2, <1>3, AheadKept, ReachedKept, ReturnedKept, DrainingKept DEF BusInv
<1>5. Lined'
  BY <1>1 DEF Lined
<1>6. Stops'
  <2>1. \A c \in Consumers :
          consumer'[c].task # "failed" =>
              AheadOfStop(close'.before, processed'[c], consumer'[c].handling, queues'[c].items)
    BY <1>1
  <2>2. \A c \in Consumers :
          consumer'[c].task = "stopped" => close'.before \subseteq Range(processed'[c])
    BY DEF BusInv, Stops
  <2>3. Closing' /\ close'.pc # "closed" /\ close'.before \subseteq returned'
    BY DEF Closing, BusInv, Stops
  <2> QED
    BY <2>1, <2>2, <2>3 DEF Stops
<1>7. Places'
  BY DEF BusInv, Places
<1> QED
  BY <1>4, <1>5, <1>6, <1>7 DEF BusInv

LEMMA CloseOnKeeps ==
  ASSUME BusInv, NEW from \in Nat, NEW errors \in BOOLEAN, CloseOn(from, errors), Closing
  PROVE  BusInv'
<1> DEFINE targets == {c \in Consumers : ~Done(c)}
           stop == FirstFull(from, targets)
           some == {c \in Consumers : c \in targets /\ c >= from /\ c < stop}
<1>a. /\ queues' = Offered(Closer, STOP, from, targets)
      /\ close' = [close EXCEPT !.pc = IF stop > N THEN "gather" ELSE "waiting",
                                !.at = stop, !.errors = errors]
      /\ started' = started /\ consumer' = consumer /\ pub' = pub /\ drain' = drain
      /\ processed' = processed /\ returned' = returned
  BY DEF CloseOn
<1>0. /\ TypeOK /\ STOP \in Events \cup {STOP} /\ Closer \in Tasks /\ targets \in SUBSET Consumers
  BY DEF BusInv, Tasks
<1> HIDE DEF targets
<1>1. /\ stop \in 1..N + 1 /\ (stop <= N => stop \in targets /\ stop >= from)
      /\ DOMAIN Offered(Closer, STOP, from, targets) = Consumers
      /\ \A c \in Consumers :
          /\ IsQueue(Offered(Closer, STOP, from, targets)[c], Events \cup {STOP}, Tasks, Capacity)
          /\ Offered(Closer, STOP, from, targets)[c].items =
                IF c \in targets /\ c >= from /\ c < stop
                THEN Append(queues[c].items, STOP) ELSE queues[c].items
  BY <1>0, OfferedQueues
<1> HIDE DEF stop
<1>2. /\ DOMAIN queues' = Consumers
      /\ \A c \in Consumers :
          /\ IsQueue(queues'[c], Events \cup {STOP}, Tasks, Capacity)
          /\ queues'[c].items = IF c \in targets /\ c >= from /\ c < stop
                                THEN Append(queues[c].items, STOP) ELSE queues[c].items
  BY <1>a, <1>1
<1>3. some \in SUBSET Consumers /\ \A c \in Consumers :
          queues'[c].items = IF c \in some THEN Append(queues[c].items, STOP) ELSE queues[c].items
  BY <1>2
<1> HIDE DEF some
<1>4. /\ N \in Nat /\ Consumers = 1..N
      /\ close \in [pc : {"none", "scheduled", "waiting", "put", "retry", "gather", "closed"},
                    at : 0..N + 1, errors : BOOLEAN, before : SUBSET Events]
  BY BusAssumption DEF BusInv, TypeOK, Consumers
<1>5. /\ close'.pc = (IF stop > N THEN "gather" ELSE "waiting") /\ close'.at = stop
      /\ close'.before = close.before
  BY <1>a, <1>4
<1>6. close'.pc \in {"waiting", "put", "gather"} /\ (close'.pc # "gather" => close'.at \in Consumers)
  BY <1>0, <1>1, <1>4, <1>5
<1>7. TypeOK'
  <2>1. close' \in [pc : {"none", "scheduled", "waiting", "put", "retry", "gather", "closed"},
                    at : 0..N + 1, errors : BOOLEAN, before : SUBSET Events]
    <3>1. stop \in 0..N + 1
      BY <1>1, <1>4
    <3> QED
      BY <1>a, <1>4, <3>1
  <2> QED
    BY <1>a, <1>2, <2>1 DEF BusInv, TypeOK
<1> QED
  BY <1>a, <1>3, <1>5, <1>6, <1>7, StopPutKeeps

LEMMA PuttingStopKeeps ==
  ASSUME BusInv, PuttingStop
  PROVE  BusInv'
<1>p. PICK c0 \in Consumers : c0 = close.at
  BY DEF BusInv, Places, PuttingStop
<1>a. /\ close.pc = "waiting"
      /\ queues' = [queues EXCEPT ![c0] = RunPut(@, Closer, STOP, Capacity)]
      /\ close' = [close EXCEPT !.pc = IF Full(queues[c0], Capacity) THEN "waiting" ELSE "put"]
      /\ started' = started /\ consumer' = consumer /\ pub' = pub /\ drain' = drain
      /\ processed' = processed /\ returned' = returned
  BY <1>p DEF PuttingStop
<1>1. /\ DOMAIN queues' = Consumers
      /\ \A c \in Consumers : IsQueue(queues'[c], Events \cup {STOP}, Tasks, Capacity)
      /\ \A c \in Consumers : c # c0 => queues'[c] = queues[c]
      /\ queues'[c0].items = IF Full(queues[c0], Capacity) THEN queues[c0].items
                             ELSE Append(queues[c0].items, STOP)
  <2> DEFINE Items == Events \cup {STOP}
  <2>1. /\ DOMAIN queues = Consumers /\ STOP \in Items /\ Closer \in Tasks
        /\ \A c \in Consumers : IsQueue(queues[c], Items, Tasks, Capacity)
    BY DEF BusInv, TypeOK, Tasks
  <2> HIDE DEF Items
  <2>2. /\ IsQueue(RunPut(queues[c0], Closer, STOP, Capacity), Items, Tasks, Capacity)
        /\ RunPut(queues[c0], Closer, STOP, Capacity).items =
              IF Full(queues[c0], Capacity) THEN queues[c0].items ELSE Append(queues[c0].items, STOP)
    BY <2>1, RunType
  <2>3. /\ DOMAIN queues' = Consumers /\ queues'[c0] = RunPut(queues[c0], Closer, STOP, Capacity)
        /\ \A c \in Consumers : c # c0 => queues'[c] = queues[c]
    BY <1>a, <2>1
  <2>4. \A c \in Consumers : IsQueue(queues'[c], Items, Tasks, Capacity)
    BY <2>1, <2>2, <2>3
  <2> QED
    BY <2>2, <2>3, <2>4 DEF Items
<1>2. close \in [pc : {"none", "scheduled", "waiting", "put", "retry", "gather", "closed"},
                 at : 0..N + 1, errors : BOOLEAN, before : SUBSET Events]
  BY DEF BusInv, TypeOK
<1>3. /\ close'.pc = (IF Full(queues[c0], Capacity) THEN "waiting" ELSE "put")
      /\ close'.before = close.before /\ close'.at = c0
  BY <1>2, <1>a, <1>p
<1>4. TypeOK'
  <2>1. close' \in [pc : {"none", "scheduled", "waiting", "put", "retry", "gather", "closed"},
                    at : 0..N + 1, errors : BOOLEAN, before : SUBSET Events]
    BY <1>2, <1>a
  <2> QED
    BY <1>a, <1>1, <2>1 DEF BusInv, TypeOK
<1> DEFINE some == IF Full(queues[c0], Capacity) THEN {} ELSE {c0}
<1>5. some \in SUBSET Consumers /\ \A c \in Consumers :
          queues'[c].items = IF c \in some THEN Append(queues[c].items, STOP) ELSE queues[c].items
  BY <1>1
<1> HIDE DEF some
<1>6. Closing /\ close'.pc \in {"waiting", "put", "gather"} /\ close'.at \in Consumers
  BY <1>a, <1>3 DEF Closing
<1> QED
  BY <1>a, <1>3, <1>4, <1>5, <1>6, StopPutKeeps

LEMMA CloseKeeps ==
  ASSUME BusInv, CloseBegins \/ CloseStep
  PROVE  BusInv'
<1>0. /\ close.errors \in BOOLEAN /\ Failed \in BOOLEAN /\ (Closing => close.at \in 0..N + 1)
      /\ N \in Nat
  BY BusAssumption DEF BusInv, TypeOK, Failed
<1>1. CASE CloseRuns /\ started
  <2>1. CloseOn(1, Failed) /\ Closing
    BY <1>1 DEF CloseRuns, Closing
  <2> QED
    BY <1>0, <2>1, CloseOnKeeps
<1>2. CASE CloseResumes
  <2>1. /\ CloseOn(close.at + 1, close.errors \/ consumer[close.at].task = "failed") /\ Closing
        /\ (close.errors \/ consumer[close.at].task = "failed") \in BOOLEAN
    BY <1>2 DEF CloseResumes, Closing
  <2>2. close.at + 1 \in Nat
    BY <1>0, <2>1
  <2> QED
    BY <2>1, <2>2, CloseOnKeeps
<1>3. CASE CloseRetries
  <2>1. CloseOn(close.at + 1, TRUE) /\ Closing
    BY <1>3 DEF CloseRetries, Closing
  <2>2. close.at + 1 \in Nat
    BY <1>0, <2>1
  <2> QED
    BY <2>1, <2>2, CloseOnKeeps
<1> QED
  BY <1>1, <1>2, <1>3, CloseQuietKeeps, PuttingStopKeeps DEF CloseStep

----------------------------------------------------------------------------
(* The theorems.                                                           *)

LEMMA BusInit == Init => BusInv
<1> SUFFICES ASSUME Init PROVE BusInv
  OBVIOUS
<1>1. /\ <<>> \in Seq(Events \cup {STOP}) /\ <<>> \in Seq(Tasks) /\ <<>> \in Seq(Events)
      /\ Len(<<>>) = 0 /\ Range(<<>>) = {}
  BY DEF Range
<1>2. /\ N \in Nat /\ Capacity \in Nat /\ MaxEvents \in Nat /\ MaxDrains \in Nat
  BY BusAssumption
<1>3. IsQueue(EmptyQueue, Events \cup {STOP}, Tasks, Capacity) /\ EmptyQueue.items = <<>>
  BY <1>1, <1>2 DEF IsQueue, EmptyQueue
<1>4. TypeOK
  <2>1. /\ consumer \in [Consumers -> [task : {"none", "running", "stopped", "failed"},
                                       handling : SUBSET Events]]
        /\ processed \in [Consumers -> Seq(Events)]
    BY <1>1 DEF Init
  <2>2. pub \in [Publishers -> [pc : {"idle", "waiting", "put"}, at : 0..N + 1, no : 0..MaxEvents]]
    BY <1>2 DEF Init
  <2>3. drain \in [pc : {"idle", "joining"}, joined : SUBSET Consumers, before : SUBSET Events,
                   no : 0..MaxDrains]
    BY <1>2 DEF Init
  <2>4. close \in [pc : {"none", "scheduled", "waiting", "put", "retry", "gather", "closed"},
                   at : 0..N + 1, errors : BOOLEAN, before : SUBSET Events]
    BY <1>2 DEF Init
  <2>5. DOMAIN queues = Consumers /\ \A c \in Consumers : queues[c] = EmptyQueue
    BY DEF Init
  <2> QED
    BY <1>3, <2>1, <2>2, <2>3, <2>4, <2>5 DEF TypeOK, Init
<1>5. \A c \in Consumers : /\ AllOf(c) = {} /\ queues[c].items = <<>> /\ processed[c] = <<>>
                           /\ consumer[c].handling = {} /\ consumer[c].task = "none"
  BY <1>1, <1>3 DEF Init, AllOf, Given
<1>6. /\ returned = {} /\ drain.joined = {} /\ drain.before = {} /\ close.pc = "none"
      /\ close.before = {} /\ ~started /\ (\A p \in Publishers : pub[p].pc = "idle")
  BY DEF Init
<1>7. Places
  BY <1>5, <1>6 DEF Places
<1>8. Lined
  BY <1>1, <1>5 DEF Lined, InLine
<1>9. Ahead /\ Reached /\ Returned /\ Draining
  BY <1>5, <1>6 DEF Ahead, Reached, Returned, Draining
<1>10. Stops
  BY <1>1, <1>5, <1>6 DEF Stops, AheadOfStop, Closing
<1> QED
  BY <1>4, <1>7, <1>8, <1>9, <1>10 DEF BusInv

LEMMA BusStep == BusInv /\ [Next]_vars => BusInv'
<1> SUFFICES ASSUME BusInv, [Next]_vars PROVE BusInv'
  OBVIOUS
<1>1. CASE UNCHANGED vars
  <2>1. /\ started' = started /\ queues' = queues /\ consumer' = consumer /\ pub' = pub
        /\ drain' = drain /\ close' = close /\ processed' = processed /\ returned' = returned
    BY <1>1 DEF vars
  <2>2. LinesStay
    BY <2>1 DEF LinesStay
  <2>3. Lined' /\ Ahead' /\ Reached' /\ Returned' /\ Draining'
    BY <2>1, <2>2, QuietStep
  <2>4. Stops'
    BY <2>1, <2>2, StopsKept DEF BusInv
  <2>5. TypeOK'
    BY <2>1 DEF BusInv, TypeOK
  <2>6. Places'
    BY <2>1 DEF BusInv, Places
  <2> QED
    BY <2>3, <2>4, <2>5, <2>6 DEF BusInv
<1>2. CASE Start
  BY <1>2, StartKeeps
<1>3. ASSUME NEW p \in Publishers, Publish(p) \/ PublishCancelled(p) \/ PublisherStep(p)
      PROVE  BusInv'
  <2>1. CASE Publish(p) \/ PublishResumes(p)
    BY <2>1, PublishKeeps
  <2>2. CASE PublishCancelled(p) \/ ConsumerGone(p)
    BY <2>2, RaiseKeeps DEF PublishCancelled, ConsumerGone
  <2>3. CASE Putting(p)
    BY <2>3, PuttingKeeps
  <2> QED
    BY <1>3, <2>1, <2>2, <2>3 DEF PublisherStep
<1>4. ASSUME NEW c \in Consumers, ConsumerStep(c)
      PROVE  BusInv'
  BY <1>4, TakeKeeps, HandledKeeps, RaisingKeeps DEF ConsumerStep
<1>5. CASE DrainBegins \/ DrainStep
  BY <1>5, DrainKeeps
<1>6. CASE CloseBegins \/ CloseStep
  BY <1>6, CloseKeeps
<1> QED
  BY <1>1, <1>2, <1>3, <1>4, <1>5, <1>6 DEF Next

LEMMA BusInvAlways == Spec => []BusInv
BY BusInit, BusStep, PTL DEF Spec

(* Every queue keeps to its capacity, and every task to its states,        *)
(* whatever waits for room, is cancelled or fails.                         *)
THEOREM BusTypeCorrect == Spec => []TypeOK
<1>1. BusInv => TypeOK
  BY DEF BusInv
<1> QED
  BY <1>1, BusInvAlways, PTL

(* Each consumer handles one publisher's events in the order of their      *)
(* publication and at most once: publish, _put_or_failure and              *)
(* _ConsumerRuntime.run, under cancellation and failure.                   *)
THEOREM EventsInOrder == Spec => []OrderedPerPublisher
<1>1. BusInv => OrderedPerPublisher
  <2> SUFFICES ASSUME BusInv, NEW c \in Consumers, NEW i \in 1..Len(processed[c]),
                      NEW j \in 1..Len(processed[c]), i < j,
                      processed[c][i].by = processed[c][j].by
               PROVE  processed[c][i].no < processed[c][j].no
    BY DEF OrderedPerPublisher
  <2>1. processed[c] \in Seq(Events)
    BY LineTypes DEF BusInv
  <2>2. processed[c][i] # STOP /\ processed[c][j] # STOP
    BY <2>1, StopIsNoEvent
  <2>3. Before(processed[c][i], processed[c][j])
    BY DEF BusInv, Lined, InLine
  <2> QED
    BY <2>2, <2>3 DEF Before
<1> QED
  BY <1>1, BusInvAlways, PTL

(* drain returns only when every consumer has handled every event whose    *)
(* publish had returned before it was called.                              *)
THEOREM DrainWaits == Spec => DrainCompletes
<1>1. BusInv /\ [Next]_vars =>
        [DrainReturns => \A c \in Consumers : drain.before \subseteq Range(processed[c])]_vars
  <2> SUFFICES ASSUME BusInv, DrainReturns, NEW c \in Consumers
               PROVE  drain.before \subseteq Range(processed[c])
    OBVIOUS
  <2>1. c \in drain.joined /\ consumer[c].task # "failed"
    BY DEF DrainReturns, Done
  <2> QED
    BY <2>1 DEF BusInv, Draining
<1> QED
  BY <1>1, BusInvAlways, PTL DEF Spec, DrainCompletes

(* A close that raises nothing leaves every event whose publish had        *)
(* returned handled by every consumer.                                     *)
THEOREM CloseLosesNothing == Spec => []CloseDrains
<1>1. BusInv => CloseDrains
  BY DEF BusInv, Stops, CloseDrains
<1> QED
  BY <1>1, BusInvAlways, PTL
=============================================================================
