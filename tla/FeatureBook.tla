---------------------------- MODULE FeatureBook ----------------------------
(***************************************************************************)
(* The feature side's copy of one venue's order book (features/state.py),  *)
(* FeatureOrderBookState, as a value f and the operations on it.           *)
(*                                                                         *)
(* An event is a record of kind "snapshot" or "update", with the venue     *)
(* book's generation, its sequence id, for an update the sequence id it    *)
(* follows, its exchange time and the levels it brings.  A level is a      *)
(* <<side, price>> pair.                                                   *)
(***************************************************************************)
EXTENDS Integers, Sequences, SequencesExt, FiniteSets

CONSTANTS
    Levels,          \* book levels
    PendingCapacity  \* features.book_pending_updates

None == -1
NoLevels == [l \in Levels |-> 0]

NewBook ==
    [gen |-> 0, epoch |-> 0, seq |-> None, sync |-> FALSE, since |-> None,
     levels |-> NoLevels, pending |-> <<>>]

Side(s, levels) == {l \in Levels : l[1] = s /\ levels[l] > 0}

TwoSided(levels) == Side("bid", levels) # {} /\ Side("ask", levels) # {}

(* Both sides present and the best bid below the best ask. *)
Sound(levels) ==
    /\ TwoSided(levels)
    /\ \A b \in Side("bid", levels), a \in Side("ask", levels) : b[2] < a[2]

(* _apply_side on both sides *)
Overlay(levels, changed) ==
    [l \in Levels |-> IF l \in DOMAIN changed THEN changed[l] ELSE levels[l]]

(* _reset *)
Reset(f, gen, advanceEpoch) ==
    [gen |-> gen, epoch |-> IF advanceEpoch THEN f.epoch + 1 ELSE f.epoch,
     seq |-> None, sync |-> FALSE, since |-> None, levels |-> NoLevels, pending |-> <<>>]

Desynchronized(f) == [f EXCEPT !.sync = FALSE, !.since = None]

Outcome(f, status) == [book |-> f, status |-> status]

(* _apply_levels, then the new sequence id; an unsound book keeps the old. *)
Applied(f, e) ==
    LET levels == Overlay(f.levels, e.levels)
    IN  IF Sound(levels)
        THEN Outcome([f EXCEPT !.levels = levels, !.seq = e.seq], "ACCEPTED")
        ELSE Outcome(Desynchronized([f EXCEPT !.levels = levels]), "BOOK_INVALIDATED")

(* _buffer *)
Buffered_mutant(f, e) ==
    Outcome([f EXCEPT !.pending = Append(@, e)], "BUFFERED_FOR_SNAPSHOT")

Buffered(f, e) ==
    IF Len(f.pending) >= PendingCapacity
    THEN Outcome(Reset(f, e.gen, TRUE), "BOOK_INVALIDATED")
    ELSE Outcome([f EXCEPT !.pending = Append(@, e)], "BUFFERED_FOR_SNAPSHOT")

(* One pending update replayed over a snapshot, unless the replay has      *)
(* already failed.                                                         *)
ReplayStep_mutant(o, e) ==
    IF o.status # "ACCEPTED" \/ e.seq <= o.book.seq THEN o ELSE Applied(o.book, e)

ReplayStep(o, e) ==
    IF o.status # "ACCEPTED" \/ e.seq <= o.book.seq THEN o
    ELSE IF e.prev > o.book.seq THEN Outcome(Desynchronized(o.book), "BOOK_INVALIDATED")
    ELSE Applied(o.book, e)

(* sorted by sequence id: each update behind those that do not follow it *)
BySequence(updates) ==
    LET Place(s, e) == 1 + Cardinality({j \in 1..Len(s) : s[j].seq <= e.seq})
        sorted[k \in 0..Len(updates)] ==
            IF k = 0 THEN <<>>
            ELSE InsertAt(sorted[k - 1], Place(sorted[k - 1], updates[k]), updates[k])
    IN  sorted[Len(updates)]

(* The loop over the pending updates, from the loaded snapshot on; a book *)
(* that was not synchronized by the snapshot is not by its updates.        *)
Replayed(o, updates) ==
    LET run[k \in 0..Len(updates)] ==
            IF k = 0 THEN o ELSE ReplayStep(run[k - 1], updates[k])
        end == run[Len(updates)]
    IN  IF end.book.sync THEN end ELSE Outcome(end.book, "BOOK_INVALIDATED")

(* A snapshot of the current generation over a synchronized book: the      *)
(* synchronization continues.                                              *)
Continuing_mutant(f, e) == e.gen = f.gen

Continuing(f, e) == e.gen = f.gen /\ f.sync

(* apply_snapshot: a snapshot with an empty side is loaded and brought up *)
(* to date, but does not synchronize; a crossed one is not brought up.     *)
ApplySnapshot(f, e) ==
    LET pending == IF e.gen = f.gen THEN BySequence(f.pending) ELSE <<>>
        levels == Overlay(NoLevels, e.levels)
        loaded == [Reset(f, e.gen, ~Continuing(f, e)) EXCEPT
                      !.levels = levels, !.seq = e.seq, !.sync = TwoSided(levels),
                      !.since = IF ~TwoSided(levels) THEN None
                                ELSE IF Continuing(f, e) THEN f.since ELSE e.at]
    IN  IF e.gen < f.gen THEN Outcome(f, "STALE_GENERATION")
        ELSE IF Continuing(f, e) /\ e.seq <= f.seq THEN Outcome(f, "STALE_SEQUENCE")
        ELSE IF TwoSided(levels) /\ ~Sound(levels)
        THEN Outcome(Desynchronized(loaded), "BOOK_INVALIDATED")
        ELSE Replayed(Outcome(loaded, "ACCEPTED"), pending)

(* apply_update *)
ApplyUpdate(f, e) ==
    IF e.gen < f.gen THEN Outcome(f, "STALE_GENERATION")
    ELSE IF e.gen > f.gen THEN Buffered(Reset(f, e.gen, TRUE), e)
    ELSE IF ~f.sync THEN Buffered(f, e)
    ELSE IF e.seq <= f.seq THEN Outcome(f, "STALE_SEQUENCE")
    ELSE IF e.prev # f.seq
    THEN Buffered([Desynchronized(f) EXCEPT !.pending = <<>>], e)
    ELSE Applied(f, e)

Apply(f, e) == IF e.kind = "snapshot" THEN ApplySnapshot(f, e) ELSE ApplyUpdate(f, e)
============================================================================
