---------------------------- MODULE StreamRXWindow ----------------------------
(* The reorder window of core/stream_rx.go as operators on a record.  A frame *)
(* is its DATA ordinal: payload bytes, their pool and pendingBytes are left   *)
(* out.  pending is the set of retained future ordinals; gapSince is the time *)
(* at which the current hole became observable, NoTime when there is none.    *)
(* The window has one owner (rxLoop) and no lock, so each operator is a step. *)
EXTENDS Naturals, FiniteSets

CONSTANT MaxReorderFrames   \* StreamConfig.MaxReorderFrames, normalised

ASSUME MaxReorderAssumption == MaxReorderFrames \in Nat

NoTime == 0

WindowType ==
    [expected : Nat, pending : SUBSET Nat, readyPending : BOOLEAN,
     gapExpected : Nat, gapSince : Nat]

NewStreamRXWindow ==
    [expected |-> 0, pending |-> {}, readyPending |-> FALSE,
     gapExpected |-> 0, gapSince |-> NoTime]

(* Faulty variants, each refuted by a property: the stamp renewed by every    *)
(* frame; a limit and a duplicate test that are off by one; no refresh.       *)
refreshGapRenews(w, now) ==
    [w EXCEPT !.gapExpected = w.expected,
              !.gapSince = IF w.pending = {} THEN NoTime ELSE now]

DispositionOverLimit(w, seq) ==
    CASE seq < w.expected                              -> "duplicate"
      [] seq = w.expected                              -> "ready"
      [] seq > w.expected /\ seq \in w.pending         -> "bufferedDuplicate"
      [] seq > w.expected /\ seq \notin w.pending
         /\ Cardinality(w.pending) > MaxReorderFrames  -> "reorderLimit"
      [] OTHER                                         -> "buffered"

DispositionRepeats(w, seq) ==
    CASE seq + 1 < w.expected                     -> "duplicate"
      [] seq + 1 >= w.expected /\ seq <= w.expected -> "ready"
      [] seq > w.expected /\ seq \in w.pending    -> "bufferedDuplicate"
      [] OTHER                                    -> "buffered"

CommitReadyKeepsGap(w, now) ==
    IF w.readyPending
    THEN [w EXCEPT !.readyPending = FALSE, !.expected = @ + 1] ELSE w

refreshGap(w, now) ==
    IF w.pending = {}
    THEN [w EXCEPT !.gapExpected = w.expected, !.gapSince = NoTime]
    ELSE IF w.gapExpected # w.expected \/ w.gapSince = NoTime
         THEN [w EXCEPT !.gapExpected = w.expected, !.gapSince = now]
         ELSE w

(* The five outcomes of Insert, in the order the code tests them. *)
Disposition(w, seq) ==
    CASE seq < w.expected                             -> "duplicate"
      [] seq = w.expected                             -> "ready"
      [] seq > w.expected /\ seq \in w.pending        -> "bufferedDuplicate"
      [] seq > w.expected /\ seq \notin w.pending
         /\ Cardinality(w.pending) >= MaxReorderFrames -> "reorderLimit"
      [] OTHER                                        -> "buffered"

Insert(w, seq, now) ==
    CASE Disposition(w, seq) = "ready"    -> [w EXCEPT !.readyPending = TRUE]
      [] Disposition(w, seq) = "buffered" ->
             refreshGap([w EXCEPT !.pending = @ \cup {seq}], now)
      [] OTHER                            -> w

CommitReady(w, now) ==
    IF ~w.readyPending THEN w
    ELSE LET v == [w EXCEPT !.readyPending = FALSE, !.expected = @ + 1]
         IN  IF v.expected \in v.pending THEN v ELSE refreshGap(v, now)

CanPop(w) == ~w.readyPending /\ w.expected \in w.pending

PopContiguous(w) ==
    IF CanPop(w)
    THEN [w EXCEPT !.pending = @ \ {w.expected}, !.readyPending = TRUE]
    ELSE w

DrainPending(w) ==
    [w EXCEPT !.pending = {}, !.gapExpected = w.expected, !.gapSince = NoTime,
              !.readyPending = FALSE]
===============================================================================
