------------------------- MODULE StreamReceiverProofs -------------------------
(* Proofs about StreamReceiver, for any set of legs, any reorder limit and    *)
(* any bounds.  First what the window operators return, then that every       *)
(* action preserves the types, then the inductive invariant.                  *)
EXTENDS StreamReceiver, FiniteSetTheorems, TLAPS

(* The dispositions exclude one another. *)
LEMMA DispositionCases ==
    ASSUME NEW w \in WindowType, NEW seq \in Nat
    PROVE  /\ Disposition(w, seq) \in {"duplicate", "ready", "bufferedDuplicate",
                                       "reorderLimit", "buffered"}
           /\ Disposition(w, seq) = "ready" <=> seq = w.expected
           /\ Disposition(w, seq) = "buffered" =>
                 /\ seq > w.expected /\ seq \notin w.pending
                 /\ ~(Cardinality(w.pending) >= MaxReorderFrames)
<1>0. w.expected \in Nat
  BY DEF WindowType
<1>1. CASE seq < w.expected
  BY <1>0, <1>1 DEF Disposition
<1>2. CASE seq = w.expected
  BY <1>0, <1>2 DEF Disposition
<1>3. CASE seq > w.expected /\ seq \in w.pending
  BY <1>0, <1>3 DEF Disposition
<1>4. CASE seq > w.expected /\ seq \notin w.pending
  <2>1. CASE Cardinality(w.pending) >= MaxReorderFrames
    BY <1>0, <1>4, <2>1 DEF Disposition
  <2>2. CASE ~(Cardinality(w.pending) >= MaxReorderFrames)
    BY <1>0, <1>4, <2>2 DEF Disposition
  <2> QED BY <2>1, <2>2
<1> QED BY <1>0, <1>1, <1>2, <1>3, <1>4

(* refreshGap touches only the gap stamp, and leaves it truthful. *)
LEMMA RefreshGapTruthful ==
    ASSUME NEW w \in WindowType, NEW t \in Nat \ {0}
    PROVE  LET v == refreshGap(w, t) IN
           /\ v \in WindowType
           /\ v.expected = w.expected /\ v.pending = w.pending
           /\ v.readyPending = w.readyPending
           /\ (v.gapSince # NoTime) <=> (v.pending # {})
           /\ v.pending # {} => v.gapExpected = v.expected
BY DEF refreshGap, WindowType, NoTime

LEMMA InsertResult ==
    ASSUME NEW w \in WindowType, NEW seq \in Nat, NEW t \in Nat \ {0}
    PROVE  LET v == Insert(w, seq, t)
               d == Disposition(w, seq)
           IN  /\ v \in WindowType /\ v.expected = w.expected
               /\ d = "ready" => v = [w EXCEPT !.readyPending = TRUE]
               /\ d = "buffered" =>
                     /\ v.pending = w.pending \cup {seq}
                     /\ v.readyPending = w.readyPending
                     /\ (v.gapSince # NoTime) <=> (v.pending # {})
                     /\ v.pending # {} => v.gapExpected = v.expected
               /\ d \notin {"ready", "buffered"} => v = w
<1>1. CASE Disposition(w, seq) = "ready"
  BY <1>1 DEF Insert, WindowType
<1>2. CASE Disposition(w, seq) = "buffered"
  <2> DEFINE u == [w EXCEPT !.pending = @ \cup {seq}]
  <2>1. u \in WindowType /\ u.pending = w.pending \cup {seq}
        /\ u.expected = w.expected /\ u.readyPending = w.readyPending
    BY DEF WindowType
  <2>2. Insert(w, seq, t) = refreshGap(u, t)
    BY <1>2 DEF Insert
  <2> HIDE DEF u
  <2>3. LET v == refreshGap(u, t) IN
        /\ v \in WindowType /\ v.expected = w.expected
        /\ v.pending = w.pending \cup {seq} /\ v.readyPending = w.readyPending
        /\ (v.gapSince # NoTime) <=> (v.pending # {})
        /\ v.pending # {} => v.gapExpected = v.expected
    BY <2>1, RefreshGapTruthful
  <2> QED BY <1>2, <2>2, <2>3
<1>3. CASE Disposition(w, seq) \notin {"ready", "buffered"}
  BY <1>3 DEF Insert
<1> QED BY <1>1, <1>2, <1>3

(* Committing advances the frontier by one; the gap stamp is truthful when    *)
(* nothing can be popped next.                                                *)
LEMMA CommitReadyResult ==
    ASSUME NEW w \in WindowType, NEW t \in Nat \ {0}, w.readyPending
    PROVE  LET v == CommitReady(w, t) IN
           /\ v \in WindowType
           /\ v.expected = w.expected + 1 /\ v.pending = w.pending
           /\ ~v.readyPending
           /\ ~CanPop(v) => /\ (v.gapSince # NoTime) <=> (v.pending # {})
                            /\ v.pending # {} => v.gapExpected = v.expected
<1> DEFINE u == [w EXCEPT !.readyPending = FALSE, !.expected = @ + 1]
<1>0. w.expected + 1 \in Nat
  BY DEF WindowType
<1>1. /\ u \in WindowType /\ u.expected = w.expected + 1
      /\ u.pending = w.pending /\ u.readyPending = FALSE
  <2> DEFINE n == w.expected + 1
  <2>1. n \in Nat
    BY <1>0
  <2> HIDE DEF n
  <2>2. LET x == [w EXCEPT !.readyPending = FALSE, !.expected = n] IN
        /\ x \in WindowType /\ x.expected = n
        /\ x.pending = w.pending /\ x.readyPending = FALSE
    BY <2>1 DEF WindowType
  <2> QED BY <2>2 DEF n
<1>2. CommitReady(w, t) = IF u.expected \in u.pending THEN u ELSE refreshGap(u, t)
  BY DEF CommitReady
<1> HIDE DEF u
<1>3. CASE u.expected \in u.pending
  BY <1>1, <1>2, <1>3 DEF CanPop
<1>4. CASE u.expected \notin u.pending
  BY <1>1, <1>2, <1>4, RefreshGapTruthful DEF CanPop
<1> QED BY <1>3, <1>4

LEMMA PopContiguousResult ==
    ASSUME NEW w \in WindowType
    PROVE  LET v == PopContiguous(w) IN
           /\ v \in WindowType /\ v.expected = w.expected
           /\ CanPop(w) => v.readyPending /\ v.pending = w.pending \ {w.expected}
           /\ ~CanPop(w) => v = w
BY DEF PopContiguous, WindowType

LEMMA DrainPendingResult ==
    ASSUME NEW w \in WindowType
    PROVE  LET v == DrainPending(w) IN
           /\ v \in WindowType /\ v.expected = w.expected
           /\ v.pending = {} /\ ~v.readyPending
BY DEF DrainPending, WindowType, NoTime
-------------------------------------------------------------------------------
(* rxLoop's half of the invariant: where the loop stands, what the window     *)
(* holds then, and how far ackNext may have come.                             *)
RxInv ==
    /\ window \in WindowType /\ now \in Nat \ {0}
    /\ rxPC \in {"select", "write", "stopped"} /\ rxFrame \in Nat
    /\ delivered \in Seq(Nat) /\ ackNext \in Nat
    /\ InOrderDelivery
    /\ IsFiniteSet(window.pending)
    /\ Cardinality(window.pending) <= MaxReorderFrames
    /\ \A s \in window.pending : s > window.expected
    /\ rxPC = "write" => window.readyPending /\ rxFrame = window.expected
    /\ rxPC # "write" => ~window.readyPending
    /\ ackNext <= window.expected
    /\ rxPC = "select" => ackNext = window.expected
    /\ GapTruthful

LEMMA RxInvInit == Init => RxInv
<1> SUFFICES ASSUME Init PROVE RxInv
  OBVIOUS
<1>1. window = NewStreamRXWindow /\ now = 1 /\ rxPC = "select" /\ rxFrame = 0
      /\ delivered = <<>> /\ ackNext = 0
  BY DEF Init
<1>2. window \in WindowType /\ window.expected = 0 /\ window.pending = {}
      /\ ~window.readyPending /\ window.gapSince = NoTime
  BY <1>1 DEF NewStreamRXWindow, WindowType, NoTime
<1>3. IsFiniteSet(window.pending) /\ Cardinality(window.pending) = 0
  BY <1>2, FS_EmptySet
<1> QED BY <1>1, <1>2, <1>3, MaxReorderAssumption DEF RxInv, InOrderDelivery, GapTruthful

LEMMA ReceiveFrameRx ==
    ASSUME RxInv, NEW seq \in 0..(MaxSeq - 1), ReceiveFrame(seq)
    PROVE  RxInv'
<1> DEFINE d == Disposition(window, seq)
<1>1. /\ rxPC = "select" /\ window \in WindowType /\ seq \in Nat
      /\ now' = now + 1 /\ now' \in Nat \ {0}
      /\ delivered' = delivered /\ ackNext' = ackNext
      /\ window' = IF d = "reorderLimit" THEN DrainPending(window)
                   ELSE Insert(window, seq, now')
      /\ rxPC' = CASE d = "ready" -> "write" [] d = "reorderLimit" -> "stopped"
                   [] OTHER -> "select"
      /\ rxFrame' = IF d = "ready" THEN seq ELSE rxFrame
  BY ReceiverAssumption DEF ReceiveFrame, RxInv
<1>2. /\ d \in {"duplicate", "ready", "bufferedDuplicate", "reorderLimit", "buffered"}
      /\ d = "ready" <=> seq = window.expected
      /\ d = "buffered" => /\ seq > window.expected /\ seq \notin window.pending
                           /\ ~(Cardinality(window.pending) >= MaxReorderFrames)
  BY <1>1, DispositionCases
<1> HIDE DEF d
<1>3. CASE d = "reorderLimit"
  <2>1. window' = DrainPending(window) /\ rxPC' = "stopped" /\ rxFrame' = rxFrame
    BY <1>1, <1>3
  <2>2. window' \in WindowType /\ window'.expected = window.expected
        /\ window'.pending = {} /\ ~window'.readyPending
    BY <1>1, <2>1, DrainPendingResult
  <2>3. IsFiniteSet(window'.pending) /\ Cardinality(window'.pending) = 0
    BY <2>2, FS_EmptySet
  <2> QED BY <1>1, <2>1, <2>2, <2>3, MaxReorderAssumption
          DEF RxInv, InOrderDelivery, GapTruthful
<1>4. CASE d = "ready"
  <2>0. window' = Insert(window, seq, now') /\ rxPC' = "write" /\ rxFrame' = seq
    BY <1>1, <1>4
  <2>1. window' = [window EXCEPT !.readyPending = TRUE]
    BY <1>4, <2>0 DEF Insert, d
  <2>2. window' \in WindowType /\ window'.expected = window.expected
        /\ window'.pending = window.pending /\ window'.readyPending
    BY <1>1, <2>1 DEF WindowType
  <2>3. rxFrame' = window.expected
    BY <1>2, <1>4, <2>0
  <2> QED BY <1>1, <2>0, <2>2, <2>3 DEF RxInv, InOrderDelivery, GapTruthful, WindowType
<1>5. CASE d = "buffered"
  <2>1. /\ window' \in WindowType /\ window'.expected = window.expected
        /\ window'.pending = window.pending \cup {seq}
        /\ window'.readyPending = window.readyPending
        /\ (window'.gapSince # NoTime) <=> (window'.pending # {})
        /\ window'.pending # {} => window'.gapExpected = window'.expected
        /\ rxPC' = "select" /\ rxFrame' = rxFrame
    BY <1>1, <1>5, InsertResult DEF d
  <2>2. /\ IsFiniteSet(window'.pending)
        /\ Cardinality(window'.pending) = Cardinality(window.pending) + 1
        /\ Cardinality(window.pending) \in Nat
    <3>1. IsFiniteSet(window.pending) /\ seq \notin window.pending
      BY <1>2, <1>5 DEF RxInv
    <3>2. /\ IsFiniteSet(window.pending \cup {seq})
          /\ Cardinality(window.pending \cup {seq}) = Cardinality(window.pending) + 1
      BY <3>1, FS_AddElement
    <3> QED BY <2>1, <3>1, <3>2, FS_CardinalityType
  <2>3. Cardinality(window'.pending) <= MaxReorderFrames
    BY <1>2, <1>5, <2>2, MaxReorderAssumption
  <2> QED BY <1>1, <1>2, <1>5, <2>1, <2>2, <2>3 DEF RxInv, InOrderDelivery, GapTruthful
<1>6. CASE d \in {"duplicate", "bufferedDuplicate"}
  <2>1. window' = window /\ rxPC' = "select" /\ rxFrame' = rxFrame
    BY <1>1, <1>6, InsertResult DEF d
  <2> QED BY <1>1, <2>1 DEF RxInv, InOrderDelivery, GapTruthful
<1> QED BY <1>2, <1>3, <1>4, <1>5, <1>6

LEMMA DeliverFrameRx ==
    ASSUME RxInv, DeliverFrame
    PROVE  RxInv'
<1> DEFINE w == CommitReady(window, now)
<1>1. /\ rxPC = "write" /\ delivered' = Append(delivered, rxFrame) /\ now' = now
      /\ window' = PopContiguous(w)
      /\ CanPop(w) => rxFrame' = w.expected /\ rxPC' = rxPC /\ ackNext' = ackNext
      /\ ~CanPop(w) => /\ rxPC' = "select" /\ rxFrame' = rxFrame
                       /\ ackNext' = IF w.expected <= ackNext THEN ackNext ELSE w.expected
  BY DEF DeliverFrame, requestAck
<1>2. /\ window \in WindowType /\ window.readyPending /\ rxFrame = window.expected
      /\ window.expected \in Nat
  BY <1>1 DEF RxInv, WindowType
<1>3. /\ w \in WindowType /\ w.expected = window.expected + 1
      /\ w.pending = window.pending /\ ~w.readyPending
      /\ ~CanPop(w) => /\ (w.gapSince # NoTime) <=> (w.pending # {})
                       /\ w.pending # {} => w.gapExpected = w.expected
  BY <1>2, CommitReadyResult DEF RxInv
<1> HIDE DEF w
<1>4. /\ window' \in WindowType /\ window'.expected = w.expected
      /\ CanPop(w) => window'.readyPending /\ window'.pending = w.pending \ {w.expected}
      /\ ~CanPop(w) => window' = w
  BY <1>1, <1>3, PopContiguousResult
<1>5. InOrderDelivery' /\ delivered' \in Seq(Nat)
  <2>1. /\ delivered' \in Seq(Nat) /\ Len(delivered') = Len(delivered) + 1
        /\ \A i \in 1..Len(delivered) : delivered'[i] = delivered[i]
        /\ delivered'[Len(delivered) + 1] = rxFrame
    BY <1>1, <1>2 DEF RxInv
  <2>2. /\ Len(delivered) \in Nat /\ Len(delivered) = window.expected
        /\ \A i \in 1..Len(delivered) : delivered[i] = i - 1
    BY DEF RxInv, InOrderDelivery
  <2>3. ASSUME NEW i \in 1..Len(delivered') PROVE delivered'[i] = i - 1
    BY <1>2, <2>1, <2>2
  <2>4. Len(delivered') = window'.expected
    BY <1>3, <1>4, <2>1, <2>2
  <2> QED BY <2>1, <2>3, <2>4 DEF InOrderDelivery
<1>6. CASE CanPop(w)
  <2>1. IsFiniteSet(window'.pending)
        /\ Cardinality(window'.pending) <= MaxReorderFrames
    <3>1. IsFiniteSet(window.pending) /\ Cardinality(window.pending) \in Nat
      BY FS_CardinalityType DEF RxInv
    <3>2. window'.pending \subseteq window.pending
      BY <1>3, <1>4, <1>6
    <3>3. IsFiniteSet(window'.pending)
          /\ Cardinality(window'.pending) <= Cardinality(window.pending)
      BY <3>1, <3>2, FS_Subset
    <3> QED BY <3>1, <3>3, FS_CardinalityType, MaxReorderAssumption DEF RxInv
  <2>2. \A s \in window'.pending : s > window'.expected
    BY <1>2, <1>3, <1>4, <1>6 DEF RxInv, WindowType
  <2> QED BY <1>1, <1>2, <1>3, <1>4, <1>5, <1>6, <2>1, <2>2 DEF RxInv, GapTruthful
<1>7. CASE ~CanPop(w)
  <2>1. \A s \in window'.pending : s > window'.expected
    BY <1>2, <1>3, <1>4, <1>7 DEF RxInv, WindowType, CanPop
  <2>2. ackNext' = w.expected
    BY <1>1, <1>2, <1>3, <1>7 DEF RxInv
  <2> QED BY <1>1, <1>2, <1>3, <1>4, <1>5, <1>7, <2>1, <2>2 DEF RxInv, GapTruthful, CanPop
<1> QED BY <1>6, <1>7

LEMMA DrainRx ==
    ASSUME RxInv, window' = DrainPending(window), rxPC' = "stopped",
           UNCHANGED <<now, rxFrame, delivered, ackNext>>
    PROVE  RxInv'
<1>1. window' \in WindowType /\ window'.expected = window.expected
      /\ window'.pending = {} /\ ~window'.readyPending
  BY DrainPendingResult DEF RxInv
<1>2. IsFiniteSet(window'.pending) /\ Cardinality(window'.pending) = 0
  BY <1>1, FS_EmptySet
<1> QED BY <1>1, <1>2, MaxReorderAssumption DEF RxInv, InOrderDelivery, GapTruthful

(* The other goroutines leave rxLoop's state and ackNext alone. *)
LEMMA RxInvStep == RxInv /\ [Next]_vars => RxInv'
<1> SUFFICES ASSUME RxInv, [Next]_vars PROVE RxInv'
  OBVIOUS
<1>1. CASE \E seq \in 0..(MaxSeq - 1) : ReceiveFrame(seq)
  BY <1>1, ReceiveFrameRx
<1>2. CASE DeliverFrame
  BY <1>2, DeliverFrameRx
<1>3. CASE DeliverFails
  BY <1>3, DrainRx DEF DeliverFails
<1>4. CASE RxLoopStops
  BY <1>4, DrainRx DEF RxLoopStops
<1>5. ASSUME UNCHANGED <<window, now, rxPC, rxFrame, delivered, ackNext>>
      PROVE  RxInv'
  BY <1>5 DEF RxInv, InOrderDelivery, GapTruthful
<1>6. CASE StartGracefulClose \/ failWithAppClose
  BY <1>5, <1>6 DEF StartGracefulClose, failWithAppClose, rxVars, ackVars
<1>7. CASE AckLoop
  BY <1>5, <1>7 DEF AckLoop, AckLoopTake, AckLoopDecide, AckLoopRestore,
                    AckLoopFinish, queueAck, rxVars
<1>8. CASE \E l \in Legs : LegWriter(l) \/ WriterOtherTraffic(l)
  BY <1>5, <1>8 DEF LegWriter, WriterLoadAck, WriterSendAck, WriterWakes,
                    WriterOtherTraffic, rxVars, ackVars
<1>9. CASE \E l \in Legs : LegHandlers(l)
  BY <1>5, <1>9 DEF LegHandlers, AttachPublish, AttachForceAck, FailClose,
                    FailRemove, FailForceAck, rxVars, ackVars
<1>10. CASE UNCHANGED vars
  BY <1>5, <1>10 DEF vars
<1> QED BY <1>1, <1>2, <1>3, <1>4, <1>6, <1>7, <1>8, <1>9, <1>10 DEF Next
-------------------------------------------------------------------------------
(* The other half: the types of what the ACK path holds, and that none of it  *)
(* is ahead of delivery.                                                      *)
AckInv ==
    /\ closing \in BOOLEAN /\ done \in BOOLEAN /\ ackForce \in BOOLEAN
    /\ ackl \in AckLoopType
    /\ leg \in [Legs -> LegType]
    /\ AckNeverAhead

LEMMA AckInvInit == Init => AckInv
<1> SUFFICES ASSUME Init PROVE AckInv
  OBVIOUS
<1>1. AckLoopIdle(0) \in AckLoopType /\ AckLoopIdle(0).next = 0
      /\ AckLoopIdle(0).sent = 0
  BY DEF AckLoopIdle, AckLoopType
<1>2. /\ NewLeg("none", 0, FALSE) \in LegType
      /\ NewLeg("none", 0, FALSE).ackPending = 0 /\ NewLeg("none", 0, FALSE).wnext = 0
      /\ NewLeg("none", 0, FALSE).ackSent = 0 /\ NewLeg("none", 0, FALSE).wire = 0
  BY DEF NewLeg, LegType
<1>3. Len(delivered) = 0
  BY DEF Init
<1> DEFINE c == NewLeg("none", 0, FALSE)
<1>4. /\ leg = [l \in Legs |-> c] /\ ackl = AckLoopIdle(0) /\ ackNext = 0
      /\ closing = FALSE /\ done = FALSE /\ ackForce = FALSE
  BY DEF Init
<1>5. c \in LegType /\ c.ackPending = 0 /\ c.wnext = 0 /\ c.ackSent = 0 /\ c.wire = 0
  BY <1>2
<1> HIDE DEF c
<1>6. leg \in [Legs -> LegType] /\ \A l \in Legs : leg[l] = c
  BY <1>4, <1>5
<1>7. AckNeverAhead
  BY <1>1, <1>3, <1>4, <1>5, <1>6 DEF AckNeverAhead
<1> QED BY <1>1, <1>4, <1>6, <1>7 DEF AckInv

(* One carrier's record changes, to one whose ACK values are not ahead. *)
LegNotAhead(c) ==
    /\ c \in LegType
    /\ c.ackPending <= Len(delivered) /\ c.wnext <= Len(delivered)
    /\ c.ackSent <= Len(delivered) /\ c.wire <= Len(delivered)

LEMMA LegChange ==
    ASSUME RxInv, AckInv, NEW l \in Legs, NEW c, LegNotAhead(c),
           leg' = [leg EXCEPT ![l] = c],
           UNCHANGED <<delivered, closing, done, ackNext, ackl>>,
           ackForce' \in BOOLEAN
    PROVE  AckInv'
<1>1. leg' \in [Legs -> LegType]
  BY DEF AckInv, LegNotAhead
<1>2. \A m \in Legs : leg'[m] = IF m = l THEN c ELSE leg[m]
  BY DEF AckInv
<1>3. AckNeverAhead'
  BY <1>2 DEF AckInv, AckNeverAhead, LegNotAhead
<1> QED BY <1>1, <1>3 DEF AckInv

LEMMA NewLegNotAhead ==
    ASSUME RxInv, NEW phase \in {"none", "up", "closed", "removed"},
           NEW gen \in Nat, NEW joining \in BOOLEAN
    PROVE  LegNotAhead(NewLeg(phase, gen, joining))
<1>1. Len(delivered) \in Nat
  BY DEF RxInv
<1> QED BY <1>1 DEF NewLeg, LegNotAhead, LegType

(* A step that moves only rxLoop, or the flags, keeps the ACK path in order:  *)
(* delivery only grows.                                                       *)
LEMMA DeliveryGrows ==
    ASSUME RxInv, AckInv, RxInv', Len(delivered) <= Len(delivered'),
           UNCHANGED <<leg, ackl>>,
           closing' \in BOOLEAN, done' \in BOOLEAN, ackForce' \in BOOLEAN
    PROVE  AckInv'
<1>1. /\ Len(delivered) \in Nat /\ Len(delivered') \in Nat
      /\ ackNext' \in Nat /\ ackNext' <= Len(delivered')
  BY DEF RxInv, InOrderDelivery
<1>2. ackl \in AckLoopType /\ ackl.next \in Nat /\ ackl.sent \in Nat
  BY DEF AckInv, AckLoopType
<1>3. \A l \in Legs : /\ leg[l].ackPending \in Nat /\ leg[l].wnext \in Nat
                      /\ leg[l].ackSent \in Nat /\ leg[l].wire \in Nat
  BY DEF AckInv, LegType
<1>4. AckNeverAhead'
  BY <1>1, <1>2, <1>3 DEF AckInv, AckNeverAhead
<1> QED BY <1>4 DEF AckInv

(* The engine ends: every open carrier is closed, its ACK values reset. *)
LEMMA EndKeepsAck ==
    ASSUME RxInv, AckInv, leg' = LegsClosed,
           UNCHANGED <<delivered, closing, ackNext, ackl>>,
           done' \in BOOLEAN, ackForce' \in BOOLEAN
    PROVE  AckInv'
<1>1. \A l \in Legs : leg[l] \in LegType /\ LegNotAhead(leg[l])
  BY DEF AckInv, AckNeverAhead, LegNotAhead
<1>2. ASSUME NEW l \in Legs PROVE LegNotAhead(LegsClosed[l])
  <2>1. leg[l].gen \in Nat /\ leg[l].joining \in BOOLEAN
    BY <1>1 DEF LegType
  <2>2. LegNotAhead(NewLeg("closed", leg[l].gen, leg[l].joining))
    BY <2>1, NewLegNotAhead
  <2> QED BY <1>1, <2>2 DEF LegsClosed
<1>3. leg' \in [Legs -> LegType] /\ \A l \in Legs : LegNotAhead(leg'[l])
  BY <1>2 DEF LegsClosed, LegNotAhead
<1> QED BY <1>3 DEF AckInv, AckNeverAhead, LegNotAhead

(* ackLoop's locals change, to values that are not ahead. *)
LEMMA AckLoopChange ==
    ASSUME RxInv, AckInv, ackl' \in AckLoopType,
           ackl'.next <= Len(delivered), ackl'.sent <= Len(delivered),
           UNCHANGED <<delivered, closing, done, ackNext, leg>>,
           ackForce' \in BOOLEAN
    PROVE  AckInv'
BY DEF AckInv, AckNeverAhead

LEMMA AckLoopStep ==
    ASSUME RxInv, AckInv, AckLoop
    PROVE  AckInv'
<1>1. /\ Len(delivered) \in Nat /\ ackNext \in Nat
      /\ ackl \in AckLoopType /\ ackl.next \in Nat /\ ackl.sent \in Nat
      /\ ackl.force \in BOOLEAN /\ ackForce \in BOOLEAN
      /\ ackl.next <= Len(delivered) /\ ackl.sent <= Len(delivered)
      /\ ackNext <= Len(delivered)
  BY DEF RxInv, AckInv, AckNeverAhead, AckLoopType
<1>2. \A n \in Nat : AckLoopIdle(n) \in AckLoopType
                     /\ AckLoopIdle(n).next = 0 /\ AckLoopIdle(n).sent = n
  BY DEF AckLoopIdle, AckLoopType
<1>3. CASE AckLoopTake
  <2>1. ackl' \in AckLoopType /\ ackl'.next = ackNext /\ ackl'.sent = ackl.sent
    BY <1>1, <1>3 DEF AckLoopTake, AckLoopType
  <2> QED BY <1>1, <1>3, <2>1, AckLoopChange DEF AckLoopTake, rxVars
<1>4. CASE AckLoopDecide
  <2>1. availableLegs \in SUBSET (Legs \X Nat)
    BY DEF availableLegs, AckInv, LegType
  <2>2. ackl' \in AckLoopType /\ ackl'.next = ackl.next /\ ackl'.sent = ackl.sent
    BY <1>1, <1>4, <2>1 DEF AckLoopDecide, AckLoopType
  <2> QED BY <1>1, <1>4, <2>2, AckLoopChange DEF AckLoopDecide, rxVars
<1>5. CASE AckLoopRestore
  <2>1. ackl' = AckLoopIdle(ackl.sent)
    BY <1>5 DEF AckLoopRestore
  <2>2. ackForce' \in BOOLEAN
    BY <1>5 DEF AckLoopRestore
  <2> QED BY <1>1, <1>2, <1>5, <2>1, <2>2, AckLoopChange DEF AckLoopRestore, rxVars
<1>6. CASE AckLoopFinish
  <2>1. \E n \in {ackl.next, ackl.sent} : ackl' = AckLoopIdle(n)
    BY <1>6 DEF AckLoopFinish
  <2>2. ackForce' \in BOOLEAN
    BY <1>6 DEF AckLoopFinish
  <2> QED BY <1>1, <1>2, <1>6, <2>1, <2>2, AckLoopChange DEF AckLoopFinish, rxVars
<1>7. CASE \E l \in Legs, g \in 1..MaxAttaches : queueAck(l, g)
  <2>1. PICK l \in Legs, g \in 1..MaxAttaches : queueAck(l, g)
    BY <1>7
  <2>2. /\ ackl' \in AckLoopType /\ ackl'.next = ackl.next /\ ackl'.sent = ackl.sent
    <3> DEFINE rest == ackl.todo \ {<<l, g>>}
    <3>1. rest \in SUBSET (Legs \X Nat)
      BY <1>1 DEF AckLoopType
    <3>2. \/ ackl' = [ackl EXCEPT !.todo = rest, !.scheduled = TRUE]
          \/ ackl' = [ackl EXCEPT !.todo = rest]
      BY <2>1 DEF queueAck
    <3> HIDE DEF rest
    <3> QED BY <1>1, <3>1, <3>2 DEF AckLoopType
  <2>3. /\ UNCHANGED <<delivered, closing, done, ackNext, ackForce>>
    BY <2>1 DEF queueAck, rxVars
  <2>4. CASE leg' = leg
    BY <1>1, <2>2, <2>3, <2>4, AckLoopChange
  <2>5. CASE leg' # leg
    <3> DEFINE c == [leg[l] EXCEPT
                       !.ackPending = IF ackl.next <= @ THEN @ ELSE ackl.next,
                       !.ackForce = @ \/ ackl.force,
                       !.ackWake = \/ @ \/ ackl.force \/ ackl.next > leg[l].ackPending]
    <3>1. leg' = [leg EXCEPT ![l] = c]
      BY <2>1, <2>5 DEF queueAck
    <3>2. leg[l] \in LegType /\ LegNotAhead(leg[l])
      BY DEF AckInv, AckNeverAhead, LegNotAhead
    <3>3. LegNotAhead(c)
      BY <1>1, <3>2 DEF LegNotAhead, LegType
    <3> HIDE DEF c
    <3>4. leg' \in [Legs -> LegType] /\ \A m \in Legs : LegNotAhead(leg'[m])
      BY <3>1, <3>3 DEF AckInv, AckNeverAhead, LegNotAhead
    <3> QED BY <1>1, <2>2, <2>3, <3>4 DEF AckInv, AckNeverAhead, LegNotAhead
  <2> QED BY <2>4, <2>5
<1> QED BY <1>3, <1>4, <1>5, <1>6, <1>7 DEF AckLoop

LEMMA LegStep ==
    ASSUME RxInv, AckInv, NEW l \in Legs,
           LegWriter(l) \/ WriterOtherTraffic(l) \/ LegHandlers(l)
    PROVE  AckInv'
<1> DEFINE c == leg[l]
<1>1. /\ Len(delivered) \in Nat /\ c \in LegType /\ LegNotAhead(c)
      /\ ackForce \in BOOLEAN
  BY DEF RxInv, AckInv, AckNeverAhead, LegNotAhead
<1>2. /\ c.gen \in Nat /\ c.gen + 1 \in Nat /\ c.joining \in BOOLEAN
      /\ c.ackPending \in Nat /\ c.wnext \in Nat /\ c.ackSent \in Nat /\ c.wire \in Nat
  BY <1>1 DEF LegType
<1>3. CASE WriterLoadAck(l)
  <2> DEFINE d == [c EXCEPT !.wnext = c.ackPending, !.wpc = "swap"]
  <2>1. leg' = [leg EXCEPT ![l] = d]
    BY <1>3 DEF WriterLoadAck
  <2>2. LegNotAhead(d)
    BY <1>1, <1>2 DEF LegNotAhead, LegType
  <2> QED BY <1>1, <1>3, <2>1, <2>2, LegChange DEF WriterLoadAck, rxVars, ackVars
<1>4. CASE WriterSendAck(l)
  <2> DEFINE write == c.wnext # 0 /\ (c.wnext > c.ackSent \/ c.ackForce)
             wire == IF write /\ c.wnext > c.wire THEN c.wnext ELSE c.wire
             sent == IF write /\ c.wnext > c.ackSent THEN c.wnext ELSE c.ackSent
             d == [c EXCEPT !.wpc = "wait", !.wnext = 0, !.ackForce = FALSE,
                            !.wire = wire, !.ackSent = sent]
  <2>1. leg' = [leg EXCEPT ![l] = d]
    BY <1>4 DEF WriterSendAck
  <2>2. /\ wire \in {c.wnext, c.wire} /\ sent \in {c.wnext, c.ackSent}
    OBVIOUS
  <2> HIDE DEF wire, sent
  <2>3. /\ wire \in Nat /\ sent \in Nat
        /\ wire <= Len(delivered) /\ sent <= Len(delivered)
    BY <1>1, <1>2, <2>2 DEF LegNotAhead
  <2>4. d \in LegType /\ d.ackPending = c.ackPending /\ d.wnext = 0
        /\ d.wire = wire /\ d.ackSent = sent
    BY <1>1, <2>3 DEF LegType
  <2>5. LegNotAhead(d)
    BY <1>1, <1>2, <2>3, <2>4 DEF LegNotAhead
  <2> QED BY <1>1, <1>4, <2>1, <2>5, LegChange DEF WriterSendAck, rxVars, ackVars
<1>5. CASE WriterWakes(l)
  <2> DEFINE d == [c EXCEPT !.wpc = "top", !.ackWake = FALSE]
  <2>1. leg' = [leg EXCEPT ![l] = d]
    BY <1>5 DEF WriterWakes
  <2>2. LegNotAhead(d)
    BY <1>1 DEF LegNotAhead, LegType
  <2> QED BY <1>1, <1>5, <2>1, <2>2, LegChange DEF WriterWakes, rxVars, ackVars
<1>6. CASE WriterOtherTraffic(l)
  <2> DEFINE d == [c EXCEPT !.wpc = "top"]
  <2>1. leg' = [leg EXCEPT ![l] = d]
    BY <1>6 DEF WriterOtherTraffic
  <2>2. LegNotAhead(d)
    BY <1>1 DEF LegNotAhead, LegType
  <2> QED BY <1>1, <1>6, <2>1, <2>2, LegChange DEF WriterOtherTraffic, rxVars, ackVars
<1>7. CASE AttachPublish(l)
  <2>1. leg' = [leg EXCEPT ![l] = NewLeg("up", c.gen + 1, TRUE)]
    BY <1>7 DEF AttachPublish
  <2>2. LegNotAhead(NewLeg("up", c.gen + 1, TRUE))
    BY <1>2, NewLegNotAhead
  <2> QED BY <1>1, <1>7, <2>1, <2>2, LegChange DEF AttachPublish, rxVars, ackVars
<1>8. CASE AttachForceAck(l)
  <2> DEFINE d == [c EXCEPT !.joining = FALSE]
  <2>1. leg' = [leg EXCEPT ![l] = d] /\ ackForce' \in BOOLEAN
    BY <1>8 DEF AttachForceAck
  <2>2. LegNotAhead(d)
    BY <1>1 DEF LegNotAhead, LegType
  <2> QED BY <1>8, <2>1, <2>2, LegChange DEF AttachForceAck, rxVars
<1>9. CASE FailClose(l)
  <2>1. leg' = [leg EXCEPT ![l] = NewLeg("closed", c.gen, c.joining)]
    BY <1>9 DEF FailClose
  <2>2. LegNotAhead(NewLeg("closed", c.gen, c.joining))
    BY <1>2, NewLegNotAhead
  <2> QED BY <1>1, <1>9, <2>1, <2>2, LegChange DEF FailClose, rxVars, ackVars
<1>10. CASE FailRemove(l)
  <2> DEFINE d == [c EXCEPT !.phase = "removed"]
  <2>1. leg' = [leg EXCEPT ![l] = d]
    BY <1>10 DEF FailRemove
  <2>2. LegNotAhead(d)
    BY <1>1 DEF LegNotAhead, LegType
  <2> QED BY <1>1, <1>10, <2>1, <2>2, LegChange DEF FailRemove, rxVars, ackVars
<1>11. CASE FailForceAck(l)
  <2> DEFINE d == [c EXCEPT !.phase = "none"]
  <2>1. leg' = [leg EXCEPT ![l] = d]
    BY <1>11 DEF FailForceAck
  <2>2. LegNotAhead(d)
    BY <1>1 DEF LegNotAhead, LegType
  <2>3. ackForce' \in BOOLEAN
    BY <1>1, <1>11 DEF FailForceAck
  <2> QED BY <1>11, <2>1, <2>2, <2>3, LegChange DEF FailForceAck, rxVars
<1> QED BY <1>3, <1>4, <1>5, <1>6, <1>7, <1>8, <1>9, <1>10, <1>11
        DEF LegWriter, LegHandlers

LEMMA AckInvStep == RxInv /\ AckInv /\ RxInv' /\ [Next]_vars => AckInv'
<1> SUFFICES ASSUME RxInv, AckInv, RxInv', [Next]_vars PROVE AckInv'
  OBVIOUS
<1>0. Len(delivered) \in Nat /\ ackForce \in BOOLEAN /\ closing \in BOOLEAN
      /\ done \in BOOLEAN
  BY DEF RxInv, AckInv
<1>1. CASE \E seq \in 0..(MaxSeq - 1) : ReceiveFrame(seq)
  <2>1. UNCHANGED <<ackl, delivered, closing, ackNext>> /\ leg' \in {leg, LegsClosed}
        /\ done' \in BOOLEAN /\ ackForce' \in BOOLEAN
    BY <1>1 DEF ReceiveFrame
  <2> QED BY <1>0, <2>1, DeliveryGrows, EndKeepsAck
<1>2. CASE DeliverFrame
  <2>1. UNCHANGED <<leg, ackl, closing, done, ackForce>>
        /\ delivered' = Append(delivered, rxFrame)
    BY <1>2 DEF DeliverFrame
  <2>2. Len(delivered) <= Len(delivered')
    BY <1>0, <2>1 DEF RxInv
  <2> QED BY <1>0, <2>1, <2>2, DeliveryGrows
<1>3. CASE DeliverFails
  <2>1. UNCHANGED <<ackl, delivered, closing, ackNext, ackForce>>
        /\ leg' \in {leg, LegsClosed} /\ done' \in BOOLEAN
    BY <1>3 DEF DeliverFails
  <2> QED BY <1>0, <2>1, DeliveryGrows, EndKeepsAck
<1>4. CASE RxLoopStops
  BY <1>0, <1>4, DeliveryGrows DEF RxLoopStops
<1>5. CASE StartGracefulClose
  BY <1>0, <1>5, DeliveryGrows DEF StartGracefulClose
<1>9. CASE failWithAppClose
  BY <1>0, <1>9, EndKeepsAck DEF failWithAppClose, rxVars, ackVars
<1>6. CASE AckLoop
  BY <1>6, AckLoopStep
<1>7. CASE \E l \in Legs : LegWriter(l) \/ WriterOtherTraffic(l) \/ LegHandlers(l)
  BY <1>7, LegStep
<1>8. CASE UNCHANGED vars
  BY <1>0, <1>8, DeliveryGrows DEF vars
<1> QED BY <1>1, <1>2, <1>3, <1>4, <1>5, <1>6, <1>7, <1>8, <1>9 DEF Next
-------------------------------------------------------------------------------
LEMMA Invariance == Spec => [](RxInv /\ AckInv)
<1>1. Init => RxInv /\ AckInv
  BY RxInvInit, AckInvInit
<1>2. RxInv /\ AckInv /\ [Next]_vars => (RxInv /\ AckInv)'
  BY RxInvStep, AckInvStep
<1> QED BY <1>1, <1>2, PTL DEF Spec

(* Type correctness of the receiving half of StreamEngine. *)
THEOREM TypeCorrect == Spec => []TypeOK
<1>1. RxInv /\ AckInv => TypeOK
  BY DEF RxInv, AckInv, TypeOK
<1> QED BY <1>1, Invariance, PTL

(* Whatever the carriers do and however many there are, rxLoop hands the      *)
(* application each ordinal once and in order.                                *)
THEOREM DeliversInOrder == Spec => []InOrderDelivery
<1>1. RxInv => InOrderDelivery
  BY DEF RxInv
<1> QED BY <1>1, Invariance, PTL

(* No ACK value anywhere between requestAck and a carrier is ever ahead of    *)
(* what the application was given, through every race of ackLoop, the         *)
(* writers, attachLeg and handleLegFailure.                                   *)
THEOREM AcksOnlyDelivered == Spec => []AckNeverAhead
<1>1. AckInv => AckNeverAhead
  BY DEF AckInv
<1> QED BY <1>1, Invariance, PTL

(* For every reorder limit: between frames the window is within it, holds     *)
(* nothing deliverable, and everything delivered has been acknowledged.       *)
THEOREM WindowRests == Spec => []WindowAtRest
<1>1. RxInv => WindowAtRest
  BY DEF RxInv, WindowAtRest
<1> QED BY <1>1, Invariance, PTL

(* The age refreshGap reports is that of the hole at expected, if any. *)
THEOREM GapIsTruthful == Spec => []GapTruthful
<1>1. RxInv => GapTruthful
  BY DEF RxInv
<1> QED BY <1>1, Invariance, PTL

(* A window that has a truthful gap stamp keeps it when a frame is retained. *)
LEMMA InsertKeepsGap ==
    ASSUME NEW w \in WindowType, NEW seq \in Nat, NEW t \in Nat \ {0},
           w.gapSince # NoTime, w.gapExpected = w.expected
    PROVE  Insert(w, seq, t).gapSince = w.gapSince
<1> DEFINE u == [w EXCEPT !.pending = @ \cup {seq}]
<1>1. /\ u \in WindowType /\ u.pending # {} /\ u.gapSince = w.gapSince
      /\ u.gapExpected = w.gapExpected /\ u.expected = w.expected
  BY DEF WindowType
<1>2. refreshGap(u, t) = u
  <2> HIDE DEF u
  <2> QED BY <1>1 DEF refreshGap
<1>3. CASE Disposition(w, seq) = "ready"
  <2>1. Insert(w, seq, t) = [w EXCEPT !.readyPending = TRUE]
    BY <1>3 DEF Insert
  <2> QED BY <2>1 DEF WindowType
<1>4. CASE Disposition(w, seq) = "buffered"
  <2>1. Insert(w, seq, t) = refreshGap(u, t)
    BY <1>4 DEF Insert
  <2> QED BY <1>1, <1>2, <2>1
<1>5. CASE Disposition(w, seq) \notin {"ready", "buffered"}
  BY <1>5 DEF Insert
<1> QED BY <1>3, <1>4, <1>5

(* The step GapKeepsItsAge allows. *)
GapStep ==
    /\ window.gapSince # NoTime
    /\ window'.gapSince # window.gapSince
    => window'.expected # window.expected \/ window'.pending = {}

LEMMA GapSteps == RxInv /\ [Next]_vars => GapStep
<1> SUFFICES ASSUME RxInv, [Next]_vars PROVE GapStep
  OBVIOUS
<1>0. window \in WindowType /\ window.expected \in Nat /\ now \in Nat \ {0}
  BY DEF RxInv, WindowType
<1>1. ASSUME NEW seq \in 0..(MaxSeq - 1), ReceiveFrame(seq) PROVE GapStep
  <2>1. /\ rxPC = "select" /\ seq \in Nat /\ now' \in Nat \ {0}
        /\ \/ window' = DrainPending(window)
           \/ window' = Insert(window, seq, now')
    BY <1>0, <1>1, ReceiverAssumption DEF ReceiveFrame
  <2>2. CASE window' = DrainPending(window)
    BY <1>0, <2>2, DrainPendingResult DEF GapStep
  <2>3. CASE window' = Insert(window, seq, now')
    <3>1. window.gapSince # NoTime => window.gapExpected = window.expected
      BY <2>1 DEF RxInv, GapTruthful
    <3> QED BY <1>0, <2>1, <2>3, <3>1, InsertKeepsGap DEF GapStep
  <2> QED BY <2>1, <2>2, <2>3
<1>2. CASE DeliverFrame
  <2>1. window.readyPending /\ window' = PopContiguous(CommitReady(window, now))
    BY <1>2 DEF DeliverFrame, RxInv
  <2>2. window'.expected = window.expected + 1
    BY <1>0, <2>1, CommitReadyResult, PopContiguousResult
  <2> QED BY <1>0, <2>2 DEF GapStep
<1>3. CASE DeliverFails \/ RxLoopStops
  BY <1>0, <1>3, DrainPendingResult DEF DeliverFails, RxLoopStops, GapStep
<1>4. ASSUME window' = window PROVE GapStep
  BY <1>4 DEF GapStep
<1>5. CASE StartGracefulClose \/ failWithAppClose
  BY <1>4, <1>5 DEF StartGracefulClose, failWithAppClose, rxVars
<1>6. CASE AckLoop
  BY <1>4, <1>6 DEF AckLoop, AckLoopTake, AckLoopDecide, AckLoopRestore,
                    AckLoopFinish, queueAck, rxVars
<1>7. CASE \E l \in Legs : LegWriter(l) \/ WriterOtherTraffic(l) \/ LegHandlers(l)
  BY <1>4, <1>7 DEF LegWriter, WriterLoadAck, WriterSendAck, WriterWakes,
                    WriterOtherTraffic, LegHandlers, AttachPublish, AttachForceAck,
                    FailClose, FailRemove, FailForceAck, rxVars
<1>8. CASE UNCHANGED vars
  BY <1>4, <1>8 DEF vars
<1> QED BY <1>1, <1>2, <1>3, <1>5, <1>6, <1>7, <1>8 DEF Next

(* Frames that arrive behind a hole never renew its age, for every limit. *)
THEOREM GapAges == Spec => GapKeepsItsAge
<1>1. RxInv /\ [Next]_vars => [GapStep]_vars
  BY GapSteps
<1>2. Spec => [][GapStep]_vars
  BY <1>1, Invariance, PTL DEF Spec
<1> QED BY <1>2 DEF GapKeepsItsAge, GapStep
===============================================================================
