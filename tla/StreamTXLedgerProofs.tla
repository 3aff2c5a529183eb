------------------------- MODULE StreamTXLedgerProofs -------------------------
(* Proofs about the ledger, for any legs, sizes and bounds: it holds exactly  *)
(* the unacknowledged window, its head is stamped, and each leg's frame count *)
(* is the number of records the leg owns.  (What the byte sums of a fold are  *)
(* is beyond the prover; TLC checks ByteAccounting.)                          *)
EXTENDS StreamTXLedgerSpec, FiniteSetTheorems, TLAPS

LedgerInv ==
    /\ LedgerTypeOK
    /\ OutstandingIsWindow
    /\ FrontierStamped
    /\ FrameAccounting

(* What a caller may do to a record without disturbing the ledger's account   *)
(* of it.                                                                     *)
SameAccount(r, q) ==
    /\ q \in StreamTXRecord
    /\ q.frontier = r.frontier /\ q.ordinaryOwner = r.ordinaryOwner

LEMMA DropTransitAccount ==
    ASSUME NEW r \in StreamTXRecord
    PROVE  SameAccount(r, dropTransit(r))
BY ZenonT(60) DEF dropTransit, SameAccount, StreamTXRecord, NoLeg, NoTime

LEMMA DropRescueAccount ==
    ASSUME NEW r \in StreamTXRecord
    PROVE  SameAccount(r, dropRescue(r))
BY ZenonT(60) DEF dropRescue, SameAccount, StreamTXRecord, NoLeg, NoTime

LEMMA SentAccount ==
    ASSUME NEW r \in StreamTXRecord, NEW l \in Legs, NEW rescue \in BOOLEAN
    PROVE  SameAccount(r, sentRecord(r, l, rescue))
<1> DEFINE started == IF rescue THEN r.rescueSince ELSE r.transitSince
           newest == started >= r.lastSentAttemptAt
           over == IF rescue
                   THEN [r EXCEPT !.rescueInTransit = FALSE, !.rescueLeg = NoLeg,
                                  !.rescueSince = NoTime]
                   ELSE dropTransit(r)
<1>1. started \in Nat /\ SameAccount(r, over)
  BY ZenonT(60), DropTransitAccount DEF SameAccount, StreamTXRecord, NoLeg, NoTime
<1>2. sentRecord(r, l, rescue) =
        [over EXCEPT !.lastSentAttemptAt = IF newest THEN started ELSE @,
                     !.lastSentLeg = IF newest THEN l ELSE @,
                     !.written = TRUE, !.sendCount = @ + 1]
  BY DEF sentRecord
<1> HIDE DEF over, started, newest
<1> DEFINE at == IF newest THEN started ELSE over.lastSentAttemptAt
           on == IF newest THEN l ELSE over.lastSentLeg
           n == over.sendCount + 1
<1>3. over \in StreamTXRecord
  BY <1>1 DEF SameAccount
<1>4. at \in Nat /\ on \in Legs \cup {NoLeg} /\ n \in Nat
  BY SMTT(30), <1>1, <1>3 DEF StreamTXRecord
<1>5. sentRecord(r, l, rescue) =
        [over EXCEPT !.lastSentAttemptAt = at, !.lastSentLeg = on,
                     !.written = TRUE, !.sendCount = n]
  BY <1>2
<1> HIDE DEF at, on, n
<1>6. SameAccount(over, sentRecord(r, l, rescue))
  BY ZenonT(60), <1>3, <1>4, <1>5 DEF SameAccount, StreamTXRecord
<1> QED BY <1>1, <1>6 DEF SameAccount

LEMMA InvalidatedAccount ==
    ASSUME NEW r \in StreamTXRecord, NEW l \in Legs
    PROVE  SameAccount(r, invalidatedRecord(r, l))
<1> DEFINE a == IF r.ordinaryOwner = l THEN [r EXCEPT !.duplicated = TRUE] ELSE r
           b == IF a.inTransit /\ a.transitLeg = l THEN dropTransit(a) ELSE a
           c == IF b.rescueInTransit /\ b.rescueLeg = l THEN dropRescue(b) ELSE b
           d == IF c.lastSentLeg = l THEN [c EXCEPT !.lastSentLeg = NoLeg] ELSE c
<1>1. SameAccount(r, a)
  <2>1. SameAccount(r, [r EXCEPT !.duplicated = TRUE])
    BY ZenonT(60) DEF SameAccount, StreamTXRecord
  <2> QED BY <2>1 DEF SameAccount
<1>2. SameAccount(a, b)
  <2> HIDE DEF a
  <2> QED BY <1>1, DropTransitAccount DEF SameAccount
<1>3. SameAccount(b, c)
  <2> HIDE DEF b
  <2> QED BY <1>2, DropRescueAccount DEF SameAccount
<1>4. SameAccount(c, d)
  <2> HIDE DEF c
  <2> QED BY ZenonT(60), <1>3 DEF SameAccount, StreamTXRecord
<1>5. invalidatedRecord(r, l) = d
  BY DEF invalidatedRecord
<1> HIDE DEF a, b, c, d
<1> QED BY <1>1, <1>2, <1>3, <1>4, <1>5 DEF SameAccount
-------------------------------------------------------------------------------
(* A call that changes records but no account of them. *)
LEMMA RecordsChange ==
    ASSUME LedgerInv,
           outstanding' \in [Outstanding -> StreamTXRecord],
           \A s \in Outstanding : SameAccount(outstanding[s], outstanding'[s]),
           UNCHANGED <<ackState, ordinaryFrames>>,
           clock' \in Nat
    PROVE  LedgerInv'
<1>1. UNCHANGED <<nextSequence, ackedNext, futureACKCount, ordinaryFrames>>
  BY DEF ackState
<1>2. Outstanding' = Outstanding
  BY DEF Outstanding
<1>3. \A l \in Legs : OwnedBy(Outstanding, l)' = OwnedBy(Outstanding, l)
  BY <1>2 DEF OwnedBy, SameAccount
<1>4. LedgerTypeOK'
  BY <1>1, <1>2 DEF LedgerInv, LedgerTypeOK
<1>5. FrontierStamped'
  BY <1>1, <1>2 DEF LedgerInv, FrontierStamped, SameAccount
<1>6. FrameAccounting'
  BY <1>1, <1>2, <1>3 DEF LedgerInv, FrameAccounting
<1> QED BY <1>1, <1>2, <1>4, <1>5, <1>6 DEF LedgerInv, OutstandingIsWindow

LEMMA UpdateAccount ==
    ASSUME LedgerInv, NEW seq \in Outstanding, NEW q,
           SameAccount(outstanding[seq], q), Update(seq, q), clock' \in Nat
    PROVE  LedgerInv'
<1>1. outstanding \in [Outstanding -> StreamTXRecord]
  BY DEF LedgerInv, LedgerTypeOK
<1>2. outstanding' = [outstanding EXCEPT ![seq] = q]
  BY DEF Update
<1>3. outstanding' \in [Outstanding -> StreamTXRecord]
  BY <1>1, <1>2 DEF SameAccount
<1>4. \A s \in Outstanding : SameAccount(outstanding[s], outstanding'[s])
  BY <1>1, <1>2 DEF SameAccount
<1> QED BY <1>3, <1>4, RecordsChange DEF Update, ordinaryVars

LEMMA LedgerUnchanged ==
    ASSUME LedgerInv, UNCHANGED ledgerVars, clock' \in Nat
    PROVE  LedgerInv'
BY DEF LedgerInv, ledgerVars, LedgerTypeOK, OutstandingIsWindow, FrontierStamped,
       FrameAccounting, OwnedBy, Outstanding
-------------------------------------------------------------------------------
LEMMA LedgerInvInit == LedgerInit => LedgerInv
<1> SUFFICES ASSUME LedgerInit PROVE LedgerInv
  OBVIOUS
<1>1. /\ nextSequence = 0 /\ ackedNext = 0 /\ futureACKCount = 0 /\ clock = 0
      /\ outstanding = <<>> /\ ordinaryFrames = [l \in Legs |-> 0]
  BY DEF LedgerInit, Init
<1>2. Outstanding = {} /\ outstanding \in [Outstanding -> StreamTXRecord]
  BY <1>1 DEF Outstanding
<1>3. \A l \in Legs : Cardinality(OwnedBy(Outstanding, l)) = 0
  BY <1>2, FS_EmptySet DEF OwnedBy
<1> QED BY <1>1, <1>2, <1>3 DEF LedgerInv, LedgerTypeOK, OutstandingIsWindow,
                               FrontierStamped, FrameAccounting

LEMMA AddStep == LedgerInv /\ AddRecord => LedgerInv'
<1> SUFFICES ASSUME LedgerInv, AddRecord PROVE LedgerInv'
  OBVIOUS
<1>1. PICK size \in Sizes, local \in BOOLEAN : add(size, local)
  BY DEF AddRecord
<1> DEFINE r == newRecord(size, local, nextSequence = ackedNext)
<1>2. /\ nextSequence' = nextSequence + 1 /\ ackedNext' = ackedNext
      /\ futureACKCount' = futureACKCount /\ ordinaryFrames' = ordinaryFrames
      /\ clock' = clock
      /\ outstanding' = [s \in Outstanding \cup {nextSequence} |->
                            IF s = nextSequence THEN r ELSE outstanding[s]]
  BY <1>1 DEF add, ordinaryVars, AddRecord
<1>3. /\ r \in StreamTXRecord /\ r.ordinaryOwner = NoLeg
      /\ r.frontier = (nextSequence = ackedNext)
  BY ZenonT(60) DEF newRecord, StreamTXRecord, NoLeg, NoTime
<1> HIDE DEF r
<1>4. /\ nextSequence \in Nat /\ ackedNext \in Nat /\ ackedNext <= nextSequence
      /\ Outstanding = ackedNext..(nextSequence - 1)
      /\ outstanding \in [Outstanding -> StreamTXRecord]
  BY DEF LedgerInv, LedgerTypeOK, OutstandingIsWindow
<1>5. Outstanding' = Outstanding \cup {nextSequence} /\ nextSequence \notin Outstanding
  BY <1>2, <1>4 DEF Outstanding
<1>6. OutstandingIsWindow'
  BY <1>2, <1>4, <1>5 DEF OutstandingIsWindow
<1>7. LedgerTypeOK'
  BY <1>2, <1>3, <1>4, <1>5 DEF LedgerInv, LedgerTypeOK
<1>8. FrontierStamped'
  BY <1>2, <1>3, <1>4, <1>5 DEF LedgerInv, FrontierStamped
<1>9. \A l \in Legs : OwnedBy(Outstanding, l)' = OwnedBy(Outstanding, l)
  BY <1>2, <1>3, <1>5, LegsAssumption DEF OwnedBy
<1>10. FrameAccounting'
  BY <1>2, <1>9 DEF LedgerInv, FrameAccounting
<1> QED BY <1>6, <1>7, <1>8, <1>10 DEF LedgerInv

LEMMA MarkStep ==
    ASSUME LedgerInv, NEW seq \in Outstanding, NEW l \in Legs, MarkCall(seq, l)
    PROVE  LedgerInv'
<1> DEFINE r == outstanding[seq]
<1>1. r \in StreamTXRecord /\ clock' \in Nat
  BY DEF LedgerInv, LedgerTypeOK, MarkCall
<1>2. CASE MarkTransit(seq, l, clock')
  <2> DEFINE q == [r EXCEPT !.inTransit = TRUE, !.transitLeg = l,
                            !.transitSince = clock',
                            !.duplicated = @ \/ r.sendCount > 0]
  <2>1. SameAccount(r, q)
    BY ZenonT(60), <1>1 DEF SameAccount, StreamTXRecord
  <2>2. Update(seq, q)
    BY <1>2 DEF MarkTransit
  <2> QED BY <1>1, <2>1, <2>2, UpdateAccount
<1>3. CASE MarkRescueTransit(seq, l, clock')
  <2> DEFINE q == [r EXCEPT !.rescueInTransit = TRUE, !.rescueLeg = l,
                            !.rescueSince = clock', !.duplicated = TRUE]
  <2>1. SameAccount(r, q)
    BY ZenonT(60), <1>1 DEF SameAccount, StreamTXRecord
  <2>2. Update(seq, q)
    BY <1>3 DEF MarkRescueTransit
  <2> QED BY <1>1, <2>1, <2>2, UpdateAccount
<1> QED BY <1>2, <1>3 DEF MarkCall, MarkRestrictedRescueTransit

LEMMA AttemptStep ==
    ASSUME LedgerInv, NEW seq \in Outstanding, NEW l \in Legs, AttemptCall(seq, l)
    PROVE  LedgerInv'
<1> DEFINE r == outstanding[seq]
<1>1. r \in StreamTXRecord /\ clock' \in Nat /\ 1..clock \subseteq Nat
  BY DEF LedgerInv, LedgerTypeOK, AttemptCall
<1>2. CASE finishLocalEnqueue(seq)
  <2> DEFINE q == [r EXCEPT !.localEnqueue = FALSE]
  <2>1. SameAccount(r, q)
    BY ZenonT(60), <1>1 DEF SameAccount, StreamTXRecord
  <2>2. Update(seq, q)
    BY <1>2 DEF finishLocalEnqueue
  <2> QED BY <1>1, <2>1, <2>2, UpdateAccount
<1>3. CASE \E at \in 1..clock : MarkRescueQueued(seq, l, at)
  <2>1. PICK at \in 1..clock : MarkRescueQueued(seq, l, at)
    BY <1>3
  <2> DEFINE q == [r EXCEPT !.lastRescueAt = at]
  <2>2. SameAccount(r, q)
    BY ZenonT(60), <1>1 DEF SameAccount, StreamTXRecord
  <2>3. Update(seq, q)
    BY <2>1 DEF MarkRescueQueued
  <2> QED BY <1>1, <2>2, <2>3, UpdateAccount
<1>4. CASE \E at \in 1..clock, rescue \in BOOLEAN : clearAttemptAt(seq, l, rescue, at)
  <2>1. \/ Update(seq, dropRescue(r)) \/ Update(seq, dropTransit(r))
        \/ UNCHANGED ledgerVars
    BY <1>4 DEF clearAttemptAt
  <2> QED BY <1>1, <2>1, DropRescueAccount, DropTransitAccount, UpdateAccount,
             LedgerUnchanged
<1>5. CASE \E rescue \in BOOLEAN : MarkAttemptSent(seq, l, rescue)
  <2>1. \/ \E rescue \in BOOLEAN : Update(seq, sentRecord(r, l, rescue))
        \/ UNCHANGED ledgerVars
    BY <1>5 DEF MarkAttemptSent
  <2> QED BY <1>1, <2>1, SentAccount, UpdateAccount, LedgerUnchanged
<1>6. CASE \E rescue \in BOOLEAN : markWriteStarted(seq, l, rescue)
  <2> DEFINE q == [r EXCEPT !.written = TRUE]
  <2>1. SameAccount(r, q)
    BY ZenonT(60), <1>1 DEF SameAccount, StreamTXRecord
  <2>2. Update(seq, q) \/ UNCHANGED ledgerVars
    BY <1>6 DEF markWriteStarted
  <2> HIDE DEF q
  <2> QED BY <1>1, <2>1, <2>2, UpdateAccount, LedgerUnchanged
<1> QED BY <1>2, <1>3, <1>4, <1>5, <1>6 DEF AttemptCall

LEMMA InvalidateStep ==
    ASSUME LedgerInv, NEW l \in Legs, InvalidateCall(l)
    PROVE  LedgerInv'
<1>1. /\ outstanding \in [Outstanding -> StreamTXRecord] /\ clock' \in Nat
      /\ outstanding' = [s \in Outstanding |-> invalidatedRecord(outstanding[s], l)]
      /\ UNCHANGED <<ackState, ordinaryFrames>>
  BY DEF LedgerInv, LedgerTypeOK, InvalidateCall, InvalidateLeg, ordinaryVars
<1>2. \A s \in Outstanding : SameAccount(outstanding[s], outstanding'[s])
  BY <1>1, InvalidatedAccount
<1>3. outstanding' \in [Outstanding -> StreamTXRecord]
  BY <1>1, <1>2 DEF SameAccount
<1> QED BY <1>1, <1>2, <1>3, RecordsChange

LEMMA AdmitStep ==
    ASSUME LedgerInv, NEW seq \in Outstanding, NEW l \in Legs,
           markOrdinaryAdmitted(seq, l), UNCHANGED clock
    PROVE  LedgerInv'
<1>1. /\ outstanding \in [Outstanding -> StreamTXRecord] /\ clock' \in Nat
      /\ outstanding' = [outstanding EXCEPT ![seq] =
                            [outstanding[seq] EXCEPT !.ordinaryAdmitted = TRUE]]
      /\ UNCHANGED <<ackState, ordinaryFrames>>
  BY DEF LedgerInv, LedgerTypeOK, markOrdinaryAdmitted
<1>2. SameAccount(outstanding[seq], [outstanding[seq] EXCEPT !.ordinaryAdmitted = TRUE])
  BY ZenonT(60), <1>1 DEF SameAccount, StreamTXRecord
<1>3. outstanding' \in [Outstanding -> StreamTXRecord]
      /\ \A s \in Outstanding : SameAccount(outstanding[s], outstanding'[s])
  BY <1>1, <1>2 DEF SameAccount
<1> QED BY <1>1, <1>3, RecordsChange

(* The outstanding records are finitely many, and so are those of one owner. *)
LEMMA FinitelyOwned ==
    ASSUME LedgerInv, NEW l
    PROVE  /\ IsFiniteSet(Outstanding) /\ IsFiniteSet(OwnedBy(Outstanding, l))
           /\ Cardinality(OwnedBy(Outstanding, l)) \in Nat
<1>1. IsFiniteSet(Outstanding)
  BY FS_Interval DEF LedgerInv, LedgerTypeOK, OutstandingIsWindow
<1>2. OwnedBy(Outstanding, l) \subseteq Outstanding
  BY DEF OwnedBy
<1> QED BY <1>1, <1>2, FS_Subset, FS_CardinalityType

(* assignOrdinary moves one frame from the old owner's count to the new one's. *)
LEMMA AssignStep ==
    ASSUME LedgerInv, NEW seq \in Outstanding, NEW id \in Legs,
           assignOrdinary(seq, id), UNCHANGED clock
    PROVE  LedgerInv'
<1> DEFINE r == outstanding[seq]
           q == [r EXCEPT !.ordinaryOwner = id]
           old == r.ordinaryOwner
           own(l) == OwnedBy(Outstanding, l)
<1>1. /\ outstanding \in [Outstanding -> StreamTXRecord] /\ clock' \in Nat
      /\ ordinaryFrames \in [Legs -> Nat]
      /\ outstanding' = [outstanding EXCEPT ![seq] = q]
      /\ UNCHANGED <<nextSequence, ackedNext, futureACKCount>>
  BY DEF LedgerInv, LedgerTypeOK, assignOrdinary, ackState
<1>2. ordinaryFrames' = [l \in Legs |-> ordinaryFrames[l] +
          (IF ~(old # id) THEN 0 ELSE IF l = id THEN 1 ELSE IF l = old THEN -1 ELSE 0)]
  BY DEF assignOrdinary
<1>3. /\ r \in StreamTXRecord /\ q \in StreamTXRecord
      /\ q.ordinaryOwner = id /\ q.frontier = r.frontier
  BY ZenonT(60), <1>1 DEF StreamTXRecord
<1> HIDE DEF q
<1>4. /\ outstanding' \in [Outstanding -> StreamTXRecord] /\ Outstanding' = Outstanding
      /\ \A s \in Outstanding : outstanding'[s] = IF s = seq THEN q ELSE outstanding[s]
  BY <1>1, <1>3 DEF Outstanding
<1>5. OutstandingIsWindow' /\ FrontierStamped'
  BY <1>1, <1>3, <1>4 DEF LedgerInv, OutstandingIsWindow, FrontierStamped
<1>6. ASSUME NEW l \in Legs
      PROVE  /\ ordinaryFrames'[l] = Cardinality(OwnedBy(Outstanding, l)')
             /\ ordinaryFrames'[l] \in Nat
  <2>1. /\ IsFiniteSet(own(l)) /\ Cardinality(own(l)) \in Nat
        /\ ordinaryFrames[l] = Cardinality(own(l))
    BY FinitelyOwned DEF LedgerInv, FrameAccounting
  <2>2. CASE old = id
    <3>1. OwnedBy(Outstanding, l)' = own(l)
      BY <1>3, <1>4, <2>2 DEF OwnedBy
    <3> QED BY <1>2, <2>1, <2>2, <3>1
  <2>3. CASE old # id /\ l = id
    <3>1. OwnedBy(Outstanding, l)' = own(l) \cup {seq} /\ seq \notin own(l)
      BY <1>3, <1>4, <2>3 DEF OwnedBy
    <3>2. Cardinality(own(l) \cup {seq}) = Cardinality(own(l)) + 1
      BY <2>1, <3>1, FS_AddElement
    <3> QED BY <1>2, <2>1, <2>3, <3>1, <3>2
  <2>4. CASE old # id /\ l # id /\ l = old
    <3>1. OwnedBy(Outstanding, l)' = own(l) \ {seq} /\ seq \in own(l)
      BY <1>3, <1>4, <2>4 DEF OwnedBy
    <3>2. Cardinality(own(l) \ {seq}) = Cardinality(own(l)) - 1
      BY <2>1, <3>1, FS_RemoveElement
    <3>3. IsFiniteSet(own(l) \ {seq})
      BY <2>1, FS_Subset
    <3> QED BY <1>2, <2>1, <2>4, <3>1, <3>2, <3>3, FS_CardinalityType
  <2>5. CASE old # id /\ l # id /\ l # old
    <3>1. OwnedBy(Outstanding, l)' = own(l)
      BY <1>3, <1>4, <2>5 DEF OwnedBy
    <3> QED BY <1>2, <2>1, <2>5, <3>1
  <2> QED BY <2>2, <2>3, <2>4, <2>5
<1>7. ordinaryFrames' \in [Legs -> Nat] /\ FrameAccounting'
  BY <1>2, <1>6 DEF FrameAccounting
<1>8. LedgerTypeOK'
  BY <1>1, <1>4, <1>7 DEF LedgerInv, LedgerTypeOK
<1> QED BY <1>5, <1>7, <1>8 DEF LedgerInv

LEMMA CardinalityRest ==
    ASSUME NEW S, NEW T, IsFiniteSet(S), T \subseteq S
    PROVE  Cardinality(S \ T) = Cardinality(S) - Cardinality(T)
<1>1. S \cap T = T
  OBVIOUS
<1> QED BY <1>1, FS_Difference

(* ApplyACK retires the records below next and stamps the new head. *)
LEMMA AckAdvanceStep ==
    ASSUME LedgerInv, NEW next \in Nat, ApplyACKAdvanced(next), UNCHANGED clock
    PROVE  LedgerInv'
<1> DEFINE own(l) == OwnedBy(Outstanding, l)
           gone(l) == OwnedBy(Retired(next), l)
           stamped(s) == [outstanding[s] EXCEPT !.frontier = @ \/ s = next]
<1>1. /\ nextSequence \in Nat /\ ackedNext \in Nat /\ clock' \in Nat
      /\ Outstanding = ackedNext..(nextSequence - 1)
      /\ outstanding \in [Outstanding -> StreamTXRecord]
      /\ ordinaryFrames \in [Legs -> Nat]
  BY DEF LedgerInv, LedgerTypeOK, OutstandingIsWindow
<1>2. /\ ackedNext < next /\ next <= nextSequence /\ ackedNext' = next
      /\ UNCHANGED <<nextSequence, futureACKCount>>
      /\ outstanding' = [s \in Outstanding \ Retired(next) |-> stamped(s)]
      /\ ordinaryFrames' = [l \in Legs |-> ordinaryFrames[l] - Cardinality(gone(l))]
  BY Zenon DEF ApplyACKAdvanced
<1>3. \A s \in Outstanding : /\ stamped(s) \in StreamTXRecord
                             /\ stamped(s).ordinaryOwner = outstanding[s].ordinaryOwner
                             /\ s = next => stamped(s).frontier
  <2> SUFFICES ASSUME NEW s \in Outstanding
               PROVE  /\ stamped(s) \in StreamTXRecord
                      /\ stamped(s).ordinaryOwner = outstanding[s].ordinaryOwner
                      /\ s = next => stamped(s).frontier
    OBVIOUS
  <2> DEFINE r == outstanding[s]
             f == r.frontier \/ s = next
  <2>1. r \in StreamTXRecord /\ f \in BOOLEAN /\ (s = next => f)
    BY <1>1
  <2>2. stamped(s) = [r EXCEPT !.frontier = f]
    OBVIOUS
  <2> HIDE DEF r, f, stamped
  <2>3. /\ stamped(s) \in StreamTXRecord /\ stamped(s).frontier = f
        /\ stamped(s).ordinaryOwner = r.ordinaryOwner
    BY ZenonT(60), <2>1, <2>2 DEF StreamTXRecord
  <2> QED BY <2>1, <2>3 DEF r
<1> HIDE DEF stamped
<1>4. /\ Outstanding' = Outstanding \ Retired(next)
      /\ outstanding' \in [Outstanding' -> StreamTXRecord]
      /\ \A s \in Outstanding' : outstanding'[s] = stamped(s)
  BY <1>2, <1>3 DEF Outstanding
<1>5. OutstandingIsWindow'
  BY <1>1, <1>2, <1>4 DEF OutstandingIsWindow, Retired
<1>6. FrontierStamped'
  BY <1>2, <1>3, <1>4 DEF FrontierStamped
<1>7. ASSUME NEW l \in Legs
      PROVE  /\ ordinaryFrames'[l] \in Nat
             /\ ordinaryFrames'[l] = Cardinality(OwnedBy(Outstanding, l)')
  <2>1. /\ IsFiniteSet(own(l)) /\ Cardinality(own(l)) \in Nat
        /\ ordinaryFrames[l] = Cardinality(own(l))
    BY FinitelyOwned DEF LedgerInv, FrameAccounting
  <2>2. gone(l) \subseteq own(l)
    BY DEF OwnedBy, Retired
  <2>3. OwnedBy(Outstanding, l)' = own(l) \ gone(l)
    <3>1. OwnedBy(Outstanding, l)' =
            {s \in Outstanding \ Retired(next) : stamped(s).ordinaryOwner = l}
      BY <1>4 DEF OwnedBy
    <3>2. @ = {s \in Outstanding \ Retired(next) : outstanding[s].ordinaryOwner = l}
      BY <1>3
    <3>3. @ = own(l) \ gone(l)
      BY DEF OwnedBy
    <3> QED BY <3>1, <3>2, <3>3
  <2>5. IsFiniteSet(gone(l)) /\ Cardinality(gone(l)) \in Nat
    BY <2>1, <2>2, FS_Subset, FS_CardinalityType
  <2>6. Cardinality(own(l) \ gone(l)) = Cardinality(own(l)) - Cardinality(gone(l))
    BY <2>1, <2>2, CardinalityRest
  <2>7. Cardinality(own(l) \ gone(l)) \in Nat
    BY <2>1, FS_Subset, FS_CardinalityType
  <2> QED BY <1>2, <2>1, <2>3, <2>5, <2>6, <2>7
<1>8. ordinaryFrames' \in [Legs -> Nat] /\ FrameAccounting'
  BY <1>2, <1>7 DEF FrameAccounting
<1>9. LedgerTypeOK'
  BY <1>1, <1>2, <1>4, <1>8 DEF LedgerInv, LedgerTypeOK
<1> QED BY <1>5, <1>6, <1>8, <1>9 DEF LedgerInv

(* A future ACK is counted and changes nothing else. *)
LEMMA AckFutureStep ==
    ASSUME LedgerInv, NEW next \in Nat, ApplyACKFuture(next), UNCHANGED clock
    PROVE  LedgerInv'
<1>1. UNCHANGED <<nextSequence, ackedNext, outstanding, ordinaryFrames>>
      /\ futureACKCount' = futureACKCount + 1
  BY DEF ApplyACKFuture, ordinaryVars
<1> QED BY <1>1 DEF LedgerInv, LedgerTypeOK, OutstandingIsWindow, FrontierStamped,
                    FrameAccounting, OwnedBy, Outstanding

LEMMA LedgerInvStep == LedgerInv /\ [LedgerNext]_vars => LedgerInv'
<1> SUFFICES ASSUME LedgerInv, [LedgerNext]_vars PROVE LedgerInv'
  OBVIOUS
<1>0. clock \in Nat
  BY DEF LedgerInv, LedgerTypeOK
<1>1. CASE AddRecord
  BY <1>1, AddStep
<1>2. ASSUME NEW seq \in Outstanding, NEW l \in Legs, MarkCall(seq, l) PROVE LedgerInv'
  BY <1>2, MarkStep
<1>3. ASSUME NEW seq \in Outstanding, NEW l \in Legs, AttemptCall(seq, l) PROVE LedgerInv'
  BY <1>3, AttemptStep
<1>4. ASSUME NEW seq \in Outstanding, NEW l \in Legs, OwnerCall(seq, l) PROVE LedgerInv'
  BY <1>4, AssignStep, AdmitStep DEF OwnerCall
<1>5. ASSUME NEW l \in Legs, InvalidateCall(l) PROVE LedgerInv'
  BY <1>5, InvalidateStep
<1>6. ASSUME NEW next \in 0..(MaxRecords + 1), AckCall(next) PROVE LedgerInv'
  BY <1>6, AckAdvanceStep, AckFutureStep, LedgerBoundsAssumption DEF AckCall
<1>7. CASE UNCHANGED vars
  BY <1>0, <1>7, LedgerUnchanged DEF vars
<1> QED BY <1>1, <1>2, <1>3, <1>4, <1>5, <1>6, <1>7 DEF LedgerNext
-------------------------------------------------------------------------------
LEMMA LedgerInvariance == LedgerSpec => []LedgerInv
BY LedgerInvInit, LedgerInvStep, PTL DEF LedgerSpec

(* Type correctness of the ledger's records and counters. *)
THEOREM LedgerTypeCorrect == LedgerSpec => []LedgerTypeOK
<1>1. LedgerInv => LedgerTypeOK
  BY DEF LedgerInv
<1> QED BY <1>1, LedgerInvariance, PTL

(* No call, however late, makes the ledger hold anything but the sequences    *)
(* from the ACK frontier to the next one to be allocated.                     *)
THEOREM LedgerIsWindow == LedgerSpec => []OutstandingIsWindow
<1>1. LedgerInv => OutstandingIsWindow
  BY DEF LedgerInv
<1> QED BY <1>1, LedgerInvariance, PTL

(* Whichever of add and ApplyACK made it the head, the head is stamped. *)
THEOREM HeadIsStamped == LedgerSpec => []FrontierStamped
<1>1. LedgerInv => FrontierStamped
  BY DEF LedgerInv
<1> QED BY <1>1, LedgerInvariance, PTL

(* The per-leg counts of assignOrdinary and ApplyACK are exact, hence never   *)
(* negative, for any number of legs and records.                              *)
THEOREM FramesAccounted == LedgerSpec => []FrameAccounting
<1>1. LedgerInv => FrameAccounting
  BY DEF LedgerInv
<1> QED BY <1>1, LedgerInvariance, PTL

LEMMA WindowAdvances ==
    ASSUME NEW a \in Nat, NEW n \in Nat, NEW b \in Nat, NEW m \in Nat, n <= m
    PROVE  \A s \in a..(n - 1) : s \notin b..(m - 1) => s < b
OBVIOUS

LEMMA RetireSteps == LedgerInv /\ LedgerInv' /\ [LedgerNext]_vars => RetireStep
<1> SUFFICES ASSUME LedgerInv, LedgerInv', [LedgerNext]_vars PROVE RetireStep
  OBVIOUS
<1>1. /\ ackedNext \in Nat /\ nextSequence \in Nat /\ ackedNext' \in Nat
      /\ nextSequence' \in Nat
      /\ Outstanding = ackedNext..(nextSequence - 1)
      /\ DOMAIN outstanding' = ackedNext'..(nextSequence' - 1)
  BY DEF LedgerInv, LedgerTypeOK, OutstandingIsWindow, Outstanding
<1>2. ackedNext' >= ackedNext /\ nextSequence' >= nextSequence
  <2>1. ASSUME UNCHANGED ackState
        PROVE  ackedNext' >= ackedNext /\ nextSequence' >= nextSequence
    BY <1>1, <2>1 DEF ackState
  <2>2. CASE AddRecord
    BY <1>1, <2>2 DEF AddRecord, add
  <2>3. ASSUME NEW seq \in Outstanding, NEW l \in Legs, MarkCall(seq, l)
        PROVE  UNCHANGED ackState
    BY <2>3 DEF MarkCall, MarkTransit, MarkRescueTransit, MarkRestrictedRescueTransit,
                Update
  <2>4. ASSUME NEW seq \in Outstanding, NEW l \in Legs, AttemptCall(seq, l)
        PROVE  UNCHANGED ackState
    BY <2>4 DEF AttemptCall, finishLocalEnqueue, MarkRescueQueued, clearAttemptAt,
                MarkAttemptSent, markWriteStarted, Update, ledgerVars, ackState
  <2>5. ASSUME NEW seq \in Outstanding, NEW l \in Legs, OwnerCall(seq, l)
        PROVE  UNCHANGED ackState
    BY <2>5 DEF OwnerCall, assignOrdinary, markOrdinaryAdmitted
  <2>6. ASSUME NEW l \in Legs, InvalidateCall(l) PROVE UNCHANGED ackState
    BY <2>6 DEF InvalidateCall, InvalidateLeg
  <2>7. ASSUME NEW next \in 0..(MaxRecords + 1), AckCall(next)
        PROVE  ackedNext' >= ackedNext /\ nextSequence' >= nextSequence
    BY <1>1, <2>7, LedgerBoundsAssumption DEF AckCall, ApplyACKAdvanced, ApplyACKFuture
  <2>8. CASE UNCHANGED vars
    BY <1>1, <2>8 DEF vars, ledgerVars
  <2> QED BY <2>1, <2>2, <2>3, <2>4, <2>5, <2>6, <2>7, <2>8 DEF LedgerNext
<1>3. \A s \in Outstanding : s \notin DOMAIN outstanding' => s < ackedNext'
  BY <1>1, <1>2, WindowAdvances
<1> QED BY <1>2, <1>3 DEF RetireStep

(* Data leaves the ledger only below a frontier that only advances: no       *)
(* failure, invalidation or stale call loses a record.                       *)
THEOREM OnlyACKRetires == LedgerSpec => RetiredOnlyByACK
<1>1. LedgerInv /\ LedgerInv' /\ [LedgerNext]_vars => [RetireStep]_vars
  BY RetireSteps
<1> QED BY <1>1, LedgerInvariance, PTL DEF LedgerSpec, RetiredOnlyByACK
===============================================================================
