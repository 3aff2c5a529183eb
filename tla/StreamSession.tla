---------------------------- MODULE StreamSession -----------------------------
(* One direction of a stream end to end: the sending engine, N carriers and   *)
(* the receiving engine (core/stream_engine.go at both ends).  A step is a    *)
(* whole call (tryQueue, writeAttempt, handleLegFailure, ...): what may       *)
(* happen inside those calls is the subject of StreamSender and               *)
(* StreamReceiver.  Attempts carry no time here: a carrier holds at most one  *)
(* ordinary and one rescue attempt of a record, as the ledger guarantees.     *)
EXTENDS Integers, Sequences, FiniteSets, FiniteSetsExt, SequencesExt

CONSTANTS
    Legs,              \* leg identities
    Values,            \* the chunks the application writes
    MaxInflightFrames, \* StreamConfig.MaxInflightFrames of the sender
    MaxReorderFrames,  \* StreamConfig.MaxReorderFrames of the receiver
    QueueFrames,       \* capacity of a leg's ordinary queue
    RescueFrames,      \* capacity of a leg's rescue queue
    CarrierFrames,     \* frames a carrier buffers before its writer blocks
    Environments,      \* which carriers may fail, and which may hang for ever
    MaxRecords,        \* bound: chunks the application writes
    MaxFailures        \* bound: carrier ends that fail by themselves

NoLeg == -1
NoFrame == -1

ASSUME SessionAssumption ==
    /\ NoLeg \notin Legs /\ IsFiniteSet(Legs)
    /\ MaxInflightFrames \in Nat /\ MaxReorderFrames \in Nat
    /\ QueueFrames \in Nat /\ RescueFrames \in Nat /\ CarrierFrames \in Nat
    /\ Environments \subseteq [failing : SUBSET Legs, stalling : SUBSET Legs]
    /\ MaxRecords \in Nat /\ MaxFailures \in Nat

VARIABLES
    written,     \* the chunks accepted from the application; sequence i - 1
    ackedNext, outstanding,      \* the sender's ledger
    sUp, send, rescue,           \* per leg: the sender's end, its two queues
    wire,        \* per leg: DATA frames on their way, in order
    ackWire,     \* per leg: the newest ACK on its way (0: none)
    rUp,         \* per leg: the receiver's end
    window,      \* the receiver's StreamRXWindow
    rxFrame,     \* the READY frame rxLoop is writing (NoFrame: none)
    delivered,   \* ordinals written to the reading application
    ackNext,     \* the receiver's ackNext
    txDone, rxDone, failures,
    env          \* the one of Environments this stream lives in

txVars == <<written, ackedNext, outstanding, send, rescue, txDone>>
rxVars == <<window, rxFrame, delivered, ackNext, rxDone>>
linkVars == <<sUp, rUp, wire, ackWire, failures, env>>
vars == <<written, ackedNext, outstanding, send, rescue, txDone, window,
          rxFrame, delivered, ackNext, rxDone, sUp, rUp, wire, ackWire, failures, env>>

Rx == INSTANCE StreamRXWindow
now == 1     \* gap times do not matter here

(* A ledger record: the leg of the ordinary and of the rescue attempt in      *)
(* flight, and lastSentLeg, the leg of the newest completed one.  Instead of  *)
(* times, later tells which of two attempts in flight was marked later, and   *)
(* stale which of them is older than the newest completed one.                *)
Kinds == {"ordinary", "rescue"}
Record == [localEnqueue : BOOLEAN, leg : [Kinds -> Legs \cup {NoLeg}],
           lastSentLeg : Legs \cup {NoLeg}, later : Kinds \cup {"none"},
           stale : SUBSET Kinds]

newRecord == [localEnqueue |-> TRUE, leg |-> [k \in Kinds |-> NoLeg],
              lastSentLeg |-> NoLeg, later |-> "none", stale |-> {}]

InFlight(r, k) == r.leg[k] # NoLeg
Other(k) == CHOOSE j \in Kinds : j # k

Outstanding == DOMAIN outstanding
availableLegs == {l \in Legs : sUp[l]}

(* Faulty variants, each refuted by a property: a token too many; no rescue   *)
(* of a record in transit; an ACK that also retires the sequence it names as  *)
(* the next expected one; the last record's ACK taken for a future one; an    *)
(* ACK for frames still buffered.                                             *)
TxAddOverLimit(v) ==
    /\ ~txDone /\ Len(written) < MaxRecords
    /\ Cardinality(Outstanding) <= MaxInflightFrames
    /\ \A s \in Outstanding : ~outstanding[s].localEnqueue
    /\ written' = Append(written, v)
    /\ outstanding' = [s \in Outstanding \cup {Len(written)} |->
                         IF s = Len(written) THEN newRecord ELSE outstanding[s]]
    /\ UNCHANGED <<ackedNext, send, rescue, txDone, rxVars, linkVars>>

RescueTargetsIdleOnly ==
    IF \/ ackedNext \notin Outstanding
       \/ \E k \in Kinds : InFlight(outstanding[ackedNext], k)
    THEN {} ELSE availableLegs \ {outstanding[ackedNext].lastSentLeg}

ReceiveAckInclusive(l) ==
    /\ sUp[l] /\ ackWire[l] > ackedNext /\ ackWire[l] <= Len(written)
    /\ ackedNext' = ackWire[l]
    /\ outstanding' = [s \in {t \in Outstanding : t > ackWire[l]} |-> outstanding[s]]
    /\ UNCHANGED <<written, send, rescue, txDone, rxVars, linkVars>>

ReceiveAckAllButLast(l) ==
    /\ sUp[l] /\ ackWire[l] > ackedNext /\ ackWire[l] < Len(written)
    /\ ackedNext' = ackWire[l]
    /\ outstanding' = [s \in {t \in Outstanding : t >= ackWire[l]} |-> outstanding[s]]
    /\ UNCHANGED <<written, send, rescue, txDone, rxVars, linkVars>>

DeliverFrameAcksBuffered ==
    /\ rxFrame # NoFrame
    /\ delivered' = Append(delivered, rxFrame)
    /\ LET w == Rx!CommitReady(window, now) IN
       /\ window' = Rx!PopContiguous(w)
       /\ rxFrame' = IF Rx!CanPop(w) THEN w.expected ELSE NoFrame
       /\ ackNext' = w.expected + Cardinality(w.pending)
    /\ UNCHANGED <<rxDone, txVars, linkVars>>

marked(r, k, l) ==
    [r EXCEPT !.leg[k] = l, !.later = IF InFlight(r, Other(k)) THEN k ELSE "none"]

dropped(r, k) ==
    [r EXCEPT !.leg[k] = NoLeg, !.later = "none", !.stale = @ \ {k}]

sentRecord(r, k, l) ==
    IF k \in r.stale THEN dropped(r, k)
    ELSE [dropped(r, k) EXCEPT
             !.lastSentLeg = l,
             !.stale = IF InFlight(r, Other(k)) /\ r.later = k THEN {Other(k)} ELSE {}]

Init ==
    /\ written = <<>> /\ ackedNext = 0 /\ outstanding = <<>>
    /\ sUp = [l \in Legs |-> TRUE] /\ rUp = [l \in Legs |-> TRUE]
    /\ send = [l \in Legs |-> <<>>] /\ rescue = [l \in Legs |-> <<>>]
    /\ wire = [l \in Legs |-> <<>>] /\ ackWire = [l \in Legs |-> 0]
    /\ window = Rx!NewStreamRXWindow /\ rxFrame = NoFrame
    /\ delivered = <<>> /\ ackNext = 0
    /\ txDone = FALSE /\ rxDone = FALSE /\ failures = 0 /\ env \in Environments
-------------------------------------------------------------------------------
(* txLoop: a chunk is read once an inflight token is free.  A token is held   *)
(* by every outstanding record (releaseInflight follows its ACK).             *)
TxAdd(v) ==
    /\ ~txDone /\ Len(written) < MaxRecords
    /\ Cardinality(Outstanding) < MaxInflightFrames
    /\ \A s \in Outstanding : ~outstanding[s].localEnqueue
    /\ written' = Append(written, v)
    /\ outstanding' = [s \in Outstanding \cup {Len(written)} |->
                         IF s = Len(written) THEN newRecord ELSE outstanding[s]]
    /\ UNCHANGED <<ackedNext, send, rescue, txDone, rxVars, linkVars>>

(* tryQueue on an open carrier with room: the ordinary attempt of txLoop for  *)
(* the record it holds, and of scheduleRetries for one nobody is sending.     *)
tryQueue(s, l) ==
    /\ sUp[l] /\ Len(send[l]) < QueueFrames
    /\ ~InFlight(outstanding[s], "ordinary")
    /\ outstanding' = [outstanding EXCEPT
          ![s] = [marked(@, "ordinary", l) EXCEPT !.localEnqueue = FALSE]]
    /\ send' = [send EXCEPT ![l] = Append(@, s)]
    /\ UNCHANGED <<written, ackedNext, rescue, txDone, rxVars, linkVars>>

TxQueue(s, l) == ~txDone /\ outstanding[s].localEnqueue /\ tryQueue(s, l)

PlanRetries ==
    {s \in Outstanding :
        LET r == outstanding[s] IN
        /\ ~r.localEnqueue /\ \A k \in Kinds : ~InFlight(r, k)
        /\ r.lastSentLeg \notin availableLegs}

Retry(s, l) == ~txDone /\ s \in PlanRetries /\ tryQueue(s, l)

(* scheduleFrontierRescue for an overdue head of the ledger.                  *)
frontierOwner(r) ==
    IF InFlight(r, "ordinary") THEN r.leg["ordinary"] ELSE r.lastSentLeg

RescueTargets ==
    IF ackedNext \notin Outstanding \/ InFlight(outstanding[ackedNext], "rescue")
    THEN {}
    ELSE LET owner == frontierOwner(outstanding[ackedNext])
         IN  IF Cardinality(availableLegs) = 1
             THEN availableLegs \ {outstanding[ackedNext].leg["ordinary"]}
             ELSE IF owner \in availableLegs THEN availableLegs \ {owner} ELSE {}

FrontierRescue(l) ==
    /\ ~txDone /\ l \in RescueTargets /\ Len(rescue[l]) < RescueFrames
    /\ outstanding' = [outstanding EXCEPT ![ackedNext] = marked(@, "rescue", l)]
    /\ rescue' = [rescue EXCEPT ![l] = Append(@, ackedNext)]
    /\ UNCHANGED <<written, ackedNext, send, txDone, rxVars, linkVars>>
-------------------------------------------------------------------------------
(* writeAttempt, on an attempt that is still current.  A full carrier blocks  *)
(* its writer; bytes written to a carrier whose far end is gone vanish.       *)
writeAttempt(s, k, l) ==
    IF s \in Outstanding /\ outstanding[s].leg[k] = l
    THEN /\ ~rUp[l] \/ Len(wire[l]) < CarrierFrames
         /\ wire' = IF rUp[l] THEN [wire EXCEPT ![l] = Append(@, s)] ELSE wire
         /\ outstanding' = [outstanding EXCEPT ![s] = sentRecord(@, k, l)]
    ELSE UNCHANGED <<outstanding, wire>>

(* legWriteLoop: the rescue queue goes first. *)
WriteRescue(l) ==
    /\ sUp[l] /\ rescue[l] # <<>>
    /\ writeAttempt(Head(rescue[l]), "rescue", l)
    /\ rescue' = [rescue EXCEPT ![l] = Tail(@)]
    /\ UNCHANGED <<written, ackedNext, send, txDone, rxVars, sUp, rUp, ackWire,
                   failures, env>>

WriteOrdinary(l) ==
    /\ sUp[l] /\ rescue[l] = <<>> /\ send[l] # <<>>
    /\ writeAttempt(Head(send[l]), "ordinary", l)
    /\ send' = [send EXCEPT ![l] = Tail(@)]
    /\ UNCHANGED <<written, ackedNext, rescue, txDone, rxVars, sUp, rUp, ackWire,
                   failures, env>>

(* handleAckWithSource: a cumulative ACK is applied; one that is not ahead of *)
(* ackedNext, or claims more than was ever sent, changes nothing.             *)
ReceiveAck(l) ==
    /\ sUp[l] /\ ackWire[l] > ackedNext /\ ackWire[l] <= Len(written)
    /\ ackedNext' = ackWire[l]
    /\ outstanding' = [s \in {t \in Outstanding : t >= ackWire[l]} |-> outstanding[s]]
    /\ UNCHANGED <<written, send, rescue, txDone, rxVars, linkVars>>
-------------------------------------------------------------------------------
(* The stream fails: every carrier is closed, the window drained. *)
CloseReceiver ==
    /\ rxDone' = TRUE
    /\ rUp' = [l \in Legs |-> FALSE] /\ wire' = [l \in Legs |-> <<>>]
    /\ window' = Rx!DrainPending(window) /\ rxFrame' = NoFrame

(* rxLoop takes the next frame a carrier delivers.  An overflow of the window *)
(* fails the stream.                                                          *)
ReceiveFrame(l) ==
    /\ rUp[l] /\ wire[l] # <<>> /\ rxFrame = NoFrame
    /\ LET seq == Head(wire[l])
           d == Rx!Disposition(window, seq)
       IN  IF d = "reorderLimit" THEN CloseReceiver
           ELSE /\ window' = Rx!Insert(window, seq, now)
                /\ rxFrame' = IF d = "ready" THEN seq ELSE NoFrame
                /\ wire' = [wire EXCEPT ![l] = Tail(@)]
                /\ UNCHANGED <<rxDone, rUp>>
    /\ UNCHANGED <<delivered, ackNext, txVars, sUp, ackWire, failures, env>>

(* The pipe write of the READY frame returns.  The ACK frontier moves at the  *)
(* end of a contiguous run.                                                   *)
DeliverFrame ==
    /\ rxFrame # NoFrame
    /\ delivered' = Append(delivered, rxFrame)
    /\ LET w == Rx!CommitReady(window, now) IN
       /\ window' = Rx!PopContiguous(w)
       /\ rxFrame' = IF Rx!CanPop(w) THEN w.expected ELSE NoFrame
       /\ ackNext' = IF Rx!CanPop(w) THEN ackNext ELSE w.expected
    /\ UNCHANGED <<rxDone, txVars, linkVars>>

(* The ACK frontier reaches every carrier (StreamReceiver).                   *)
WriteAck(l) ==
    /\ rUp[l] /\ ackWire[l] < ackNext
    /\ ackWire' = [ackWire EXCEPT ![l] = ackNext]
    /\ UNCHANGED <<txVars, rxVars, sUp, rUp, wire, failures, env>>
-------------------------------------------------------------------------------
(* handleLegFailure at either end: by itself, or on noticing the far end.  At *)
(* the sender InvalidateLeg frees the attempts; what the receiver's end had   *)
(* not read is lost.                                                          *)
invalidatedRecord(r, l) ==
    LET a == IF r.leg["ordinary"] = l THEN dropped(r, "ordinary") ELSE r
        b == IF a.leg["rescue"] = l THEN dropped(a, "rescue") ELSE a
    IN  IF b.lastSentLeg = l THEN [b EXCEPT !.lastSentLeg = NoLeg] ELSE b

SenderEndCloses(l) ==
    /\ sUp[l]
    /\ sUp' = [sUp EXCEPT ![l] = FALSE]
    /\ send' = [send EXCEPT ![l] = <<>>] /\ rescue' = [rescue EXCEPT ![l] = <<>>]
    /\ outstanding' = [s \in Outstanding |-> invalidatedRecord(outstanding[s], l)]
    /\ UNCHANGED <<written, ackedNext, txDone, rxVars, rUp, wire, ackWire, env>>

ReceiverEndCloses(l) ==
    /\ rUp[l]
    /\ rUp' = [rUp EXCEPT ![l] = FALSE]
    /\ wire' = [wire EXCEPT ![l] = <<>>]
    /\ UNCHANGED <<txVars, rxVars, sUp, ackWire, env>>

MayFail(l) == l \in env.failing /\ failures < MaxFailures /\ failures' = failures + 1

SenderEndFails(l) == MayFail(l) /\ SenderEndCloses(l)
ReceiverEndFails(l) == MayFail(l) /\ ReceiverEndCloses(l)
SenderNotices(l) == ~rUp[l] /\ SenderEndCloses(l) /\ UNCHANGED failures
ReceiverNotices(l) == ~sUp[l] /\ ReceiverEndCloses(l) /\ UNCHANGED failures

(* A new carrier under the same identity: both ends have let go of the old    *)
(* one (ReplaceLeg retires it where it was still registered).                 *)
AttachLeg(l) ==
    /\ ~sUp[l] /\ ~rUp[l] /\ ~txDone /\ ~rxDone
    /\ sUp' = [sUp EXCEPT ![l] = TRUE] /\ rUp' = [rUp EXCEPT ![l] = TRUE]
    /\ ackWire' = [ackWire EXCEPT ![l] = 0]
    /\ UNCHANGED <<txVars, rxVars, wire, failures, env>>

(* failIfNoLegRecovers: no carrier came back within RecoveryTimeout. *)
SenderGivesUp ==
    /\ ~txDone /\ \A l \in Legs : ~sUp[l]
    /\ txDone' = TRUE
    /\ UNCHANGED <<written, ackedNext, outstanding, send, rescue, rxVars, linkVars>>

ReceiverGivesUp ==
    /\ ~rxDone /\ \A l \in Legs : ~rUp[l]
    /\ CloseReceiver
    /\ UNCHANGED <<delivered, ackNext, txVars, sUp, ackWire, failures, env>>
-------------------------------------------------------------------------------
TxLoop == \E s \in Outstanding, l \in Legs : TxQueue(s, l)
RetryRecord(s) == s \in Outstanding /\ \E l \in Legs : Retry(s, l)
scheduleRetries == \E s \in Outstanding : RetryRecord(s)
scheduleFrontierRescue == \E l \in Legs : FrontierRescue(l)

Carry(l) ==
    \/ WriteRescue(l) \/ WriteOrdinary(l) \/ ReceiveAck(l)
    \/ ReceiveFrame(l) \/ WriteAck(l)

Lifecycle(l) ==
    \/ SenderEndFails(l) \/ ReceiverEndFails(l) \/ SenderNotices(l)
    \/ ReceiverNotices(l) \/ AttachLeg(l)

Next ==
    \/ \E v \in Values : TxAdd(v)
    \/ TxLoop \/ scheduleRetries \/ scheduleFrontierRescue
    \/ \E l \in Legs : Carry(l) \/ Lifecycle(l)
    \/ DeliverFrame \/ SenderGivesUp \/ ReceiverGivesUp

SafeSpec == Init /\ [][Next]_vars

Moves(l) == l \notin env.stalling

(* The loops of a live engine keep running (retransmitLoop has a ticker, and  *)
(* scheduleRetries tries every record of its plan in every turn), the         *)
(* application reads, a carrier that neither stalls nor fails moves its       *)
(* bytes, and an end notices that its peer has closed.  Nothing is assumed of *)
(* the application's writes, of failures or of a carrier coming back.         *)
FairSpec ==
    /\ SafeSpec
    /\ WF_vars(TxLoop) /\ WF_vars(scheduleFrontierRescue)
    /\ \A s \in 0..(MaxRecords - 1) : WF_vars(RetryRecord(s))
    /\ WF_vars(DeliverFrame) /\ WF_vars(SenderGivesUp) /\ WF_vars(ReceiverGivesUp)
    /\ \A l \in Legs :
          /\ WF_vars(Moves(l) /\ WriteRescue(l)) /\ WF_vars(Moves(l) /\ WriteOrdinary(l))
          /\ WF_vars(Moves(l) /\ ReceiveFrame(l)) /\ WF_vars(Moves(l) /\ WriteAck(l))
          /\ WF_vars(Moves(l) /\ ReceiveAck(l))
          /\ WF_vars(Moves(l) /\ SenderNotices(l)) /\ WF_vars(Moves(l) /\ ReceiverNotices(l))
-------------------------------------------------------------------------------
(* The session's types.  The ledger maps the sequences written and not yet    *)
(* acknowledged, and no others, to records.                                   *)
TypeOK ==
    /\ written \in Seq(Values) /\ ackedNext \in Nat
    /\ outstanding \in [ackedNext..(Len(written) - 1) -> Record]
    /\ send \in [Legs -> Seq(Nat)] /\ rescue \in [Legs -> Seq(Nat)]
    /\ wire \in [Legs -> Seq(Nat)] /\ ackWire \in [Legs -> Nat]
    /\ sUp \in [Legs -> BOOLEAN] /\ rUp \in [Legs -> BOOLEAN]
    /\ window \in Rx!WindowType /\ rxFrame \in Nat \cup {NoFrame}
    /\ delivered \in Seq(Nat) /\ ackNext \in Nat
    /\ txDone \in BOOLEAN /\ rxDone \in BOOLEAN /\ failures \in Nat /\ env \in Environments

(* The stream the two applications see: chunk i read is chunk i written. *)
read == [i \in 1..Len(delivered) |-> written[delivered[i] + 1]]
App == INSTANCE ReliableStream

(* Whatever the carriers lose, duplicate or reorder, one direction of the     *)
(* stream is a ReliableStream: the reader gets the writer's chunks, in order, *)
(* each once.                                                                 *)
ImplementsReliableStream == App!SafeSpec

(* ... and every chunk the writer's engine accepted reaches the reader, or    *)
(* the reader's engine fails.                                                 *)
DeliversEventually == App!Spec

(* A retired record was delivered: the sender forgets a chunk (and frees its  *)
(* inflight token) only once the reading application has it.                  *)
AckedIsDelivered == ackedNext <= Len(delivered)

(* The inflight limit protects the reorder window: when the sender's          *)
(* MaxInflightFrames exceeds the receiver's MaxReorderFrames by at most one,  *)
(* no frame a carrier holds can overflow the window and fail the stream.      *)
NoReorderOverflow ==
    MaxInflightFrames <= MaxReorderFrames + 1 =>
        \A l \in Legs : (wire[l] # <<>> /\ rxFrame = NoFrame)
            => Rx!Disposition(window, Head(wire[l])) # "reorderLimit"

(* The sender's ledger empties: what the application wrote is eventually      *)
(* acknowledged, or one of the two engines fails.                             *)
EventuallyAcked == []<>(Outstanding = {} \/ txDone \/ rxDone)

(* One healthy carrier is enough: if from some time on some carrier that does *)
(* not stall stays up, a frontier pinned on a stalled one is duplicated on it *)
(* and everything written is eventually acknowledged (the rescue lane).       *)
HealthyLegSuffices ==
    (\E l \in Legs : <>[](Moves(l) /\ sUp[l] /\ rUp[l])) => EventuallyAcked
===============================================================================
