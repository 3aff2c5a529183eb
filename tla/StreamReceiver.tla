---------------------------- MODULE StreamReceiver ----------------------------
(* The receiving half of one StreamEngine (core/stream_engine.go): rxLoop     *)
(* feeding the reorder window and the application pipe, and the cumulative    *)
(* ACK path from requestAck through ackLoop and the per-leg ACK slots to the  *)
(* carriers.  Every goroutine is a process of its own: rxLoop, ackLoop, one   *)
(* writer per leg, and the attach and failure handlers, whose steps           *)
(* interleave wherever the code does not hold a lock across them.             *)
EXTENDS StreamRXWindow, Integers, Sequences

CONSTANTS
    Legs,          \* carrier identities
    MaxSeq,        \* the peer's DATA ordinals are 0 .. MaxSeq - 1
    MaxArrivals,   \* bound: DATA frames read from all carriers together, by the
                   \* number of identities that have been attached
    MaxAttaches    \* bound: carriers attached, replacements included

ASSUME ReceiverAssumption ==
    /\ MaxSeq \in Nat /\ MaxAttaches \in Nat /\ MaxArrivals \in Seq(Nat)

VARIABLES
    window,      \* the StreamRXWindow owned by rxLoop
    now,         \* time, advanced by every frame read
    rxPC,        \* rxLoop: "select", "write" (delivering rxFrame), "stopped"
    rxFrame,     \* the READY frame rxLoop is writing to the pipe
    delivered,   \* ordinals written to the application pipe, in order
    closing,     \* StartGracefulClose ran: the core end of the pipe is closed
    done,        \* the engine failed: c.done is closed
    ackNext,     \* StreamEngine.ackNext
    ackForce,    \* StreamEngine.ackForce
    ackl,        \* the locals of ackLoop
    leg          \* leg[l]: the current carrier under identity l, with the locals
                 \* of its writer and of the attach or failure handler

rxVars == <<window, now, rxPC, rxFrame, delivered, closing>>
ackVars == <<ackNext, ackForce, ackl>>
vars == <<window, now, rxPC, rxFrame, delivered, closing, done,
          ackNext, ackForce, ackl, leg>>

(* phase: "none" never attached or retired; "up" in c.legs and not closed;    *)
(* "closed" by handleLegFailure but still in c.legs; "removed" from c.legs.   *)
(* joining: attachLeg published the carrier and has yet to call forceAck.     *)
(* wire is the highest ACK written on this carrier.  Locals that are dead     *)
(* (of a closed carrier, of a finished iteration) are reset.                  *)
LegType ==
    [phase : {"none", "up", "closed", "removed"}, gen : Nat, joining : BOOLEAN,
     ackPending : Nat, ackForce : BOOLEAN, ackWake : BOOLEAN,
     wpc : {"top", "swap", "wait"}, wnext : Nat, ackSent : Nat, wire : Nat]

NewLeg(phase, gen, joining) ==
    [phase |-> phase, gen |-> gen, joining |-> joining, ackPending |-> 0, ackForce |-> FALSE,
     ackWake |-> FALSE, wpc |-> "top", wnext |-> 0, ackSent |-> 0, wire |-> 0]

AckLoopType ==
    [pc : {"select", "decide", "restore", "queue"}, next : Nat,
     force : BOOLEAN, todo : SUBSET (Legs \X Nat), scheduled : BOOLEAN,
     sent : Nat]

AckLoopIdle(sent) ==
    [pc |-> "select", next |-> 0, force |-> FALSE, todo |-> {},
     scheduled |-> FALSE, sent |-> sent]

Open(l) == leg[l].phase = "up"
InRegistry(l) == leg[l].phase \in {"up", "closed"}
legCount == Cardinality({l \in Legs : InRegistry(l)})
availableLegs == {<<l, leg[l].gen>> : l \in {m \in Legs : Open(m)}}

AttachCount ==
    Cardinality({c \in Legs \X (1..MaxAttaches) : c[2] <= leg[c[1]].gen})

(* The identities attached so far; nothing tells two of them apart, so the    *)
(* first to be attached is FirstLeg.                                          *)
Attached == {l \in Legs : leg[l].gen > 0}
FirstLeg == CHOOSE l \in Legs : TRUE

Init ==
    /\ window = NewStreamRXWindow /\ now = 1
    /\ rxPC = "select" /\ rxFrame = 0 /\ delivered = <<>>
    /\ closing = FALSE /\ done = FALSE
    /\ ackNext = 0 /\ ackForce = FALSE
    /\ ackl = AckLoopIdle(0)
    /\ leg = [l \in Legs |-> NewLeg("none", 0, FALSE)]

(* Faulty variants, each refuted by a property: an ACK one frame ahead; a     *)
(* sent mark that moves back; a joining carrier that asks for no ACK.         *)
requestAckAhead(next) == ackNext' = IF next < ackNext THEN ackNext ELSE next + 1
AckLoopRestoreRollsBack ==
    /\ ackl.pc = "restore"
    /\ ackl' = AckLoopIdle(ackl.sent - 1)
    /\ ackForce' = (ackForce \/ (ackl.force /\ legCount = 0))
    /\ UNCHANGED <<rxVars, done, ackNext, leg>>
AttachForceAckSilent(l) ==
    /\ leg[l].joining
    /\ leg' = [leg EXCEPT ![l].joining = FALSE]
    /\ UNCHANGED <<rxVars, done, ackVars>>

(* What the end of the engine does to its carriers: streamLeg.close on each.  *)
(* A writer that gets in one more ACK before that changes nothing.            *)
LegsClosed ==
    [l \in Legs |-> IF Open(l) THEN NewLeg("closed", leg[l].gen, leg[l].joining) ELSE leg[l]]
-------------------------------------------------------------------------------
(* rxLoop: one frame taken from c.incoming and classified.  An overflow fails *)
(* the logical stream; the deferred DrainPending runs as the loop returns.    *)
ReceiveFrame(seq) ==
    /\ rxPC = "select" /\ ~done
    /\ Attached # {} /\ now <= MaxArrivals[Cardinality(Attached)]
    /\ now' = now + 1
    /\ LET d == Disposition(window, seq) IN
       /\ window' = IF d = "reorderLimit" THEN DrainPending(window)
                    ELSE Insert(window, seq, now')
       /\ rxPC' = CASE d = "ready" -> "write" [] d = "reorderLimit" -> "stopped"
                    [] OTHER -> "select"
       /\ rxFrame' = IF d = "ready" THEN seq ELSE rxFrame
       /\ ackForce' = (ackForce \/ d = "duplicate")
       /\ done' = (d = "reorderLimit")
       /\ leg' = IF d = "reorderLimit" THEN LegsClosed ELSE leg
    /\ UNCHANGED <<delivered, closing, ackNext, ackl>>

requestAck(next) == ackNext' = IF next <= ackNext THEN ackNext ELSE next

(* The pipe write returned: CommitReady, PopContiguous and, at the end of the *)
(* contiguous run only, requestAck(window.Expected()).                        *)
DeliverFrame ==
    /\ rxPC = "write" /\ ~closing /\ ~done
    /\ delivered' = Append(delivered, rxFrame)
    /\ LET w == CommitReady(window, now) IN
       /\ window' = PopContiguous(w)
       /\ IF CanPop(w)
          THEN rxFrame' = w.expected /\ UNCHANGED <<rxPC, ackNext>>
          ELSE /\ rxPC' = "select"
               /\ requestAck(w.expected)
               /\ UNCHANGED rxFrame
    /\ UNCHANGED <<now, closing, done, ackForce, ackl, leg>>

(* The pipe write fails: the local side is closing (rxLoop just returns), or  *)
(* the application closed its end (the stream fails).                         *)
DeliverFails ==
    /\ rxPC = "write"
    /\ rxPC' = "stopped"
    /\ window' = DrainPending(window)
    /\ done' = (done \/ ~closing)
    /\ leg' = IF closing THEN leg ELSE LegsClosed
    /\ UNCHANGED <<now, rxFrame, delivered, closing, ackNext, ackForce, ackl>>

(* Close or failIfNoLegRecovers ends the engine from another goroutine. *)
failWithAppClose ==
    /\ ~done /\ done' = TRUE
    /\ leg' = LegsClosed
    /\ UNCHANGED <<rxVars, ackVars>>

RxLoopStops ==
    /\ rxPC = "select" /\ done
    /\ rxPC' = "stopped" /\ window' = DrainPending(window)
    /\ UNCHANGED <<now, rxFrame, delivered, closing, done, ackNext, ackForce,
                   ackl, leg>>

(* StartGracefulClose closes pipeConn: no later pipe write can succeed. *)
StartGracefulClose ==
    /\ ~closing /\ ~done /\ closing' = TRUE
    /\ UNCHANGED <<window, now, rxPC, rxFrame, delivered, done, ackNext,
                   ackForce, ackl, leg>>
-------------------------------------------------------------------------------
(* ackLoop.  Its ticker makes an iteration possible at any time.              *)
AckLoopTake ==
    /\ ackl.pc = "select" /\ ~done
    /\ ackl' = [ackl EXCEPT !.pc = "decide", !.next = ackNext, !.force = ackForce]
    /\ ackForce' = FALSE
    /\ UNCHANGED <<rxVars, done, ackNext, leg>>

AckLoopDecide ==
    /\ ackl.pc = "decide"
    /\ ackl' = IF \/ ackl.next = 0
                  \/ ackl.next <= ackl.sent /\ ~ackl.force
                  \/ legCount = 0
               THEN [ackl EXCEPT !.pc = "restore"]
               ELSE [ackl EXCEPT !.pc = "queue", !.todo = availableLegs,
                                 !.scheduled = FALSE]
    /\ UNCHANGED <<rxVars, done, ackNext, ackForce, leg>>

AckLoopRestore ==
    /\ ackl.pc = "restore"
    /\ ackl' = AckLoopIdle(ackl.sent)
    /\ ackForce' = (ackForce \/ (ackl.force /\ legCount = 0))
    /\ UNCHANGED <<rxVars, done, ackNext, leg>>

(* Faulty: the broadcast stops at the first carrier that takes the ACK.       *)
queueAckFirstOnly(l, g) ==
    /\ ackl.pc = "queue" /\ <<l, g>> \in ackl.todo
    /\ IF Open(l) /\ leg[l].gen = g
       THEN /\ leg' = [leg EXCEPT ![l].ackPending = IF ackl.next <= @ THEN @ ELSE ackl.next,
                                  ![l].ackForce = @ \/ ackl.force,
                                  ![l].ackWake = \/ @ \/ ackl.force
                                                 \/ ackl.next > leg[l].ackPending]
            /\ ackl' = [ackl EXCEPT !.todo = {}, !.scheduled = TRUE]
       ELSE /\ ackl' = [ackl EXCEPT !.todo = @ \ {<<l, g>>}]
            /\ UNCHANGED leg
    /\ UNCHANGED <<rxVars, done, ackNext, ackForce>>

(* queueAck on one carrier of the snapshot; a carrier that closed since, or   *)
(* was replaced by a later one, refuses.                                      *)
queueAck(l, g) ==
    /\ ackl.pc = "queue" /\ <<l, g>> \in ackl.todo
    /\ IF Open(l) /\ leg[l].gen = g
       THEN /\ leg' = [leg EXCEPT ![l].ackPending = IF ackl.next <= @ THEN @ ELSE ackl.next,
                                  ![l].ackForce = @ \/ ackl.force,
                                  ![l].ackWake = \/ @ \/ ackl.force
                                                 \/ ackl.next > leg[l].ackPending]
            /\ ackl' = [ackl EXCEPT !.todo = @ \ {<<l, g>>}, !.scheduled = TRUE]
       ELSE /\ ackl' = [ackl EXCEPT !.todo = @ \ {<<l, g>>}]
            /\ UNCHANGED leg
    /\ UNCHANGED <<rxVars, done, ackNext, ackForce>>

AckLoopFinish ==
    /\ ackl.pc = "queue" /\ ackl.todo = {}
    /\ ackl' = AckLoopIdle(IF ackl.scheduled THEN ackl.next ELSE ackl.sent)
    /\ ackForce' = (ackForce \/ (~ackl.scheduled /\ ackl.force))
    /\ UNCHANGED <<rxVars, done, ackNext, leg>>
-------------------------------------------------------------------------------
(* legWriteLoop, as far as ACKs go: writePendingAck runs at the top of every  *)
(* iteration; the select below it wakes on ackWake or on other traffic.       *)
WriterLoadAck(l) ==
    /\ Open(l) /\ leg[l].wpc = "top"
    /\ leg' = [leg EXCEPT ![l].wnext = leg[l].ackPending, ![l].wpc = "swap"]
    /\ UNCHANGED <<rxVars, done, ackVars>>

WriterSendAck(l) ==
    /\ Open(l) /\ leg[l].wpc = "swap"
    /\ LET c == leg[l]
           write == c.wnext # 0 /\ (c.wnext > c.ackSent \/ c.ackForce)
       IN  leg' = [leg EXCEPT ![l].wpc = "wait", ![l].wnext = 0,
                     ![l].ackForce = FALSE,
                     ![l].wire = IF write /\ c.wnext > @ THEN c.wnext ELSE @,
                     ![l].ackSent = IF write /\ c.wnext > @ THEN c.wnext ELSE @]
    /\ UNCHANGED <<rxVars, done, ackVars>>

WriterWakes(l) ==
    /\ Open(l) /\ leg[l].wpc = "wait" /\ leg[l].ackWake
    /\ leg' = [leg EXCEPT ![l].wpc = "top", ![l].ackWake = FALSE]
    /\ UNCHANGED <<rxVars, done, ackVars>>

WriterOtherTraffic(l) ==
    /\ Open(l) /\ leg[l].wpc = "wait"
    /\ leg' = [leg EXCEPT ![l].wpc = "top"]
    /\ UNCHANGED <<rxVars, done, ackVars>>
-------------------------------------------------------------------------------
(* attachLeg publishes the carrier in c.legs and later calls forceAck.        *)
AttachPublish(l) ==
    /\ ~done /\ leg[l].phase = "none" /\ AttachCount < MaxAttaches
    /\ Attached = {} => l = FirstLeg
    /\ now - 1 <= MaxArrivals[Cardinality(Attached \cup {l})]
    /\ leg' = [leg EXCEPT ![l] = NewLeg("up", leg[l].gen + 1, TRUE)]
    /\ UNCHANGED <<rxVars, done, ackVars>>

AttachForceAck(l) ==
    /\ leg[l].joining
    /\ leg' = [leg EXCEPT ![l].joining = FALSE]
    /\ ackForce' = TRUE
    /\ UNCHANGED <<rxVars, done, ackNext, ackl>>

(* handleLegFailure: leg.close, then removal from c.legs, then forceAck unless *)
(* the stream is done, or closing with nothing of its own outstanding.         *)
FailClose(l) ==
    /\ leg[l].phase = "up"
    /\ leg' = [leg EXCEPT ![l] = NewLeg("closed", leg[l].gen, leg[l].joining)]
    /\ UNCHANGED <<rxVars, done, ackVars>>

FailRemove(l) ==
    /\ leg[l].phase = "closed"
    /\ leg' = [leg EXCEPT ![l].phase = "removed"]
    /\ UNCHANGED <<rxVars, done, ackVars>>

FailForceAck(l) ==
    /\ leg[l].phase = "removed"
    /\ leg' = [leg EXCEPT ![l].phase = "none"]
    /\ ackForce' \in {TRUE} \cup (IF done \/ closing THEN {ackForce} ELSE {})
    /\ UNCHANGED <<rxVars, done, ackNext, ackl>>
-------------------------------------------------------------------------------
AckLoop ==
    \/ AckLoopTake \/ AckLoopDecide \/ AckLoopRestore \/ AckLoopFinish
    \/ \E l \in Legs, g \in 1..MaxAttaches : queueAck(l, g)

LegWriter(l) == WriterLoadAck(l) \/ WriterSendAck(l) \/ WriterWakes(l)

LegHandlers(l) ==
    \/ AttachPublish(l) \/ AttachForceAck(l)
    \/ FailClose(l) \/ FailRemove(l) \/ FailForceAck(l)

Next ==
    \/ \E seq \in 0..(MaxSeq - 1) : ReceiveFrame(seq)
    \/ DeliverFrame \/ DeliverFails \/ RxLoopStops
    \/ failWithAppClose \/ StartGracefulClose
    \/ AckLoop
    \/ \E l \in Legs : LegWriter(l) \/ WriterOtherTraffic(l) \/ LegHandlers(l)

Spec == Init /\ [][Next]_vars

(* Goroutines of a live engine keep running: ackLoop is driven by its ticker, *)
(* a leg writer by the Go scheduler while its carrier is open, and attachLeg  *)
(* reaches its forceAck.  Nothing is assumed about arrivals or failures.      *)
FairSpec ==
    /\ Spec
    /\ WF_vars(AckLoop)
    /\ \A l \in Legs : WF_vars(LegWriter(l)) /\ WF_vars(AttachForceAck(l))
-------------------------------------------------------------------------------
TypeOK ==
    /\ window \in WindowType /\ now \in Nat
    /\ rxPC \in {"select", "write", "stopped"} /\ rxFrame \in Nat
    /\ delivered \in Seq(Nat)
    /\ closing \in BOOLEAN /\ done \in BOOLEAN
    /\ ackNext \in Nat /\ ackForce \in BOOLEAN
    /\ ackl \in AckLoopType
    /\ leg \in [Legs -> LegType]

(* The application reads every ordinal once and in order: what rxLoop wrote   *)
(* to the pipe is exactly 0, 1, ..., expected - 1, whatever order, however    *)
(* often and over whichever carriers the frames arrived.                      *)
InOrderDelivery ==
    /\ Len(delivered) = window.expected
    /\ \A i \in 1..Len(delivered) : delivered[i] = i - 1

(* An ACK never promises what the application has not been given: no value    *)
(* held in ackNext, by ackLoop, in a leg's ACK slot or on a carrier exceeds   *)
(* the number of frames delivered (requestAck follows the pipe write).        *)
AckNeverAhead ==
    /\ ackNext <= Len(delivered) /\ ackl.next <= Len(delivered)
    /\ ackl.sent <= Len(delivered)
    /\ \A l \in Legs : /\ leg[l].ackPending <= Len(delivered)
                       /\ leg[l].wnext <= Len(delivered)
                       /\ leg[l].ackSent <= Len(delivered)
                       /\ leg[l].wire <= Len(delivered)

(* Between frames the window holds no frame it could deliver, never exceeds   *)
(* MaxReorderFrames, and everything delivered has been handed to requestAck.  *)
WindowAtRest ==
    rxPC = "select" =>
        /\ \A seq \in window.pending : seq > window.expected
        /\ Cardinality(window.pending) <= MaxReorderFrames
        /\ ~window.readyPending
        /\ ackNext = window.expected

(* GapSince tells the truth: between frames there is a gap age exactly when a *)
(* frame waits behind a hole, and it is the age of the hole at expected.      *)
GapTruthful ==
    rxPC = "select" =>
        /\ (window.gapSince # NoTime) <=> (window.pending # {})
        /\ window.pending # {} => window.gapExpected = window.expected

(* A hole ages: once observable, its time stamp is not renewed by frames that *)
(* arrive behind it, only by delivery moving expected or by DrainPending.     *)
GapKeepsItsAge ==
    [][ /\ window.gapSince # NoTime
        /\ window'.gapSince # window.gapSince
        => window'.expected # window.expected \/ window'.pending = {} ]_vars

(* Every ACK reaches every carrier: once frames are acknowledgeable, each     *)
(* carrier that is up comes to have written an ACK for all of them, or fails  *)
(* or ends with the stream; also when it attaches after ackLoop last sent, or *)
(* while ackLoop is queueing to the others (forceAck in attachLeg).           *)
AckReachesEveryLeg ==
    \A l \in Legs :
        (ackNext > 0 /\ Open(l)) ~> (leg[l].wire >= ackNext \/ ~Open(l))
===============================================================================
