-------------------------- MODULE StreamTXLedgerSpec --------------------------
(* The ledger on its own: its methods called in any order, by callers that    *)
(* may be late.  A call about a record that has been retired is refused and   *)
(* leaves no trace, so calls range over the outstanding records only; an      *)
(* attempt is named by any time at or before now, whether or not it is still  *)
(* the current one.                                                           *)
EXTENDS StreamTXLedger

CONSTANTS
    MaxRecords,   \* bound: records ever added
    MaxClock,     \* bound: attempts ever marked
    MaxFutureACK  \* bound: ACKs counted as future

ASSUME LedgerBoundsAssumption ==
    MaxRecords \in Nat /\ MaxClock \in Nat /\ MaxFutureACK \in Nat

VARIABLE clock    \* the time of the latest attempt

vars == <<ledgerVars, clock>>

LedgerInit == Init /\ clock = 0

AddRecord ==
    /\ nextSequence < MaxRecords
    /\ \E size \in Sizes, local \in BOOLEAN : add(size, local)
    /\ UNCHANGED clock

(* The three ways to mark an attempt, each at a new time. *)
MarkCall(seq, l) ==
    /\ clock < MaxClock /\ clock' = clock + 1
    /\ \/ MarkTransit(seq, l, clock')
       \/ MarkRescueTransit(seq, l, clock')
       \/ \E owner \in Legs : MarkRestrictedRescueTransit(seq, l, owner, clock')

AttemptCall(seq, l) ==
    /\ \/ finishLocalEnqueue(seq)
       \/ \E at \in 1..clock : MarkRescueQueued(seq, l, at)
       \/ \E at \in 1..clock, rescue \in BOOLEAN : clearAttemptAt(seq, l, rescue, at)
       \/ \E rescue \in BOOLEAN : MarkAttemptSent(seq, l, rescue)
       \/ \E rescue \in BOOLEAN : markWriteStarted(seq, l, rescue)
    /\ UNCHANGED clock

OwnerCall(seq, l) ==
    /\ assignOrdinary(seq, l) \/ markOrdinaryAdmitted(seq, l)
    /\ UNCHANGED clock

InvalidateCall(l) == InvalidateLeg(l) /\ UNCHANGED clock

AckCall(next) ==
    /\ \/ ApplyACKAdvanced(next)
       \/ futureACKCount < MaxFutureACK /\ ApplyACKFuture(next)
    /\ UNCHANGED clock

LedgerNext ==
    \/ AddRecord
    \/ \E seq \in Outstanding, l \in Legs :
          MarkCall(seq, l) \/ AttemptCall(seq, l) \/ OwnerCall(seq, l)
    \/ \E l \in Legs : InvalidateCall(l)
    \/ \E next \in 0..(MaxRecords + 1) : AckCall(next)

LedgerSpec == LedgerInit /\ [][LedgerNext]_vars
-------------------------------------------------------------------------------
(* The ledger's types.  A frame count is a natural number: no decrement of    *)
(* ApplyACK or assignOrdinary takes one below zero.  What the unsigned byte   *)
(* counts are is said by ByteAccounting.                                      *)
LedgerTypeOK ==
    /\ nextSequence \in Nat /\ ackedNext \in Nat /\ futureACKCount \in Nat
    /\ clock \in Nat
    /\ outstanding \in [Outstanding -> StreamTXRecord]
    /\ ordinaryFrames \in [Legs -> Nat]

(* The outstanding records are exactly the sequences from the peer's ACK      *)
(* frontier up to the next one to be allocated: no record is lost by a        *)
(* failure, an invalidation or a stale call, and a future ACK retires none.   *)
OutstandingIsWindow ==
    /\ ackedNext <= nextSequence
    /\ Outstanding = ackedNext..(nextSequence - 1)

(* Per-leg ordinary frame counts agree with the records' owners: what         *)
(* assignOrdinary charged to a leg is what ApplyACK takes off it again.       *)
FrameAccounting ==
    \A l \in Legs : ordinaryFrames[l] = Cardinality(OwnedBy(Outstanding, l))

(* Per-leg byte counts (unsigned in the code, where an error would wrap) are  *)
(* the sums over owned records, and over those not admitted to a queue yet.   *)
ByteAccounting ==
    \A l \in Legs :
        /\ ordinaryBytes[l] = BytesOf(OwnedBy(Outstanding, l))
        /\ pendingBytes[l] = BytesOf({s \in OwnedBy(Outstanding, l) :
                                        ~outstanding[s].ordinaryAdmitted})

(* The record at the ACK frontier always has its frontierAt stamp, whichever  *)
(* of add and ApplyACK made it the head.                                      *)
FrontierStamped ==
    ackedNext \in Outstanding => outstanding[ackedNext].frontier

RetireStep ==
    /\ ackedNext' >= ackedNext
    /\ \A s \in Outstanding : s \notin DOMAIN outstanding' => s < ackedNext'

(* The frontier only moves forward, and a record leaves the ledger only when  *)
(* the frontier passes it: nothing but a valid cumulative ACK retires data.   *)
RetiredOnlyByACK == [][RetireStep]_vars
===============================================================================
