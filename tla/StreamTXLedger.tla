---------------------------- MODULE StreamTXLedger ----------------------------
(* core/stream_tx.go: the ledger of DATA frames accepted from the local       *)
(* application and not yet retired by the peer's cumulative ACK.  One mutex   *)
(* guards it, so one method is one step.  A payload is its size; time is a    *)
(* natural number, NoTime the zero time.  An attempt is identified by the     *)
(* time at which it was marked, as in the code.                               *)
EXTENDS Integers, FiniteSets, FiniteSetsExt

CONSTANTS
    Legs,       \* the leg identities
    Sizes       \* the payload sizes the application writes

NoLeg == -1
NoTime == 0

ASSUME LegsAssumption == NoLeg \notin Legs /\ IsFiniteSet(Legs)
ASSUME SizesAssumption == Sizes \subseteq Nat \ {0}

VARIABLES
    nextSequence, ackedNext,
    outstanding,                    \* sequence -> StreamTXRecord
    ordinaryFrames, ordinaryBytes,  \* per leg: records owned, and their bytes
    pendingBytes,                   \* per leg: bytes owned and not yet admitted
    futureACKCount

ordinaryVars == <<ordinaryFrames, ordinaryBytes, pendingBytes>>
ackState == <<nextSequence, ackedNext, futureACKCount>>
ledgerVars == <<nextSequence, ackedNext, outstanding, ordinaryFrames,
                ordinaryBytes, pendingBytes, futureACKCount>>

(* frontier: frontierAt is set.  written: firstWriteAt is set. *)
StreamTXRecord ==
    [size : Sizes, localEnqueue : BOOLEAN,
     inTransit : BOOLEAN, transitLeg : Legs \cup {NoLeg}, transitSince : Nat,
     rescueInTransit : BOOLEAN, rescueLeg : Legs \cup {NoLeg},
     rescueSince : Nat, lastRescueAt : Nat,
     lastSentLeg : Legs \cup {NoLeg}, lastSentAttemptAt : Nat, sendCount : Nat,
     ordinaryOwner : Legs \cup {NoLeg}, ordinaryAdmitted : BOOLEAN,
     written : BOOLEAN, frontier : BOOLEAN, duplicated : BOOLEAN]

newRecord(size, local, frontier) ==
    [size |-> size, localEnqueue |-> local,
     inTransit |-> FALSE, transitLeg |-> NoLeg, transitSince |-> NoTime,
     rescueInTransit |-> FALSE, rescueLeg |-> NoLeg,
     rescueSince |-> NoTime, lastRescueAt |-> NoTime,
     lastSentLeg |-> NoLeg, lastSentAttemptAt |-> NoTime, sendCount |-> 0,
     ordinaryOwner |-> NoLeg, ordinaryAdmitted |-> FALSE,
     written |-> FALSE, frontier |-> frontier, duplicated |-> FALSE]

Outstanding == DOMAIN outstanding

Init ==
    /\ nextSequence = 0 /\ ackedNext = 0 /\ futureACKCount = 0
    /\ outstanding = <<>>
    /\ ordinaryFrames = [l \in Legs |-> 0]
    /\ ordinaryBytes = [l \in Legs |-> 0]
    /\ pendingBytes = [l \in Legs |-> 0]

(* Replace the record of seq; the rest of the ledger is as it was. *)
Update(seq, record) ==
    /\ outstanding' = [outstanding EXCEPT ![seq] = record]
    /\ UNCHANGED <<ackState, ordinaryVars>>
-------------------------------------------------------------------------------
(* Faulty variants, each refuted by a property: a cooldown not rolled back; a *)
(* sent mark left, or data dropped, with a failed leg; the old owner not      *)
(* released, or released before the test that it is the new one; a record     *)
(* admitted twice; an ACK from the future; a new head without its stamp.      *)
dropRescueKeepsCooldown(r) ==
    [r EXCEPT !.rescueInTransit = FALSE, !.rescueLeg = NoLeg, !.rescueSince = NoTime]

invalidatedRecordKeepsSent(r, l) ==
    [r EXCEPT !.inTransit = @ /\ r.transitLeg # l,
              !.rescueInTransit = @ /\ r.rescueLeg # l]

InvalidateLegDrops(l) ==
    /\ outstanding' = [s \in {t \in Outstanding : outstanding[t].transitLeg # l}
                         |-> outstanding[s]]
    /\ UNCHANGED <<ackState, ordinaryVars>>

assignOrdinaryKeepsOld(seq, id) ==
    /\ seq \in Outstanding
    /\ outstanding' = [outstanding EXCEPT ![seq].ordinaryOwner = id]
    /\ ordinaryFrames' = [ordinaryFrames EXCEPT ![id] = @ + 1]
    /\ ordinaryBytes' = [ordinaryBytes EXCEPT ![id] = @ + outstanding[seq].size]
    /\ UNCHANGED <<ackState, pendingBytes>>

assignOrdinaryReleasesFirst(seq, id) ==
    /\ seq \in Outstanding
    /\ LET r == outstanding[seq]
           delta(l, n) == (IF l = id /\ r.ordinaryOwner # id THEN n ELSE 0)
                          - (IF l = r.ordinaryOwner THEN n ELSE 0)
       IN  /\ outstanding' = [outstanding EXCEPT ![seq].ordinaryOwner = id]
           /\ ordinaryFrames' = [l \in Legs |-> ordinaryFrames[l] + delta(l, 1)]
           /\ ordinaryBytes' = [l \in Legs |-> ordinaryBytes[l] + delta(l, r.size)]
           /\ pendingBytes' = [l \in Legs |-> pendingBytes[l]
                                 + IF r.ordinaryAdmitted THEN 0 ELSE delta(l, r.size)]
    /\ UNCHANGED ackState

markOrdinaryAdmittedTwice(seq, id) ==
    /\ seq \in Outstanding /\ outstanding[seq].ordinaryOwner = id
    /\ outstanding' = [outstanding EXCEPT ![seq].ordinaryAdmitted = TRUE]
    /\ pendingBytes' = [pendingBytes EXCEPT ![id] = @ - outstanding[seq].size]
    /\ UNCHANGED <<ackState, ordinaryFrames, ordinaryBytes>>

ApplyACKAdvancedFuture(next) ==
    /\ ackedNext < next
    /\ outstanding' = [s \in {t \in Outstanding : t >= next} |-> outstanding[s]]
    /\ ackedNext' = next
    /\ UNCHANGED <<nextSequence, futureACKCount, ordinaryVars>>

ApplyACKAdvancedUnstamped(next) ==
    /\ next <= nextSequence
    /\ ApplyACKAdvancedFuture(next)

add(size, local) ==
    /\ outstanding' = [s \in Outstanding \cup {nextSequence} |->
                         IF s = nextSequence
                         THEN newRecord(size, local, nextSequence = ackedNext)
                         ELSE outstanding[s]]
    /\ nextSequence' = nextSequence + 1
    /\ UNCHANGED <<ackedNext, futureACKCount, ordinaryVars>>

finishLocalEnqueue(seq) ==
    /\ seq \in Outstanding
    /\ Update(seq, [outstanding[seq] EXCEPT !.localEnqueue = FALSE])

CanMarkTransit(seq) == seq \in Outstanding /\ ~outstanding[seq].inTransit

MarkTransit(seq, l, now) ==
    /\ CanMarkTransit(seq)
    /\ Update(seq, [outstanding[seq] EXCEPT
                      !.inTransit = TRUE, !.transitLeg = l, !.transitSince = now,
                      !.duplicated = @ \/ outstanding[seq].sendCount > 0])

CanMarkRescue(seq, l) ==
    /\ seq \in Outstanding /\ ~outstanding[seq].rescueInTransit
    /\ ~(outstanding[seq].inTransit /\ outstanding[seq].transitLeg = l)

MarkRescueTransit(seq, l, now) ==
    /\ CanMarkRescue(seq, l)
    /\ Update(seq, [outstanding[seq] EXCEPT
                      !.rescueInTransit = TRUE, !.rescueLeg = l,
                      !.rescueSince = now, !.duplicated = TRUE])

MarkRestrictedRescueTransit(seq, l, owner, now) ==
    /\ seq \in Outstanding /\ outstanding[seq].ordinaryOwner = owner
    /\ MarkRescueTransit(seq, l, now)

CanMarkRescueQueued(seq, l, started) ==
    /\ seq \in Outstanding
    /\ LET r == outstanding[seq] IN
       \/ r.rescueInTransit /\ r.rescueLeg = l /\ r.rescueSince = started
       \/ r.lastSentAttemptAt = started

MarkRescueQueued(seq, l, started) ==
    /\ CanMarkRescueQueued(seq, l, started)
    /\ Update(seq, [outstanding[seq] EXCEPT !.lastRescueAt = started])

(* A leg field that its flag makes meaningless is reset to NoLeg. *)
(* Give up the rescue attempt of r, with the cooldown it had committed. *)
dropRescue(r) ==
    [r EXCEPT !.rescueInTransit = FALSE, !.rescueLeg = NoLeg,
              !.rescueSince = NoTime,
              !.lastRescueAt = IF @ = r.rescueSince THEN NoTime ELSE @]

dropTransit(r) ==
    [r EXCEPT !.inTransit = FALSE, !.transitLeg = NoLeg, !.transitSince = NoTime]

AttemptCurrent(seq, l, rescue) ==
    /\ seq \in Outstanding
    /\ LET r == outstanding[seq] IN
       IF rescue THEN r.rescueInTransit /\ r.rescueLeg = l
                 ELSE r.inTransit /\ r.transitLeg = l

AttemptIs(seq, l, rescue, started) ==
    /\ AttemptCurrent(seq, l, rescue)
    /\ started = IF rescue THEN outstanding[seq].rescueSince
                           ELSE outstanding[seq].transitSince

(* Asynchronous cleanup names the attempt it gives up by leg and time. *)
clearAttemptAt(seq, l, rescue, started) ==
    IF AttemptIs(seq, l, rescue, started)
    THEN Update(seq, IF rescue THEN dropRescue(outstanding[seq])
                               ELSE dropTransit(outstanding[seq]))
    ELSE UNCHANGED ledgerVars

(* A completed carrier write names its attempt by leg only. *)
sentRecord(r, l, rescue) ==
    LET started == IF rescue THEN r.rescueSince ELSE r.transitSince
        newest == started >= r.lastSentAttemptAt
        over == IF rescue
                THEN [r EXCEPT !.rescueInTransit = FALSE, !.rescueLeg = NoLeg,
                               !.rescueSince = NoTime]
                ELSE dropTransit(r)
    IN  [over EXCEPT
                  !.lastSentAttemptAt = IF newest THEN started ELSE @,
                  !.lastSentLeg = IF newest THEN l ELSE @,
                  !.written = TRUE, !.sendCount = @ + 1]

MarkAttemptSent(seq, l, rescue) ==
    IF AttemptCurrent(seq, l, rescue)
    THEN Update(seq, sentRecord(outstanding[seq], l, rescue))
    ELSE UNCHANGED ledgerVars

(* The first byte of a normal attempt is about to reach the carrier. *)
markWriteStarted(seq, l, rescue) ==
    IF ~rescue /\ AttemptCurrent(seq, l, FALSE)
    THEN Update(seq, [outstanding[seq] EXCEPT !.written = TRUE])
    ELSE UNCHANGED ledgerVars

invalidatedRecord(r, l) ==
    LET a == IF r.ordinaryOwner = l THEN [r EXCEPT !.duplicated = TRUE] ELSE r
        b == IF a.inTransit /\ a.transitLeg = l THEN dropTransit(a) ELSE a
        c == IF b.rescueInTransit /\ b.rescueLeg = l THEN dropRescue(b) ELSE b
    IN  IF c.lastSentLeg = l THEN [c EXCEPT !.lastSentLeg = NoLeg] ELSE c

InvalidateLeg(l) ==
    /\ outstanding' = [s \in Outstanding |-> invalidatedRecord(outstanding[s], l)]
    /\ UNCHANGED <<ackState, ordinaryVars>>
-------------------------------------------------------------------------------
(* ordinary ownership: which leg a record is charged to *)
OwnedBy(S, l) == {s \in S : outstanding[s].ordinaryOwner = l}
BytesOf(S) == MapThenSumSet(LAMBDA s : outstanding[s].size, S)

assignOrdinary(seq, id) ==
    /\ seq \in Outstanding
    /\ LET r == outstanding[seq]
           moved == r.ordinaryOwner # id
           delta(l, n) == IF ~moved THEN 0 ELSE IF l = id THEN n
                          ELSE IF l = r.ordinaryOwner THEN -n ELSE 0
       IN  /\ outstanding' = [outstanding EXCEPT ![seq].ordinaryOwner = id]
           /\ ordinaryFrames' = [l \in Legs |-> ordinaryFrames[l] + delta(l, 1)]
           /\ ordinaryBytes' = [l \in Legs |-> ordinaryBytes[l] + delta(l, r.size)]
           /\ pendingBytes' = [l \in Legs |-> pendingBytes[l]
                                 + IF r.ordinaryAdmitted THEN 0 ELSE delta(l, r.size)]
    /\ UNCHANGED ackState

markOrdinaryAdmitted(seq, id) ==
    /\ seq \in Outstanding
    /\ outstanding[seq].ordinaryOwner = id /\ ~outstanding[seq].ordinaryAdmitted
    /\ outstanding' = [outstanding EXCEPT ![seq].ordinaryAdmitted = TRUE]
    /\ pendingBytes' = [pendingBytes EXCEPT ![id] = @ - outstanding[seq].size]
    /\ UNCHANGED <<ackState, ordinaryFrames, ordinaryBytes>>

(* The records a cumulative ACK of next retires. *)
Retired(next) == {s \in Outstanding : s < next}

ApplyACKAdvanced(next) ==
    /\ ackedNext < next /\ next <= nextSequence
    /\ outstanding' = [s \in Outstanding \ Retired(next) |->
                         [outstanding[s] EXCEPT !.frontier = @ \/ s = next]]
    /\ ordinaryFrames' = [l \in Legs |->
          ordinaryFrames[l] - Cardinality(OwnedBy(Retired(next), l))]
    /\ ordinaryBytes' = [l \in Legs |->
          ordinaryBytes[l] - BytesOf(OwnedBy(Retired(next), l))]
    /\ pendingBytes' = [l \in Legs |-> pendingBytes[l]
          - BytesOf({s \in OwnedBy(Retired(next), l) : ~outstanding[s].ordinaryAdmitted})]
    /\ ackedNext' = next
    /\ UNCHANGED <<nextSequence, futureACKCount>>

ApplyACKFuture(next) ==
    /\ next > nextSequence
    /\ futureACKCount' = futureACKCount + 1
    /\ UNCHANGED <<nextSequence, ackedNext, outstanding, ordinaryVars>>
===============================================================================
