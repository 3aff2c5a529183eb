----------------------------- MODULE StreamSender -----------------------------
(* The sending half of one StreamEngine (core/stream_engine.go): txLoop and   *)
(* retransmitLoop placing attempts on per-leg queues, one writer per carrier, *)
(* carrier failure, retirement and same-ID replacement, and peer ACKs, all    *)
(* around one StreamTXLedger.  Default scheduling: the policy that prefers    *)
(* one leg over another is left out, so any open carrier may be chosen.       *)
(*                                                                            *)
(* A producer step ends where the code releases the ledger lock or touches a  *)
(* channel; between two of its steps the carrier it holds a pointer to may    *)
(* fail, be invalidated, retire, and be replaced under the same identity.     *)
EXTENDS StreamTXLedger, Sequences

CONSTANTS
    QueueFrames,   \* StreamConfig.QueueFrames: capacity of leg.send
    RescueFrames,  \* capacity of leg.rescue (8 in the code)
    MaxRecords,    \* bound: DATA frames the application writes
    MaxAttempts,   \* bound: attempts marked in the ledger
    MaxAttaches    \* bound: carriers attached, replacements included

ASSUME SenderAssumption ==
    /\ QueueFrames \in Nat \ {0} /\ RescueFrames \in Nat \ {0}
    /\ MaxRecords \in Nat /\ MaxAttempts \in Nat /\ MaxAttaches \in Nat

VARIABLES
    clock,         \* attempts marked so far: the time of the latest one
    producer,      \* producer["tx"], producer["retx"]: locals of the two loops
    retries,       \* the candidates scheduleRetries has still to try
    leg,           \* leg[c]: the c-th carrier ever attached
    carried,       \* sequences some carrier may have delivered to the peer
    sentAttempts   \* history: the attempts MarkAttemptSent committed

senderVars == <<clock, producer, retries, leg, carried, sentAttempts>>
vars == <<ledgerVars, senderVars>>

Producers == {"tx", "retx"}
None == [seq |-> -1, at |-> NoTime, rescue |-> FALSE]

Carriers == 1..MaxAttaches
NoCarrier == 0

IdleProducer == [pc |-> "idle", seq |-> -1, carrier |-> NoCarrier,
                 at |-> NoTime, rescue |-> FALSE]

(* phase: "none" not attached yet; "up"; "closed" by handleLegFailure;        *)
(* "retiring": removed from c.legs, its workers not all gone; "retired".      *)
(* wpc, watt and wheld are the writer's position, the attempt it handles and  *)
(* the ordinary attempt it holds while it writes a rescue first.  written:    *)
(* the sequences whose frames were completely written on this open carrier.   *)
NewLeg(phase, id) ==
    [phase |-> phase, id |-> id, send |-> <<>>, rescue |-> <<>>,
     wpc |-> "select", watt |-> None, wheld |-> None, written |-> {}]

Open(c) == leg[c].phase = "up"                           \* ~leg.closed
availableLegs == {c \in Carriers : Open(c)}
liveIDs == {leg[c].id : c \in availableLegs}

SenderInit ==
    /\ Init
    /\ clock = 0
    /\ producer = [p \in Producers |-> IdleProducer]
    /\ retries = {}
    /\ leg = [c \in Carriers |-> NewLeg("none", NoLeg)]
    /\ carried = {} /\ sentAttempts = {}

Goto(p, pc) == producer' = [producer EXCEPT ![p].pc = pc]

(* Faulty variants, each refuted by a property: the closed carrier not        *)
(* noticed after the enqueue; an identity reused while its writer still runs. *)
RecheckSkipped(p) ==
    LET a == producer[p] IN
    /\ a.pc = "recheck"
    /\ producer' = [producer EXCEPT ![p] =
          IF p = "tx" THEN [IdleProducer EXCEPT !.pc = "queued", !.seq = a.seq]
                      ELSE IdleProducer]
    /\ UNCHANGED <<ledgerVars, clock, retries, leg, carried, sentAttempts>>

AttachLegNoBarrier(id) ==
    /\ \A c \in Carriers : leg[c].id = id => leg[c].phase \in {"retiring", "retired"}
    /\ \E c \in Carriers : leg[c].phase = "none"
    /\ LET c == Min({d \in Carriers : leg[d].phase = "none"})
       IN  leg' = [leg EXCEPT ![c] = NewLeg("up", id)]
    /\ UNCHANGED <<ledgerVars, clock, producer, retries, carried, sentAttempts>>
-------------------------------------------------------------------------------
(* txLoop: one chunk read from the application becomes a record. *)
TxAdd ==
    /\ producer["tx"].pc = "idle" /\ nextSequence < MaxRecords
    /\ \E size \in Sizes : add(size, TRUE)
    /\ producer' = [producer EXCEPT !["tx"] =
                      [IdleProducer EXCEPT !.pc = "choose", !.seq = nextSequence]]
    /\ UNCHANGED <<clock, retries, leg, carried, sentAttempts>>

(* enqueueRecord returns: the record was queued, or an ACK retired it. *)
TxFinish ==
    /\ \/ producer["tx"].pc = "queued"
       \/ producer["tx"].pc = "choose" /\ producer["tx"].seq \notin Outstanding
    /\ producer' = [producer EXCEPT !["tx"] = IdleProducer]
    /\ IF producer["tx"].seq \in Outstanding
       THEN finishLocalEnqueue(producer["tx"].seq)
       ELSE UNCHANGED ledgerVars
    /\ UNCHANGED <<clock, retries, leg, carried, sentAttempts>>

(* scheduleRetries: PlanRetries against the legs that are live now. *)
PlanRetries ==
    {s \in Outstanding :
        LET r == outstanding[s] IN
        /\ ~r.localEnqueue /\ ~r.inTransit /\ ~r.rescueInTransit
        /\ r.lastSentLeg \notin liveIDs}

scheduleRetries ==
    /\ producer["retx"].pc = "idle" /\ retries = {} /\ availableLegs # {}
    /\ PlanRetries # {}
    /\ retries' = PlanRetries
    /\ UNCHANGED <<ledgerVars, clock, producer, leg, carried, sentAttempts>>

(* tryEnqueueRecord on the next candidate, in sequence order. *)
RetryNext ==
    /\ producer["retx"].pc = "idle" /\ retries # {}
    /\ LET s == Min(retries) IN
       /\ retries' = retries \ {s}
       /\ producer' = IF s \in Outstanding /\ availableLegs # {}
                      THEN [producer EXCEPT !["retx"] =
                              [IdleProducer EXCEPT !.pc = "choose", !.seq = s]]
                      ELSE producer
    /\ UNCHANGED <<ledgerVars, clock, leg, carried, sentAttempts>>

(* frontierSnapshot.Owner: who is held responsible for the ACK frontier. *)
frontierOwner(r) ==
    IF r.inTransit THEN r.transitLeg
    ELSE IF r.lastSentLeg # NoLeg THEN r.lastSentLeg ELSE r.ordinaryOwner

(* scheduleFrontierRescue: the head of the ledger is overdue (any time is a   *)
(* possible one).  One live leg rescues on itself; several need a live owner  *)
(* and avoid it.                                                              *)
RescueTargets ==
    IF ackedNext \notin Outstanding \/ outstanding[ackedNext].rescueInTransit
    THEN {}
    ELSE IF Cardinality(availableLegs) = 1 THEN availableLegs
    ELSE LET owner == frontierOwner(outstanding[ackedNext])
         IN  IF owner \in liveIDs THEN {c \in availableLegs : leg[c].id # owner}
             ELSE {}

scheduleFrontierRescue ==
    /\ producer["retx"].pc = "idle" /\ retries = {}
    /\ \E c \in RescueTargets :
          producer' = [producer EXCEPT !["retx"] =
                         [pc |-> "mark", seq |-> ackedNext, carrier |-> c,
                          at |-> NoTime, rescue |-> TRUE]]
    /\ UNCHANGED <<ledgerVars, clock, retries, leg, carried, sentAttempts>>
-------------------------------------------------------------------------------
(* tryQueue and tryQueueRescue: the carrier is open when it is chosen ...     *)
ChooseLeg(p, c) ==
    /\ producer[p].pc = "choose" /\ producer[p].seq \in Outstanding
    /\ c \in availableLegs
    /\ producer' = [producer EXCEPT ![p].pc = "mark", ![p].carrier = c]
    /\ UNCHANGED <<ledgerVars, clock, retries, leg, carried, sentAttempts>>

(* Where a failed tryQueue returns to: txLoop tries again, retransmitLoop     *)
(* leaves the record to its next turn.                                        *)
GiveUp(p) ==
    producer' = [producer EXCEPT ![p] =
        IF p = "tx" THEN [IdleProducer EXCEPT !.pc = "choose", !.seq = producer[p].seq]
                    ELSE IdleProducer]

(* ... the attempt is marked in the ledger ...                                *)
MarkAttempt(p) ==
    /\ producer[p].pc = "mark" /\ clock < MaxAttempts
    /\ LET a == producer[p]
           l == leg[a.carrier].id
           free == IF a.rescue THEN CanMarkRescue(a.seq, l)
                               ELSE CanMarkTransit(a.seq)
       IN  IF free
           THEN /\ clock' = clock + 1
                /\ producer' = [producer EXCEPT ![p].pc = "enqueue", ![p].at = clock']
                /\ IF a.rescue THEN MarkRescueTransit(a.seq, l, clock')
                               ELSE MarkTransit(a.seq, l, clock')
           ELSE GiveUp(p) /\ UNCHANGED <<ledgerVars, clock>>
    /\ UNCHANGED <<retries, leg, carried, sentAttempts>>

(* ... and offered to the carrier's queue.  A closed carrier's done channel   *)
(* and its queue can both be ready: select takes either.                      *)
HasRoom(a) == IF a.rescue THEN Len(leg[a.carrier].rescue) < RescueFrames
                          ELSE Len(leg[a.carrier].send) < QueueFrames

Entry(a) == [seq |-> a.seq, at |-> a.at, rescue |-> a.rescue]

EnqueueAccepted(p) ==
    LET a == producer[p] IN
    /\ a.pc = "enqueue"
    /\ HasRoom(a)
    /\ leg' = IF leg[a.carrier].wpc = "exit" THEN leg
              ELSE IF a.rescue
              THEN [leg EXCEPT ![a.carrier].rescue = Append(@, Entry(a))]
              ELSE [leg EXCEPT ![a.carrier].send = Append(@, Entry(a))]
    /\ Goto(p, IF a.rescue THEN "cooldown" ELSE "recheck")
    /\ UNCHANGED <<ledgerVars, clock, retries, carried, sentAttempts>>

EnqueueRefused(p) ==
    LET a == producer[p] IN
    /\ a.pc = "enqueue"
    /\ ~Open(a.carrier) \/ ~HasRoom(a)
    /\ clearAttemptAt(a.seq, leg[a.carrier].id, a.rescue, a.at)
    /\ GiveUp(p)
    /\ UNCHANGED <<clock, retries, leg, carried, sentAttempts>>

(* A rescue commits its cooldown once the queue accepted it. *)
CommitCooldown(p) ==
    LET a == producer[p] IN
    /\ a.pc = "cooldown"
    /\ IF CanMarkRescueQueued(a.seq, leg[a.carrier].id, a.at)
       THEN MarkRescueQueued(a.seq, leg[a.carrier].id, a.at)
       ELSE UNCHANGED ledgerVars
    /\ Goto(p, "recheck")
    /\ UNCHANGED <<clock, retries, leg, carried, sentAttempts>>

(* The queue can win the select while the carrier closes: check again. *)
Recheck(p) ==
    LET a == producer[p] IN
    /\ a.pc = "recheck"
    /\ IF Open(a.carrier)
       THEN /\ producer' = [producer EXCEPT ![p] =
                  IF p = "tx" THEN [IdleProducer EXCEPT !.pc = "queued", !.seq = a.seq]
                              ELSE IdleProducer]
            /\ UNCHANGED ledgerVars
       ELSE clearAttemptAt(a.seq, leg[a.carrier].id, a.rescue, a.at) /\ GiveUp(p)
    /\ UNCHANGED <<clock, retries, leg, carried, sentAttempts>>
-------------------------------------------------------------------------------
(* legWriteLoop.  The rescue lane goes first; an ordinary attempt already     *)
(* taken is held while at most one rescue that raced with it is written.      *)
Resume(c) == IF leg[c].wheld = None THEN "select" ELSE "turn"

WriterTakesRescue(c) ==
    /\ leg[c].wpc \in {"select", "held"} /\ leg[c].rescue # <<>>
    /\ leg' = [leg EXCEPT ![c].watt = Head(leg[c].rescue),
                          ![c].rescue = Tail(@), ![c].wpc = "check"]
    /\ UNCHANGED <<ledgerVars, clock, producer, retries, carried, sentAttempts>>

WriterTakesOrdinary(c) ==
    /\ leg[c].wpc = "select" /\ leg[c].send # <<>>
    /\ leg' = [leg EXCEPT ![c].wheld = Head(leg[c].send), ![c].send = Tail(@),
                          ![c].wpc = "held"]
    /\ UNCHANGED <<ledgerVars, clock, producer, retries, carried, sentAttempts>>

WriterTurnsToHeld(c) ==
    /\ \/ leg[c].wpc = "held" /\ leg[c].rescue = <<>>
       \/ leg[c].wpc = "turn"
    /\ leg' = [leg EXCEPT ![c].watt = leg[c].wheld, ![c].wheld = None,
                          ![c].wpc = "check"]
    /\ UNCHANGED <<ledgerVars, clock, producer, retries, carried, sentAttempts>>

(* AttemptCurrent, and markWriteStarted when the write begins. *)
WriterChecks(c) ==
    LET a == leg[c].watt IN
    /\ leg[c].wpc = "check"
    /\ IF AttemptCurrent(a.seq, leg[c].id, a.rescue)
       THEN /\ leg' = [leg EXCEPT ![c].wpc = "write"]
            /\ markWriteStarted(a.seq, leg[c].id, a.rescue)
       ELSE /\ leg' = [leg EXCEPT ![c].wpc = Resume(c), ![c].watt = None]
            /\ UNCHANGED ledgerVars
    /\ UNCHANGED <<clock, producer, retries, carried, sentAttempts>>

WriterWrites(c) ==
    /\ leg[c].wpc = "write" /\ leg[c].phase = "up"
    /\ leg' = [leg EXCEPT ![c].wpc = "commit",
                          ![c].written = @ \cup {leg[c].watt.seq}]
    /\ carried' = carried \cup {leg[c].watt.seq}
    /\ UNCHANGED <<ledgerVars, clock, producer, retries, sentAttempts>>

(* The write fails; the peer may have got the whole frame nevertheless.  The  *)
(* attempt is cleared, then handleLegFailure runs in the writer.              *)
WriterFails(c) ==
    LET a == leg[c].watt IN
    /\ leg[c].wpc = "write"
    /\ carried' \in {carried, carried \cup {a.seq}}
    /\ clearAttemptAt(a.seq, leg[c].id, a.rescue, a.at)
    /\ leg' = [leg EXCEPT ![c].wpc = "fail"]
    /\ UNCHANGED <<clock, producer, retries, sentAttempts>>

WriterCommits(c) ==
    LET a == leg[c].watt IN
    /\ leg[c].wpc = "commit"
    /\ MarkAttemptSent(a.seq, leg[c].id, a.rescue)
    /\ sentAttempts' = IF AttemptCurrent(a.seq, leg[c].id, a.rescue)
                       THEN sentAttempts \cup {IF a.rescue THEN outstanding[a.seq].rescueSince
                                               ELSE outstanding[a.seq].transitSince}
                       ELSE sentAttempts
    /\ leg' = [leg EXCEPT ![c].wpc = Resume(c), ![c].watt = None]
    /\ UNCHANGED <<clock, producer, retries, carried>>

(* The writer returns; what is left in its queues nobody will read. *)
WriterExits(c) ==
    /\ leg[c].wpc \in {"select", "held", "fail"} /\ leg[c].phase \in {"closed", "retiring"}
    /\ leg' = [leg EXCEPT ![c].wpc = "exit", ![c].watt = None, ![c].wheld = None,
                          ![c].send = <<>>, ![c].rescue = <<>>]
    /\ UNCHANGED <<ledgerVars, clock, producer, retries, carried, sentAttempts>>
-------------------------------------------------------------------------------
(* handleLegFailure, from the writer or (at any time) from the reader:        *)
(* leg.close; then, removed from c.legs, InvalidateLeg.                       *)
FailClose(c) ==
    /\ leg[c].phase = "up"
    /\ leg' = [leg EXCEPT ![c].phase = "closed", ![c].written = {}]
    /\ UNCHANGED <<ledgerVars, clock, producer, retries, carried, sentAttempts>>

FailInvalidate(c) ==
    /\ leg[c].phase = "closed"
    /\ leg' = [leg EXCEPT ![c].phase = "retiring"]
    /\ InvalidateLeg(leg[c].id)
    /\ UNCHANGED <<clock, producer, retries, carried, sentAttempts>>

(* Both workers are gone: retiring[id] is deleted. *)
Retire(c) ==
    /\ leg[c].phase = "retiring" /\ leg[c].wpc = "exit"
    /\ leg' = [leg EXCEPT ![c].phase = "retired"]
    /\ UNCHANGED <<ledgerVars, clock, producer, retries, carried, sentAttempts>>

(* attachLeg refuses an identity in use and waits for one that is retiring. *)
AttachLeg(id) ==
    /\ \A c \in Carriers : leg[c].id = id => leg[c].phase = "retired"
    /\ \E c \in Carriers : leg[c].phase = "none"
    /\ LET c == Min({d \in Carriers : leg[d].phase = "none"})
       IN  leg' = [leg EXCEPT ![c] = NewLeg("up", id)]
    /\ UNCHANGED <<ledgerVars, clock, producer, retries, carried, sentAttempts>>

(* A cumulative ACK arrives over any carrier: the peer acknowledges what it   *)
(* may have received.                                                         *)
ReceiveAck(next) ==
    /\ \A s \in 0..(next - 1) : s \in carried
    /\ ApplyACKAdvanced(next)
    /\ UNCHANGED senderVars
-------------------------------------------------------------------------------
Produce(p) ==
    \/ \E c \in Carriers : ChooseLeg(p, c)
    \/ MarkAttempt(p) \/ EnqueueAccepted(p) \/ EnqueueRefused(p)
    \/ CommitCooldown(p) \/ Recheck(p)

LegWriter(c) ==
    \/ WriterTakesRescue(c) \/ WriterTakesOrdinary(c) \/ WriterTurnsToHeld(c)
    \/ WriterChecks(c) \/ WriterWrites(c) \/ WriterFails(c) \/ WriterCommits(c)
    \/ WriterExits(c)

LegLifecycle(c) == FailClose(c) \/ FailInvalidate(c) \/ Retire(c)

Next ==
    \/ TxAdd \/ TxFinish
    \/ scheduleRetries \/ RetryNext \/ scheduleFrontierRescue
    \/ \E p \in Producers : Produce(p)
    \/ \E c \in Carriers : LegWriter(c) \/ LegLifecycle(c)
    \/ \E id \in Legs : AttachLeg(id)
    \/ \E next \in 1..MaxRecords : ReceiveAck(next)

Spec == SenderInit /\ [][Next]_vars
-------------------------------------------------------------------------------
Attempt == [seq : Int, at : Nat, rescue : BOOLEAN]

(* The sender's types.  The ledger maps the unacknowledged sequences, and no  *)
(* others, to records: a failing carrier takes none of them along.            *)
TypeOK ==
    /\ nextSequence \in Nat /\ ackedNext \in Nat
    /\ outstanding \in [ackedNext..(nextSequence - 1) -> StreamTXRecord]
    /\ clock \in 0..MaxAttempts
    /\ producer \in [Producers ->
          [pc : {"idle", "choose", "mark", "enqueue", "cooldown", "recheck", "queued"},
           seq : Int, carrier : Carriers \cup {NoCarrier}, at : Nat, rescue : BOOLEAN]]
    /\ retries \subseteq 0..(MaxRecords - 1)
    /\ leg \in [Carriers ->
          [phase : {"none", "up", "closed", "retiring", "retired"},
           id : Legs \cup {NoLeg}, send : Seq(Attempt), rescue : Seq(Attempt),
           wpc : {"select", "held", "turn", "check", "write", "commit", "fail", "exit"},
           watt : Attempt, wheld : Attempt, written : SUBSET Nat]]

(* The attempt e on leg identity l is somebody's business: a producer has     *)
(* still to enqueue or recheck it, an open carrier's queue or writer has it,  *)
(* or the carrier has closed and InvalidateLeg is still to come.              *)
Accounted(l, e) ==
    \/ \E p \in Producers :
          /\ producer[p].pc \in {"enqueue", "cooldown", "recheck"}
          /\ leg[producer[p].carrier].id = l /\ Entry(producer[p]) = e
    \/ \E c \in Carriers : leg[c].id = l /\ leg[c].phase = "closed"
    \/ \E c \in availableLegs :
          /\ leg[c].id = l
          /\ \/ \E i \in 1..Len(leg[c].send) : leg[c].send[i] = e
             \/ \E i \in 1..Len(leg[c].rescue) : leg[c].rescue[i] = e
             \/ leg[c].wpc \in {"check", "write", "commit"} /\ leg[c].watt = e
             \/ leg[c].wheld = e

(* No record stays pinned to a retired writer: an attempt that keeps a record *)
(* from being retried is always one that somebody will finish or clear        *)
(* (tryQueue rechecks the carrier after its queue accepted the attempt).      *)
NoPinnedRecord ==
    \A s \in Outstanding : LET r == outstanding[s] IN
        /\ r.inTransit =>
              Accounted(r.transitLeg, [seq |-> s, at |-> r.transitSince, rescue |-> FALSE])
        /\ r.rescueInTransit =>
              Accounted(r.rescueLeg, [seq |-> s, at |-> r.rescueSince, rescue |-> TRUE])

(* What the retry planner believes about a carrier is true: a record whose    *)
(* lastSentLeg is live was completely written on the open carrier, not on an  *)
(* earlier one with the same identity, and a retired carrier is nobody's      *)
(* lastSentLeg (the retiring barrier of attachLeg and InvalidateLeg).         *)
SentMeansWritten ==
    \A s \in Outstanding : LET l == outstanding[s].lastSentLeg IN
        l # NoLeg => \E c \in Carriers :
                        /\ leg[c].id = l
                        /\ \/ leg[c].phase = "closed"
                           \/ leg[c].phase = "up" /\ s \in leg[c].written

(* The rescue cooldown counts only rescues that are pending or were written:  *)
(* one that was abandoned leaves the frontier immediately rescuable.          *)
CooldownIsEarned ==
    \A s \in Outstanding : LET r == outstanding[s] IN
        r.lastRescueAt # NoTime =>
            \/ r.rescueInTransit /\ r.rescueSince = r.lastRescueAt
            \/ r.lastRescueAt \in sentAttempts

(* Nothing falls through: a record txLoop is done with and no attempt is out  *)
(* for is either on an open carrier or picked up by the next PlanRetries.     *)
NothingFallsThrough ==
    \A s \in Outstanding : LET r == outstanding[s] IN
        (~r.localEnqueue /\ ~r.inTransit /\ ~r.rescueInTransit)
            => \/ s \in PlanRetries
               \/ \E c \in availableLegs : s \in leg[c].written
===============================================================================
