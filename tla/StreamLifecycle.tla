--------------------------- MODULE StreamLifecycle ---------------------------
(* The life of a client stream session: which carriers ("legs") its engine    *)
(* has, who opens them, who redials them, and how the session ends.           *)
(*                                                                            *)
(* Many goroutines share this state: the bootstrap of the session, one repair *)
(* loop per leg, the workers of every leg, the OnLegDown callbacks, the       *)
(* zero-leg recovery deadlines, the graceful close, and the host that closes  *)
(* the session or replaces a carrier.  Each keeps its place between two steps *)
(* here exactly where the code holds no lock.                                 *)
EXTENDS Naturals

CONSTANTS
    LegCount,        \* configured legs
    MaxFailures,     \* bound, per startup policy: carriers that fail or are replaced
    Replaceable,     \* legs on which the host may call ReplaceLeg
    ReplaceJoining   \* whether it may do so while attachLeg is still running

Legs == 0 .. LegCount - 1

ASSUME LifecycleAssumption ==
    /\ LegCount \in Nat \ {0}
    /\ DOMAIN MaxFailures \subseteq {"first_ready", "host_bridge", "preferred"}
    /\ \A p \in DOMAIN MaxFailures : MaxFailures[p] \in Nat
    /\ Replaceable \subseteq Legs /\ ReplaceJoining \in BOOLEAN

VARIABLES
    policy,        \* configuration: how the session starts
    legs,          \* c.legs
    retiring,      \* c.retiring: removed, workers still running
    shut,          \* legs (live or retiring) whose streamLeg.close has run
    working,       \* legs whose workers attachLeg has started
    epoch,         \* recoveryEpoch
    timers,        \* failIfNoLegRecovers goroutines waiting for their timer; history:
                   \* whether a leg has been live since the timer started
    failing,       \* one of them found no leg and is about to call fail
    handlers,      \* handleLegFailure calls past the removal
    downs,         \* OnLegDown callbacks not yet run, per leg
    repair,        \* where scheduleRepair's goroutine is; "idle": repairing[l] is false
    boot,          \* the startup dial of each leg
    startupActive,
    active,
    cancelled,     \* the session's context
    closing, finalizing, done,
    grace,         \* the graceful-close goroutine
    toClose,       \* legs failWithAppClose has still to close
    outstanding,   \* once closing: DATA is not acknowledged yet
    tx,            \* once closing: where txLoop is, see TxPlaces
    joined,        \* history: legs that have been attached
    failures

engine == <<legs, retiring, shut, working>>
deadlines == <<epoch, timers, failing, handlers>>
callbacks == <<downs, repair, active>>
startup == <<policy, boot, startupActive>>
ending == <<cancelled, closing, finalizing, done, grace, toClose>>
tail == <<outstanding, tx>>
vars == <<engine, deadlines, callbacks, startup, ending, tail, joined, failures>>

Init ==
    /\ policy \in DOMAIN MaxFailures
    /\ legs = {} /\ retiring = {} /\ shut = {} /\ working = {}
    /\ epoch = 0 /\ timers = {} /\ failing = FALSE /\ handlers = {}
    /\ downs = [l \in Legs |-> 0]
    /\ repair = [l \in Legs |-> "idle"]
    /\ boot = [l \in Legs |->
                  IF l = 0 \/ policy = "preferred" THEN "dialing" ELSE "idle"]
    /\ startupActive = (policy = "preferred")
    /\ active = FALSE
    /\ cancelled = FALSE /\ closing = FALSE /\ finalizing = FALSE /\ done = FALSE
    /\ grace = "none" /\ toClose = {}
    /\ outstanding = FALSE /\ tx = "running" /\ joined = {} /\ failures = 0

-----------------------------------------------------------------------------
(* attachLeg.  The leg is published under the locks; the recovery epoch moves *)
(* and the workers start only after they are released.                        *)

(* Faulty variants, each refuted by a property: the closed session not        *)
(* noticed; a leg attached over its retiring predecessor.                     *)
RefusedIfPresent(l) == l \in legs

Refused(l) == finalizing \/ done \/ l \in legs

PublishOverRetiring(l) ==
    /\ ~Refused(l)
    /\ legs' = legs \cup {l}
    /\ joined' = joined \cup {l}
    /\ timers' = {[t EXCEPT !.recovered = TRUE] : t \in timers}
    /\ UNCHANGED <<retiring, shut, working, epoch, failing, handlers>>

Publish(l) ==
    /\ ~Refused(l) /\ l \notin retiring
    /\ legs' = legs \cup {l}
    /\ joined' = joined \cup {l}
    /\ timers' = {[t EXCEPT !.recovered = TRUE] : t \in timers}
    /\ UNCHANGED <<retiring, shut, working, epoch, failing, handlers>>

StartWorkers(l) ==
    /\ epoch' = epoch + 1
    /\ working' = working \cup {l}
    /\ UNCHANGED <<legs, retiring, shut, timers, failing, handlers>>

(* fail: closeOnce, FINALIZING and DONE in one critical section with the      *)
(* snapshot of the legs, which are closed after it.  txLoop and the graceful  *)
(* close return, and what is outstanding no longer matters.                   *)
Fail ==
    /\ finalizing' = TRUE /\ done' = TRUE
    /\ toClose' = IF done THEN toClose ELSE legs
    /\ grace' = "over" /\ tx' = "stopped" /\ outstanding' = FALSE

CloseLegs ==
    /\ toClose # {}
    /\ shut' = shut \cup (toClose \cap (legs \cup retiring))
    /\ toClose' = {}
    /\ UNCHANGED <<legs, retiring, working, deadlines, callbacks, startup,
                   cancelled, closing, finalizing, done, grace, tail, joined, failures>>

-----------------------------------------------------------------------------
(* scheduleRepair and its goroutine.                                          *)

(* The repair loops after scheduleRepair has been called for every leg of S;  *)
(* the configured legs do not change here, so wantsLeg holds.                 *)
RepairScheduled(S) ==
    [l \in Legs |-> IF l \in S /\ ~cancelled /\ repair[l] = "idle" THEN "check" ELSE repair[l]]

Go(l, place) == repair' = [repair EXCEPT ![l] = place]

RepairFrame == UNCHANGED <<downs, active, startup, ending, tail, failures>>

RepairCheck(l) ==
    /\ repair[l] = "check"
    /\ Go(l, IF cancelled \/ l \in legs THEN "returning" ELSE "dialing")
    /\ UNCHANGED <<engine, deadlines, joined>> /\ RepairFrame

RepairDialOk(l) ==
    /\ repair[l] = "dialing" /\ ~cancelled
    /\ Go(l, "dialed")
    /\ UNCHANGED <<engine, deadlines, joined>> /\ RepairFrame

RepairDialFails(l) ==
    /\ repair[l] = "dialing"
    /\ Go(l, "waiting")
    /\ UNCHANGED <<engine, deadlines, joined>> /\ RepairFrame

(* The checks after the dial; the connection is closed when they fail.        *)
RepairDialed(l) ==
    /\ repair[l] = "dialed"
    /\ Go(l, IF cancelled \/ l \in legs THEN "returning" ELSE "attach")
    /\ UNCHANGED <<engine, deadlines, joined>> /\ RepairFrame

(* attachLeg waits for a retiring generation; refused, the connection is      *)
(* closed and the loop waits for the redial interval.                         *)
RepairAttach(l) ==
    /\ repair[l] = "attach"
    /\ \/ Refused(l) /\ Go(l, "waiting") /\ UNCHANGED <<engine, deadlines, joined>>
       \/ Publish(l) /\ Go(l, "attached")
    /\ RepairFrame

RepairAttached(l) ==
    /\ repair[l] = "attached"
    /\ StartWorkers(l)
    /\ Go(l, "returning")
    /\ UNCHANGED joined /\ RepairFrame

RepairWaited(l) ==
    /\ repair[l] = "waiting"
    /\ Go(l, IF cancelled THEN "returning" ELSE "check")
    /\ UNCHANGED <<engine, deadlines, joined>> /\ RepairFrame

(* The deferred repairing[l] = false.                                         *)
RepairReturns(l) ==
    /\ repair[l] = "returning"
    /\ Go(l, "idle")
    /\ UNCHANGED <<engine, deadlines, joined>> /\ RepairFrame

(* onLegDown: ignored while the session is starting.                          *)
LegDown(l) ==
    /\ downs[l] > 0
    /\ downs' = [downs EXCEPT ![l] = @ - 1]
    /\ repair' = IF startupActive THEN repair ELSE RepairScheduled({l})
    /\ UNCHANGED <<engine, deadlines, active, startup, ending, tail, joined, failures>>

(* activate with onActivate, which brings up every leg but the primary.       *)
Activated ==
    /\ active' = TRUE
    /\ repair' = IF active \/ startupActive THEN repair ELSE RepairScheduled(Legs \ {0})

TailAcked == closing /\ ~outstanding

ActivationLoop ==
    /\ joined # {} /\ ~active /\ ~done /\ ~TailAcked
    /\ Activated
    /\ UNCHANGED <<engine, deadlines, downs, startup, ending, tail, joined, failures>>

PeerActivates ==
    /\ ~active /\ \E l \in legs : l \in working \ shut
    /\ Activated
    /\ UNCHANGED <<engine, deadlines, downs, startup, ending, tail, joined, failures>>

-----------------------------------------------------------------------------
(* handleLegFailure: removal under legsMu, then the notifications, then the   *)
(* deadline when the leg was the last one.                                    *)

Removal(l, byWorker) ==
    /\ legs' = legs \ {l}
    /\ retiring' = retiring \cup {l}
    /\ shut' = shut \cup {l}
    /\ handlers' = handlers \cup {[leg |-> l, last |-> legs = {l}, worker |-> byWorker,
                                   stage |-> "notify", id |-> failures]}
    /\ UNCHANGED <<working, epoch, timers, failing, callbacks, startup, ending,
                   tail, joined>>

CarrierFails(l) ==
    /\ l \in legs \cap working
    /\ \/ l \in shut /\ UNCHANGED failures
       \/ l \notin shut /\ failures < MaxFailures[policy] /\ failures' = failures + 1
    /\ Removal(l, TRUE)

(* Reload removes a leg by force, once startup is over.                       *)
ReplaceLeg(l) ==
    /\ l \in legs \cap Replaceable /\ (l \in working \/ ReplaceJoining)
    /\ ~cancelled /\ ~startupActive /\ \A m \in Legs : boot[m] \in {"idle", "over"}
    /\ failures < MaxFailures[policy] /\ failures' = failures + 1
    /\ Removal(l, FALSE)

HandlerNotifies(h) ==
    /\ h.stage = "notify"
    /\ IF done \/ finalizing \/ TailAcked
       THEN handlers' = handlers \ {h} /\ UNCHANGED callbacks
       ELSE /\ IF h.leg = 0 /\ ~active THEN Activated ELSE UNCHANGED <<active, repair>>
            /\ downs' = [downs EXCEPT ![h.leg] = @ + 1]
            /\ handlers' = (handlers \ {h}) \cup
                              (IF h.last THEN {[h EXCEPT !.stage = "arm"]} ELSE {})
    /\ UNCHANGED <<engine, epoch, timers, failing, startup, ending, tail, joined, failures>>

(* Faulty: the deadline carries the epoch before the increment.               *)
HandlerArmsOldEpoch(h) ==
    /\ h.stage = "arm"
    /\ epoch' = epoch + 1
    /\ timers' = timers \cup {[epoch |-> epoch, recovered |-> legs # {}]}
    /\ handlers' = handlers \ {h}
    /\ UNCHANGED <<engine, failing, callbacks, startup, ending, tail, joined, failures>>

HandlerArms(h) ==
    /\ h.stage = "arm"
    /\ epoch' = epoch + 1
    /\ timers' = timers \cup {[epoch |-> epoch + 1, recovered |-> legs # {}]}
    /\ handlers' = handlers \ {h}
    /\ UNCHANGED <<engine, failing, callbacks, startup, ending, tail, joined, failures>>

(* Both workers have exited; the one that runs the failure handler has to     *)
(* finish it first.                                                           *)
LegRetires(l) ==
    /\ l \in retiring \cap working
    /\ \A h \in handlers : ~(h.leg = l /\ h.worker)
    /\ retiring' = retiring \ {l} /\ shut' = shut \ {l} /\ working' = working \ {l}
    /\ UNCHANGED <<legs, deadlines, callbacks, startup, ending, tail, joined, failures>>

(* failIfNoLegRecovers: the check when the timer fires, and the call of fail. *)
TimerExpires(t) ==
    /\ timers' = timers \ {t}
    /\ failing' = (failing \/ (~done /\ epoch = t.epoch /\ legs = {}))
    /\ UNCHANGED <<engine, epoch, handlers, callbacks, startup, ending, tail, joined, failures>>

TimerFails ==
    /\ failing /\ failing' = FALSE
    /\ Fail
    /\ UNCHANGED <<engine, epoch, timers, handlers, callbacks, startup, cancelled, closing,
                   joined, failures>>

-----------------------------------------------------------------------------
(* newStreamSession: startFirstReady (with a host bridge it dials the other   *)
(* legs one after the other) and startPreferred (all at once, results taken   *)
(* one at a time, the session returned at the first leg).                     *)

Parallel == policy = "preferred"
BootGo(l, place) == boot' = [boot EXCEPT ![l] = place]

BootFrame == UNCHANGED <<policy, callbacks, startupActive, closing, finalizing, done, grace, toClose,
                         tail, failures>>

BootDialOk(l) ==
    /\ boot[l] = "dialing" /\ ~cancelled
    /\ BootGo(l, IF Parallel THEN "dialed" ELSE "attach")
    /\ UNCHANGED <<engine, deadlines, cancelled, joined>> /\ BootFrame

BootDialFails(l) ==
    /\ boot[l] = "dialing"
    /\ BootGo(l, "failed")
    /\ UNCHANGED <<engine, deadlines, cancelled, joined>> /\ BootFrame

BootTakes(l) ==
    /\ boot[l] = "dialed"
    /\ \A m \in Legs : boot[m] \notin {"attach", "attached"}
    /\ BootGo(l, IF cancelled \/ finalizing \/ l \in legs THEN "over" ELSE "attach")
    /\ UNCHANGED <<engine, deadlines, cancelled, joined>> /\ BootFrame

BootAttach(l) ==
    /\ boot[l] = "attach"
    /\ \/ /\ Refused(l)
          /\ BootGo(l, IF Parallel THEN "over" ELSE "failed")
          /\ UNCHANGED <<engine, deadlines, joined>>
       \/ Publish(l) /\ BootGo(l, "attached")
    /\ UNCHANGED cancelled /\ BootFrame

BootAttached(l) ==
    /\ boot[l] = "attached"
    /\ StartWorkers(l)
    /\ boot' = [m \in Legs |->
                   IF m = l THEN "over"
                   ELSE IF policy = "host_bridge" /\ m = l + 1 THEN "dialing"
                   ELSE boot[m]]
    /\ UNCHANGED <<cancelled, joined>> /\ BootFrame

(* Faulty: a failed leg does not end the startup.                             *)
BootFailedKeepsSession(l) ==
    /\ boot[l] = "failed"
    /\ BootGo(l, "over")
    /\ UNCHANGED <<engine, deadlines, cancelled, joined>> /\ BootFrame

(* A failed dial or attach ends a sequential startup: s.Close().              *)
BootFailed(l) ==
    /\ boot[l] = "failed"
    /\ BootGo(l, "over")
    /\ cancelled' = (cancelled \/ ~Parallel)
    /\ UNCHANGED <<engine, deadlines, joined>> /\ BootFrame

BootEnds ==
    /\ startupActive /\ \A l \in Legs : boot[l] = "over"
    /\ startupActive' = FALSE
    /\ cancelled' = (cancelled \/ joined = {})
    /\ UNCHANGED <<policy, engine, deadlines, callbacks, boot, closing, finalizing, done, grace, toClose,
                   tail, joined, failures>>

-----------------------------------------------------------------------------
(* How a session ends.                                                        *)

EndFrame == UNCHANGED <<engine, deadlines, callbacks, startup, joined, failures>>

(* The application or the client closes the session: its context first.       *)
SessionCloses ==
    /\ ~cancelled /\ cancelled' = TRUE
    /\ UNCHANGED <<closing, finalizing, done, grace, toClose, tail>> /\ EndFrame

(* watchEngine and streamSession.Close call engine.Close.                     *)
EngineCloses ==
    /\ cancelled /\ ~done
    /\ closing' = TRUE /\ Fail
    /\ UNCHANGED cancelled /\ EndFrame

(* Faulty: the end of the engine does not cancel the session's context.       *)
NoWatch == FALSE /\ UNCHANGED vars

WatchEngine ==
    /\ done /\ ~cancelled /\ cancelled' = TRUE
    /\ UNCHANGED <<closing, finalizing, done, grace, toClose, tail>> /\ EndFrame

(* A CLOSE frame at the receive frontier: StartGracefulClose.  Whether DATA   *)
(* is unacknowledged, and where txLoop is, matter from here on only: waiting  *)
(* for a token or for the pipe it stops at once; else it has read a chunk     *)
(* that is not in the ledger yet, or one that waits in enqueueRecord.         *)
PeerCloses(l) ==
    /\ l \in (legs \cap working) \ shut /\ grace = "none" /\ ~done
    /\ closing' = TRUE /\ grace' = "draining"
    /\ \/ tx' \in {"stopped", "reading"} /\ outstanding' \in BOOLEAN
       \/ tx' = "placing" /\ outstanding' = TRUE
    /\ UNCHANGED <<cancelled, finalizing, done, toClose>> /\ EndFrame

(* The chunk gets its record; "late" is "placing" for such a record.          *)
TxAdds ==
    /\ tx = "reading" /\ ~done
    /\ tx' = "late" /\ outstanding' = TRUE
    /\ UNCHANGED ending /\ EndFrame

(* enqueueRecord queues the record on an open leg, and txLoop stops at the    *)
(* closed pipe.  It heeds the end of the engine but not the close: nothing    *)
(* bounds its wait for room in a queue behind a carrier that hangs, or for a  *)
(* first leg.                                                                 *)
TxPlaces ==
    /\ tx \in {"placing", "late"} /\ ~done /\ legs \ shut # {}
    /\ tx' = "stopped"
    /\ UNCHANGED <<ending, outstanding>> /\ EndFrame

(* The close waits for txStopped, then for the ACKs; its stall timeout starts *)
(* after txStopped.                                                           *)
DrainEnds ==
    /\ grace = "draining" /\ tx = "stopped" /\ ~done /\ ~outstanding
    /\ finalizing' = TRUE /\ grace' = "sending"
    /\ UNCHANGED <<cancelled, closing, done, toClose, tail>> /\ EndFrame

DrainStalls ==
    /\ grace = "draining" /\ tx = "stopped" /\ ~done /\ outstanding
    /\ Fail
    /\ UNCHANGED <<cancelled, closing>> /\ EndFrame

(* sendCloseFrame is bounded; both of its results end in fail.                *)
CloseFrameSent ==
    /\ grace = "sending" /\ ~done
    /\ Fail
    /\ UNCHANGED <<cancelled, closing>> /\ EndFrame

(* The peer acknowledges the rest.                                            *)
AckAll ==
    /\ outstanding /\ tx \notin {"placing", "late"} /\ ~done
    /\ (legs \cap working) \ shut # {}
    /\ outstanding' = FALSE
    /\ UNCHANGED <<ending, tx>> /\ EndFrame

-----------------------------------------------------------------------------
RepairStep(l) ==
    \/ RepairCheck(l) \/ RepairDialOk(l) \/ RepairDialFails(l) \/ RepairDialed(l)
    \/ RepairAttach(l) \/ RepairAttached(l) \/ RepairWaited(l) \/ RepairReturns(l)

BootStep(l) ==
    \/ BootDialOk(l) \/ BootDialFails(l) \/ BootTakes(l)
    \/ BootAttach(l) \/ BootAttached(l) \/ BootFailed(l)

HandlerStep(h) == HandlerNotifies(h) \/ HandlerArms(h)

Next ==
    \/ \E l \in Legs : \/ RepairStep(l) \/ BootStep(l) \/ LegDown(l)
                       \/ CarrierFails(l) \/ ReplaceLeg(l) \/ LegRetires(l) \/ PeerCloses(l)
    \/ \E h \in handlers : HandlerStep(h)
    \/ \E t \in timers : TimerExpires(t)
    \/ TimerFails \/ CloseLegs \/ BootEnds
    \/ ActivationLoop \/ PeerActivates \/ AckAll
    \/ SessionCloses \/ EngineCloses \/ WatchEngine
    \/ TxAdds \/ TxPlaces \/ DrainEnds \/ DrainStalls \/ CloseFrameSent

SafeSpec == Init /\ [][Next]_vars

(* What a goroutine or timer does once it can, the dial loops of an open      *)
(* session aside; there is only so much of it to do between two failures.     *)
Settle ==
    \/ \E l \in Legs : \/ BootStep(l) \/ LegDown(l) \/ LegRetires(l)
                       \/ l \in shut /\ CarrierFails(l)
                       \/ cancelled /\ RepairStep(l)
    \/ \E h \in handlers : HandlerStep(h)
    \/ \E t \in timers : TimerExpires(t)
    \/ TimerFails \/ CloseLegs \/ BootEnds \/ EngineCloses \/ WatchEngine
    \/ DrainEnds \/ DrainStalls \/ CloseFrameSent

(* Goroutines run, timers fire and dials return; nothing makes a dial         *)
(* succeed, a live carrier fail or take a record, or the peer acknowledge.    *)
FairSpec == SafeSpec /\ WF_vars(Settle)

(* The repair loops of an open session go on as well.                         *)
RedialSpec == FairSpec /\ \A l \in Legs : WF_vars(RepairStep(l))

-----------------------------------------------------------------------------
RepairPlaces == {"idle", "check", "dialing", "dialed", "attach", "attached", "waiting", "returning"}
BootPlaces == {"idle", "dialing", "dialed", "attach", "attached", "failed", "over"}

(* The shape of the state, and the two exclusions the leg tables keep: a leg  *)
(* ID is never live and retiring at once, and only a published leg has        *)
(* workers or a closed carrier.                                               *)
TypeOK ==
    /\ legs \subseteq Legs /\ retiring \subseteq Legs /\ legs \cap retiring = {}
    /\ shut \subseteq legs \cup retiring /\ working \subseteq legs \cup retiring
    /\ retiring \subseteq shut
    /\ epoch \in Nat /\ failing \in BOOLEAN
    /\ \A t \in timers : t.epoch \in 1 .. epoch /\ t.recovered \in BOOLEAN
    /\ \A h \in handlers : h.leg \in Legs /\ h.stage \in {"notify", "arm"}
    /\ downs \in [Legs -> Nat] /\ repair \in [Legs -> RepairPlaces]
    /\ boot \in [Legs -> BootPlaces]
    /\ {startupActive, active, cancelled, closing, finalizing, done, outstanding} \subseteq BOOLEAN
    /\ grace \in {"none", "draining", "sending", "over"}
    /\ tx \in {"running", "reading", "placing", "late", "stopped"}
    /\ toClose \subseteq Legs /\ joined \subseteq Legs /\ failures \in 0 .. MaxFailures[policy]

(* No carrier outlives its session: once fail has closed the legs it found,   *)
(* every leg still in the table is closed, whatever repair or startup was     *)
(* attaching one at the time (lifecycleMu in attachLeg and failWithAppClose). *)
DoneMeansClosed == done /\ toClose = {} => legs \subseteq shut

(* A session without any leg gets one back or ends: the recovery deadline of  *)
(* the last failed leg is never lost (recoveryEpoch), and a closing session   *)
(* that needs none drains without it.  The exception: a chunk that txLoop     *)
(* adds after handleLegFailure found nothing outstanding and armed none.      *)
ZeroLegsResolved == legs = {} ~> (legs # {} \/ done \/ tx \in {"reading", "late"})

(* Nothing of the session runs any more. *)
Quiet ==
    /\ legs = {} /\ retiring = {} /\ timers = {} /\ handlers = {} /\ ~failing /\ ~startupActive
    /\ \A l \in Legs : repair[l] = "idle" /\ downs[l] = 0 /\ boot[l] \in {"idle", "over"}

(* A session that ends, is cancelled, or is closed by the peer with txLoop    *)
(* stopped, ends and leaves nothing behind: the drain finishes or stalls out, *)
(* the CLOSE frame is bounded, and no dial, repair loop, deadline, worker or  *)
(* startup goroutine runs for ever, however the carriers fail meanwhile.      *)
(* While txLoop holds a chunk the close waits for it without any bound        *)
(* (StartGracefulClose, drainOutstandingOnClose, enqueueRecord).              *)
CloseEndsEverything ==
    ((closing /\ tx = "stopped") \/ cancelled \/ done) ~> (done /\ Quiet)

(* A failed leg is redialed: while the session is open, a leg that was joined *)
(* and is down comes up again or has a repair loop working on it.             *)
FailedLegIsRedialed ==
    \A l \in Legs :
        (l \in joined \ legs) ~>
            \/ l \in legs
            \/ repair[l] \in {"check", "dialing", "dialed", "attach", "waiting"}
            \/ cancelled \/ closing \/ done

(* An outage that follows a recovery has a recovery timeout of its own: the   *)
(* deadline that ends a session is never inherited from an earlier outage,    *)
(* that is, no leg has been live since its timer started (recoveryEpoch).     *)
FreshRecoveryTimeout ==
    [][~failing /\ failing' => \A t \in timers \ timers' : ~t.recovered]_vars

(* A host bridge startup is all or nothing: a session it returns has had      *)
(* every configured leg attached.                                             *)
StartedWithEveryLeg ==
    policy = "host_bridge" /\ (\A l \in Legs : boot[l] \in {"idle", "over"}) /\ ~cancelled
        => joined = Legs
=============================================================================
