---------------------------- MODULE ServerSessions ----------------------------
(* The server's side of a session: carriers that connect, say HELLO, are      *)
(* admitted to a session, reserve a leg, are told READY and are attached; the *)
(* session object with its engine, its host connection and its watcher; and   *)
(* Server.Close (server/server.go, session.go, stream.go,                     *)
(* connection_limit.go).  Every carrier has a handler goroutine of its own.   *)
(* Engines are seen from outside: they have legs, and they end.               *)
EXTENDS Naturals, FiniteSets

CONSTANTS
    Carriers,        \* connections a client may open
    IDs,             \* session identifiers
    Hellos,          \* Hellos[c]: what carrier c may say, as <<id, leg, ready>>
    MaxActiveLegs,   \* StreamOptions.MaxActiveLegs
    MaxSessions,     \* Config.MaxSessions
    MaxConnections,  \* Config.MaxConnections
    MaxObjects,      \* bound: sessions ever created
    NoCarrier

Legs == 0 .. MaxActiveLegs - 1
Objects == 1 .. MaxObjects
NoSession == 0

ASSUME ServerAssumption ==
    /\ NoCarrier \notin Carriers /\ IsFiniteSet(Carriers)
    /\ MaxActiveLegs \in Nat \ {0} /\ MaxSessions \in Nat /\ MaxObjects \in Nat
    /\ MaxConnections \in Nat \ {0}
    /\ Hellos \in [Carriers -> SUBSET (IDs \X Legs \X BOOLEAN)]

VARIABLES
    handler,     \* handler[c]: handleCarrier of carrier c, with its locals
    conn,        \* conn[c]: "none", "open", "closed"; open ones hold a connection slot
    pending,     \* Server.pending
    sessions,    \* Server.sessions: the session object of an ID
    tombstones,  \* IDs retired not longer than helloReplayTTL ago
    object,      \* object[o]: the o-th serverSession ever created
    created,     \* how many there are
    server,      \* where Server.Close is: "open", "sessions", "waiting", "closed"
    toClose, toWait  \* the sessions it has still to close, and to wait for

tables == <<pending, sessions, tombstones, created>>
closing == <<server, toClose, toWait>>
vars == <<handler, conn, tables, object, closing>>

(* ready: the HELLO is one that READY answers (versions 6 and 7, and sidecar  *)
(* listeners).  created: this handler made the session, and so must give it   *)
(* its host connection or close it.                                           *)
Idle == [pc |-> "off", id |-> NoSession, leg |-> 0, ready |-> FALSE,
         session |-> NoSession, created |-> FALSE]

newSession(id) ==
    [id |-> id, legs |-> [l \in Legs |-> NoCarrier], reserved |-> {}, joined |-> FALSE,
     done |-> FALSE, hostReleased |-> FALSE, target |-> "none", bridge |-> "none",
     watcher |-> "waiting"]

NoObject == [newSession(NoSession) EXCEPT !.watcher = "none"]

Init ==
    /\ handler = [c \in Carriers |-> Idle] /\ conn = [c \in Carriers |-> "none"]
    /\ pending = {} /\ sessions = [i \in IDs |-> NoSession] /\ tombstones = {}
    /\ object = [o \in Objects |-> NoObject] /\ created = 0
    /\ server = "open" /\ toClose = {} /\ toWait = {}

OpenConns == {c \in Carriers : conn[c] = "open"}
SessionOf(c) == object[handler[c].session]
At(c, place) == handler[c].pc = place
Go(c, place) == handler' = [handler EXCEPT ![c].pc = place]

(* The engine ends: done, and every leg's carrier closed.  session.close adds  *)
(* the release of the host.  ConnsClosed is what becomes of the connections,  *)
(* those in also included.                                                    *)
Ended(s) == [s EXCEPT !.done = TRUE, !.legs = [l \in Legs |-> NoCarrier]]

releaseHostResources(s) ==
    [s EXCEPT !.hostReleased = TRUE,
              !.target = IF ~s.hostReleased /\ @ = "open" THEN "closed" ELSE @]

ConnsClosed(s, also) ==
    [c \in Carriers |-> IF c \in also \/ \E l \in Legs : s.legs[l] = c THEN "closed" ELSE conn[c]]
-------------------------------------------------------------------------------
(* acceptLoop, past the connection limit.  A connection over the limit is     *)
(* closed at once and changes nothing.                                        *)
Accept(c) ==
    /\ At(c, "off") /\ server \in {"open", "sessions"}
    /\ Cardinality(OpenConns) < MaxConnections
    /\ Go(c, "accepted") /\ conn' = [conn EXCEPT ![c] = "open"]
    /\ UNCHANGED <<tables, object, closing>>

trackPending(c) ==
    /\ At(c, "accepted") /\ Go(c, "hello")
    /\ pending' = pending \cup {c}
    /\ UNCHANGED <<conn, sessions, tombstones, created, object, closing>>

ReadHello(c) ==
    /\ At(c, "hello") /\ conn[c] = "open"
    /\ \E hello \in Hellos[c] :
          handler' = [handler EXCEPT ![c] = [Idle EXCEPT !.pc = "admit", !.id = hello[1],
                                             !.leg = hello[2], !.ready = hello[3]]]
    /\ UNCHANGED <<conn, tables, object, closing>>

(* rejectCarrier and the deferred releasePending, before there is a session.  *)
Reject(c) ==
    /\ Go(c, "over") /\ conn' = [conn EXCEPT ![c] = "closed"] /\ pending' = pending \ {c}
    /\ UNCHANGED <<sessions, tombstones, created, object, closing>>

(* No HELLO in time, a wrong or a replayed one, or one for a mode or target   *)
(* that is not allowed.                                                       *)
HelloRejected(c) == At(c, "hello") /\ Reject(c)

(* admitSession, under Server.access.  It refuses when the server has closed, *)
(* the ID is retired, the session of that ID has another mode or destination, *)
(* or there are too many.                                                     *)
Listed == {id \in IDs : sessions[id] # NoSession}

AdmitRefused(c) ==
    /\ At(c, "admit")
    /\ \/ server # "open" \/ handler[c].id \in tombstones \cup Listed
       \/ Cardinality(Listed) >= MaxSessions
    /\ Reject(c)

AdmitJoins(c) ==
    /\ At(c, "admit") /\ server = "open" /\ handler[c].id \in Listed \ tombstones
    /\ handler' = [handler EXCEPT ![c].pc = "reserve", ![c].session = sessions[handler[c].id]]
    /\ UNCHANGED <<conn, tables, object, closing>>

(* Faulty: no limit on the sessions. *)
CreatesOver(c) ==
    /\ created < MaxObjects /\ created' = created + 1
    /\ object' = [object EXCEPT ![created'] = newSession(handler[c].id)]
    /\ sessions' = [sessions EXCEPT ![handler[c].id] = created']
    /\ handler' = [handler EXCEPT ![c].pc = "reserve", ![c].session = created', ![c].created = TRUE]
    /\ UNCHANGED <<conn, pending, tombstones, closing>>

Creates(c) ==
    /\ Cardinality(Listed) < MaxSessions /\ created < MaxObjects
    /\ created' = created + 1
    /\ object' = [object EXCEPT ![created'] = newSession(handler[c].id)]
    /\ sessions' = [sessions EXCEPT ![handler[c].id] = created']
    /\ handler' = [handler EXCEPT ![c].pc = "reserve", ![c].session = created', ![c].created = TRUE]
    /\ UNCHANGED <<conn, pending, tombstones, closing>>

(* Faulty: the closed flag is not looked at. *)
AdmitCreatesLate(c) == At(c, "admit") /\ handler[c].id \notin tombstones \cup Listed /\ Creates(c)

AdmitCreates(c) ==
    /\ At(c, "admit") /\ server = "open" /\ handler[c].id \notin tombstones \cup Listed
    /\ Creates(c)

(* A handler that fails after admission: rejectCarrier, session.close when it *)
(* created the session, the deferred releaseLeg of what it reserved and the   *)
(* deferred releasePending.  Faulty: a creator leaves its session open.       *)
AbandonOpen(c, release) ==
    /\ Go(c, "over") /\ pending' = pending \ {c}
    /\ object' = [object EXCEPT ![handler[c].session].reserved = @ \ release]
    /\ conn' = [conn EXCEPT ![c] = "closed"]
    /\ UNCHANGED <<sessions, tombstones, created, closing>>

Abandon(c, release) ==
    /\ Go(c, "over") /\ pending' = pending \ {c}
    /\ LET s == SessionOf(c)
           left == IF handler[c].created THEN releaseHostResources(Ended(s)) ELSE s IN
       /\ object' = [object EXCEPT ![handler[c].session] = [left EXCEPT !.reserved = @ \ release]]
       /\ conn' = IF handler[c].created THEN ConnsClosed(s, {c}) ELSE [conn EXCEPT ![c] = "closed"]
    /\ UNCHANGED <<sessions, tombstones, created, closing>>

(* Under legMu; a leg beyond the limit is refused like a taken one.           *)
CanReserve(s, leg) ==
    /\ leg \notin s.reserved /\ s.legs[leg] = NoCarrier
    /\ Cardinality({l \in Legs : s.legs[l] # NoCarrier}) + Cardinality(s.reserved) < MaxActiveLegs

reserveLeg(c) ==
    /\ At(c, "reserve") /\ CanReserve(SessionOf(c), handler[c].leg)
    /\ object' = [object EXCEPT ![handler[c].session].reserved = @ \cup {handler[c].leg}]
    /\ Go(c, IF handler[c].ready THEN "ready" ELSE "attach")
    /\ UNCHANGED <<conn, tables, closing>>

ReserveRefused(c) ==
    /\ At(c, "reserve") /\ ~CanReserve(SessionOf(c), handler[c].leg)
    /\ Abandon(c, {})

WriteReady(c) ==
    /\ At(c, "ready") /\ conn[c] = "open" /\ Go(c, "attach")
    /\ UNCHANGED <<conn, tables, object, closing>>

ReadyFails(c) == At(c, "ready") /\ Abandon(c, {handler[c].leg})

(* AttachLeg of the engine (external to this module: see StreamLifecycle).    *)
(* Faulty: an ended engine takes legs.                                        *)
CanAttachEnded(s, leg) == s.legs[leg] = NoCarrier

CanAttach(s, leg) == ~s.done /\ s.legs[leg] = NoCarrier

attachLeg(c) ==
    /\ At(c, "attach") /\ CanAttach(SessionOf(c), handler[c].leg)
    /\ object' = [object EXCEPT ![handler[c].session].legs[handler[c].leg] = c,
                                ![handler[c].session].joined = TRUE]
    /\ Go(c, "promote")
    /\ UNCHANGED <<conn, tables, closing>>

AttachRefused(c) ==
    /\ At(c, "attach") /\ ~CanAttach(SessionOf(c), handler[c].leg)
    /\ Abandon(c, {handler[c].leg})

(* releaseLeg after the attachment, and again when the function that reserved *)
(* the leg returns: handleCarrier itself when READY was written,              *)
(* createOrJoinSession when not.                                              *)
releaseLeg(c) ==
    /\ object' = [object EXCEPT ![handler[c].session].reserved = @ \ {handler[c].leg}]
    /\ UNCHANGED <<conn, tables, closing>>

Promote(c) ==
    /\ At(c, "promote") /\ releaseLeg(c)
    /\ Go(c, IF handler[c].ready THEN "attached" ELSE "release")

DeferredRelease(c) ==
    /\ At(c, "release") /\ releaseLeg(c)
    /\ Go(c, IF handler[c].ready THEN "over" ELSE "attached")

Return(c) == IF handler[c].ready THEN "release" ELSE "over"

releasePending(c) ==
    /\ At(c, "attached") /\ Go(c, IF handler[c].created THEN "host" ELSE Return(c))
    /\ pending' = pending \ {c}
    /\ UNCHANGED <<conn, sessions, tombstones, created, object, closing>>
-------------------------------------------------------------------------------
(* The session's host connection, made by the handler that created it.        *)
DialTarget(c) ==
    /\ At(c, "host") /\ Go(c, "target")
    /\ UNCHANGED <<conn, tables, object, closing>>

(* session.close on the way out: the target just dialled is closed with it.   *)
HostFails(c) ==
    /\ Go(c, Return(c))
    /\ object' = [object EXCEPT ![handler[c].session] = releaseHostResources(Ended(@))]
    /\ conn' = ConnsClosed(SessionOf(c), {})
    /\ UNCHANGED <<tables, closing>>

DialFails(c) == At(c, "host") /\ HostFails(c)

(* Faulty: neither the engine's end nor the release of the host is looked at. *)
CanSetTargetAlways(s) == s.target = "none"

CanSetTarget(s) == ~s.hostReleased /\ ~s.done /\ s.target = "none"

setTarget(c) ==
    /\ At(c, "target") /\ CanSetTarget(SessionOf(c))
    /\ object' = [object EXCEPT ![handler[c].session].target = "open",
                                ![handler[c].session].bridge = "running"]
    /\ Go(c, Return(c))
    /\ UNCHANGED <<conn, tables, closing>>

TargetRefused(c) == At(c, "target") /\ ~CanSetTarget(SessionOf(c)) /\ HostFails(c)
-------------------------------------------------------------------------------
(* The engine, seen from the server: a leg goes down with its carrier; the    *)
(* engine ends by itself (graceful close, recovery timeout, protocol error).  *)
LegFails(o, leg) ==
    /\ object[o].legs[leg] # NoCarrier
    /\ conn' = [conn EXCEPT ![object[o].legs[leg]] = "closed"]
    /\ object' = [object EXCEPT ![o].legs[leg] = NoCarrier]
    /\ UNCHANGED <<handler, tables, closing>>

EngineEnds(o) ==
    /\ object[o].joined /\ ~object[o].done
    /\ object' = [object EXCEPT ![o] = Ended(@)] /\ conn' = ConnsClosed(object[o], {})
    /\ UNCHANGED <<handler, tables, closing>>

(* Both directions of the copy between application and target are over.       *)
BridgeEnds(o) ==
    /\ object[o].bridge = "running" /\ object' = [object EXCEPT ![o].bridge = "over"]
    /\ UNCHANGED <<handler, conn, tables, closing>>

(* startSessionWatcher: releaseHostResources once done, then removeSession.   *)
WatcherReleases(o) ==
    /\ object[o].watcher = "waiting" /\ object[o].done
    /\ object' = [object EXCEPT ![o] = [releaseHostResources(@) EXCEPT !.watcher = "released"]]
    /\ UNCHANGED <<handler, conn, tables, closing>>

removeSession(o) ==
    /\ object[o].watcher = "released" /\ object' = [object EXCEPT ![o].watcher = "over"]
    /\ LET id == object[o].id  current == sessions[id] = o IN
       /\ sessions' = IF current THEN [sessions EXCEPT ![id] = NoSession] ELSE sessions
       /\ tombstones' = IF current THEN tombstones \cup {id} ELSE tombstones
    /\ UNCHANGED <<handler, conn, pending, created, closing>>

TombstoneExpires(id) ==
    /\ id \in tombstones /\ tombstones' = tombstones \ {id}
    /\ UNCHANGED <<handler, conn, pending, sessions, created, object, closing>>
-------------------------------------------------------------------------------
(* Server.Close, step by step. *)
MarkClosed ==
    /\ server = "open" /\ server' = "sessions"
    /\ toClose' = {sessions[id] : id \in Listed} /\ toWait' = toClose'
    /\ sessions' = [id \in IDs |-> NoSession] /\ tombstones' = {}
    /\ UNCHANGED <<handler, conn, pending, created, object>>

(* Faulty: the host is released and the engine left running. *)
CloseHostOnly(o) ==
    /\ o \in toClose /\ toClose' = toClose \ {o}
    /\ object' = [object EXCEPT ![o] = releaseHostResources(@)]
    /\ UNCHANGED <<handler, conn, tables, server, toWait>>

CloseSession(o) ==
    /\ o \in toClose /\ toClose' = toClose \ {o}
    /\ object' = [object EXCEPT ![o] = releaseHostResources(Ended(@))]
    /\ conn' = ConnsClosed(object[o], {})
    /\ UNCHANGED <<handler, tables, server, toWait>>

(* The listeners, and the connections still being admitted. *)
closePending ==
    /\ server = "sessions" /\ toClose = {} /\ server' = "waiting"
    /\ conn' = [c \in Carriers |-> IF c \in pending THEN "closed" ELSE conn[c]]
    /\ UNCHANGED <<handler, tables, object, toClose, toWait>>

Finished(o) == object[o].watcher = "over" /\ object[o].bridge # "running"

(* Faulty: the handlers are not waited for. *)
CloseFinishesEarly ==
    /\ server = "waiting" /\ \A o \in toWait : Finished(o)
    /\ server' = "closed" /\ UNCHANGED <<handler, conn, tables, object, toClose, toWait>>

CloseFinishes ==
    /\ server = "waiting" /\ \A o \in toWait : Finished(o)
    /\ \A c \in Carriers : handler[c].pc \in {"off", "over"}
    /\ server' = "closed" /\ UNCHANGED <<handler, conn, tables, object, toClose, toWait>>

Closed == server = "closed" /\ UNCHANGED vars
-------------------------------------------------------------------------------
handleCarrier(c) ==
    \/ trackPending(c) \/ ReadHello(c) \/ HelloRejected(c)
    \/ AdmitRefused(c) \/ AdmitJoins(c) \/ AdmitCreates(c)
    \/ reserveLeg(c) \/ ReserveRefused(c) \/ WriteReady(c) \/ ReadyFails(c)
    \/ attachLeg(c) \/ AttachRefused(c) \/ Promote(c) \/ DeferredRelease(c) \/ releasePending(c)
    \/ DialTarget(c) \/ DialFails(c) \/ setTarget(c) \/ TargetRefused(c)

Watcher(o) == WatcherReleases(o) \/ removeSession(o)
CloseSteps == (\E o \in Objects : CloseSession(o)) \/ closePending \/ CloseFinishes

Next ==
    \/ \E c \in Carriers : Accept(c) \/ handleCarrier(c)
    \/ \E o \in Objects : EngineEnds(o) \/ BridgeEnds(o) \/ Watcher(o)
                          \/ \E leg \in Legs : LegFails(o, leg)
    \/ \E id \in IDs : TombstoneExpires(id)
    \/ MarkClosed \/ CloseSteps \/ Closed

SafeSpec == Init /\ [][Next]_vars

(* The goroutines run: a HELLO comes or its deadline does, a dial ends or is  *)
(* cancelled, and copying ends once its engine has.  Nobody has to connect,   *)
(* no engine has to end, and nobody has to call Close.                        *)
FairSpec ==
    /\ SafeSpec /\ WF_vars(CloseSteps)
    /\ \A c \in Carriers : WF_vars(handleCarrier(c))
    /\ \A o \in Objects : WF_vars(Watcher(o)) /\ WF_vars(object[o].done /\ BridgeEnds(o))
-------------------------------------------------------------------------------
Places == {"off", "accepted", "hello", "admit", "reserve", "ready", "attach", "promote",
           "attached", "release", "host", "target", "over"}

(* Types, and the limit admitSession puts on the sessions listed.             *)
TypeOK ==
    /\ \A c \in Carriers : /\ handler[c].pc \in Places /\ handler[c].leg \in Legs
                           /\ handler[c].session \in 0 .. created
                           /\ conn[c] \in {"none", "open", "closed"}
    /\ pending \subseteq Carriers /\ tombstones \subseteq IDs /\ created \in 0 .. MaxObjects
    /\ \A id \in IDs : sessions[id] \in 0 .. created
    /\ \A o \in Objects : /\ object[o].reserved \subseteq Legs
                          /\ \A leg \in Legs : object[o].legs[leg] \in Carriers \cup {NoCarrier}
    /\ Cardinality(Listed) <= MaxSessions

(* When a handler has returned, its connection is closed or is a leg of a     *)
(* session that still runs: no admission that failed half way, and no session *)
(* that ended meanwhile, leaves a connection (and its slot) behind.           *)
NoOrphanCarrier ==
    \A c \in Carriers : handler[c].pc = "over" /\ conn[c] = "open" =>
        \E o \in Objects, leg \in Legs : ~object[o].done /\ object[o].legs[leg] = c

(* A running session is the one its ID leads to and, once the server is       *)
(* closing, one that Close has still to close: neither Server.Close nor a     *)
(* joining carrier ever misses one.                                           *)
LiveIsListed ==
    \A o \in 1 .. created :
        object[o].done \/ o \in (IF server = "open" THEN {sessions[object[o].id]} ELSE toClose)

(* Once its watcher is through, a session has no target connection open and   *)
(* gets none: "no later lazy target creation may resurrect host resources".   *)
TargetReleased == \A o \in Objects : object[o].watcher = "over" => object[o].target # "open"

(* When Close returns, every handler has returned, every connection is        *)
(* closed, every session has ended and no target is open.                     *)
ClosedIsEmpty ==
    server = "closed" =>
        /\ \A c \in Carriers : handler[c].pc \in {"off", "over"} /\ conn[c] # "open"
        /\ \A o \in 1 .. created : object[o].done /\ object[o].target # "open"

(* A session some carrier has joined gets its target or ends, even when the   *)
(* carrier that created it and owes it the target fails.                      *)
JoinedSessionGetsHost ==
    \A o \in Objects : object[o].joined ~> (object[o].target = "open" \/ object[o].done)

(* Server.Close returns. *)
CloseCompletes == server = "sessions" ~> server = "closed"

(* handleCarrier: "Reserve the leg first so the server never acknowledges an  *)
(* admission that cannot be attached."  A carrier that was sent READY finds   *)
(* its leg free, unless the session has ended.                                *)
AcknowledgedCanAttach ==
    \A c \in Carriers : At(c, "attach") /\ handler[c].ready /\ ~SessionOf(c).done =>
        SessionOf(c).legs[handler[c].leg] = NoCarrier
===============================================================================
