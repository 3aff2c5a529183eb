# SMP3 multipath kit: TLA+ verification project

SMP3 carries one TCP stream, or one UDP association, over several carriers
("legs") at once.  The two ends are a client (a SOCKS5 proxy, a sing-box style
outbound or a Mihomo adapter) and a server.  Every application chunk becomes one
DATA frame with an ordinal.  It is sent over one leg, sent again over another
when that leg fails, duplicated when it holds up everything behind it, put back
in order at the other end, and acknowledged cumulatively over every leg.

The modules model the goroutines of that machinery, each step ending where the
code releases a lock, blocks on a channel or calls back.  TLC checks them on
small instances, and TLAPS proves the main facts about the receiver and the
sender's ledger for every value of the constants.

A definition whose comment says *Faulty* is a deliberately wrong variant of the
definition that follows it.  It is used nowhere in the specifications.  It exists
to show that the property named with it in `PROJECT.json` would catch that mistake.

## 1. The system and its parts

| Part | Source | State | Operations | What makes it hard | Here |
|---|---|---|---|---|---|
| RX reorder window | `core/stream_rx.go` | expected, pending, gap stamp, readyPending | Insert, CommitReady, PopContiguous, DrainPending | duplicates, holes, the reorder limit | `StreamRXWindow` |
| Receiver and ACKs | `core/stream_engine.go` rxLoop, ackLoop, legWriteLoop | window, pipe, ackNext, ackForce, a slot per leg | read, deliver, request, publish and write an ACK | flags shared without a lock, legs that join and fail meanwhile | `StreamReceiver` |
| TX ledger | `core/stream_tx.go` | records, ACK frontier, per-leg accounts | add, mark, clear, sent, assign, admit, invalidate, ApplyACK | late callers, accounts changed in many places | `StreamTXLedger` |
| Sender and repair | `core/stream_engine.go`, `core/stream_repair.go` | ledger, two queues per leg, writers, legs | place, retry, rescue, write, fail, retire, replace | a pointer to a leg that fails or is replaced under it | `StreamSender` |
| Stream, end to end | both of the above | both ends and the carriers | all of the above | loss, duplication, reordering, hanging carriers | `StreamSession`, `ReliableStream` |
| Session lifecycle | `core/stream_engine.go`, `client/stream.go` | leg tables, epochs, repair flags, closing states | startup, attach, fail, redial, deadline, both closes | a dozen goroutines and three locks | `StreamLifecycle` |
| Startup gate | `core/stream_startup.go` | gate, preferred leg | wait, release, fail | notify between check and wait | planned |
| Coordinated drain | `core/stream_coordinated_drain.go` | drain state at both ends | Intent, Quiesced, Ready, Commit, CommitAck, Abort | lost messages, crossing drains | planned |
| Bounded rescue | `core/stream_bounded_rescue.go` | reserved and spent budget | reserve, convert, release | release on many paths | planned |
| Leg admission | `core/stream_admission.go` | restriction per leg | restrict, probe, recover | stale evidence | planned |
| RTT probe cache | `core/stream_rtt_probe_cache.go`, `stream_path_protocol.go` | probes per leg generation | send, answer, expire | answers of an old generation | planned |
| Pending queues | `core/stream_assignment_debug.go` | pending records per leg | assign, feed, reassign | records dropped between queues | planned |
| Datagram engine | `core/datagram_engine.go`, `client/datagram.go` | dedup map, leg queues | send, duplicate, receive, prune | forgotten identifiers | planned |
| Server sessions | `server/server.go`, `session.go`, `stream.go` | session table, reservations, tombstones, connection slots | HELLO, reserve, READY, attach, close | creator and joiner race, Close during admission | `ServerSessions` |
| Server telemetry and accounting | `server/telemetry_*.go`, `traffic_accounting.go` | registry, hub, counters | register, publish, save | order of attach and detach, restart | planned |
| Client reload | `client/runtime_reload.go` | desired legs, marker files | stage, commit, compensate | failure half way, crash | planned |
| Front relay | `front/relay.go` | accepted count, pairs | accept, relay, half close, stop | one decrement per connection | planned |
| Panel monitor | `panel/monitor/` | merged view | poll, event | events older than the poll | planned |
| sing-box package, Mihomo adapter | `src/protocol/multipath/`, `adapters/mihomo/` | health controller, session table | probe, switch, repair | callbacks out of order | planned |
| Codec, configuration, SOCKS5, Android, scripts | `core/hello.go`, `core/types.go`, `client/config.go`, ... | none | parse, validate, dial | none: sequential and stateless | not modelled |

The parts meet in `StreamEngine`.  txLoop takes an inflight token, adds a record
to the ledger and queues it on a leg.  The leg's writer writes it; the peer's
legReadLoop hands it to rxLoop, which delivers it through the window and asks
ackLoop for an ACK.  The ACK comes back over every leg and retires records.
retransmitLoop looks for records no live carrier holds and for a frontier that is
held up.  handleLegFailure takes a leg out, makes its records eligible again,
wakes the client's repair loop by OnLegDown and, when it was the last leg, arms a
recovery deadline.

## 2. Modules and how they correspond to the code

The `map` of `PROJECT.json` gives the source lines of every definition.

**StreamRXWindow** (operators): the window as a record
`[expected, pending, gapExpected, gapSince, readyPending]`, one operator per method.
Payload bytes are not carried, so `pendingBytes` is absent.

**StreamReceiver** (EXTENDS StreamRXWindow): rxLoop (`ReceiveFrame`, `DeliverFrame`,
`DeliverFails`, `RxLoopStops`, the graceful close that shuts the pipe), ackLoop in the
four places where other goroutines can intervene (`AckLoopTake`, `AckLoopDecide` with
`AckLoopRestore`, `queueAck`, `AckLoopFinish`), the ACK slot of each leg's writer
(`WriterLoadAck`, `WriterSendAck`, `WriterWakes`, `WriterOtherTraffic`), and the attach
and failure handlers (`AttachPublish` ... `AttachForceAck`, `FailClose`, `FailRemove`,
`FailForceAck`).  `ackNext` and `ackForce` are the engine's atomics.

**StreamTXLedger** (operators and the ledger's own variables): one action per method,
refused calls being disabled.  An attempt is named by the time it was marked.
**StreamTXLedgerSpec** calls the methods in any order, with any attempt time up to now,
as late goroutines may.

**StreamSender** (EXTENDS StreamTXLedger): txLoop and retransmitLoop as two producers
whose steps are those of `tryQueue`: choose a leg, mark the attempt, put it in the
channel or be refused, check again that the leg is open.  Carriers are numbered by
attachment, so that a replacement under the same leg ID is a different carrier while a
producer or writer still holds the old one.  Which open leg the scheduler prefers is
left open: any may be chosen.

**StreamSession** (INSTANCE StreamRXWindow, INSTANCE ReliableStream): one direction of
a stream with both ends.  A step is a whole call here, since the interleavings inside
the calls are the subject of the two modules above.  A carrier is an ordered bounded
pipe with one ACK value in the other direction; each end can fail by itself, and the
other notices later.  `env` says which carriers may fail and which may hang.

**ReliableStream**: what one direction promises to the applications, with no carriers,
frames or ACKs.  `StreamSession` implements it with
`read = [i |-> written[delivered[i] + 1]]`.

**StreamLifecycle**: the client's session over its engine.  `Publish`/`StartWorkers` are
the two halves of attachLeg; `Removal`, `HandlerNotifies`, `HandlerArms` and `LegRetires`
the parts of handleLegFailure and its retire goroutine; `TimerExpires`, `TimerFails`
failIfNoLegRecovers; `Repair*` the loop of scheduleRepair; `Boot*` the three startup
policies of `client/stream.go` (first_ready, preferred, host bridge); `PeerCloses`,
`DrainEnds`, `DrainStalls`, `CloseFrameSent` the graceful close; `TxAdds`, `TxPlaces` what
txLoop may still do then; `SessionCloses`, `EngineCloses`, `WatchEngine` the local one;
`Fail`, `CloseLegs` failWithAppClose.  `tx` is where txLoop is once the session is
closing: it has stopped, it has read a chunk that is not in the ledger yet ("reading",
then "late"), or it waits in enqueueRecord ("placing").  The drain and its stall timer
start when it has stopped.

**ServerSessions**: the server's side.  Each carrier has a handler, `handleCarrier`, with
the places where it waits or drops a lock as program counter: `Accept`, `trackPending`,
`ReadHello`, `Admit*` (admitSession), `reserveLeg`, `WriteReady`, `attachLeg`, `Promote`
and `DeferredRelease` (the two calls of releaseLeg), `releasePending`, and for the creator
of the session `DialTarget` and `setTarget`.  A session object has its legs, its
reservations, its host and its watcher (`WatcherReleases`, `removeSession`).
Server.Close is `MarkClosed`, `CloseSession`, `closePending`, `CloseFinishes`.  A HELLO
is an ID, a leg and whether READY answers it (versions 6 and 7, and the sidecar
listeners); every other reason to refuse one is `HelloRejected` or `AdmitRefused`.
Engines are seen from outside: their legs fail, and they end.

## 3. What TLC checks

| Run | Bounds | Properties |
|---|---|---|
| `receiver` | 2 leg IDs, 2 attachments (2 legs, or one and its replacement), 4 ordinals, 3 arrivals (1 once both legs have been attached), 2 retained | `TypeOK`, `InOrderDelivery`, `AckNeverAhead`, `WindowAtRest`, `GapTruthful`, `GapKeepsItsAge`, `AckReachesEveryLeg` |
| `ledger` | 2 legs, 2 records, 2 attempts, 1 future ACK | `LedgerTypeOK`, `OutstandingIsWindow`, `FrontierStamped`, `FrameAccounting`, `ByteAccounting`, `RetiredOnlyByACK` |
| `sender` | 2 leg IDs, 2 carriers, 1 record, 3 attempts | `TypeOK`, `NoPinnedRecord`, `CooldownIsEarned`, `SentMeansWritten`, `NothingFallsThrough` |
| `session_safety` | 2 legs, 3 chunks of 2 values, 2 failures | `TypeOK`, `AckedIsDelivered`, `NoReorderOverflow`, `ImplementsReliableStream` |
| `session_liveness` | 2 legs, 2 chunks, 2 failures; both fail, or one hangs or fails | `DeliversEventually`, `EventuallyAcked` |
| `lifecycle` | 2 legs, 3 startup policies, 2 / 1 / 0 failures | `TypeOK`, `DoneMeansClosed`, `StartedWithEveryLeg`, `ZeroLegsResolved`, `CloseEndsEverything` |
| `server` | 2 carriers, 2 session IDs, 2 legs, 1 session at a time, 2 in all | `TypeOK`, `NoOrphanCarrier`, `LiveIsListed`, `TargetReleased`, `ClosedIsEmpty`, `JoinedSessionGetsHost`, `CloseCompletes` |

Five runs show a disagreement between the code and what the repository says of it:

* `session_pinned_rescue` refutes `HealthyLegSuffices`: a frontier whose *rescue* sits on
  a hanging carrier is repaired by nobody, although a healthy replacement is up.
* `lifecycle_lost_repair` refutes `FailedLegIsRedialed`: a leg that fails while its repair
  goroutine is returning finds `repairing[id]` still set and is not redialed.
* `lifecycle_lost_deadline` refutes `ZeroLegsResolved` once the host may replace a leg
  inside attachLeg (`ReplaceJoining`): the epoch increment cancels a newer deadline.
  The `lifecycle` run excludes exactly this window.
* `lifecycle_stale_deadline` refutes `FreshRecoveryTimeout`: a delayed failure handler
  arms its deadline after a rejoin, and a later outage inherits it.
* `server_stale_release` (3 carriers, 1 leg) refutes `AcknowledgedCanAttach`: the second
  releaseLeg of a handler whose leg has failed deletes the reservation of the next
  carrier, so two carriers are sent READY for one leg.

**A graceful close may wait for ever.**  `CloseEndsEverything` starts from a close
whose txLoop has stopped, and `ZeroLegsResolved` sets aside the states in which txLoop
has a chunk that was not in the ledger when the close began.  Both exceptions are what
the code does.  StartGracefulClose waits for txStopped before drainOutstandingOnClose
starts its stall timeout, and enqueueRecord waits for a leg, or for room in a queue,
without heeding the close.  A carrier that hangs therefore holds the close up for as
long as it hangs.  And a chunk that txLoop adds after the last leg went down with nothing
outstanding finds no leg, no redial and no recovery deadline, because handleLegFailure
took the loss for ordinary teardown.  Only a local close of the session ends either wait
for certain.  The comment of drainOutstandingOnClose ("if no ACK/TX retirement progress
occurs for that long, the graceful close is considered wedged and the logical stream
fails") holds from txStopped on only.

**Why the bounds are enough.**  In `receiver`, three arrivals over four ordinals give
every pattern of duplicate, hole and fill, and the overflow of a window of two; two
attachments give an ACK before, during and after a replacement, and two legs of which one
joins or fails while ackLoop serves the other.  With both legs one arrival is enough: it
moves the ACK frontier once, and what a second ACK in the same slot does is seen with one
leg.  In `ledger`, two records give a head and a successor, two attempts an ordinary and a
rescue attempt or a late and a current one.  In `sender`, two carriers are two IDs or one
ID and its replacement, and three attempts are an original, a retry and a rescue.  In
`session_safety`, an inflight limit of 2 against a reorder limit of 1 is the boundary of
`NoReorderOverflow`.  In `lifecycle`, two failures are the loss of the last leg and of its
replacement. In `server`, two carriers are a creator and a joiner of one session, or the
owners of two; the first is taken to name the first ID and leg, which loses nothing
because IDs and legs are interchangeable.  Two sessions in all give a retired ID, its
tombstone and its second life.  The connection limit is not reached there.

Deadlock checking is off in the runs of the stream modules: a stream that has carried
its bounded input, or has been closed, stops.  It is on in the runs of the server, where
only a closed server may stop (`Closed`).

**Fairness.**  `StreamReceiver`: ackLoop (driven by its ticker), the writer of an open
leg, and the end of attachLeg.  `StreamSession`: the engines' loops, delivery to an
application that reads, a carrier that neither fails nor hangs, and the discovery that the
other end has closed; never a new carrier.  `StreamLifecycle`: the goroutines taken
together, the repair loops of an open session aside (`RedialSpec`, used by
`lifecycle_lost_repair`, adds each of them); dials return but need not succeed, a carrier
need not take a record and the peer need not acknowledge.  `ServerSessions`: each handler
(a HELLO arrives or its deadline passes, a dial ends or is cancelled), each watcher,
copying once its engine has ended, and the steps of a Close that was called; no engine has
to end.  Everything assumed is a goroutine the Go scheduler runs, a timer, or the return
of a call the code bounds by a timeout.

## 4. What is proved

`StreamReceiverProofs` and `StreamTXLedgerProofs` are checked by TLAPS, for every value
of the bounds, any set of legs and any reorder limit.

*Receiver.*  `TypeCorrect`, `DeliversInOrder`, `AcksOnlyDelivered`, `WindowRests`,
`GapIsTruthful` and `GapAges`.  Assumed: the reorder limit and the bounds are natural
numbers.  None of the invariants is inductive alone: a window at rest has nothing
deliverable only because rxLoop pops until nothing is contiguous, which needs
`readyPending` to be true exactly while rxLoop writes, with `rxFrame = expected`; and an
ACK slot is never ahead only because every place that copies an ACK value copies it
from a place that was not ahead.  `RxInv` (window, pipe and rxLoop's position) is
inductive by itself; `AckInv` (all copies of an ACK value) is inductive relative to it.
Lemmas say what each window operator returns; then there is one lemma per group of
actions, and the theorems follow by PTL.

*Ledger.*  `LedgerTypeCorrect`, `LedgerIsWindow`, `HeadIsStamped`, `FramesAccounted`
and `OnlyACKRetires`.  Assumed: `NoLeg` is no leg, the legs are finitely many, sizes are
positive.  `LedgerInv` joins the four invariants: a frame count stays a natural number
only because it is the number of records owned, the accounts are only right because
retirement removes exactly the records below the new frontier, and the new head can
only be found because the outstanding records form an interval.

*Only model-checked.*  All liveness (TLAPS does not reason about fairness here);
`ByteAccounting`, a sum over a set, which would need induction over data; everything
about `StreamSender`, `StreamSession`, `StreamLifecycle` and `ServerSessions` so far.

## 5. What is left out, and the plan

Inside the modelled parts: which leg the scheduler prefers, RTT and capacity estimates,
telemetry, payload bytes and pools, and the protocol-version fallback of a dial (only
whether the dial succeeds matters).  The session goes one way; the two directions share
carriers but no other state.  `PROJECT.json` lists every part with its status, and
every hazard with the property that covers it or the reason none does yet.

Next, in this order:

1. The rest of the server: the telemetry registry (order of attach, detach and removal),
   the UDP targets of datagram sessions, and a client's dial composed with `ServerSessions`.
2. `CoordinatedDrain`: two ends and lossy, ordered control messages.  Properties: an end
   retires a leg only with the other's agreement or after its failure, the session keeps
   a leg, both drains crossing end.
3. `DatagramEngine`: duplication and deduplication with a bounded memory.
4. `ClientReload` over `StreamLifecycle`: stage, commit, compensate, crash.
5. `StreamStartupGate`, `BoundedRescue`, `RTTProbeCache`, `PendingFeeder`, `StreamAdmission`.
6. `FrontRelay`, `PanelMonitor`, `TrafficAccounting`, the adaptive controller, the adapter.

Proofs next: the safety of `StreamSession` (`AckedIsDelivered`, `NoReorderOverflow`, and
that every step is a step of `ReliableStream`), then `TypeOK` and `DoneMeansClosed` of
`StreamLifecycle`, and the safety of `ServerSessions`.
