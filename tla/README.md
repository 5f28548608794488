# A TLA+ model of bigstar's rollback netplay

bigstar plays New Super Mario Bros. *Mario vs. Luigi* over the internet.  It is a
fork of melonDS: each of the two players runs an emulator, the emulators exchange
controller inputs, and each one predicts the other player's input, runs the game
on the prediction, and rewinds and replays the game when the real input turns out
different.  A match is right when both guests have executed every game tick with
the inputs the two players really gave.  Everything below is about that.

Paths are relative to the repository; `qt_sdl/` stands for
`src/frontend/qt_sdl/` of it.

## 1. The system

| Part | State | Operations | Talks to |
|---|---|---|---|
| Input timeline (`qt_sdl/NsmbInputTimeline.cpp`) | local and confirmed remote inputs by frame, contiguous frontier, predictions, pending rollback | `PrimeEpoch`, `StoreRemote`, `Confirm`, `Resolve`, `Prune`, `ClearPendingRollback` | session (stores), match runtime (resolves), rollback runtime |
| Input delivery (`NsmbInputDelivery.cpp`) | last acknowledged frame, queue of artificially delayed packets | `SelectUnackedInputs`, `BuildPayload`, `RecordRemoteAck`, `Prepare`/`DrainDue` | session |
| Netplay session (`NsmbNetplaySession.cpp`) | recovery deadline, Resume state, handshake, match seed | pump and packet handlers, waits (peer, seed, start-ready, horizon, input), Resume exchange | transport, timeline, delivery |
| Transport (`NsmbNetplayTransport.cpp`) | ENet host and peer | connect, retry, send reliable / unsequenced, disconnect | ENet, below it the WebRTC bridge |
| Session policy (`NsmbNetplayProtocol.cpp`) | start-ready handshake of a generation, logical epoch | ready messages and their resends, validation, logical frame numbers | session, lifecycle |
| Rollback runtime (`NsmbRollbackRuntime.cpp`) | none of its own in the ROM-loop backend | `SaveCheckpointIfNeeded`, `ResimulateIfNeeded` | timeline, emulator hooks |
| Emulator hooks (`src/NDS.cpp` 2491-2749, `src/NSMLGameRAMRollback.h`) | ring of 16 RAM checkpoints, its frame labels, scheduled restore, replay history in guest RAM | label, capture, look up, discard, restore, replay, finalise | guest game loop, rollback runtime |
| Match runtime (`NsmbMvlNetplayRuntime.cpp`) | order of all of it in an outer frame | `BeforeRunFrame`, `AfterRunFrame` | everything |
| Lifecycle (`NsmbMvlLifecycle.cpp`) | wins, restarts, generation | result scene, rematch, reset of the sync state | session policy, ring |
| Savestate store (`NsmbRollbackStore.cpp`) | whole images, deltas, preimages, a shadow of the latest RAM | save, prune, erase, restore chain | rollback runtime with a full-machine backend |
| Network bridge (`tools/bigstar-net-bridge`) | signaling socket, last connection id, WebRTC endpoint | dial, negotiate, tunnel, ask for a restart | signaling server, the other bridge, ENet over UDP |
| Signaling server (`tools/bigstar-signaling-server`) | per room: status, connection id, sockets, queued messages; a lobby of open rooms | create, join, close, dial, relay, restart | launcher, bridges |
| Coordinator, phase recovery, game-state sync, packet bridge, AI, diagnostics | | | test harness, pacing, older modes |
| Launcher (`tools/bigstar`) | processes, history | | starts emulator and bridge |

The emulator thread executes `BeforeRunFrame`, then the guest's frame, then
`AfterRunFrame`.  Packets are handled by a pump that this thread calls at the
horizon gate and while it waits; optionally
(`MELONDS_NSML_NET_PUMP_THREAD=1`, set by test scripts and recommended in the
design notes, not set by the launcher) a second thread pumps as well.  One
mutex guards the session and the timeline, and it is released between the steps
of a frame.

What is hard here, and where each part can be wrong:

* **Ordering.**  Inputs arrive late, early, twice, newest first.  Two
  mispredictions may be found before either is corrected.
* **Interleaving.**  The pump thread confirms inputs between any two steps.
* **Sizes that must fit.**  Horizon, replay history and ring bound each other to
  the frame; one short and a correction is dropped or the process exits.
* **Numberings.**  Checkpoints are labelled with raw frames until the handshake
  and with logical frames after it; a rematch goes back.
* **Unreliable delivery.**  Inputs travel in unsequenced datagrams with limited
  room; acknowledgements are cumulative; connections break half-open and resume.
* **Waiting.**  Each peer stands still until the other's inputs arrive.
* **Starting together.**  Both games must stand in the same state when a match
  begins; a wait that times out runs the game on, messages are lost with a
  connection, and the peers pass from one match to the next at their own time.
* **Restarting.**  A process that is started again has lost the timeline.  A
  bridge dials again while its old socket looks alive; both bridges ask for a
  restart at once; descriptions of one connection arrive during the next.
* **Incremental state.**  A delta or a preimage is worth what the frame it builds
  on is worth, and corrections erase, prune and save those again.

`PROJECT.json` lists these as hazards at the lines where they bite.

What makes each part correct: the timeline never keeps a prediction that was
contradicted; the ring always holds the checkpoint a correction may ask for and
never one of another timeline; the rollback runtime loses no misprediction and
never touches what is settled; delivery leaves no gap and forgets nothing that
has not arrived; a session that is interrupted resumes or ends; a match starts
for both peers, from one state, or for neither; a restored savestate is the one
that was saved; the two bridges end up in one connection.

## 2. The modules

```
CheckpointMap   operations on a map  frame -> RAM image
  CheckpointStore   abstract specification of the ring   (refined by CheckpointRing)
  CheckpointRing    the ring slot by slot, with the frame labels that drive it
    CheckpointRingProofs   theorems about CheckpointRing   (uses Extrema)
  RollbackPeer      one peer: timeline, gate, prediction, correction, replay
    RollbackPeerProofs   theorems about RollbackPeer       (uses Extrema)
InputLink       two peers: bundles, acknowledgements, horizon gate, recovery
  InputLinkProofs   theorems about InputLink               (uses Extrema)
MatchSession    two processes: start-ready handshake, generations, Resume, restarts
  MatchSessionProofs   theorems about MatchSession
DeltaStore      savestates of the full-machine backends: images, deltas, preimages
  DeltaStoreProofs   theorems about DeltaStore             (uses Extrema)
SignalRecovery  the room of the signaling server and two bridges
  SignalRecoveryProofs   theorems about SignalRecovery
```

RollbackPeer, InputLink, MatchSession and SignalRecovery are one stack seen at
four heights.  Each takes the layer below as its environment: RollbackPeer
assumes of the network what `InputsAgree` of InputLink says; InputLink starts
where MatchSession says "play"; a connection that breaks and comes back in
InputLink and MatchSession is one the bridges of SignalRecovery negotiate anew.
DeltaStore takes the place of the ring in the other backends.

### RollbackPeer

One peer in one match, ROM-loop backend, a horizon of at least one frame.  `pc`
is the place of the emulator thread in the outer frame: `save` (label and
prune), `gate` (pump, horizon wait), `resolve` (confirmed or predicted input
into guest scratch), `resim` (`ResimulateIfNeeded`), `replay` (collecting the
replay history under the mutex), `run` (the guest).  The mutex is released
between those steps; that is where `ReceiveOnPumpThread` may act.
`ReceiveOnEmulatorThread` acts only where the emulator thread pumps.  The two
differ as the code does: the first stores without a local frame, the second with
the raw frame number.

The remote player is not a process: any input may arrive for any frame at any
time, but a frame's input never changes once it has arrived (`Arrives`).  That
is `InputsAgree` of InputLink.  Game RAM is abstracted to the remote input each
executed tick consumed (`ram`), a checkpoint is such a history, a restore copies
it back.  Two guests whose `ram` agree have the same RAM, since the guest is
deterministic and the local inputs of a tick do not change when it is replayed.
The ring is the map of CheckpointMap.

The ends of a process are states: `exit70` (recovery or horizon timeout) and
`exit74` (horizon check of `ResimulateIfNeeded`).

### CheckpointStore and CheckpointRing

CheckpointStore says what RollbackPeer relies on: a capture removes nothing
younger than the capacity, a discard removes exactly the newer frames, a change
of numbering removes everything.  CheckpointRing has the slots, the write index,
`CheckpointFrameTimeline` and a driver: raw frames before the handshake, logical
frames after it, corrections within the horizon that discard and recapture, a
rematch with its raw frames, of a host (labels every frame) or a client (labels
none until its rebased start).  Its `RingStore` maps slots to the abstract map,
and `RingImplementsStore` is the refinement.

### InputLink

Both peers after the handshake of a generation.  Each frame a peer records the
input for `Delay` frames later, sends a bundle of the oldest unacknowledged
inputs that fit, and comes to the gate, which needs a connected, resumed session
and at most `Horizon` unconfirmed frames; while the horizon blocks, it resends.
Datagrams are a set that loses and reorders; reliable packets a queue.  A
connection breaks for one side first (`broken`), the client reconnects (`half`),
the host answers (`up`); each side sends its Resume on connecting and drops
everything else until it has handled the other's.  `GiveUp` is the 60 s recovery
deadline or the gate's timeout, possible at any moment of a recovery: time is not
modelled, so what a timeout races with is every order of steps.  With
`PauseInResult` a peer that has run `LastFrame` is in the result scene and only
pumps; without it the match goes on, which is represented by the peer staying at
its last gate and sending.

Every input of a frame is the frame's number in this model, so that an input
stored under another frame is visible.

### MatchSession

Two processes from their start to the end of a series of matches.  A game that
stands at the start of a stage describes its state (`BecomeReady`: stage, seed,
packet tick, random state, semantic hash), validates the other's description
(`MarkValidation`, outside the mutex, so that with a pump thread the verdict may
be about a description that has been replaced), sends its own once it knows the
epoch, and accepts, refuses (`exit72`) or times out, in which case the game runs
one more frame and describes another state.  The state is abstracted to that
number of frames, `tick`: both games are deterministic until they exchange
inputs.  In a match both sides keep resending their StartReady until an input
arrives.  The match itself is one message, `Inputs`: who has received the
other's can finish, shows the result, and begins the next generation, which
forgets everything of the last one.

Underneath are the connection (`down`, `half`, `up`, `broken`), the reliable
queue, the Resume that opens it, with generation and session nonce, and its
periodic repetition.  `RestartProcess` replaces a process by a new one with
another nonce.  `partner` remembers whose StartReady was accepted.

### DeltaStore

The four ways the full-machine backends keep checkpoints, one per behaviour:
whole images; deltas against a keyframe; deltas against the frame before;
preimages, which undo one frame at a time from the shadow, a copy of the latest
RAM.  RAM is a function from pages to values, and a frame changes it in any way.
Correcting a misprediction restores a checkpoint, erases the later ones, and
saves each resimulated frame but the last again; saving prunes.  `saved` is the
reference: the RAM at the moment a label was last saved.

### SignalRecovery

The room (one Durable Object) and the two bridges of a match, from the moment
both have their tokens.  The runtime delivers no event to a Durable Object while
it waits for its own storage, so a handler is one step; only the call to the
lobby in the first `markConnected` lets other events in (`suspended`).  A bridge
is its loop: `dial`, `upgrade` (the handler is suspended), `ready`
(`wait_ready`), `sdp` (`wait_sdp`), `connecting` (`wait_connected`, during which
it does not read its socket), `tunnel`, and `exited` when the deadline of an
attempt, 45 s from the start or 60 s from the end of the last tunnel, has ended
the process.  Every state of it that reads the socket is left for a newer
connection id.  `wait_ready` has no timeout of its own: on a socket that died
silently only the deadline ends it (`Stranded`).  `paired` stands for
ICE and DTLS: two endpoints can connect when each has the description of the other.

The queue is kept by the role an entry is for, which is all `flushQueuedSignals`
looks at; recovering bridges queue nothing but SDP with a connection id, so
`startConnection`, which drops exactly that, leaves it empty.

## 3. The runs

| Run | What it asks | Result |
|---|---|---|
| `peer` | Serial peer, whatever the order of packets: is a misprediction ever lost, a correction ever dropped, a settled tick ever changed, and does every tick behind the horizon end with the real input? | holds |
| `peer_limits` | With a pump thread, a history too short for the horizon and delayed corrections, some of which are dropped: do settled ticks, checkpoints and predictions stay right? | holds |
| `peer_pump_lost` | With a pump thread: is a misprediction ever lost? | **violated**, finding 1 |
| `ring` | Does the ring implement the map through wrap-around, corrections, rematch and a handshake at the frame where a raw checkpoint stays; does a correction find its frame? | holds |
| `link_safety` | Loss, reordering and a connection that breaks at any moment: do stored inputs agree, are acknowledgements sound, are there gaps, is a resumption ever refused, how far may a peer lead? | holds |
| `link_liveness` | With a horizon that blocks the peers: does every input arrive, and an interrupted or stalled session get going again? | holds |
| `link_result` | Does the other peer reach the result scene too? | **violated**, finding 2 |
| `match` | Two matches with timeouts, a pump thread, a lost connection or a restarted process: do both play from one state, does nobody start alone, is a restarted process ever taken for the old one, is nobody left behind? | holds |
| `match_rematch` | Is a peer ever left in the match before? | **violated**, finding 3 |
| `delta` | All four kinds of checkpoint under repeated corrections: is what is restored what was saved, and does pruning keep what is needed and no more? | holds |
| `delta_preimage` | Is a correction ever dropped for a broken preimage chain? | **violated**, finding 4 |
| `signal` | Three faults at any moment: is a description ever taken for another connection's, does a superseded bridge hear of it, do both get a tunnel again, or is at least nobody left waiting for a bridge that has given up? | holds |

Properties, by what they catch:

* `RollbackSound`: a tick that consumed another input than the confirmed one is
  pending or being replayed.  `SettledIsFinal` is its converse in time: what is
  confirmed, right and not about to be rewound never changes again.
* `CheckpointFaithful`: a checkpoint holds exactly the ticks before its frame on
  the guest's current timeline.  It fails when the suffix of a mispredicted
  timeline is not discarded.
* `CorrectionAlwaysArms`: horizon, history and ring fit; none of the giving-up
  branches is ever taken.
* `PredictionsAgree`: no contradicted prediction survives.
* `HorizonRetained`, `OnlyThisTimeline`, `RingImplementsStore`: the ring.
* `InputsAgree`, `AckSound`, `NoGaps`, `ResumeAccepted`, `LeadBounded`: delivery.
* `SameStart`: two processes that play a match with each other started from the
  same state.  `NobodyStartsAlone`: whoever plays was accepted by a process that
  is ready for this match, or already in a later one.  `NoStranger`: a connection
  to a restarted process never becomes usable within a match.
* `RestoreExact`: no restore mixes two timelines.  `ChainsComplete`: pruning keeps
  every base.  `StoreBounded`: of the states behind the window of the newest one it
  keeps less than one keyframe interval.
* `NoStaleSdp`, `FreshConnection`: an SDP is matched by its connection id alone,
  so ids must never come back and never overtake.  `SupersededHears`: nobody
  waits on a connection the room has given up.
* `Converges`, `AllDelivered`, `RecoveryEnds`, `ResultReached`, `StartCompletes`,
  `RematchReached`, `Recovers`: liveness.

### Bounds

Constants are chosen small, but so that the relations the properties are about
are met with equality and the branches they are about are taken:

* Peer runs: two inputs (a prediction is right or wrong); horizon 2, history and
  ring 3, so that `Horizon < HistoryCapacity <= RingCapacity` is tight as it
  nearly is in the code (horizon at most 10, history 12, ring 16); seven frames,
  so that the ring wraps and two corrections overlap; delay 1; window 1, so that
  pruning happens; raw frames one ahead of logical ones.  `peer_limits` has a
  horizon equal to the history and a delayed correction, so that
  `DropCorrection`, `WaitOutDelay` and `HorizonAbort` happen.
* `ring`: capacity 4 with corrections of depth 3, handshakes at several raw
  frames (the first labelled one, those after it, and others beyond a full ring;
  after `Epoch + 1` a raw checkpoint stays), a rematch; the ring wraps in each
  numbering.
* `link_safety`: one break at any moment, noticed by either side first, with the
  periodic Resume; one entry per bundle and four frames with a horizon of one, so
  that more inputs wait than a bundle holds and a peer could run away.  An input
  delay, larger bundles, several bundles under way and further breaks multiply
  the states; for those the same invariants are proved (section 4).
* `link_liveness`: three frames, no input delay and a horizon of one, so that the
  gate of a peer that hears nothing closes before the last frame.  A peer stalled
  there begins a recovery, and only an input sent again by the other one opens
  the gate and ends it.
* `match`: two matches, so that messages of one meet the other; one timeout per
  peer and match, so that descriptions differ and agree again; one fault, a
  connection or a process; one reliable packet of a kind under way before it is
  resent (`MaxQueue`), which bounds resends and nothing else.
* `delta`: two pages of two values (a delta holds a page or does not); seven
  frames, a window of two and a keyframe every three, so that a base falls out of
  the window and a second keyframe replaces it; checkpoints every frame or every
  second one, resimulation unlimited or of one frame; intermediate checkpoints
  skipped only with the defaults of the other two.  Pages and values are
  symmetric: no definition names one.
* `signal`: three faults of any kind, so that a second recovery begins during the
  first and a third during both.  Connection ids need no bound: without faults
  the bridges come to rest.  A slow attempt that runs into the deadline is a
  fault; the deadline of a stranded one is free.

Deadlock is not checked where the system may stop: a process that has given up
leaves the other with nothing to do (InputLink, MatchSession), a series of
frames ends (DeltaStore), two bridges in a tunnel, or two that have
exited, change nothing any more (SignalRecovery).

### Fairness

* RollbackPeer: the emulator thread runs (weak fairness of its steps), and an
  input that has not arrived is sent again until it does.  The timeout is not
  fair: it may or may not happen.
* InputLink: the emulator threads run and pump; ENet delivers reliable packets,
  notices a connection its other side has dropped and reconnects (weak
  fairness); a bundle that is sent again and again gets through (strong
  fairness of its reception).  Resends at the gate are every 50 ms
  (`MaybeResendLatestInputForFrameLead`).  No fairness is asked of the periodic
  Resume, of losses or of deadlines.
* MatchSession: the same, and the periodic Resume, which is repeated every 250 ms
  while a side is not validated, gets through (strong fairness).  Timeouts,
  restarts and deadlines are not fair.
* SignalRecovery: the room handles what arrives; a bridge dials, reads, connects
  when it can, and its timer of 12 s ends a negotiation that cannot succeed.
  Beside a tunnel it notices a broken socket by its heartbeat (a ping every 5 s,
  an error after 15 s without an answer; `HeartbeatTimeout`).  Elsewhere it may
  notice or not: `wait_sdp` is within the negotiation's timer, `wait_ready` ends
  with the deadline at the latest.  The deadline is fair only for an attempt from
  which nothing is to be expected any more (`StrandedDeadline`: a dead socket in
  the wait for the server, or a peer whose process has ended).  For any other
  attempt it is a fault, so that two bridges which wait for each other over
  working sockets violate `Recovers` and are not excused by an exit.  The
  server's notice of a broken socket is not fair: replacing it must be enough.

### Findings

1. **A current-frame mismatch is lost with the pump thread.**  The input of frame
   *f* arrives after *f* was resolved from a prediction and committed to guest
   scratch, and before `ResimulateIfNeeded` takes the mutex.  The mismatch is
   pending at *f*, which equals the current frame, and is cleared as "consumed"
   (`NsmbRollbackRuntime.cpp:552`), although the tick has yet to consume the
   wrong input.  The comment in `NsmbMvlNetplayRuntime.cpp:1087-1089` rules this
   order out, and does for the emulator thread: there the property is proved.
2. **A peer in the result scene does not resend.**  Its last bundles lost, the
   other peer cannot leave the horizon gate, and the match ends with the
   timeout, although the result scene services the network "so the other peer
   can reach the same deterministic result frame".
3. **A connection that breaks across a rematch is not resumed.**  One peer begins
   the next generation while the connection is down, the other is still in the
   match before.  Both ignore the other's Resume because its generation differs
   (`NsmbNetplaySession.cpp:112`), and the inputs the peer behind needs are
   gone.  The comment there says "Wait for the same generation".
4. **A correction cuts the preimage chain.**  It leaves the shadow with the label
   of a frame that is not in the store, so that the next save has no preimage,
   and a later correction of an earlier frame is dropped with "chain missing"
   (`NsmbRollbackRuntime.cpp:848`), which the design notes
   (`nsmb-mvl-rollback-design-notes.md:829`) describe as removed.

Three remarks without a run of their own.  A missing checkpoint is silently given
up (`NsmbRollbackRuntime.cpp:611`), where
`docs/nsmb-mario-vs-luigi-online-poc.md:127` asks for an explicit failure;
`CorrectionAlwaysArms` shows that the launcher's configuration never gets there.
If the handshake completes in the raw frame `Epoch + 1`, a raw checkpoint keeps
its label `Epoch` in the logical numbering.  `OnlyThisTimeline` states this one
exception, and the `ring` run meets it; with an input delay of at least one frame
that frame is never mispredicted, so no correction asks for the image
(`HorizonRetained`, theorem `CorrectionFindsFrame`).  And a peer whose pump handles the other's
StartReady and then the loss of the connection accepts without having sent its
own (`NsmbNetplaySession.cpp:1196`), and never sends it; `StartCompletes` speaks
of peers that have sent theirs.

## 4. The proofs

`RollbackPeerProofs` proves, for every epoch, input set, delay, horizon, window,
history, ring size, frame offset and number of frames:

| Theorem | Statement | Assumes |
|---|---|---|
| `TypeCorrect` | `Spec => []TypeOK` | nothing more |
| `Invariance` | `Spec => []IInv` | `Serial` |
| `NoMispredictionLost` | `Spec => []RollbackSound` | `Serial` |
| `CheckpointsFaithful` | `Spec => []CheckpointFaithful` | `Serial` |
| `CorrectionsArm` | `Spec => []CorrectionAlwaysArms` | `Serial` |
| `SettledForever` | `Spec => SettledIsFinal` | `Serial` |
| `SurvivingPredictionsRight` | `Spec => []PredictionsAgree` | nothing more |

The last one holds with the pump thread too: `Confirm` erases what it contradicts
in the hold of the mutex in which it records the input.

`Serial` is: no pump thread, `Horizon < HistoryCapacity <= RingCapacity`, no
artificial delay of corrections.  That is the launcher's configuration, and the
two runs outside it (`peer_pump_lost`, `peer_limits`) show that it is needed.
All theorems use the named assumptions on the constants (`PeerAssumption`,
`ImageAssumption`, `RingAssumption`), which TLC evaluates in every run.

The properties are not inductive.  That a wrong tick is waiting to be replayed
says nothing about the input the replay will use, or whether the checkpoint it
starts from is right.  `IInv` adds, besides types and the shape of a correction:

* the frontier has no gap and is at most `Horizon` behind once the gate is passed
  (`Contiguous`), so a mismatch is never older than the horizon
  (`PendingBounds`), so its checkpoint is in the ring (`Retained`);
* no frame is predicted before its turn (`PredictedSoFar`), so a packet for the
  current or a later frame contradicts nothing: this is what fails with the
  pump thread;
* guest scratch and replay history are what the timeline says now
  (`ScratchRight`, `HistoryRight`), since nothing is received between resolving
  and running;
* the guest has executed exactly the ticks before the next one
  (`TicksExecuted`), each right or to be replayed (`TicksRight`), the replayed
  ones right already (`ReplayRight`).

There is one lemma per action (`SaveStep`, `ReceiveStep`, `GateStep`, ...), put
together in `NextIInv`.  `IInv` was model-checked before it was proved.
`Extrema` proves that every nonempty set of integers within an interval has a
minimum and a maximum, which the lookups and the frontier need, and that a
remainder is unique, which the ring and the keyframes need.

`SignalRecoveryProofs` proves, for any number of faults (`SignalAssumption`:
`MaxFaults` is a natural number):

| Theorem | Statement |
|---|---|
| `TypeCorrect` | `Spec => []TypeOK` |
| `Invariance` | `Spec => []IInv` |
| `NoStaleSdpTheorem` | `Spec => []NoStaleSdp` |
| `SupersededHearsTheorem` | `Spec => []SupersededHears` |
| `FreshConnectionTheorem` | `Spec => FreshConnection` |

Its `IInv` adds to the three properties:

* `SocketFacts`: a socket that works is attached to the room, so a broadcast
  reaches it;
* `Counting`: on a socket a bridge is at zero or at the newest id it ever
  negotiated, and at zero it has sent nothing; before `markConnected` there is no
  id at all, so that a bridge whose handler is suspended has never negotiated;
* `FreshIds`: what a socket announces to a bridge that is at zero is newer than
  everything the bridge ever negotiated.  The one reply that repeats the current
  id, to a late restart, goes to a bridge that is not at zero;
* `Hears`: the announcement a superseded bridge has is the one of the current
  id, and what waits for a bridge that is alone announces nothing.  The weaker
  `SupersededHears` could be used up by reading an older announcement.

The first part of the module is about buffers: what appending to and reading from
a sequence of messages does to `Known`, `InOrder`, `Fresh` and `Holds`.  The
room's steps share `StartConnectionStep`, those of the bridges `ReadSteadily`,
`LoopStep` and `BrokenStep`.

`CheckpointRingProofs` proves, for every capacity, depth of a correction, delay,
set of frames at which the game may start, and number of rematches:

| Theorem | Statement | Assumes |
|---|---|---|
| `RingInvariance` | `Spec => []IInv` | nothing more |
| `TypeCorrect` | `Spec => []TypeOK` | nothing more |
| `CorrectionFindsFrame` | `Spec => []HorizonRetained` | `Delay > 0 \/ ~Leftover` |
| `NoOtherTimeline` | `Spec => []OnlyThisTimeline` | nothing more |
| `RingImplementsMap` | `Spec => RingImplementsStore` | `Delay > 0 \/ ~Leftover` |

`Leftover` is the case of the second remark above: the handshake may complete in
the raw frame after the first labelled one, which the code does not rule out.
Then the ring does hold one image of another timeline, under the label `Epoch`,
and `OnlyThisTimeline` says so.  The other two properties are about the frames a
correction may ask for (`Asked`), and `Epoch` is one of them only without an input
delay; so they need either the delay, by default 4 frames in the launcher, which
accepts 0 to 16, or another frame of the handshake.  `RingDriverAssumption` has the
relation the code depends on, a ring larger than the horizon.

The properties say what is in the ring, not where, and so are not inductive: the
next capture overwrites the slot `next`, whatever is in it.  `IInv` says that in a
match the slot of frame *f* is `(f - b) % RingCapacity`, where *b* is the frame at
which the ring was empty; that the ring holds exactly the frames from `Oldest` to
`NextFrame - 1`, each in its slot (`InOrder`); and that `next` is the slot of
`NextFrame`.  During a replay `NextFrame` goes back and the frames it recaptures
are those the discard has removed (`ReplayShape`).  Before the first handshake
`FirstLabel` and `Numbers` say what the change of numbering can leave behind.  The
lemmas under "Remainders", from those of `Extrema`, show that two frames less than a capacity apart never
share a slot.  The refinement has one lemma per action: every step is a capture, a
discard, a reset or a stutter of CheckpointStore.

`InputLinkProofs` proves, for every epoch, delay, horizon, bundle size, number of
frames, of datagrams under way and of breaks (`LinkAssumption`, and
`InputAssumption`: "no input" is not an input):

| Theorem | Statement |
|---|---|
| `LinkInvariance` | `Spec => []IInv` |
| `TypeCorrect` | `Spec => []TypeOK` |
| `InputsAgreement` | `Spec => []InputsAgree` |
| `AcknowledgementsSound` | `Spec => []AckSound` |
| `FrontierHasNoGaps` | `Spec => []NoGaps` |
| `ResumesAccepted` | `Spec => []ResumeAccepted` |
| `LeadIsBounded` | `Spec => []LeadBounded` |

Its `IInv` adds what the messages under way say, which the properties leave out:

* `LocalFilled`, `RemoteFilled`: the inputs a peer has recorded, and those it has
  received, are the right ones up to a frontier and none beyond it;
* `DatagramsSound`: a bundle starts no later than the frame after its receiver's
  frontier, carries recorded inputs without a gap, and acknowledges no more than
  its sender has.  That is why a bundle, however late, leaves no gap: it starts at
  the acknowledgement its sender had, which is at most the frontier
  (`Acknowledged`), and frontiers only grow;
* `ReliableSound`: the history sent after a Resume follows the frontier of the
  receiver, or the packet before it in the queue, without a gap;
* `ResumeFirst`: a peer that would drop packets because it has not handled a
  Resume gets the Resume before any history;
* `LinkShape`: which sides of a connection exist in each state of it.

`MatchSessionProofs` proves, for any number of matches, timeouts, lost
connections, restarted processes and packets under way, with and without the
pump thread (`SessionAssumption`, and `NoneAssumption`: "nothing" is not a tick,
a nonce or a packet):

| Theorem | Statement |
|---|---|
| `SessionInvariance` | `Spec => []IInv` |
| `TypeCorrect` | `Spec => []TypeOK` |
| `OneStart` | `Spec => []SameStart` |
| `NoLonelyStart` | `Spec => []NobodyStartsAlone` |
| `NoStrangerInMatch` | `Spec => []NoStranger` |

Two games that describe themselves go through increasing ticks, and each side
decides on its own, at another moment, from a description that may be old.  The
argument for `OneStart`: what a peer knows of the other's tick is at most that tick
(`Described`), and a peer that has started or is about to has compared it with its
own (`Agreed`), so its tick is at most the other's (`Knowledge`).  When both have
started that holds both ways.  `IInv` has besides, for each peer:

* `Handshake`, `Unmet`, `ResumeFirst`, `LinkShape`: how far the handshake is, that
  a peer without a Resume has had nothing else, and what may be under way in each
  state of the connection;
* `UnderWay`: a StartReady in the queue describes a state its sender has been in,
  and inputs in it show that the sender has started the match they belong to
  (`Showing`).  `Capped` is what that means for the receiver: with inputs of a
  match it has not started, no description it has is ahead of its own state;
* `Resumptions`, `OneSender`, `Strange`, `DoomSeen`: what is known about a process
  that was replaced.  A Resume names its sender, so the Resume of the new process
  is in the queue of a peer that still expects the old one, before anything else
  of the new one, and ends that peer (`Doomed`); until then it can only be on the
  broken connection to the old process;
* `Replaced`: the new process may meanwhile have learnt the state of that peer and
  have started on it.  Then the peer either stays at the state it has described,
  or can no longer accept (`Hopeless`).

There is one lemma per action, and shared ones for what several actions do:
`ResumeTakenStep`, `DroppedStep`, `StartReadyTakenStep`, `InputsTakenStep`,
`ExitStep`.

`DeltaStoreProofs` proves, for whole images, both kinds of delta and preimages, for
every window, keyframe interval, checkpoint interval, limit of a resimulation,
set of pages and number of frames (`StoreAssumption`, and `NoneAssumption`:
"nothing" is not a frame or an image):

| Theorem | Statement |
|---|---|
| `StoreInvariance` | `Spec => []IInv` |
| `TypeCorrect` | `Spec => []TypeOK` |
| `RestoresAreExact` | `Spec => []RestoreExact` |
| `ChainsAreComplete` | `Spec => []ChainsComplete` |
| `StoreIsBounded` | `Spec => []StoreBounded` |

One bound of the specification does restrict them: intermediate checkpoints are
skipped only with a checkpoint for every frame and no limit (see `Init`).

The properties speak of what comes out of a chain; the invariant says what each
link is, so that saving, pruning and erasing have to be looked at for one link:

* `Exact`: a stored state is the whole image last saved for its frame, or the
  difference between it and the image last saved for its base.  Saving frame *f*
  again would make this false for a delta that builds on *f*; it does not, since
  everything from *f* on has been erased (`StoreOK`: all is before `NextSave`);
* `Linked`: a delta has its base, no state between the two is a keyframe, and
  with deltas against the frame before no checkpoint was due between them;
* `ShadowExact`, `ShadowLatest`: a shadow whose label is in the store is that
  checkpoint, and the latest one.  After a correction the shadow has the label of
  a frame that is not in the store, and `HasUsableFrameShadow` refuses it;
* `WindowKept`: with a checkpoint for every frame all those of the window exist;
* `NothingElse`: a state behind the window has only deltas between it and some
  frame within the window.

From a link to the chain: the walks of `BuildRestoreChain` and
`BuildPreimageRestore` are recursive functions.  `Iterates` shows that they exist,
`WalkExact` and `WalkBackExact` that what they carry is right at every step (by the
least step at which it were not), `WalkDown` that a walk with all its bases uses up
a state at every step, so that it ends at a whole image (`ChainFound`).
`BehindWindow` counts: with deltas against a keyframe only the keyframe is left;
with deltas against the frame before no checkpoint is missing in a chain
(`NoneLeftOut`), so one as long as a keyframe interval would contain a frame at
which a keyframe was due (`FewCheckpoints`).  `Prune` is described by the least set
that contains the roots and the bases of its members (`PruneKeeps`).

All these invariants were model-checked before they were proved, and for all six
components the bounds of the runs play no part in the theorems.

Only model-checked: everything about liveness and fairness, which the provers do
not handle.

## 5. What is not modelled

* The guest's timing: one input gate per outer frame, and a replay that ends
  within the outer frame in which it starts.  The code has a branch for a replay
  that is still in flight at the next outer frame (`NsmbRollbackRuntime.cpp:531`).
* `PredictionHorizonFrames = 0`, where the depth is capped instead of enforced;
  prediction probes; the restore probe of the savestate backends, a savestate
  buffer that fails, and sessions whose raw and logical frame numbers differ
  with those backends (`ResimulateIfNeeded` is then called with raw numbers).
* A restore that cannot be scheduled, and an emulator reset in the middle of a
  session (restart path 4, which clears the ring).
* The artificial delay, jitter and drop settings of the delivery: the network of
  InputLink loses and reorders anyway.
* Wire formats, except that a message is what its fields say.  Frame numbers do
  not wrap: at 60 frames per second 32 bits last two years.
* In MatchSession the exchange of the match seed, the value of the epoch (only
  whether it is known), and torn reads of an optional under the pump thread.
* In SignalRecovery clients without recovery, the life cycle and expiry of rooms,
  the lobby.
* Coordinator, phase recovery, game-state sync, packet bridge, AI, diagnostics,
  configuration, and the launcher: see `PROJECT.json` for each.

## 6. Plan

1. **Proofs**: every safety property of the passing runs is proved; next is the
   safety of the composition below.
2. **A two-peer composition**: RollbackPeer on both ends of InputLink, and the
   abstract specification of the whole, lockstep: a shared sequence of pairs of
   inputs which both guests execute in order.  The settled ticks implement it.
3. **Rooms**: creating, joining, closing and expiry, and the lobby whose entries
   follow them, next to SignalRecovery.
4. **Coordinator**: frame barriers and serial turns, deadlock and timeouts.
5. **PhaseRecovery** and the frame-lead throttle: bounded advance, no action on
   stale samples.
6. **Launcher**: supervision of the two processes.
