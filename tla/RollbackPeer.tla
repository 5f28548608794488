----------------------------- MODULE RollbackPeer -----------------------------
(***************************************************************************)
(* One peer of a Mario-vs-Luigi match, running the ROM-loop rollback       *)
(* backend (NsmbRollbackRuntime, NsmbInputTimeline, NsmbMvlNetplayRuntime, *)
(* the checkpoint and replay hooks of NDS).                                *)
(*                                                                         *)
(* Every outer emulator frame the peer labels the checkpoint, pumps the    *)
(* network, waits until the prediction horizon admits the frame, resolves  *)
(* the remote player's input (confirmed, or predicted), commits it to      *)
(* guest scratch, arms a correction when a confirmed input contradicted an *)
(* earlier prediction, and lets the guest run the game tick -- or, when a  *)
(* correction is armed, restore a checkpoint and replay the ticks since.   *)
(*                                                                         *)
(* Game RAM is abstracted to its history: the remote input each game tick  *)
(* consumed.  The local player's inputs are the same in every execution of *)
(* a tick and are left out.                                                *)
(***************************************************************************)
EXTENDS CheckpointMap

CONSTANTS
    Inputs,           \* the values an InputState can take
    Neutral,          \* NeutralInput()
    Epoch,            \* first logical frame of the generation
    LastFrame,        \* bound of the model: the peer stops after this frame
    Delay,            \* input delay: frames primed with Neutral
    Horizon,          \* PredictionHorizonFrames
    HistoryCapacity,  \* kRomLoopHistoryCapacity: 12
    ResimulateDelay,  \* ResimulateDelayFrames: 0 unless a test script sets it
    Window,           \* predictions older than this are pruned
    RawOffset,        \* raw emulator frame minus logical frame
    InputWait,        \* InputWaitUs > 0: wait a little for the frame's input
    PumpThread        \* MELONDS_NSML_NET_PUMP_THREAD

\* Both peers start their ready frame at or after the shared epoch, so the raw
\* frame number is never behind the logical one.
ASSUME PeerAssumption ==
    /\ Neutral \in Inputs /\ None \notin Inputs
    /\ Epoch \in Nat \ {0} /\ LastFrame \in Nat /\ Epoch <= LastFrame
    /\ Delay \in Nat /\ Window \in Nat \ {0} /\ RawOffset \in Nat
    /\ Horizon \in Nat \ {0} /\ HistoryCapacity \in Nat
    /\ ResimulateDelay \in Nat
    /\ InputWait \in BOOLEAN /\ PumpThread \in BOOLEAN

\* The configuration the launcher uses: the horizon is clamped to 10 so that a
\* correction fits the 12 history entries, the ring keeps 16 checkpoints, and a
\* correction is never delayed.
CorrectionFits ==
    /\ Horizon < HistoryCapacity
    /\ HistoryCapacity <= RingCapacity
    /\ ResimulateDelay = 0

VARIABLES
    pc,       \* where the emulator thread is in the outer frame
    frame,    \* logical frame of the current outer frame
    remote,   \* RemoteInputs: confirmed remote inputs
    contig,   \* HighestContiguousRemoteFrame_ (Epoch - 1: none)
    pred,     \* Predictions_
    pending,  \* PendingRollbackFrame_
    observed, \* PendingRollbackObservedFrame_
    scratch,  \* remote input committed to guest scratch for this frame
    ram,      \* remote input consumed by each executed game tick
    ckpt,     \* checkpoint ring, as a map from frames to RAM images
    txStart,  \* restore frame of the correction being armed or replayed
    txIndex,  \* history entries resolved (arming), then ticks replayed
    txRestore,\* NSMLGameRAMRestorePending
    hist      \* replay history entries, by frame

netVars == <<remote, contig>>
rollbackVars == <<pending, observed>>
guestVars == <<ram, ckpt>>
txVars == <<txStart, txIndex, txRestore, hist>>
vars == <<pc, frame, netVars, pred, rollbackVars, scratch, guestVars, txVars>>

Frames == Epoch .. LastFrame
MaybeInputs == Inputs \cup {None}
Images == [Frames -> MaybeInputs]
NoInputs == [g \in Frames |-> None]

\* A RAM image is not the missing one.
ASSUME ImageAssumption == None \notin Images

-----------------------------------------------------------------------------
(* The input timeline *)

\* Mutant: the frontier advances by the packet at hand only.
AdvanceOneFrame(r, c) ==
    IF c < LastFrame /\ r[c + 1] # None THEN c + 1 ELSE c

\* AdvanceContiguousRemoteFrame: from c to the last frame before the first gap.
AdvanceContiguousRemoteFrame(r, c) ==
    LET gaps == {g \in (c + 1) .. LastFrame : r[g] = None}
    IN  IF gaps = {} THEN LastFrame ELSE Min(gaps) - 1

\* Mutant: the frame itself is not counted.
UnconfirmedBefore(f) == IF f - 1 <= contig THEN 0 ELSE f - 1 - contig

\* UnconfirmedRemoteFrameCountThrough
UnconfirmedRemoteFrameCountThrough(f) == IF f <= contig THEN 0 ELSE f - contig

\* Mutant: lower_bound(f) is dereferenced without stepping back.
ConfirmedAtLowerBound(f) ==
    IF \E g \in Epoch .. (f - 1) : remote[g] # None THEN remote[f] ELSE Neutral

\* The newest confirmed input before frame f.
PriorConfirmed(f) ==
    LET known == {g \in Epoch .. (f - 1) : remote[g] # None}
    IN  IF known = {} THEN Neutral ELSE remote[Max(known)]

\* PredictionRuntime::Resolve: the input frame f is simulated with.
Resolve(f) ==
    CASE remote[f] # None                  -> remote[f]
      [] remote[f] = None /\ pred[f] # None -> pred[f]
      [] OTHER -> IF f > Epoch /\ pred[f - 1] # None
                  THEN pred[f - 1]
                  ELSE PriorConfirmed(f)

\* ... and the predictions it leaves behind.
PredictionsAfterResolve(f) ==
    IF remote[f] = None THEN [pred EXCEPT ![f] = Resolve(f)] ELSE pred

\* PredictionRuntime::Confirm
Mismatch(f, i) == pred[f] # None /\ pred[f] # i

FrameAlreadySimulated(f, localFrame) == localFrame = NoFrame \/ f < localFrame

\* Mutant: the contradicted predictions stay.
ConfirmKeepsPredictions(f, i, localFrame) ==
    /\ IF /\ Mismatch(f, i)
          /\ FrameAlreadySimulated(f, localFrame)
          /\ pending = NoFrame \/ f < pending
       THEN /\ pending' = f
            /\ observed' = IF localFrame = NoFrame THEN f ELSE localFrame
       ELSE UNCHANGED rollbackVars
    /\ UNCHANGED pred

\* Mutant: a later mismatch replaces an earlier pending one.
ConfirmKeepsNewest(f, i, localFrame) ==
    IF Mismatch(f, i)
    THEN /\ pred' = [g \in Frames |-> IF g >= f THEN None ELSE pred[g]]
         /\ IF /\ FrameAlreadySimulated(f, localFrame)
               /\ pending = NoFrame \/ f > pending
            THEN /\ pending' = f
                 /\ observed' = IF localFrame = NoFrame THEN f ELSE localFrame
            ELSE UNCHANGED rollbackVars
    ELSE UNCHANGED <<pred, rollbackVars>>

\* Mutant: the frame before the mismatch is rewound as well.
ConfirmRewindsOneMore(f, i, localFrame) ==
    IF Mismatch(f, i)
    THEN /\ pred' = [g \in Frames |-> IF g >= f THEN None ELSE pred[g]]
         /\ IF /\ FrameAlreadySimulated(f, localFrame)
               /\ pending = NoFrame \/ f < pending
            THEN /\ pending' = Max({Epoch, f - 1})
                 /\ observed' = IF localFrame = NoFrame THEN f ELSE localFrame
            ELSE UNCHANGED rollbackVars
    ELSE UNCHANGED <<pred, rollbackVars>>

Confirm(f, i, localFrame) ==
    IF Mismatch(f, i)
    THEN /\ pred' = [g \in Frames |-> IF g >= f THEN None ELSE pred[g]]
         /\ IF /\ FrameAlreadySimulated(f, localFrame)
               /\ pending = NoFrame \/ f < pending
            THEN /\ pending' = f
                 /\ observed' = IF localFrame = NoFrame THEN f ELSE localFrame
            ELSE UNCHANGED rollbackVars
    ELSE UNCHANGED <<pred, rollbackVars>>

\* ClearPendingRollback
ClearPendingRollback == pending' = NoFrame /\ observed' = NoFrame

\* Runtime::StoreRemote
StoreRemote(f, i, localFrame) ==
    /\ Confirm(f, i, localFrame)
    /\ remote' = [remote EXCEPT ![f] = i]
    /\ contig' = AdvanceContiguousRemoteFrame(remote', contig)

\* PredictionRuntime::Prune
Prune ==
    pred' = [g \in Frames |->
                IF g < frame - Window /\ remote[g] # None THEN None ELSE pred[g]]

-----------------------------------------------------------------------------
\* The epoch has just been primed (PrimeEpoch) and the first frame begins.
Init ==
    /\ pc = "save" /\ frame = Epoch
    /\ remote = [g \in Frames |-> IF g < Epoch + Delay THEN Neutral ELSE None]
    /\ contig = AdvanceContiguousRemoteFrame(remote, Epoch - 1)
    /\ pred = NoInputs /\ scratch = Neutral
    /\ pending = NoFrame /\ observed = NoFrame
    /\ ram = NoInputs /\ ckpt = NoInputs
    /\ txStart = NoFrame /\ txIndex = 0 /\ txRestore = FALSE /\ hist = NoInputs

\* SaveCheckpointIfNeeded, RomLoop backend: label the next capture with the
\* logical frame and prune old predictions.
SaveCheckpoint ==
    /\ pc = "save"
    /\ Prune
    /\ pc' = "gate"
    /\ UNCHANGED <<frame, netVars, rollbackVars, scratch, guestVars, txVars>>

\* The emulator thread pumps the network before the horizon gate and, when it
\* waits for a missing input, before it resolves the frame.
EmulatorPumps == \/ pc = "gate"
                 \/ pc = "resolve" /\ InputWait /\ remote[frame] = None

\* The pump thread handles packets whenever the session mutex is free; the
\* replay inputs are resolved under one hold of it.
MutexFree == ~(pc = "replay" /\ txIndex > 0) /\ pc \notin {"exit70", "exit74"}

\* A packet carries the remote input of frame f.  A retransmission repeats the
\* value that was sent first.
Arrives(f) == IF remote[f] = None THEN Inputs ELSE {remote[f]}

ReceiveOnEmulatorThread(f) ==
    /\ EmulatorPumps
    /\ \E i \in Arrives(f) : StoreRemote(f, i, frame + RawOffset)
    /\ UNCHANGED <<pc, frame, scratch, guestVars, txVars>>

ReceiveOnPumpThread(f) ==
    /\ PumpThread /\ MutexFree
    /\ \E i \in Arrives(f) : StoreRemote(f, i, NoFrame)
    /\ UNCHANGED <<pc, frame, scratch, guestVars, txVars>>

\* WaitForRollbackPredictionHorizon returns.  It also waits for a session that
\* is connected and resumed (module InputLink): a packet dropped meanwhile is a
\* packet that has not arrived yet.
PassHorizonGate ==
    /\ pc = "gate"
    /\ UnconfirmedRemoteFrameCountThrough(frame) <= Horizon
    /\ pc' = "resolve"
    /\ UNCHANGED <<frame, netVars, pred, rollbackVars, scratch, guestVars, txVars>>

\* ... or the wait for the input, or for the session, ends the process
\* ("prediction-horizon-timeout", or the recovery deadline of the pump).
HorizonTimeout ==
    /\ pc = "gate"
    /\ pc' = "exit70"
    /\ UNCHANGED <<frame, netVars, pred, rollbackVars, scratch, guestVars, txVars>>

\* ResolveRemoteInputLocked and WriteJitScratchInputs.
ResolveFrame ==
    /\ pc = "resolve"
    /\ pred' = PredictionsAfterResolve(frame)
    /\ scratch' = Resolve(frame)
    /\ pc' = "resim"
    /\ UNCHANGED <<frame, netVars, rollbackVars, guestVars, txVars>>

-----------------------------------------------------------------------------
(* ResimulateIfNeeded, RomLoop backend *)

\* RequiredHistoryCount
RequiredHistoryCount(restoreFrame, current) == current - restoreFrame + 1

RestoreFrame == LatestAtOrBefore(ckpt, pending)

Armable ==
    /\ RestoreFrame # NoFrame
    /\ RequiredHistoryCount(RestoreFrame, frame) <= HistoryCapacity

\* Nothing mispredicted before this frame.  A mismatch of the frame itself is
\* taken as consumed: its input has only just been committed.
NothingToCorrect ==
    /\ pc = "resim"
    /\ pending = NoFrame \/ pending >= frame
    /\ IF pending = frame THEN ClearPendingRollback ELSE UNCHANGED rollbackVars
    /\ pc' = "run"
    /\ UNCHANGED <<frame, netVars, pred, scratch, guestVars, txVars>>

Mispredicted == pc = "resim" /\ pending # NoFrame /\ pending < frame

\* "prediction horizon invariant failed"
HorizonAbort ==
    /\ Mispredicted
    /\ frame - pending > Horizon
    /\ pc' = "exit74"
    /\ UNCHANGED <<frame, netVars, pred, rollbackVars, scratch, guestVars, txVars>>

\* IsResimulationDelayElapsed.  The mismatch was observed at a raw frame when
\* the emulator thread received it, and is compared with the logical frame.
DelayElapsed == ResimulateDelay = 0 \/ frame >= observed + ResimulateDelay

WaitOutDelay ==
    /\ Mispredicted
    /\ frame - pending <= Horizon
    /\ ~DelayElapsed
    /\ pc' = "run"
    /\ UNCHANGED <<frame, netVars, pred, rollbackVars, scratch, guestVars, txVars>>

\* The correction is dropped: no checkpoint, or too many ticks to replay.
DropCorrection ==
    /\ Mispredicted
    /\ frame - pending <= Horizon
    /\ DelayElapsed
    /\ ~Armable
    /\ ClearPendingRollback
    /\ pc' = "run"
    /\ UNCHANGED <<frame, netVars, pred, scratch, guestVars, txVars>>

BeginCorrection ==
    /\ Mispredicted
    /\ frame - pending <= Horizon
    /\ DelayElapsed
    /\ Armable
    /\ txStart' = RestoreFrame
    /\ txIndex' = 0
    /\ ClearPendingRollback
    /\ pc' = "replay"
    /\ UNCHANGED <<frame, netVars, pred, scratch, guestVars, txRestore, hist>>

\* ResolveReplayFrameInputs for the next frame of the transaction; each one is
\* written through the guest scratch on its way into the history.
ReplayFrame == txStart + txIndex

ResolveReplayFrame ==
    /\ pc = "replay"
    /\ ReplayFrame <= frame
    /\ pred' = PredictionsAfterResolve(ReplayFrame)
    /\ hist' = [hist EXCEPT ![ReplayFrame] = Resolve(ReplayFrame)]
    /\ scratch' = Resolve(ReplayFrame)
    /\ txIndex' = txIndex + 1
    /\ UNCHANGED <<pc, frame, netVars, rollbackVars, guestVars, txStart, txRestore>>

\* ScheduleNSMLGameRAMRestore, the invalidation of the newer checkpoints and
\* the history header.
ArmCorrection ==
    /\ pc = "replay"
    /\ ReplayFrame > frame
    /\ txRestore' = TRUE
    /\ txIndex' = 0
    /\ ckpt' = DiscardAfter(ckpt, txStart)
    /\ pc' = "run"
    /\ UNCHANGED <<frame, netVars, pred, rollbackVars, scratch, ram, txStart, hist>>

-----------------------------------------------------------------------------
(* The guest: NDS::RunFrame reaches the input gate of the ROM's game loop,  *)
(* which calls ApplyNSMLPendingGameRAMRestore before every game tick.       *)

EndOfFrame ==
    /\ frame' = IF frame < LastFrame THEN frame + 1 ELSE frame
    /\ pc' = IF frame < LastFrame THEN "save" ELSE "done"

\* A normal tick: capture the checkpoint, consume the scratch.
GateNormalTick ==
    /\ pc = "run" /\ txStart = NoFrame
    /\ ckpt' = CaptureAtGate(ckpt, frame, ram)
    /\ ram' = [ram EXCEPT ![frame] = scratch]
    /\ EndOfFrame
    /\ UNCHANGED <<netVars, pred, rollbackVars, scratch, txVars>>

\* The scheduled restore.  The scheduled image is a copy of the checkpoint of
\* txStart, which no capture overwrites in between.
GateRestore ==
    /\ pc = "run" /\ txRestore
    /\ ram' = ckpt[txStart]
    /\ txRestore' = FALSE
    /\ UNCHANGED <<pc, frame, netVars, pred, rollbackVars, scratch, ckpt,
                   txStart, txIndex, hist>>

\* A replayed tick; all but the first recapture their checkpoint.
GateReplayTick ==
    /\ pc = "run" /\ txStart # NoFrame /\ ~txRestore
    /\ ReplayFrame <= frame
    /\ ckpt' = IF txIndex = 0 THEN ckpt
               ELSE CaptureAtGate(ckpt, ReplayFrame, ram)
    /\ ram' = [ram EXCEPT ![ReplayFrame] = hist[ReplayFrame]]
    /\ txIndex' = txIndex + 1
    /\ UNCHANGED <<pc, frame, netVars, pred, rollbackVars, scratch, txStart,
                   txRestore, hist>>

\* FinalizeNSMLGameRAMRollbackTransaction at the end of the outer frame.
FinalizeTransaction ==
    /\ pc = "run" /\ txStart # NoFrame /\ ~txRestore
    /\ ReplayFrame > frame
    /\ txStart' = NoFrame /\ txIndex' = 0 /\ hist' = NoInputs
    /\ EndOfFrame
    /\ UNCHANGED <<netVars, pred, rollbackVars, scratch, guestVars, txRestore>>

-----------------------------------------------------------------------------
Receive(f) == ReceiveOnEmulatorThread(f) \/ ReceiveOnPumpThread(f)

Emulate ==
    \/ SaveCheckpoint \/ PassHorizonGate \/ ResolveFrame
    \/ NothingToCorrect \/ HorizonAbort \/ WaitOutDelay
    \/ DropCorrection \/ BeginCorrection
    \/ ResolveReplayFrame \/ ArmCorrection
    \/ GateNormalTick \/ GateRestore \/ GateReplayTick \/ FinalizeTransaction

\* The process has ended, or the model's last frame has been run.
Stopped == pc \in {"done", "exit70", "exit74"} /\ UNCHANGED vars

Next == Emulate \/ HorizonTimeout \/ Stopped \/ \E f \in Frames : Receive(f)

\* The emulator thread keeps running, and the remote peer retransmits an input
\* until it is acknowledged.
Fairness ==
    /\ WF_vars(Emulate)
    /\ \A f \in Frames : WF_vars(remote[f] = None /\ Receive(f))

Spec == Init /\ [][Next]_vars
FairSpec == Spec /\ Fairness

-----------------------------------------------------------------------------
(* Properties *)

\* The timeline, the ring and the history are indexed by frames of the epoch
\* only, and every input committed to guest scratch is a real one.
TypeOK ==
    /\ pc \in {"save", "gate", "resolve", "resim", "replay", "run", "done",
               "exit70", "exit74"}
    /\ frame \in Frames
    /\ remote \in Images
    /\ contig \in (Epoch - 1) .. LastFrame
    /\ pred \in Images
    /\ pending \in Frames \cup {NoFrame}
    /\ observed \in Nat
    /\ scratch \in Inputs
    /\ ram \in Images
    /\ ckpt \in [Frames -> Images \cup {None}]
    /\ txStart \in Frames \cup {NoFrame}
    /\ txIndex \in Nat
    /\ txRestore \in BOOLEAN
    /\ hist \in Images

\* A prediction that survives the confirmation of its frame is right: the
\* prediction tail a late packet contradicts is erased (Confirm), so that no
\* later frame is predicted from it.
PredictionsAgree ==
    \A g \in Frames : pred[g] # None /\ remote[g] # None => pred[g] = remote[g]

\* A wrong tick g will be replayed: a mismatch at or before g is pending, or
\* the correction being armed or replayed restores a frame at or before g.
ToBeReplayed(g) ==
    \/ pending # NoFrame /\ pending <= g
    \/ txStart # NoFrame /\ txStart <= g

\* No misprediction is lost: a game tick that consumed an input other than the
\* confirmed one is waiting to be replayed.  (Confirm classifies the late
\* input, ResimulateIfNeeded clears the pending frame, the replay history is
\* collected from the same timeline.)
RollbackSound ==
    \A g \in Frames :
        ram[g] # None /\ remote[g] # None /\ ram[g] # remote[g]
            => ToBeReplayed(g)

\* A checkpoint holds exactly the ticks before its frame, with the inputs the
\* current timeline gave them; one captured on a mispredicted timeline does
\* not outlive the correction ("silently resurrects the earlier wrong input").
CheckpointFaithful ==
    \A c \in Frames : ckpt[c] # None =>
        \A g \in Frames : ckpt[c][g] = IF g < c THEN ram[g] ELSE None

\* The horizon gate, the ring and the history fit together: a misprediction is
\* found within the horizon, with the checkpoint of its very frame still in
\* the ring and room for the replay, so that neither the fatal horizon check
\* nor the "cannot resimulate" and "cannot arm" returns are ever taken.
CorrectionAlwaysArms ==
    /\ pc # "exit74"
    /\ Mispredicted => /\ frame - pending <= Horizon
                       /\ RestoreFrame = pending
                       /\ Armable

\* A tick is settled when its input and all earlier ones are confirmed, it
\* consumed the right input, and nothing is about to rewind it.
Settled(g) ==
    /\ g <= contig
    /\ ram[g] = remote[g]
    /\ ~ToBeReplayed(g)

\* A settled tick stays settled: no later packet, retransmission, prediction
\* or correction rewinds or changes it.
SettledIsFinal == [][\A g \in Frames : Settled(g) => Settled(g)']_vars

\* Every tick the horizon has left behind ends up with the input the remote
\* player really gave, unless the wait for that input times out.
Converges ==
    <>[](\/ pc = "exit70"
         \/ \A g \in Frames : g <= LastFrame - Horizon => Settled(g))
=============================================================================
