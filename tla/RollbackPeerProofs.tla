-------------------------- MODULE RollbackPeerProofs --------------------------
(***************************************************************************)
(* Proofs about RollbackPeer, for every epoch, input delay, horizon,       *)
(* window, ring and history size.                                          *)
(***************************************************************************)
EXTENDS RollbackPeer, Extrema

-----------------------------------------------------------------------------
(* What the helpers return *)

\* Frames are positive, so that no frame is NoFrame.
LEMMA FrameFacts ==
  /\ Frames \subseteq Nat /\ NoFrame \notin Frames
  /\ \A g \in Frames : g \in Nat /\ Epoch <= g /\ g <= LastFrame
  /\ Epoch \in Frames
  BY PeerAssumption DEF Frames, NoFrame

\* The contiguous frontier never moves back and never passes a gap.
LEMMA AdvanceFacts ==
  ASSUME NEW r \in Images, NEW c \in (Epoch - 1) .. LastFrame
  PROVE  LET d == AdvanceContiguousRemoteFrame(r, c)
         IN  /\ d \in c .. LastFrame
             /\ \A g \in (c + 1) .. d : r[g] # None
<1> DEFINE gaps == {g \in (c + 1) .. LastFrame : r[g] = None}
<1>1. CASE gaps = {}
  BY <1>1, PeerAssumption DEF AdvanceContiguousRemoteFrame
<1>2. CASE gaps # {}
  <2>1. c + 1 \in Int /\ LastFrame \in Int /\ gaps \in SUBSET ((c + 1) .. LastFrame)
    BY PeerAssumption
  <2>2. Min(gaps) \in gaps /\ \A k \in gaps : Min(gaps) <= k
    BY <1>2, <2>1, MinOfInterval
  <2>3. AdvanceContiguousRemoteFrame(r, c) = Min(gaps) - 1
    BY <1>2 DEF AdvanceContiguousRemoteFrame
  <2>4. Min(gaps) \in (c + 1) .. LastFrame
    BY <2>2
  <2>5. \A g \in (c + 1) .. (Min(gaps) - 1) : g \notin gaps
    BY <2>1, <2>2, <2>4
  <2> HIDE DEF gaps
  <2>6. \A g \in (c + 1) .. (Min(gaps) - 1) : g \in (c + 1) .. LastFrame
    BY <2>1, <2>4, PeerAssumption
  <2>7. \A g \in (c + 1) .. (Min(gaps) - 1) : r[g] # None
    BY <2>5, <2>6 DEF gaps
  <2> QED  BY <2>1, <2>3, <2>4, <2>7, PeerAssumption
<1> QED  BY <1>1, <1>2

\* The lookup returns a stored frame not after the one asked for, and that one
\* itself when it is stored.
LEMMA LatestFacts ==
  ASSUME NEW store \in [Frames -> Images \cup {None}], NEW f \in Frames
  PROVE  LET c == LatestAtOrBefore(store, f)
         IN  /\ c \in Frames \cup {NoFrame}
             /\ c # NoFrame => c <= f /\ store[c] # None
             /\ store[f] # None => c = f
<1> DEFINE S == {g \in DOMAIN store : store[g] # None /\ g <= f}
<1>1. S \in SUBSET (Epoch .. LastFrame) /\ Epoch \in Int /\ LastFrame \in Int
  BY PeerAssumption DEF Frames
<1>2. CASE S = {}
  <2>1. LatestAtOrBefore(store, f) = NoFrame
    BY <1>2 DEF LatestAtOrBefore
  <2>2. store[f] = None
    BY <1>2, FrameFacts
  <2> QED  BY <2>1, <2>2
<1>3. CASE S # {}
  <2>1. Max(S) \in S /\ \A k \in S : k <= Max(S)
    BY <1>1, <1>3, MaxOfInterval
  <2>2. LatestAtOrBefore(store, f) = Max(S)
    BY <1>3 DEF LatestAtOrBefore
  <2>3. Max(S) \in Frames /\ store[Max(S)] # None /\ Max(S) <= f
    BY <2>1
  <2>4. store[f] # None => f \in S
    BY FrameFacts
  <2>5. store[f] # None => Max(S) = f
    <3>1. SUFFICES ASSUME store[f] # None PROVE Max(S) = f
      OBVIOUS
    <3>2. f <= Max(S)
      BY <2>1, <2>4, <3>1
    <3>3. Max(S) \in Nat /\ f \in Nat
      BY <2>3, FrameFacts
    <3> HIDE DEF S
    <3> QED  BY <2>3, <3>2, <3>3
  <2> QED  BY <2>2, <2>3, <2>5
<1> QED  BY <1>2, <1>3

\* The newest confirmed input, or Neutral, is an input.
LEMMA PriorConfirmedType ==
  ASSUME TypeOK, NEW f \in Frames
  PROVE  PriorConfirmed(f) \in Inputs
<1> DEFINE known == {g \in Epoch .. (f - 1) : remote[g] # None}
<1>1. Epoch \in Int /\ f - 1 \in Int /\ known \in SUBSET (Epoch .. (f - 1))
  BY PeerAssumption, FrameFacts
<1>2. CASE known = {}
  BY <1>2, PeerAssumption DEF PriorConfirmed
<1>3. CASE known # {}
  <2>1. Max(known) \in known
    BY <1>1, <1>3, MaxOfInterval
  <2>2. PriorConfirmed(f) = remote[Max(known)]
    BY <1>3 DEF PriorConfirmed
  <2>3. Max(known) \in Epoch .. (f - 1) /\ remote[Max(known)] # None
    BY <2>1
  <2> HIDE DEF known
  <2>4. Max(known) \in Frames
    BY <2>3, FrameFacts, PeerAssumption DEF Frames
  <2> QED  BY <2>2, <2>3, <2>4 DEF TypeOK, Images, MaybeInputs
<1> QED  BY <1>2, <1>3

\* A frame is simulated with an input, and resolving it changes no prediction
\* but its own.
LEMMA ResolveFacts ==
  ASSUME TypeOK, NEW f \in Frames
  PROVE  /\ Resolve(f) \in Inputs
         /\ PredictionsAfterResolve(f) \in Images
         /\ remote[f] # None => Resolve(f) = remote[f]
         /\ remote[f] = None => PredictionsAfterResolve(f)[f] = Resolve(f)
         /\ \A g \in Frames : g # f => PredictionsAfterResolve(f)[g] = pred[g]
<1>1. PriorConfirmed(f) \in Inputs
  BY PriorConfirmedType
<1>2. f > Epoch => f - 1 \in Frames
  BY FrameFacts, PeerAssumption DEF Frames
<1>3. Resolve(f) \in Inputs
  BY <1>1, <1>2 DEF Resolve, TypeOK, Images, MaybeInputs
<1>4. remote[f] # None => Resolve(f) = remote[f]
  BY DEF Resolve
<1> QED  BY <1>3, <1>4 DEF PredictionsAfterResolve, TypeOK, Images, MaybeInputs

-----------------------------------------------------------------------------
(* Type correctness *)

\* A transaction exists from BeginCorrection to FinalizeTransaction, and the
\* checkpoint it restores stays in the ring until the guest has restored it.
TxShape ==
    /\ txStart # NoFrame => pc \in {"replay", "run"}
    /\ pc = "replay" => txStart # NoFrame
    /\ txRestore => txStart # NoFrame /\ pc = "run"
    /\ pc = "replay" \/ txRestore => ckpt[txStart] # None

\* A primed epoch is well typed, with no correction under way.
LEMMA InitTypeOK == Init => TypeOK /\ TxShape
<1> SUFFICES ASSUME Init PROVE TypeOK /\ TxShape
  OBVIOUS
<1>1. NoInputs \in Images
  BY DEF NoInputs, Images, MaybeInputs
<1>2. remote \in Images
  BY PeerAssumption DEF Init, Images, MaybeInputs
<1>3. Epoch - 1 \in (Epoch - 1) .. LastFrame
  BY PeerAssumption
<1>4. contig \in (Epoch - 1) .. LastFrame
  <2>1. AdvanceContiguousRemoteFrame(remote, Epoch - 1) \in (Epoch - 1) .. LastFrame
    BY <1>2, <1>3, AdvanceFacts
  <2> QED  BY <2>1 DEF Init
<1>5. ckpt \in [Frames -> Images \cup {None}]
  BY DEF Init, NoInputs
<1> QED
  BY <1>1, <1>2, <1>4, <1>5, FrameFacts, PeerAssumption
  DEF Init, TypeOK, TxShape, NoFrame

\* A packet stores an input: what Confirm and StoreRemote write.
LEMMA StoreRemoteFacts ==
  ASSUME TypeOK, NEW f \in Frames, NEW i \in Inputs, NEW n \in Nat,
         StoreRemote(f, i, n)
  PROVE  /\ remote' = [remote EXCEPT ![f] = i] /\ remote' \in Images
         /\ contig' \in contig .. LastFrame
         /\ \A g \in (contig + 1) .. contig' : remote'[g] # None
         /\ pred' \in Images
         /\ pending' \in Frames \cup {NoFrame} /\ observed' \in Nat
<1>1. remote' = [remote EXCEPT ![f] = i]
  BY DEF StoreRemote
<1>2. remote' \in Images
  BY <1>1 DEF TypeOK, Images, MaybeInputs
<1>3. /\ contig' \in contig .. LastFrame
      /\ \A g \in (contig + 1) .. contig' : remote'[g] # None
  <2>1. contig' = AdvanceContiguousRemoteFrame(remote', contig)
    BY DEF StoreRemote
  <2> QED  BY <1>2, <2>1, AdvanceFacts DEF TypeOK
<1>4. pred' \in Images
  BY DEF StoreRemote, Confirm, TypeOK, Images, MaybeInputs
<1>5. pending' \in Frames \cup {NoFrame} /\ observed' \in Nat
  BY FrameFacts DEF StoreRemote, Confirm, TypeOK, rollbackVars
<1> QED  BY <1>1, <1>2, <1>3, <1>4, <1>5

\* A capture leaves a map of frames to images.
LEMMA CaptureType ==
  ASSUME NEW store \in [Frames -> Images \cup {None}], NEW f \in Frames,
         NEW image \in Images
  PROVE  CaptureAtGate(store, f, image) \in [Frames -> Images \cup {None}]
  BY DEF CaptureAtGate

\* A capture of frame f stores it and keeps every frame the ring has room for.
LEMMA CaptureFacts ==
  ASSUME NEW store \in [Frames -> Images \cup {None}], NEW f \in Frames,
         NEW image \in Images, NEW c \in Frames
  PROVE  CaptureAtGate(store, f, image)[c] =
             IF c = f THEN image
             ELSE IF c <= f - RingCapacity THEN None ELSE store[c]
<1>1. CASE c = f
  BY <1>1, FrameFacts, RingAssumption DEF CaptureAtGate
<1>2. CASE c # f /\ c <= f - RingCapacity
  BY <1>2 DEF CaptureAtGate
<1>3. CASE c # f /\ ~(c <= f - RingCapacity)
  BY <1>3 DEF CaptureAtGate
<1> QED  BY <1>1, <1>2, <1>3

\* The frame after a frame, up to the bound, is a frame.
LEMMA NextFrameType ==
  ASSUME TypeOK, EndOfFrame
  PROVE  frame' \in Frames /\ pc' \in {"save", "done"}
  BY FrameFacts, PeerAssumption DEF EndOfFrame, TypeOK, Frames

\* Every step keeps the types.
LEMMA NextTypeOK == TypeOK /\ TxShape /\ [Next]_vars => TypeOK'
<1> SUFFICES ASSUME TypeOK, TxShape, [Next]_vars PROVE TypeOK'
  OBVIOUS
<1> USE FrameFacts
<1>1. CASE SaveCheckpoint
  <2>1. pred' \in Images
    BY <1>1 DEF SaveCheckpoint, Prune, TypeOK, Images, MaybeInputs
  <2> QED
    BY <1>1, <2>1 DEF SaveCheckpoint, TypeOK, netVars, rollbackVars, guestVars, txVars
<1>2. ASSUME NEW f \in Frames, Receive(f) PROVE TypeOK'
  <2>1. frame + RawOffset \in Nat /\ NoFrame \in Nat
    BY PeerAssumption DEF TypeOK, NoFrame
  <2>2. PICK i \in Arrives(f), n \in Nat : StoreRemote(f, i, n)
    BY <1>2, <2>1 DEF Receive, ReceiveOnEmulatorThread, ReceiveOnPumpThread
  <2>3. i \in Inputs
    BY <2>2 DEF Arrives, TypeOK, Images, MaybeInputs
  <2>4. UNCHANGED <<pc, frame, scratch, guestVars, txVars>>
    BY <1>2 DEF Receive, ReceiveOnEmulatorThread, ReceiveOnPumpThread
  <2>5. /\ remote' \in Images
        /\ contig' \in contig .. LastFrame
        /\ pred' \in Images
        /\ pending' \in Frames \cup {NoFrame} /\ observed' \in Nat
    BY <2>2, <2>3, StoreRemoteFacts
  <2>6. contig' \in (Epoch - 1) .. LastFrame
    BY <2>5, PeerAssumption DEF TypeOK
  <2> QED  BY <2>4, <2>5, <2>6 DEF TypeOK, guestVars, txVars
<1>3. CASE PassHorizonGate \/ HorizonTimeout
  BY <1>3 DEF PassHorizonGate, HorizonTimeout, TypeOK, netVars, rollbackVars,
              guestVars, txVars
<1>4. CASE ResolveFrame
  <2>1. pred' \in Images /\ scratch' \in Inputs
    BY <1>4, ResolveFacts DEF ResolveFrame, TypeOK
  <2> QED
    BY <1>4, <2>1 DEF ResolveFrame, TypeOK, netVars, rollbackVars, guestVars, txVars
<1>5. CASE NothingToCorrect \/ HorizonAbort \/ WaitOutDelay \/ DropCorrection
  <2>1. pending' \in Frames \cup {NoFrame} /\ observed' \in Nat
    BY <1>5 DEF NothingToCorrect, HorizonAbort, WaitOutDelay, DropCorrection,
                ClearPendingRollback, TypeOK, rollbackVars, NoFrame
  <2>2. pc' \in {"run", "exit74"}
    BY <1>5 DEF NothingToCorrect, HorizonAbort, WaitOutDelay, DropCorrection
  <2>3. UNCHANGED <<frame, netVars, pred, scratch, guestVars, txVars>>
    BY <1>5 DEF NothingToCorrect, HorizonAbort, WaitOutDelay, DropCorrection
  <2> QED  BY <2>1, <2>2, <2>3 DEF TypeOK, netVars, guestVars, txVars
<1>6. CASE BeginCorrection
  <2>1. pending \in Frames
    BY <1>6 DEF BeginCorrection, Mispredicted, TypeOK
  <2>2. RestoreFrame \in Frames \cup {NoFrame}
    BY <2>1, LatestFacts DEF RestoreFrame, TypeOK
  <2> QED
    BY <1>6, <2>2 DEF BeginCorrection, ClearPendingRollback, TypeOK, netVars,
                      guestVars, NoFrame
<1>7. CASE ResolveReplayFrame
  <2>1. ReplayFrame \in Frames
    BY <1>7, PeerAssumption DEF ResolveReplayFrame, ReplayFrame, TxShape, TypeOK, Frames
  <2>2. Resolve(ReplayFrame) \in Inputs /\ PredictionsAfterResolve(ReplayFrame) \in Images
    BY <2>1, ResolveFacts
  <2>3. hist' \in Images /\ pred' \in Images /\ scratch' \in Inputs
    BY <1>7, <2>2 DEF ResolveReplayFrame, TypeOK, Images, MaybeInputs
  <2> QED
    BY <1>7, <2>3 DEF ResolveReplayFrame, TypeOK, netVars, rollbackVars, guestVars
<1>8. CASE ArmCorrection
  <2>1. ckpt' \in [Frames -> Images \cup {None}]
    BY <1>8 DEF ArmCorrection, DiscardAfter, TypeOK
  <2> QED  BY <1>8, <2>1 DEF ArmCorrection, TypeOK, netVars, rollbackVars
<1>9. CASE GateNormalTick
  <2>1. ckpt' \in [Frames -> Images \cup {None}]
    BY <1>9, CaptureType DEF GateNormalTick, TypeOK
  <2>2. ram' \in Images
    BY <1>9 DEF GateNormalTick, TypeOK, Images, MaybeInputs
  <2> QED
    BY <1>9, <2>1, <2>2, NextFrameType
    DEF GateNormalTick, TypeOK, netVars, rollbackVars, txVars
<1>10. CASE GateRestore
  <2>1. ram' \in Images
    BY <1>10 DEF GateRestore, TxShape, TypeOK
  <2>2. txRestore' \in BOOLEAN
    BY <1>10 DEF GateRestore
  <2>3. UNCHANGED <<pc, frame, netVars, pred, rollbackVars, scratch, ckpt, txStart,
                    txIndex, hist>>
    BY <1>10 DEF GateRestore
  <2> QED
    BY <2>1, <2>2, <2>3 DEF TypeOK, netVars, rollbackVars
<1>11. CASE GateReplayTick
  <2>1. ReplayFrame \in Frames
    <3>1. txStart # NoFrame /\ ReplayFrame <= frame
      BY <1>11 DEF GateReplayTick
    <3>2. txStart \in Frames /\ txIndex \in Nat /\ frame \in Frames
      BY <3>1 DEF TypeOK
    <3> QED  BY <3>1, <3>2, PeerAssumption DEF ReplayFrame, Frames
  <2>2. ckpt' \in [Frames -> Images \cup {None}]
    BY <1>11, <2>1, CaptureType DEF GateReplayTick, TypeOK
  <2>3. ram' \in Images
    BY <1>11, <2>1 DEF GateReplayTick, TypeOK, Images, MaybeInputs
  <2> QED
    BY <1>11, <2>2, <2>3 DEF GateReplayTick, TypeOK, netVars, rollbackVars
<1>12. CASE FinalizeTransaction
  <2>1. NoInputs \in Images
    BY DEF NoInputs, Images, MaybeInputs
  <2> QED
    BY <1>12, <2>1, NextFrameType
    DEF FinalizeTransaction, TypeOK, netVars, rollbackVars, guestVars
<1>13. CASE Stopped \/ UNCHANGED vars
  BY <1>13 DEF Stopped, vars, TypeOK, netVars, rollbackVars, guestVars, txVars
<1> QED
  BY <1>1, <1>2, <1>3, <1>4, <1>5, <1>6, <1>7, <1>8, <1>9, <1>10, <1>11, <1>12,
     <1>13 DEF Next, Emulate

\* Every step keeps the shape of a correction.
LEMMA NextTxShape == TypeOK /\ TxShape /\ [Next]_vars => TxShape'
<1> SUFFICES ASSUME TypeOK, TxShape, [Next]_vars PROVE TxShape'
  OBVIOUS
<1> USE FrameFacts DEF TxShape
<1>1. CASE SaveCheckpoint \/ PassHorizonGate \/ HorizonTimeout \/ ResolveFrame
  BY <1>1 DEF SaveCheckpoint, PassHorizonGate, HorizonTimeout, ResolveFrame,
              guestVars, txVars
<1>2. ASSUME NEW f \in Frames, Receive(f) PROVE TxShape'
  BY <1>2 DEF Receive, ReceiveOnEmulatorThread, ReceiveOnPumpThread, guestVars, txVars
<1>3. CASE NothingToCorrect \/ HorizonAbort \/ WaitOutDelay \/ DropCorrection
  BY <1>3 DEF NothingToCorrect, HorizonAbort, WaitOutDelay, DropCorrection,
              Mispredicted, guestVars, txVars
<1>4. CASE BeginCorrection
  <2>1. pending \in Frames
    BY <1>4 DEF BeginCorrection, Mispredicted, TypeOK
  <2>2. RestoreFrame # NoFrame /\ ckpt[RestoreFrame] # None
    BY <1>4, <2>1, LatestFacts DEF BeginCorrection, Armable, RestoreFrame, TypeOK
  <2> QED  BY <1>4, <2>2 DEF BeginCorrection, Mispredicted, guestVars
<1>5. CASE ResolveReplayFrame
  BY <1>5 DEF ResolveReplayFrame, guestVars
<1>6. CASE ArmCorrection
  <2>1. txStart \in Frames
    BY <1>6 DEF ArmCorrection, TypeOK
  <2>2. ckpt'[txStart] = ckpt[txStart]
    BY <1>6, <2>1 DEF ArmCorrection, DiscardAfter, TypeOK
  <2> QED  BY <1>6, <2>2 DEF ArmCorrection
<1>7. CASE GateNormalTick \/ GateRestore \/ GateReplayTick \/ FinalizeTransaction
  BY <1>7 DEF GateNormalTick, GateRestore, GateReplayTick, FinalizeTransaction,
              EndOfFrame, txVars
<1>8. CASE Stopped \/ UNCHANGED vars
  BY <1>8 DEF Stopped, vars, guestVars, txVars
<1> QED
  BY <1>1, <1>2, <1>3, <1>4, <1>5, <1>6, <1>7, <1>8 DEF Next, Emulate

\* No step of the emulator thread, the pump thread or the guest leaves the
\* types: in particular the guest only ever restores a checkpoint that is still
\* in the ring, and every replayed tick has a frame of the match.
THEOREM TypeCorrect == Spec => []TypeOK
<1>1. Init => TypeOK /\ TxShape
  BY InitTypeOK
<1>2. TypeOK /\ TxShape /\ [Next]_vars => (TypeOK /\ TxShape)'
  BY NextTypeOK, NextTxShape
<1> QED  BY <1>1, <1>2, PTL DEF Spec

\* A prediction outlives the confirmation of its frame only when it was right,
\* on whichever thread the packet is handled: Confirm erases a contradicted
\* tail in the same hold of the mutex that records the input, a retransmission
\* repeats its value, and Resolve predicts unconfirmed frames only.
THEOREM SurvivingPredictionsRight == Spec => []PredictionsAgree
<1>1. Init => PredictionsAgree
  BY DEF Init, PredictionsAgree, NoInputs
<1>2. ASSUME TypeOK, TxShape, PredictionsAgree, [Next]_vars PROVE PredictionsAgree'
  <2> USE <1>2 DEF PredictionsAgree
  <2>1. ASSUME NEW f \in Frames, Receive(f) PROVE PredictionsAgree'
    <3>1. PICK i \in Arrives(f), localFrame \in {frame + RawOffset, NoFrame} :
               StoreRemote(f, i, localFrame)
      BY <2>1 DEF Receive, ReceiveOnEmulatorThread, ReceiveOnPumpThread
    <3>2. remote' = [remote EXCEPT ![f] = i] /\ (remote[f] # None => i = remote[f])
      BY <3>1 DEF StoreRemote, Arrives
    <3>3. CASE Mismatch(f, i)
      <4>1. pred' = [g \in Frames |-> IF g >= f THEN None ELSE pred[g]]
        BY <3>1, <3>3 DEF StoreRemote, Confirm
      <4> QED  BY <3>2, <4>1, FrameFacts DEF TypeOK, Images
    <3>4. CASE ~Mismatch(f, i)
      BY <3>1, <3>2, <3>4 DEF StoreRemote, Confirm, Mismatch, TypeOK, Images
    <3> QED  BY <3>3, <3>4
  <2>2. CASE SaveCheckpoint
    BY <2>2 DEF SaveCheckpoint, Prune, netVars
  <2>3. CASE ResolveFrame
    BY <2>3 DEF ResolveFrame, PredictionsAfterResolve, netVars, TypeOK, Images
  <2>4. CASE ResolveReplayFrame
    BY <2>4 DEF ResolveReplayFrame, PredictionsAfterResolve, netVars, TypeOK, Images
  <2>5. CASE UNCHANGED <<remote, pred>>
    BY <2>5
  <2> QED
    BY <2>1, <2>2, <2>3, <2>4, <2>5
    DEF Next, Emulate, PassHorizonGate, HorizonTimeout, NothingToCorrect, HorizonAbort,
        WaitOutDelay, DropCorrection, BeginCorrection, ArmCorrection, GateNormalTick,
        GateRestore, GateReplayTick, FinalizeTransaction, Stopped, vars, netVars
<1>3. Init => TypeOK /\ TxShape
  BY InitTypeOK
<1>4. TypeOK /\ TxShape /\ [Next]_vars => (TypeOK /\ TxShape)'
  BY NextTypeOK, NextTxShape
<1> QED  BY <1>1, <1>2, <1>3, <1>4, PTL DEF Spec

-----------------------------------------------------------------------------
(* The inductive invariant, for a peer that pumps on the emulator thread     *)
(* only and whose ring and history fit the horizon                           *)

\* What the timeline says frame g is to be simulated with.
Known(g) == IF remote[g] # None THEN remote[g] ELSE pred[g]

\* A correction is scheduled or being replayed by the guest.
Armed == pc = "run" /\ txStart # NoFrame

\* The next game tick the guest executes.
NextTick == CASE pc = "done"          -> frame + 1
              [] Armed /\ ~txRestore -> ReplayFrame
              [] OTHER                -> frame

\* The frontier has no gap behind it and the horizon keeps it close.
Contiguous ==
    /\ \A g \in Frames : g <= contig => remote[g] # None
    /\ frame - contig <= Horizon + 1
    /\ pc \in {"resolve", "resim", "replay", "run", "done"} =>
           frame - contig <= Horizon

\* No frame is predicted before its turn.
PredictedSoFar ==
    \A g \in Frames : pred[g] # None =>
        \/ g < frame
        \/ g = frame /\ pc \in {"resim", "replay", "run", "done"}

\* A mismatch is corrected in the frame in which it is found.
PendingBounds ==
    /\ pc # "exit74"
    /\ pending # NoFrame =>
           /\ pc \in {"gate", "resolve", "resim", "exit70"}
           /\ frame - Horizon <= pending /\ pending < frame

\* A correction rewinds no further than the horizon and replays no further
\* than the current frame.
TxBounds ==
    /\ txStart # NoFrame => /\ txStart < frame
                            /\ frame - txStart <= Horizon
                            /\ ReplayFrame <= frame + 1
    /\ txRestore => txIndex = 0

\* The committed input and the replay history are what the timeline says.
ScratchRight ==
    pc \in {"resim", "run"} /\ txStart = NoFrame => scratch = Known(frame)

\* ... so far as it has been collected.
HistoryRight ==
    \A g \in Frames :
        \/ pc = "replay" /\ txStart <= g /\ g < ReplayFrame
        \/ Armed /\ txStart <= g /\ g <= frame
        => hist[g] = Known(g) /\ hist[g] # None

\* RAM holds the ticks before the next one ...
TicksExecuted == \A g \in Frames : ram[g] # None <=> g < NextTick

\* ... with the input the timeline gives it, unless it is about to be replayed.
TicksRight ==
    \A g \in Frames : ram[g] # None => ram[g] = Known(g) \/ ToBeReplayed(g)

\* What the guest has replayed is right already.
ReplayRight ==
    Armed /\ ~txRestore =>
        \A g \in Frames : txStart <= g /\ g < ReplayFrame => ram[g] = Known(g)

\* The newest frame whose checkpoint has been captured.
NewestKept == IF Armed THEN IF txIndex = 0 THEN txStart ELSE ReplayFrame - 1
                       ELSE NextTick - 1
\* The oldest frame the ring has not overwritten.
OldestKept == IF Armed THEN frame + 1 - RingCapacity ELSE NextTick - RingCapacity

\* The ring holds a checkpoint of every frame from OldestKept to NewestKept and
\* none of a later frame.
Retained ==
    \A c \in Frames :
        /\ OldestKept <= c /\ c <= NewestKept => ckpt[c] # None
        /\ ckpt[c] # None => c <= NewestKept

\* All of it.
TimelineInv ==
    /\ PredictionsAgree /\ Contiguous /\ PredictedSoFar /\ PendingBounds
    /\ TxBounds /\ ScratchRight /\ HistoryRight
    /\ TicksExecuted /\ TicksRight /\ ReplayRight
    /\ Retained /\ CheckpointFaithful

\* The inductive invariant.
IInv == TypeOK /\ TxShape /\ TimelineInv

\* The emulator thread is the only one that pumps, and a correction fits.
Serial == ~PumpThread /\ CorrectionFits

\* The invariant holds when the epoch has been primed.
LEMMA InitIInv == Init => IInv
<1> SUFFICES ASSUME Init PROVE TimelineInv
  BY InitTypeOK DEF IInv
<1> USE FrameFacts, InitTypeOK, PeerAssumption
<1>1. PredictionsAgree /\ PredictedSoFar /\ PendingBounds /\ TxBounds /\ ScratchRight
  BY DEF Init, PredictionsAgree, PredictedSoFar, PendingBounds, TxBounds,
         ScratchRight, NoInputs
<1>2. Contiguous
  <2>1. remote \in Images /\ Epoch - 1 \in (Epoch - 1) .. LastFrame
    BY DEF TypeOK
  <2>2. /\ contig \in (Epoch - 1) .. LastFrame
        /\ \A g \in ((Epoch - 1) + 1) .. contig : remote[g] # None
    BY <2>1, AdvanceFacts DEF Init
  <2> QED  BY <2>2 DEF Contiguous, Init, Frames
<1>3. HistoryRight /\ ReplayRight
  BY DEF Init, HistoryRight, ReplayRight, Armed
<1>4. TicksExecuted /\ TicksRight
  BY DEF Init, TicksExecuted, TicksRight, NextTick, Armed, NoInputs
<1>5. Retained /\ CheckpointFaithful
  BY RingAssumption
  DEF Init, Retained, CheckpointFaithful, NewestKept, OldestKept, NextTick, Armed,
      NoInputs
<1> QED  BY <1>1, <1>2, <1>3, <1>4, <1>5 DEF TimelineInv

\* Pruning forgets only predictions of confirmed frames.
LEMMA SaveStep == IInv /\ SaveCheckpoint => TimelineInv'
<1> SUFFICES ASSUME IInv, SaveCheckpoint PROVE TimelineInv'
  OBVIOUS
<1> USE FrameFacts DEF IInv, TimelineInv
<1>1. /\ pc = "save" /\ pc' = "gate"
      /\ UNCHANGED <<frame, remote, contig, pending, scratch, ram, ckpt, txStart,
                     txIndex, txRestore, hist>>
      /\ txStart = NoFrame
  BY DEF SaveCheckpoint, netVars, rollbackVars, guestVars, txVars, TxShape
<1>2. \A g \in Frames : pred'[g] # None => pred'[g] = pred[g]
  BY DEF SaveCheckpoint, Prune
<1>3. \A g \in Frames : Known(g)' = Known(g)
  BY <1>1 DEF SaveCheckpoint, Prune, Known
<1>4. PredictionsAgree' /\ PredictedSoFar'
  BY <1>1, <1>2 DEF PredictionsAgree, PredictedSoFar
<1>5. Contiguous' /\ PendingBounds' /\ TxBounds' /\ ScratchRight' /\ HistoryRight'
  BY <1>1 DEF Contiguous, PendingBounds, TxBounds, ScratchRight, HistoryRight,
              Armed, TxShape
<1>6. NextTick' = NextTick /\ ~Armed /\ ~Armed'
  BY <1>1 DEF NextTick, Armed
<1>7. TicksExecuted' /\ TicksRight' /\ ReplayRight'
  BY <1>1, <1>3, <1>6 DEF TicksExecuted, TicksRight, ReplayRight, ToBeReplayed
<1>8. Retained' /\ CheckpointFaithful'
  BY <1>1, <1>6 DEF Retained, CheckpointFaithful, NewestKept, OldestKept
<1> QED  BY <1>4, <1>5, <1>7, <1>8

\* The distance to the frontier shrinks when the frontier moves on.
LEMMA FrontierDistance ==
  \A a, b, c, n \in Int : b <= c /\ a - b <= n => a - c <= n
  OBVIOUS

\* A late packet either agrees with what was simulated, or leaves a pending
\* mismatch at or before every tick whose prediction it erases.
LEMMA ReceiveStep ==
  ASSUME Serial, IInv, NEW f \in Frames, Receive(f)
  PROVE  TimelineInv'
<1> USE FrameFacts DEF IInv, TimelineInv
<1>1. PICK i \in Arrives(f) : StoreRemote(f, i, frame + RawOffset)
  BY DEF Serial, Receive, ReceiveOnEmulatorThread, ReceiveOnPumpThread
<1>2. /\ pc \in {"gate", "resolve"}
      /\ UNCHANGED <<pc, frame, scratch, ram, ckpt, txStart, txIndex, txRestore, hist>>
      /\ txStart = NoFrame
  BY DEF Serial, Receive, ReceiveOnEmulatorThread, ReceiveOnPumpThread,
         EmulatorPumps, guestVars, txVars, TxShape
<1>3. i \in Inputs /\ (remote[f] # None => i = remote[f])
  BY <1>1 DEF Arrives, TypeOK, Images, MaybeInputs
<1>4. frame + RawOffset \in Nat /\ frame \in Nat /\ frame + RawOffset >= frame
  BY PeerAssumption DEF TypeOK
<1>5. /\ remote' = [remote EXCEPT ![f] = i]
      /\ contig' \in contig .. LastFrame
      /\ \A g \in (contig + 1) .. contig' : remote'[g] # None
  BY <1>1, <1>3, <1>4, StoreRemoteFacts
<1>6. \A g \in Frames : remote'[g] = IF g = f THEN i ELSE remote[g]
  BY <1>5 DEF TypeOK, Images
<1>7. i # None
  BY <1>3, PeerAssumption
<1>8. ASSUME Mismatch(f, i)
      PROVE  PredictionsAgree' /\ PredictedSoFar' /\ PendingBounds' /\ TicksRight'
  <2>1. pred[f] # None /\ pred[f] # i
    BY <1>8 DEF Mismatch
  <2>2. remote[f] = None
    BY <2>1, <1>3 DEF PredictionsAgree
  <2>3. f < frame /\ contig < f
    BY <2>1, <2>2, <1>2 DEF PredictedSoFar, Contiguous, TypeOK
  <2>4. FrameAlreadySimulated(f, frame + RawOffset)
    BY <2>3, <1>4 DEF FrameAlreadySimulated
  <2>5. /\ pred' = [g \in Frames |-> IF g >= f THEN None ELSE pred[g]]
        /\ pending' = IF pending = NoFrame \/ f < pending THEN f ELSE pending
    BY <1>1, <1>8, <2>4 DEF StoreRemote, Confirm, rollbackVars
  <2>6. \A g \in Frames : g >= f => ToBeReplayed(g)'
    <3>1. pending' # NoFrame /\ pending' \in Frames /\ pending' <= f
      BY <2>5 DEF TypeOK
    <3>2. PICK p \in Frames : p = pending'
      BY <3>1
    <3>3. \A g \in Frames : g >= f => p <= g
      BY <3>1, <3>2
    <3> QED  BY <3>1, <3>2, <3>3 DEF ToBeReplayed
  <2>7. \A g \in Frames : ToBeReplayed(g) => ToBeReplayed(g)'
    BY <2>5, <1>2, <1>4 DEF ToBeReplayed, TypeOK
  <2>8. \A g \in Frames : g < f => Known(g)' = Known(g)
    BY <2>5, <1>6 DEF Known
  <2>9. PredictionsAgree' /\ PredictedSoFar'
    BY <2>5, <1>2, <1>6 DEF PredictionsAgree, PredictedSoFar
  <2>10. PendingBounds'
    BY <2>3, <2>5, <1>2, <1>4, PeerAssumption DEF PendingBounds, Contiguous, TypeOK
  <2>11. TicksRight'
    BY <2>6, <2>7, <2>8, <1>2, <1>4 DEF TicksRight
  <2> QED  BY <2>9, <2>10, <2>11
<1>9. ASSUME ~Mismatch(f, i)
      PROVE  PredictionsAgree' /\ PredictedSoFar' /\ PendingBounds' /\ TicksRight'
  <2>1. pred[f] = None \/ pred[f] = i
    BY <1>9 DEF Mismatch
  <2>2. UNCHANGED <<pred, pending>>
    BY <1>1, <1>9 DEF StoreRemote, Confirm, rollbackVars
  <2>3. PredictionsAgree' /\ PredictedSoFar'
    BY <2>1, <2>2, <1>2, <1>6 DEF PredictionsAgree, PredictedSoFar
  <2>4. PendingBounds'
    BY <2>2, <1>2 DEF PendingBounds
  <2>5. \A g \in Frames : ToBeReplayed(g)' <=> ToBeReplayed(g)
    BY <2>2, <1>2 DEF ToBeReplayed
  <2>6. TicksRight'
    <3> SUFFICES ASSUME NEW g \in Frames, ram'[g] # None
                 PROVE  ram'[g] = Known(g)' \/ ToBeReplayed(g)'
      BY DEF TicksRight
    <3>1. ram[g] = Known(g) \/ ToBeReplayed(g)
      BY <1>2 DEF TicksRight
    <3>2. CASE ram[g] = Known(g) /\ ram[g] # None
      BY <3>2, <2>1, <2>2, <1>2, <1>3, <1>6, <1>7 DEF Known
    <3> QED  BY <3>1, <3>2, <2>5, <1>2
  <2> QED  BY <2>3, <2>4, <2>6
<1>10. Contiguous'
  <2>1. contig \in Int /\ contig' \in Int /\ contig <= contig'
    BY <1>5, PeerAssumption DEF TypeOK
  <2>2. ASSUME NEW g \in Frames, g <= contig' PROVE remote'[g] # None
    <3>1. g <= contig \/ g \in (contig + 1) .. contig'
      BY <2>1, <2>2
    <3> QED  BY <3>1, <1>5, <1>6, <1>7 DEF Contiguous
  <2>3. \A n \in Int : frame - contig <= n => frame' - contig' <= n
    <3>1. frame' = frame /\ frame \in Int
      BY <1>2, <1>4
    <3> QED  BY <2>1, <3>1, FrontierDistance
  <2>4. Horizon \in Int /\ Horizon + 1 \in Int
    BY PeerAssumption
  <2> QED  BY <2>2, <2>3, <2>4, <1>2 DEF Contiguous
<1>11. TxBounds' /\ ScratchRight' /\ HistoryRight' /\ ReplayRight'
  BY <1>2 DEF TxBounds, ScratchRight, HistoryRight, ReplayRight, Armed, TxShape
<1>12. NextTick' = NextTick /\ ~Armed /\ ~Armed'
  BY <1>2 DEF NextTick, Armed
<1>13. TicksExecuted' /\ Retained' /\ CheckpointFaithful'
  BY <1>2, <1>12 DEF TicksExecuted, Retained, CheckpointFaithful, NewestKept, OldestKept
<1> QED  BY <1>8, <1>9, <1>10, <1>11, <1>13

\* Passing the gate bounds the distance to the frontier.
LEMMA GateStep == IInv /\ (PassHorizonGate \/ HorizonTimeout) => TimelineInv'
<1> SUFFICES ASSUME IInv, PassHorizonGate \/ HorizonTimeout PROVE TimelineInv'
  OBVIOUS
<1> USE FrameFacts DEF IInv, TimelineInv
<1>1. /\ pc = "gate" /\ pc' \in {"resolve", "exit70"}
      /\ UNCHANGED <<frame, remote, contig, pred, pending, scratch, ram, ckpt, txStart,
                     txIndex, txRestore, hist>>
      /\ txStart = NoFrame
  BY DEF PassHorizonGate, HorizonTimeout, netVars, rollbackVars, guestVars, txVars, TxShape
<1>2. pc' = "resolve" => frame - contig <= Horizon
  BY PeerAssumption
  DEF PassHorizonGate, HorizonTimeout, UnconfirmedRemoteFrameCountThrough, TypeOK
<1>3. Contiguous'
  BY <1>1, <1>2 DEF Contiguous
<1>4. /\ PredictionsAgree' /\ PredictedSoFar' /\ PendingBounds' /\ TxBounds'
      /\ ScratchRight' /\ HistoryRight' /\ ReplayRight'
  BY <1>1 DEF PredictionsAgree, PredictedSoFar, PendingBounds, TxBounds,
              ScratchRight, HistoryRight, ReplayRight, Armed, TxShape
<1>5. NextTick' = NextTick /\ ~Armed /\ ~Armed'
  BY <1>1 DEF NextTick, Armed
<1>6. TicksExecuted' /\ TicksRight' /\ Retained' /\ CheckpointFaithful'
  BY <1>1, <1>5 DEF TicksExecuted, TicksRight, Retained, CheckpointFaithful,
                    NewestKept, OldestKept, Known, ToBeReplayed
<1> QED  BY <1>3, <1>4, <1>6

\* The frame's own input is resolved before its tick is executed.
LEMMA ResolveStep == IInv /\ ResolveFrame => TimelineInv'
<1> SUFFICES ASSUME IInv, ResolveFrame PROVE TimelineInv'
  OBVIOUS
<1> USE FrameFacts DEF IInv, TimelineInv
<1>1. /\ pc = "resolve" /\ pc' = "resim"
      /\ UNCHANGED <<frame, remote, contig, pending, ram, ckpt, txStart,
                     txIndex, txRestore, hist>>
      /\ txStart = NoFrame
  BY DEF ResolveFrame, netVars, rollbackVars, guestVars, txVars, TxShape
<1>2. /\ frame \in Frames /\ pred' = PredictionsAfterResolve(frame)
      /\ scratch' = Resolve(frame)
  BY DEF ResolveFrame, TypeOK
<1>3. /\ remote[frame] # None => scratch' = remote[frame] /\ pred' = pred
      /\ remote[frame] = None => scratch' = pred'[frame]
      /\ \A g \in Frames : g # frame => pred'[g] = pred[g]
  BY <1>2, ResolveFacts DEF PredictionsAfterResolve
<1>4. PredictionsAgree' /\ PredictedSoFar' /\ ScratchRight'
  BY <1>1, <1>2, <1>3 DEF PredictionsAgree, PredictedSoFar, ScratchRight, Known
<1>5. Contiguous' /\ PendingBounds' /\ TxBounds' /\ HistoryRight' /\ ReplayRight'
  BY <1>1 DEF Contiguous, PendingBounds, TxBounds, HistoryRight, ReplayRight,
              Armed, TxShape
<1>6. NextTick' = frame /\ NextTick = frame /\ ~Armed /\ ~Armed'
  BY <1>1 DEF NextTick, Armed
<1>7. TicksExecuted' /\ Retained' /\ CheckpointFaithful'
  BY <1>1, <1>6 DEF TicksExecuted, Retained, CheckpointFaithful, NewestKept, OldestKept
<1>8. TicksRight'
  <2>1. \A g \in Frames : g # frame => Known(g)' = Known(g)
    BY <1>1, <1>3 DEF Known
  <2>2. \A g \in Frames : ram[g] # None => g # frame
    BY <1>2, <1>6 DEF TicksExecuted
  <2> QED  BY <2>1, <2>2, <1>1 DEF TicksRight, ToBeReplayed
<1> QED  BY <1>4, <1>5, <1>7, <1>8

\* The checkpoint of a mispredicted frame is in the ring, and its replay fits.
LEMMA Correctable ==
  ASSUME Serial, IInv, pc = "resim", pending # NoFrame
  PROVE  /\ Mispredicted /\ frame - pending <= Horizon /\ DelayElapsed
         /\ RestoreFrame = pending /\ Armable
<1> USE FrameFacts DEF IInv, TimelineInv
<1>1. /\ pending \in Frames /\ frame \in Frames /\ txStart = NoFrame
      /\ frame - Horizon <= pending /\ pending < frame
  BY DEF TypeOK, PendingBounds, TxShape
<1>2. /\ Horizon \in Nat /\ HistoryCapacity \in Nat /\ RingCapacity \in Nat
      /\ Horizon < HistoryCapacity /\ HistoryCapacity <= RingCapacity
  BY PeerAssumption, RingAssumption DEF Serial, CorrectionFits
<1>3. OldestKept = frame - RingCapacity /\ NewestKept = frame - 1
  BY <1>1 DEF OldestKept, NewestKept, NextTick, Armed
<1>4. ckpt[pending] # None
  BY <1>1, <1>2, <1>3 DEF Retained
<1>5. RestoreFrame = pending
  BY <1>1, <1>4, LatestFacts DEF RestoreFrame, TypeOK
<1>6. RequiredHistoryCount(RestoreFrame, frame) <= HistoryCapacity
  BY <1>1, <1>2, <1>5 DEF RequiredHistoryCount
<1>7. frame - pending <= Horizon
  BY <1>1, <1>2
<1> QED  BY <1>1, <1>5, <1>6, <1>7 DEF Mispredicted, DelayElapsed, Armable, Serial,
                                       CorrectionFits

\* Of the returns of ResimulateIfNeeded without a correction only the one with
\* nothing pending is ever taken, and it leaves the timeline right.
LEMMA NothingStep ==
  ASSUME Serial, IInv,
         NothingToCorrect \/ HorizonAbort \/ WaitOutDelay \/ DropCorrection
  PROVE  TimelineInv'
<1> USE FrameFacts DEF IInv, TimelineInv
<1>1. NothingToCorrect /\ pending = NoFrame
  <2>1. pc = "resim"
    BY DEF NothingToCorrect, HorizonAbort, WaitOutDelay, DropCorrection, Mispredicted
  <2>2. CASE pending # NoFrame
    <3>1. pending < frame /\ frame - pending <= Horizon /\ DelayElapsed /\ Armable
      BY <2>1, <2>2, Correctable DEF Mispredicted
    <3>2. ~(frame - pending > Horizon) /\ ~(pending >= frame)
      BY <3>1, PeerAssumption DEF TypeOK
    <3> QED
      BY <3>1, <3>2, <2>2
      DEF NothingToCorrect, HorizonAbort, WaitOutDelay, DropCorrection
  <2> QED  BY <2>2 DEF HorizonAbort, WaitOutDelay, DropCorrection, Mispredicted
<1>2. /\ pc = "resim" /\ pc' = "run"
      /\ UNCHANGED <<frame, remote, contig, pred, pending, scratch, ram, ckpt, txStart,
                     txIndex, txRestore, hist>>
      /\ txStart = NoFrame
  BY <1>1 DEF NothingToCorrect, ClearPendingRollback, netVars, rollbackVars,
              guestVars, txVars, TxShape, TypeOK
<1>3. /\ PredictionsAgree' /\ Contiguous' /\ PredictedSoFar' /\ PendingBounds'
      /\ TxBounds' /\ ScratchRight' /\ HistoryRight' /\ ReplayRight'
  BY <1>1, <1>2
  DEF PredictionsAgree, Contiguous, PredictedSoFar, PendingBounds, TxBounds,
      ScratchRight, HistoryRight, ReplayRight, Armed, TxShape, Known
<1>4. NextTick' = NextTick /\ ~Armed /\ ~Armed'
  BY <1>2 DEF NextTick, Armed
<1>5. TicksExecuted' /\ TicksRight' /\ Retained' /\ CheckpointFaithful'
  BY <1>2, <1>4 DEF TicksExecuted, TicksRight, Retained, CheckpointFaithful,
                    NewestKept, OldestKept, Known, ToBeReplayed
<1> QED  BY <1>3, <1>5

\* The transaction takes over what the pending frame promised.
LEMMA BeginStep ==
  ASSUME Serial, IInv, BeginCorrection
  PROVE  TimelineInv'
<1> USE FrameFacts DEF IInv, TimelineInv
<1>1. /\ pc = "resim" /\ pc' = "replay" /\ pending # NoFrame /\ pending' = NoFrame
      /\ txStart = NoFrame /\ ~txRestore
      /\ UNCHANGED <<frame, remote, contig, pred, scratch, ram, ckpt, txRestore, hist>>
  BY DEF BeginCorrection, Mispredicted, ClearPendingRollback, netVars, guestVars, TxShape
<1>2. /\ txStart' = pending /\ txIndex' = 0
      /\ pending \in Frames /\ pending < frame /\ frame - pending <= Horizon
  BY <1>1, Correctable DEF BeginCorrection, Mispredicted, TypeOK
<1>3. ReplayFrame' = pending
  BY <1>2 DEF ReplayFrame
<1>4. PredictionsAgree' /\ Contiguous' /\ PredictedSoFar' /\ PendingBounds'
  BY <1>1 DEF PredictionsAgree, Contiguous, PredictedSoFar, PendingBounds
<1>5. TxBounds'
  BY <1>1, <1>2, <1>3 DEF TxBounds, TypeOK
<1>6. ScratchRight' /\ HistoryRight' /\ ReplayRight'
  BY <1>1, <1>2, <1>3 DEF ScratchRight, HistoryRight, ReplayRight, Armed, TypeOK
<1>7. NextTick' = NextTick /\ ~Armed /\ ~Armed'
  BY <1>1 DEF NextTick, Armed
<1>8. TicksRight'
  <2>1. \A g \in Frames : ToBeReplayed(g) => ToBeReplayed(g)'
    BY <1>1, <1>2 DEF ToBeReplayed
  <2> QED  BY <2>1, <1>1 DEF TicksRight, Known
<1>9. TicksExecuted' /\ Retained' /\ CheckpointFaithful'
  BY <1>1, <1>7 DEF TicksExecuted, Retained, CheckpointFaithful, NewestKept, OldestKept
<1> QED  BY <1>4, <1>5, <1>6, <1>8, <1>9

\* One more entry of the replay history.
LEMMA ReplayResolveStep == IInv /\ ResolveReplayFrame => TimelineInv'
<1> SUFFICES ASSUME IInv, ResolveReplayFrame PROVE TimelineInv'
  OBVIOUS
<1> USE FrameFacts DEF IInv, TimelineInv
<1>1. /\ pc = "replay" /\ pc' = "replay" /\ txStart \in Frames
      /\ UNCHANGED <<frame, remote, contig, pending, ram, ckpt, txStart, txRestore>>
      /\ txIndex' = txIndex + 1 /\ ~txRestore
  BY DEF ResolveReplayFrame, netVars, rollbackVars, guestVars, TxShape, TypeOK
<1>2. ReplayFrame \in Frames
  BY <1>1, PeerAssumption DEF ResolveReplayFrame, ReplayFrame, TypeOK, Frames
<1>3. PICK r \in Frames : r = ReplayFrame
  BY <1>2
<1>4. /\ r <= frame /\ txStart <= r
      /\ ReplayFrame' = r + 1
  BY <1>1, <1>3 DEF ResolveReplayFrame, ReplayFrame, TypeOK
<1>5. /\ pred' = PredictionsAfterResolve(r) /\ hist' = [hist EXCEPT ![r] = Resolve(r)]
  BY <1>3 DEF ResolveReplayFrame
<1>6. /\ Resolve(r) \in Inputs
      /\ remote[r] # None => Resolve(r) = remote[r] /\ pred' = pred
      /\ remote[r] = None => Resolve(r) = pred'[r]
      /\ \A g \in Frames : g # r => pred'[g] = pred[g]
  BY <1>4, <1>5, ResolveFacts DEF PredictionsAfterResolve
<1>7. PredictionsAgree' /\ PredictedSoFar'
  BY <1>1, <1>4, <1>6 DEF PredictionsAgree, PredictedSoFar, TypeOK
<1>8. Contiguous' /\ PendingBounds' /\ ScratchRight' /\ ReplayRight'
  BY <1>1 DEF Contiguous, PendingBounds, ScratchRight, ReplayRight, Armed, TxShape
<1>9. TxBounds'
  BY <1>1, <1>4 DEF TxBounds, TypeOK, TxShape
<1>10. \A g \in Frames : g # r => Known(g)' = Known(g)
  BY <1>1, <1>6 DEF Known
<1>11. Known(r)' = Resolve(r) /\ Resolve(r) # None
  BY <1>1, <1>4, <1>6, PeerAssumption DEF Known
<1>12. HistoryRight'
  <2> SUFFICES ASSUME NEW g \in Frames, txStart <= g, g < r + 1
               PROVE  hist'[g] = Known(g)' /\ hist'[g] # None
    BY <1>1, <1>4 DEF HistoryRight, Armed
  <2>1. CASE g = r
    BY <2>1, <1>4, <1>5, <1>11 DEF TypeOK, Images
  <2>2. CASE g # r
    <3>1. g < ReplayFrame
      BY <2>2, <1>4, <1>3
    <3>2. hist[g] = Known(g) /\ hist[g] # None
      BY <3>1, <1>1 DEF HistoryRight
    <3> QED  BY <2>2, <3>2, <1>4, <1>5, <1>10 DEF TypeOK, Images
  <2> QED  BY <2>1, <2>2
<1>13. NextTick' = NextTick /\ ~Armed /\ ~Armed'
  BY <1>1 DEF NextTick, Armed
<1>14. TicksRight'
  <2>1. \A g \in Frames : ToBeReplayed(g) => ToBeReplayed(g)'
    BY <1>1 DEF ToBeReplayed
  <2>2. ToBeReplayed(r)'
    BY <1>1, <1>4 DEF ToBeReplayed
  <2> QED  BY <2>1, <2>2, <1>1, <1>10 DEF TicksRight
<1>15. TicksExecuted' /\ Retained' /\ CheckpointFaithful'
  BY <1>1, <1>13 DEF TicksExecuted, Retained, CheckpointFaithful, NewestKept, OldestKept
<1> QED  BY <1>7, <1>8, <1>9, <1>12, <1>14, <1>15

\* Arming forgets exactly the checkpoints of the mispredicted timeline.
LEMMA ArmStep == IInv /\ ArmCorrection => TimelineInv'
<1> SUFFICES ASSUME IInv, ArmCorrection PROVE TimelineInv'
  OBVIOUS
<1> USE FrameFacts DEF IInv, TimelineInv
<1>1. /\ pc = "replay" /\ pc' = "run" /\ txStart \in Frames /\ txStart < frame
      /\ UNCHANGED <<frame, remote, contig, pred, pending, ram, txStart, hist>>
      /\ txRestore' /\ ~txRestore /\ txIndex' = 0 /\ pending = NoFrame
  BY DEF ArmCorrection, netVars, rollbackVars, TxShape, TypeOK, TxBounds, PendingBounds
<1>2. \A c \in Frames : ckpt'[c] = IF c > txStart THEN None ELSE ckpt[c]
  BY DEF ArmCorrection, DiscardAfter, TypeOK
<1>3. ReplayFrame > frame /\ ReplayFrame' = txStart
  BY <1>1 DEF ArmCorrection, ReplayFrame
<1>4. PredictionsAgree' /\ Contiguous' /\ PredictedSoFar' /\ PendingBounds'
  BY <1>1 DEF PredictionsAgree, Contiguous, PredictedSoFar, PendingBounds
<1>5. TxBounds' /\ ScratchRight' /\ ReplayRight'
  BY <1>1, <1>3 DEF TxBounds, ScratchRight, ReplayRight, Armed, TypeOK
<1>6. HistoryRight'
  <2>1. \A g \in Frames : g <= frame => g < ReplayFrame
    BY <1>1, <1>3 DEF TypeOK, ReplayFrame
  <2> QED  BY <2>1, <1>1 DEF HistoryRight, Armed, Known
<1>7. /\ NextTick' = frame /\ NextTick = frame /\ ~Armed /\ Armed'
      /\ NewestKept = frame - 1 /\ NewestKept' = txStart
      /\ OldestKept = frame - RingCapacity /\ OldestKept' = frame + 1 - RingCapacity
  BY <1>1 DEF NextTick, Armed, NewestKept, OldestKept
<1>8. TicksExecuted' /\ TicksRight'
  BY <1>1, <1>7 DEF TicksExecuted, TicksRight, Known, ToBeReplayed
<1>9. Retained'
  <2> SUFFICES ASSUME NEW c \in Frames
               PROVE  /\ frame + 1 - RingCapacity <= c /\ c <= txStart => ckpt'[c] # None
                      /\ ckpt'[c] # None => c <= txStart
    BY <1>7 DEF Retained
  <2> QED  BY <1>1, <1>2, <1>7, RingAssumption DEF Retained, TypeOK
<1>10. CheckpointFaithful'
  BY <1>1, <1>2 DEF CheckpointFaithful
<1> QED  BY <1>4, <1>5, <1>6, <1>8, <1>9, <1>10

\* What the end of an outer frame leaves alone, and where the next one begins.
LEMMA EndFacts ==
  ASSUME TypeOK, EndOfFrame, txStart' = NoFrame
  PROVE  /\ NextTick' = frame + 1 /\ ~Armed'
         /\ NewestKept' = frame /\ OldestKept' = frame + 1 - RingCapacity
         /\ pc' \in {"save", "done"}
         /\ frame' = IF pc' = "done" THEN frame ELSE frame + 1
<1>1. /\ pc' \in {"save", "done"}
      /\ frame' = IF pc' = "done" THEN frame ELSE frame + 1
      /\ frame \in Nat
  BY FrameFacts DEF EndOfFrame, TypeOK
<1>2. NextTick' = frame + 1 /\ ~Armed'
  BY <1>1 DEF NextTick, Armed
<1>3. NewestKept' = (frame + 1) - 1
  BY <1>2 DEF NewestKept
<1>4. OldestKept' = frame + 1 - RingCapacity
  BY <1>1, <1>2, RingAssumption DEF OldestKept
<1>5. (frame + 1) - 1 = frame
  BY <1>1
<1> QED  BY <1>1, <1>2, <1>3, <1>4, <1>5

\* The parts of the invariant the guest does not touch.
LEMMA EndStep ==
  ASSUME IInv, EndOfFrame, pc = "run", txStart' = NoFrame, ~txRestore',
         UNCHANGED <<remote, contig, pred, pending>>
  PROVE  /\ PredictionsAgree' /\ Contiguous' /\ PredictedSoFar' /\ PendingBounds'
         /\ TxBounds' /\ ScratchRight' /\ HistoryRight' /\ ReplayRight'
<1> USE FrameFacts DEF IInv, TimelineInv
<1>1. /\ pc' \in {"save", "done"} /\ ~Armed'
      /\ frame' = IF pc' = "done" THEN frame ELSE frame + 1
      /\ pending = NoFrame /\ frame \in Nat
  BY EndFacts DEF TypeOK, PendingBounds
<1>2. PredictionsAgree' /\ PendingBounds'
  BY <1>1 DEF PredictionsAgree, PendingBounds
<1>3. Contiguous'
  <2>1. frame - contig <= Horizon /\ Horizon \in Nat /\ contig \in Int
    BY PeerAssumption DEF Contiguous, TypeOK
  <2>2. frame' - contig <= Horizon + 1 /\ (pc' = "done" => frame' - contig <= Horizon)
    BY <2>1, <1>1
  <2> QED  BY <2>2, <1>1 DEF Contiguous
<1>4. PredictedSoFar'
  <2>1. \A g \in Frames : pred[g] # None => g <= frame
    BY <1>1 DEF PredictedSoFar
  <2> QED  BY <2>1, <1>1 DEF PredictedSoFar
<1>5. TxBounds' /\ ScratchRight' /\ HistoryRight' /\ ReplayRight'
  BY <1>1 DEF TxBounds, ScratchRight, HistoryRight, ReplayRight
<1> QED  BY <1>2, <1>3, <1>4, <1>5

\* A normal tick consumes the committed input and captures its checkpoint.
LEMMA NormalTickStep ==
  ASSUME IInv, GateNormalTick
  PROVE  TimelineInv'
<1> USE FrameFacts DEF IInv, TimelineInv
<1>1. /\ pc = "run" /\ txStart = NoFrame /\ txStart' = NoFrame /\ ~txRestore /\ ~txRestore'
      /\ UNCHANGED <<remote, contig, pred, pending, scratch>> /\ EndOfFrame
      /\ frame \in Frames /\ pending = NoFrame
  BY DEF GateNormalTick, netVars, rollbackVars, txVars, TxShape, TypeOK, PendingBounds
<1>2. /\ PredictionsAgree' /\ Contiguous' /\ PredictedSoFar' /\ PendingBounds'
      /\ TxBounds' /\ ScratchRight' /\ HistoryRight' /\ ReplayRight'
  BY <1>1, EndStep
<1>3. /\ NextTick = frame /\ NewestKept = frame - 1 /\ OldestKept = frame - RingCapacity
  BY <1>1 DEF NextTick, Armed, NewestKept, OldestKept
<1>4. /\ NextTick' = frame + 1 /\ NewestKept' = frame
      /\ OldestKept' = frame + 1 - RingCapacity
  BY <1>1, EndFacts
<1>5. \A g \in Frames : ram'[g] = IF g = frame THEN scratch ELSE ram[g]
  BY DEF GateNormalTick, TypeOK, Images
<1>6. \A c \in Frames : ckpt'[c] = IF c = frame THEN ram
                                   ELSE IF c <= frame - RingCapacity THEN None
                                   ELSE ckpt[c]
  BY <1>1, CaptureFacts DEF GateNormalTick, TypeOK
<1>7. scratch # None /\ scratch = Known(frame)
  BY <1>1, PeerAssumption DEF ScratchRight, TypeOK
<1>8. TicksExecuted'
  BY <1>3, <1>4, <1>5, <1>7, <1>1 DEF TicksExecuted
<1>9. TicksRight'
  <2>1. \A g \in Frames : Known(g)' = Known(g) /\ ~ToBeReplayed(g)
    BY <1>1 DEF Known, ToBeReplayed
  <2> QED  BY <2>1, <1>5, <1>7 DEF TicksRight
<1>10. Retained'
  <2>1. ram # None
    BY ImageAssumption DEF TypeOK
  <2> SUFFICES ASSUME NEW c \in Frames
               PROVE  /\ frame + 1 - RingCapacity <= c /\ c <= frame => ckpt'[c] # None
                      /\ ckpt'[c] # None => c <= frame
    BY <1>4 DEF Retained
  <2>2. CASE c = frame
    <3>1. ckpt'[c] = ram
      BY <2>2, <1>6
    <3>2. c <= frame
      BY <2>2
    <3> QED  BY <2>1, <3>1, <3>2
  <2>3. CASE c # frame
    <3>1. frame \in Nat /\ c \in Nat /\ RingCapacity \in Nat
      BY <1>1, RingAssumption
    <3>2. /\ frame - RingCapacity <= c /\ c <= frame - 1 => ckpt[c] # None
          /\ ckpt[c] # None => c <= frame - 1
      BY <1>3 DEF Retained
    <3>3. ckpt'[c] = IF c <= frame - RingCapacity THEN None ELSE ckpt[c]
      BY <2>3, <1>6
    <3>4. frame + 1 - RingCapacity <= c /\ c <= frame =>
              /\ frame - RingCapacity <= c /\ c <= frame - 1
              /\ ~(c <= frame - RingCapacity)
      BY <3>1, <2>3
    <3>5. c <= frame - 1 => c <= frame
      BY <3>1
    <3> QED  BY <3>2, <3>3, <3>4, <3>5
  <2> QED  BY <2>2, <2>3
<1>11. CheckpointFaithful'
  <2> SUFFICES ASSUME NEW c \in Frames, ckpt'[c] # None, NEW g \in Frames
               PROVE  ckpt'[c][g] = IF g < c THEN ram'[g] ELSE None
    BY DEF CheckpointFaithful
  <2>1. CASE c = frame
    BY <2>1, <1>1, <1>3, <1>5, <1>6 DEF TicksExecuted
  <2>2. CASE c # frame
    <3>1. ckpt'[c] = ckpt[c] /\ ckpt[c] # None /\ c < frame
      BY <2>2, <1>1, <1>3, <1>6 DEF Retained
    <3> QED  BY <3>1, <1>1, <1>5 DEF CheckpointFaithful
  <2> QED  BY <2>1, <2>2
<1> QED  BY <1>2, <1>8, <1>9, <1>10, <1>11

\* Restoring the checkpoint of txStart keeps exactly the ticks before it.
LEMMA RestoreStep ==
  ASSUME IInv, GateRestore
  PROVE  TimelineInv'
<1> USE FrameFacts DEF IInv, TimelineInv
<1>1. /\ pc = "run" /\ txRestore /\ ~txRestore' /\ txStart \in Frames /\ txIndex = 0
      /\ UNCHANGED <<pc, frame, remote, contig, pred, pending, ckpt, txStart, txIndex, hist>>
      /\ pending = NoFrame /\ ckpt[txStart] # None /\ txStart < frame
  BY DEF GateRestore, netVars, rollbackVars, TxShape, TypeOK, TxBounds, PendingBounds
<1>2. ReplayFrame = txStart /\ ReplayFrame' = txStart
  BY <1>1 DEF ReplayFrame
<1>3. \A g \in Frames : ram'[g] = IF g < txStart THEN ram[g] ELSE None
  BY <1>1 DEF GateRestore, CheckpointFaithful
<1>4. /\ Armed /\ Armed' /\ NextTick = frame /\ NextTick' = txStart
      /\ NewestKept = txStart /\ NewestKept' = txStart /\ OldestKept' = OldestKept
  BY <1>1, <1>2 DEF NextTick, Armed, NewestKept, OldestKept
<1>5. /\ PredictionsAgree' /\ Contiguous' /\ PredictedSoFar' /\ PendingBounds'
      /\ TxBounds' /\ ScratchRight' /\ HistoryRight'
  BY <1>1, <1>2
  DEF PredictionsAgree, Contiguous, PredictedSoFar, PendingBounds, TxBounds,
      ScratchRight, HistoryRight, Armed, Known
<1>6. ReplayRight'
  BY <1>1, <1>2 DEF ReplayRight, TypeOK
<1>7. TicksExecuted'
  <2>1. \A g \in Frames : g < txStart => g < frame
    BY <1>1 DEF TypeOK
  <2> QED  BY <2>1, <1>3, <1>4 DEF TicksExecuted
<1>8. TicksRight'
  <2>1. \A g \in Frames : Known(g)' = Known(g)
    BY <1>1 DEF Known
  <2>2. \A g \in Frames : g < txStart => ~ToBeReplayed(g)
    BY <1>1 DEF ToBeReplayed
  <2> QED  BY <2>1, <2>2, <1>3 DEF TicksRight
<1>9. Retained'
  BY <1>1, <1>4 DEF Retained
<1>10. CheckpointFaithful'
  <2> SUFFICES ASSUME NEW c \in Frames, ckpt[c] # None, NEW g \in Frames
               PROVE  ckpt[c][g] = IF g < c THEN ram'[g] ELSE None
    BY <1>1 DEF CheckpointFaithful
  <2>1. c <= txStart
    BY <1>4 DEF Retained
  <2>2. g < c => g < txStart
    BY <2>1, <1>1
  <2> QED  BY <2>2, <1>3 DEF CheckpointFaithful
<1> QED  BY <1>5, <1>6, <1>7, <1>8, <1>9, <1>10

\* A replayed tick consumes its history entry; all but the first recapture.
LEMMA ReplayTickStep ==
  ASSUME IInv, GateReplayTick
  PROVE  TimelineInv'
<1> USE FrameFacts DEF IInv, TimelineInv
<1>1. /\ pc = "run" /\ txStart \in Frames /\ ~txRestore /\ pending = NoFrame
      /\ UNCHANGED <<pc, frame, remote, contig, pred, pending, txStart, txRestore, hist>>
      /\ txIndex' = txIndex + 1 /\ txIndex \in Nat /\ frame \in Frames
      /\ Armed /\ Armed'
  BY DEF GateReplayTick, netVars, rollbackVars, TypeOK, PendingBounds, Armed
<1>2. ReplayFrame \in Frames
  BY <1>1, PeerAssumption DEF GateReplayTick, ReplayFrame, Frames
<1>3. PICK r \in Frames : r = ReplayFrame
  BY <1>2
<1>4. /\ r <= frame /\ txStart <= r /\ ReplayFrame' = r + 1
      /\ r = txStart <=> txIndex = 0
  BY <1>1, <1>3 DEF GateReplayTick, ReplayFrame
<1>5. hist[r] = Known(r) /\ hist[r] # None
  BY <1>1, <1>4 DEF HistoryRight
<1>6. \A g \in Frames : ram'[g] = IF g = r THEN hist[r] ELSE ram[g]
  BY <1>3 DEF GateReplayTick, TypeOK, Images
<1>7. \A g \in Frames : Known(g)' = Known(g)
  BY <1>1 DEF Known
<1>8. NextTick = r /\ NextTick' = r + 1
  BY <1>1, <1>3, <1>4 DEF NextTick, Armed
<1>9. /\ PredictionsAgree' /\ Contiguous' /\ PredictedSoFar' /\ PendingBounds'
      /\ ScratchRight' /\ HistoryRight'
  BY <1>1 DEF PredictionsAgree, Contiguous, PredictedSoFar, PendingBounds,
              ScratchRight, HistoryRight, Known
<1>10. TxBounds'
  <2>1. r + 1 <= frame + 1
    BY <1>1, <1>4
  <2> QED  BY <2>1, <1>1, <1>4 DEF TxBounds
<1>11. TicksExecuted'
  <2>1. \A g \in Frames : g < r + 1 <=> g < r \/ g = r
    OBVIOUS
  <2> QED  BY <2>1, <1>5, <1>6, <1>8 DEF TicksExecuted
<1>12. TicksRight' /\ ReplayRight'
  <2>1. \A g \in Frames : ToBeReplayed(g)' <=> ToBeReplayed(g)
    BY <1>1 DEF ToBeReplayed
  <2>2. TicksRight'
    BY <2>1, <1>5, <1>6, <1>7 DEF TicksRight
  <2>3. \A g \in Frames : g < r + 1 => g < r \/ g = r
    OBVIOUS
  <2>4. ReplayRight'
    BY <2>3, <1>1, <1>3, <1>4, <1>5, <1>6, <1>7 DEF ReplayRight
  <2> QED  BY <2>2, <2>4
<1>13. NewestKept = (IF r = txStart THEN txStart ELSE r - 1) /\ NewestKept' = r
  <2>1. NewestKept = IF r = txStart THEN txStart ELSE r - 1
    BY <1>1, <1>3, <1>4 DEF NewestKept
  <2>2. txIndex' # 0 /\ ReplayFrame' - 1 = r
    BY <1>1, <1>4
  <2> QED  BY <2>1, <2>2, <1>1 DEF NewestKept
<1>14. OldestKept = frame + 1 - RingCapacity /\ OldestKept' = frame + 1 - RingCapacity
  BY <1>1 DEF OldestKept
<1>15. \A c \in Frames :
          ckpt'[c] = IF c = r /\ r # txStart THEN ram
                     ELSE IF r # txStart /\ c <= r - RingCapacity THEN None
                     ELSE ckpt[c]
  <2>1. CASE txIndex = 0
    BY <2>1, <1>4 DEF GateReplayTick
  <2>2. CASE txIndex # 0
    BY <2>2, <1>3, <1>4, CaptureFacts DEF GateReplayTick, TypeOK
  <2> QED  BY <2>1, <2>2
<1>16. ram # None
  BY ImageAssumption DEF TypeOK
<1>17. Retained'
  <2> SUFFICES ASSUME NEW c \in Frames
               PROVE  /\ frame + 1 - RingCapacity <= c /\ c <= r => ckpt'[c] # None
                      /\ ckpt'[c] # None => c <= r
    BY <1>13, <1>14 DEF Retained
  <2>1. /\ frame + 1 - RingCapacity <= c /\ c <= NewestKept => ckpt[c] # None
        /\ ckpt[c] # None => c <= NewestKept
    BY <1>14 DEF Retained
  <2>2. CASE r = txStart
    BY <2>1, <2>2, <1>13, <1>15
  <2>3. CASE r # txStart /\ c = r
    <3>1. ckpt'[c] = ram /\ c <= r
      BY <2>3, <1>15
    <3> QED  BY <3>1, <1>16
  <2>4. CASE r # txStart /\ c # r
    <3>1. frame \in Nat /\ c \in Nat /\ r \in Nat /\ RingCapacity \in Nat
      BY <1>1, RingAssumption
    <3>2. NewestKept = r - 1
      BY <2>4, <1>13
    <3>3. ckpt'[c] = IF c <= r - RingCapacity THEN None ELSE ckpt[c]
      BY <2>4, <1>15
    <3>4. frame + 1 - RingCapacity <= c /\ c <= r =>
              c <= r - 1 /\ ~(c <= r - RingCapacity)
      BY <3>1, <2>4, <1>4
    <3>5. c <= r - 1 => c <= r
      BY <3>1
    <3> QED  BY <2>1, <3>2, <3>3, <3>4, <3>5
  <2> QED  BY <2>2, <2>3, <2>4
<1>18. CheckpointFaithful'
  <2> SUFFICES ASSUME NEW c \in Frames, ckpt'[c] # None, NEW g \in Frames
               PROVE  ckpt'[c][g] = IF g < c THEN ram'[g] ELSE None
    BY DEF CheckpointFaithful
  <2>1. CASE r # txStart /\ c = r
    <3>1. ckpt'[c] = ram
      BY <2>1, <1>15
    <3>2. g < c => g # r
      BY <2>1
    <3>3. ~(g < c) => ram[g] = None
      BY <2>1, <1>8 DEF TicksExecuted
    <3> QED  BY <3>1, <3>2, <3>3, <1>6
  <2>2. CASE ~(r # txStart /\ c = r)
    <3>1. ckpt'[c] = ckpt[c] /\ ckpt[c] # None
      BY <2>2, <1>15
    <3>2. c <= NewestKept
      BY <3>1 DEF Retained
    <3>3. c <= r
      <4>1. CASE r = txStart
        BY <4>1, <3>2, <1>13
      <4>2. CASE r # txStart
        <5>1. c <= r - 1
          BY <4>2, <3>2, <1>13
        <5> QED  BY <5>1
      <4> QED  BY <4>1, <4>2
    <3>4. g < c => g # r
      BY <3>3
    <3> QED  BY <3>1, <3>4, <1>6 DEF CheckpointFaithful
  <2> QED  BY <2>1, <2>2
<1> QED  BY <1>9, <1>10, <1>11, <1>12, <1>17, <1>18

\* The end of the transaction: every tick from txStart has been replayed.
LEMMA FinalizeStep ==
  ASSUME IInv, FinalizeTransaction
  PROVE  TimelineInv'
<1> USE FrameFacts DEF IInv, TimelineInv
<1>1. /\ pc = "run" /\ txStart \in Frames /\ txStart' = NoFrame /\ ~txRestore /\ ~txRestore'
      /\ UNCHANGED <<remote, contig, pred, pending, ram, ckpt>> /\ EndOfFrame
      /\ frame \in Frames /\ pending = NoFrame /\ Armed /\ txIndex \in Nat
  BY DEF FinalizeTransaction, netVars, rollbackVars, guestVars, TxShape, TypeOK,
         PendingBounds, Armed
<1>2. /\ PredictionsAgree' /\ Contiguous' /\ PredictedSoFar' /\ PendingBounds'
      /\ TxBounds' /\ ScratchRight' /\ HistoryRight' /\ ReplayRight'
  BY <1>1, EndStep
<1>3. ReplayFrame = frame + 1 /\ txIndex # 0
  <2>1. ReplayFrame > frame /\ ReplayFrame <= frame + 1 /\ txStart < frame
    BY <1>1 DEF FinalizeTransaction, TxBounds
  <2>2. ReplayFrame \in Nat /\ frame \in Nat /\ ReplayFrame = txStart + txIndex
    BY <1>1 DEF ReplayFrame
  <2> QED  BY <2>1, <2>2, <1>1
<1>4. /\ NextTick = frame + 1 /\ NewestKept = (frame + 1) - 1
      /\ OldestKept = frame + 1 - RingCapacity
  BY <1>1, <1>3 DEF NextTick, NewestKept, OldestKept, Armed
<1>5. (frame + 1) - 1 = frame
  BY <1>1
<1>6. /\ NextTick' = frame + 1 /\ NewestKept' = frame
      /\ OldestKept' = frame + 1 - RingCapacity
  BY <1>1, EndFacts
<1>7. TicksExecuted' /\ Retained' /\ CheckpointFaithful'
  BY <1>1, <1>4, <1>5, <1>6 DEF TicksExecuted, Retained, CheckpointFaithful
<1>8. TicksRight'
  <2>1. \A g \in Frames : Known(g)' = Known(g)
    BY <1>1 DEF Known
  <2>2. ASSUME NEW g \in Frames, ram[g] # None PROVE ram[g] = Known(g)
    <3>1. g < frame + 1
      BY <2>2, <1>4 DEF TicksExecuted
    <3>2. CASE txStart <= g
      BY <3>1, <3>2, <1>1, <1>3 DEF ReplayRight
    <3>3. CASE ~(txStart <= g)
      BY <3>3, <2>2, <1>1 DEF TicksRight, ToBeReplayed
    <3> QED  BY <3>2, <3>3
  <2> QED  BY <2>1, <2>2, <1>1 DEF TicksRight
<1> QED  BY <1>2, <1>7, <1>8

\* A stopped process changes nothing.
LEMMA StutterStep == IInv /\ (Stopped \/ UNCHANGED vars) => TimelineInv'
<1> SUFFICES ASSUME IInv, UNCHANGED vars PROVE TimelineInv'
  BY DEF Stopped
<1>1. UNCHANGED <<pc, frame, remote, contig, pred, pending, scratch, ram, ckpt,
                  txStart, txIndex, txRestore, hist>>
  BY DEF vars, netVars, rollbackVars, guestVars, txVars
<1> QED
  BY <1>1
  DEF IInv, TimelineInv, PredictionsAgree, Contiguous, PredictedSoFar, PendingBounds,
      TxBounds, ScratchRight, HistoryRight, TicksExecuted, TicksRight, ReplayRight,
      Retained, CheckpointFaithful, Known, Armed, NextTick, ReplayFrame, ToBeReplayed,
      NewestKept, OldestKept

\* The invariant is inductive.
LEMMA NextIInv ==
  ASSUME Serial
  PROVE  IInv /\ [Next]_vars => IInv'
<1> SUFFICES ASSUME IInv, [Next]_vars PROVE TimelineInv'
  BY NextTypeOK, NextTxShape DEF IInv
<1>1. CASE SaveCheckpoint
  BY <1>1, SaveStep
<1>2. ASSUME NEW f \in Frames, Receive(f) PROVE TimelineInv'
  BY <1>2, ReceiveStep
<1>3. CASE PassHorizonGate \/ HorizonTimeout
  BY <1>3, GateStep
<1>4. CASE ResolveFrame
  BY <1>4, ResolveStep
<1>5. CASE NothingToCorrect \/ HorizonAbort \/ WaitOutDelay \/ DropCorrection
  BY <1>5, NothingStep
<1>6. CASE BeginCorrection
  BY <1>6, BeginStep
<1>7. CASE ResolveReplayFrame
  BY <1>7, ReplayResolveStep
<1>8. CASE ArmCorrection
  BY <1>8, ArmStep
<1>9. CASE GateNormalTick
  BY <1>9, NormalTickStep
<1>10. CASE GateRestore
  BY <1>10, RestoreStep
<1>11. CASE GateReplayTick
  BY <1>11, ReplayTickStep
<1>12. CASE FinalizeTransaction
  BY <1>12, FinalizeStep
<1>13. CASE Stopped \/ UNCHANGED vars
  BY <1>13, StutterStep
<1> QED
  BY <1>1, <1>2, <1>3, <1>4, <1>5, <1>6, <1>7, <1>8, <1>9, <1>10, <1>11, <1>12,
     <1>13 DEF Next, Emulate

-----------------------------------------------------------------------------
(* The theorems *)

\* The invariant holds throughout a match.
THEOREM Invariance ==
  ASSUME Serial
  PROVE  Spec => []IInv
<1>1. Init => IInv
  BY InitIInv
<1>2. IInv /\ [Next]_vars => IInv'
  BY NextIInv
<1> QED  BY <1>1, <1>2, PTL DEF Spec

\* With one pumping thread no misprediction is ever lost, whatever the epoch,
\* delay, horizon, window and ring size: a tick that consumed an input other
\* than the confirmed one is pending or being replayed (Confirm,
\* ResimulateIfNeeded, the guest's replay).
THEOREM NoMispredictionLost ==
  ASSUME Serial
  PROVE  Spec => []RollbackSound
<1>1. IInv => RollbackSound
  <2> SUFFICES ASSUME IInv, NEW g \in Frames, ram[g] # None, remote[g] # None,
                      ram[g] # remote[g]
               PROVE  ToBeReplayed(g)
    BY DEF RollbackSound
  <2> QED  BY DEF IInv, TimelineInv, TicksRight, Known
<1> QED  BY <1>1, Invariance, PTL

\* Every checkpoint in the ring belongs to the timeline the guest is on
\* (CaptureNSMLGameRAMCheckpointAtGate, DiscardNSMLGameRAMCheckpointsAfter).
THEOREM CheckpointsFaithful ==
  ASSUME Serial
  PROVE  Spec => []CheckpointFaithful
<1>1. IInv => CheckpointFaithful
  BY DEF IInv, TimelineInv
<1> QED  BY <1>1, Invariance, PTL

\* Every mismatch is found within the horizon, with the checkpoint of its very
\* frame in the ring and room for the replay: ResimulateIfNeeded takes neither
\* its fatal exit nor one of the returns that give the correction up.
THEOREM CorrectionsArm ==
  ASSUME Serial
  PROVE  Spec => []CorrectionAlwaysArms
<1>1. IInv => CorrectionAlwaysArms
  <2> SUFFICES ASSUME IInv PROVE CorrectionAlwaysArms
    OBVIOUS
  <2>1. pc # "exit74"
    BY DEF IInv, TimelineInv, PendingBounds
  <2>2. Mispredicted => /\ frame - pending <= Horizon
                        /\ RestoreFrame = pending
                        /\ Armable
    BY Correctable DEF Mispredicted
  <2> QED  BY <2>1, <2>2 DEF CorrectionAlwaysArms
<1> QED  BY <1>1, Invariance, PTL

\* A settled tick stays settled: neither a retransmission, a later packet, a
\* prediction nor a correction of a later frame touches it.
THEOREM SettledForever ==
  ASSUME Serial
  PROVE  Spec => SettledIsFinal
<1>1. ASSUME IInv, Next, NEW g \in Frames, Settled(g)
      PROVE  Settled(g)'
  <2> USE FrameFacts DEF IInv, TimelineInv
  <2>1. /\ g <= contig /\ ram[g] = remote[g] /\ remote[g] # None
        /\ ~ToBeReplayed(g)
    BY <1>1 DEF Settled, Contiguous
  <2>2. contig' >= contig /\ remote'[g] = remote[g]
    <3>1. ASSUME NEW f \in Frames, Receive(f)
          PROVE  contig' >= contig /\ remote'[g] = remote[g]
      <4>1. PICK i \in Arrives(f) : StoreRemote(f, i, frame + RawOffset)
        BY <3>1 DEF Serial, Receive, ReceiveOnEmulatorThread, ReceiveOnPumpThread
      <4>2. i \in Inputs /\ (remote[f] # None => i = remote[f])
        BY <4>1, <1>1 DEF Arrives, TypeOK, Images, MaybeInputs
      <4>3. frame + RawOffset \in Nat
        BY <1>1, PeerAssumption DEF TypeOK
      <4>4. /\ remote' = [remote EXCEPT ![f] = i]
            /\ contig' \in contig .. LastFrame
        BY <1>1, <4>1, <4>2, <4>3, StoreRemoteFacts
      <4> QED  BY <1>1, <2>1, <4>2, <4>4, PeerAssumption DEF TypeOK, Images
    <3>2. CASE UNCHANGED <<remote, contig>>
      BY <3>2, <1>1, PeerAssumption DEF TypeOK
    <3> QED
      BY <1>1, <3>1, <3>2
      DEF Next, Emulate, SaveCheckpoint, PassHorizonGate, HorizonTimeout, ResolveFrame,
          NothingToCorrect, HorizonAbort, WaitOutDelay, DropCorrection, BeginCorrection,
          ResolveReplayFrame, ArmCorrection, GateNormalTick, GateRestore, GateReplayTick,
          FinalizeTransaction, Stopped, vars, netVars
  <2>3. ram'[g] = ram[g]
    <3>1. ram[g] # None
      BY <2>1
    <3>2. txStart # NoFrame => g < txStart
      BY <2>1, <1>1 DEF ToBeReplayed, TypeOK
    <3>3. CASE GateNormalTick
      <4>1. NextTick = frame
        BY <3>3 DEF GateNormalTick, NextTick, Armed
      <4>2. g < frame /\ frame \in Nat
        BY <3>1, <4>1, <1>1 DEF TicksExecuted, TypeOK
      <4> QED  BY <3>3, <4>2, <1>1 DEF GateNormalTick, TypeOK, Images
    <3>4. CASE GateRestore
      BY <3>2, <3>4, <1>1 DEF GateRestore, CheckpointFaithful, TxShape, TypeOK
    <3>5. CASE GateReplayTick
      <4>1. g < ReplayFrame /\ ReplayFrame \in Nat
        BY <3>2, <3>5, <1>1 DEF GateReplayTick, ReplayFrame, TypeOK
      <4> QED  BY <3>5, <4>1, <1>1 DEF GateReplayTick, TypeOK, Images
    <3> QED
      BY <1>1, <3>3, <3>4, <3>5
      DEF Next, Emulate, SaveCheckpoint, PassHorizonGate, HorizonTimeout, ResolveFrame,
          NothingToCorrect, HorizonAbort, WaitOutDelay, DropCorrection, BeginCorrection,
          ResolveReplayFrame, ArmCorrection, FinalizeTransaction, Stopped, vars,
          guestVars, Receive, ReceiveOnEmulatorThread, ReceiveOnPumpThread
  <2>4. ~(pending' # NoFrame /\ pending' <= g)
    <3>1. ~(pending # NoFrame /\ pending <= g)
      BY <2>1 DEF ToBeReplayed
    <3>2. ASSUME NEW f \in Frames, Receive(f) PROVE pending' = pending \/ pending' > g
      <4>1. PICK i \in Arrives(f) : StoreRemote(f, i, frame + RawOffset)
        BY <3>2 DEF Serial, Receive, ReceiveOnEmulatorThread, ReceiveOnPumpThread
      <4>2. remote[f] # None => i = remote[f]
        BY <4>1 DEF Arrives
      <4>3. CASE Mismatch(f, i)
        <5>1. remote[f] = None
          BY <4>2, <4>3, <1>1 DEF Mismatch, PredictionsAgree
        <5>2. contig < f /\ g < f
          BY <5>1, <2>1, <1>1, PeerAssumption DEF Contiguous, TypeOK
        <5> QED  BY <4>1, <4>3, <5>2 DEF StoreRemote, Confirm, rollbackVars
      <4>4. CASE ~Mismatch(f, i)
        BY <4>1, <4>4 DEF StoreRemote, Confirm, rollbackVars
      <4> QED  BY <4>3, <4>4
    <3>3. CASE pending' = pending \/ pending' = NoFrame
      BY <3>1, <3>3
    <3>4. CASE pending' > g
      <4>1. pending' \in Frames \cup {NoFrame}
        BY <1>1, NextTypeOK DEF TypeOK
      <4> QED  BY <3>4, <4>1
    <3> QED
      BY <1>1, <3>2, <3>3, <3>4
      DEF Next, Emulate, SaveCheckpoint, PassHorizonGate, HorizonTimeout, ResolveFrame,
          NothingToCorrect, HorizonAbort, WaitOutDelay, DropCorrection, BeginCorrection,
          ResolveReplayFrame, ArmCorrection, GateNormalTick, GateRestore, GateReplayTick,
          FinalizeTransaction, Stopped, vars, rollbackVars, ClearPendingRollback
  <2>5. ~(txStart' # NoFrame /\ txStart' <= g)
    <3>1. CASE BeginCorrection
      <4>1. txStart' = pending /\ pending # NoFrame
        BY <3>1, <1>1, Correctable DEF BeginCorrection, Mispredicted
      <4> QED  BY <4>1, <2>1 DEF ToBeReplayed
    <3>2. CASE txStart' = txStart \/ txStart' = NoFrame
      BY <3>2, <2>1 DEF ToBeReplayed
    <3> QED
      BY <1>1, <3>1, <3>2
      DEF Next, Emulate, SaveCheckpoint, PassHorizonGate, HorizonTimeout, ResolveFrame,
          NothingToCorrect, HorizonAbort, WaitOutDelay, DropCorrection,
          ResolveReplayFrame, ArmCorrection, GateNormalTick, GateRestore, GateReplayTick,
          FinalizeTransaction, Stopped, vars, txVars, Receive, ReceiveOnEmulatorThread,
          ReceiveOnPumpThread
  <2>6. g <= contig'
    <3>1. contig' \in Int /\ contig \in Int
      BY <1>1, NextTypeOK, PeerAssumption DEF TypeOK
    <3> QED  BY <2>1, <2>2, <3>1
  <2> QED  BY <2>1, <2>2, <2>3, <2>4, <2>5, <2>6 DEF Settled, ToBeReplayed
<1>2. IInv /\ [Next]_vars => [\A g \in Frames : Settled(g) => Settled(g)']_vars
  BY <1>1
<1> QED  BY <1>2, Invariance, PTL DEF Spec, SettledIsFinal
=============================================================================
