---------------------------- MODULE CheckpointRing ----------------------------
(***************************************************************************)
(* The ring of game-RAM checkpoints in src/NDS.cpp, slot by slot, driven   *)
(* the way the frontend and the guest drive it: one input gate per outer   *)
(* frame, raw frame labels until the start-ready handshake, logical labels *)
(* after it, raw labels again when a rematch begins a new generation, and  *)
(* corrections that discard the newer checkpoints and recapture them while *)
(* the guest replays.                                                      *)
(***************************************************************************)
EXTENDS CheckpointMap

CONSTANTS
    Versions,     \* captures of one frame that differ
    RawStart,     \* NumFrames at the first gate
    Epoch,        \* first logical frame of every generation
    ReadyRaw,     \* raw frames at which the game may report gameplay start
    Delay,        \* input delay: no frame before Epoch + Delay is mispredicted
    LastFrame,    \* bound: no label exceeds it
    MaxDepth,     \* deepest correction: the prediction horizon
    MaxRestarts,  \* bound on rematches
    RematchStart  \* LocalStartupRawFrame, rebased by a rematch

ASSUME RingDriverAssumption ==
    /\ RawStart \in Nat \ {0} /\ Epoch \in Nat \ {0}
    /\ LastFrame \in Nat /\ RawStart <= LastFrame
    /\ \A r \in ReadyRaw : r \in Nat /\ r >= Epoch
    /\ Delay \in Nat /\ MaxDepth \in Nat /\ MaxDepth < RingCapacity
    /\ MaxRestarts \in Nat /\ RematchStart \in Nat

VARIABLES
    slots,     \* NSMLGameRAMCheckpoints
    next,      \* NSMLNextGameRAMCheckpoint
    active,    \* CheckpointFrameTimeline::Active
    logical,   \* CheckpointFrameTimeline::LogicalFrame
    raw,       \* the outer frame
    ready,     \* the start-ready handshake of the generation is done
    pc,        \* "before" the frame, at the "gate", in a "replay"
    replay,    \* first frame and next frame of the replay in progress
    restarts,  \* rematches so far
    client     \* this peer is the client

vars == <<slots, next, active, logical, raw, ready, pc, replay, restarts, client>>

\* Which stretch of frames an image comes from: before or after the handshake
\* of which generation.
Era == <<restarts, ready>>
Eras == (0 .. MaxRestarts) \X BOOLEAN
Images == Eras \X Versions

Slots == 0 .. RingCapacity - 1
Labels == 1 .. LastFrame
Invalid == [valid |-> FALSE, frame |-> NoFrame, image |-> None]

Init ==
    /\ slots = [k \in Slots |-> Invalid] /\ next = 0
    /\ active = FALSE /\ logical = 0 /\ raw = RawStart /\ ready = FALSE
    /\ pc = "before" /\ replay = <<NoFrame, NoFrame>> /\ restarts = 0
    /\ client \in BOOLEAN

\* CheckpointFrameTimeline::CaptureFrame
CaptureFrame == IF active THEN logical ELSE raw

\* Mutant: only the first label invalidates the ring.
SetCheckpointFrameOnce(f) ==
    /\ active' = TRUE /\ logical' = f
    /\ IF ~active
       THEN /\ slots' = [k \in Slots |-> [slots[k] EXCEPT !.valid = FALSE]]
            /\ next' = 0
       ELSE UNCHANGED <<slots, next>>

\* SetNSMLGameRAMCheckpointFrame: the first logical label, and a label that
\* goes backwards, invalidate the ring.
SetCheckpointFrame(f) ==
    /\ active' = TRUE /\ logical' = f
    /\ IF ~active \/ f < logical
       THEN /\ slots' = [k \in Slots |-> [slots[k] EXCEPT !.valid = FALSE]]
            /\ next' = 0
       ELSE UNCHANGED <<slots, next>>

\* Mutant: the index is not wrapped.
CapturePastEnd(f, image) ==
    /\ slots' = [slots EXCEPT ![next] =
                    [valid |-> TRUE, frame |-> f, image |-> image]]
    /\ next' = next + 1

\* CaptureNSMLGameRAMCheckpointAtGate
Capture(f, image) ==
    /\ slots' = [slots EXCEPT ![next] =
                    [valid |-> TRUE, frame |-> f, image |-> image]]
    /\ next' = (next + 1) % RingCapacity

ValidSlots == {k \in Slots : slots[k].valid}

\* Mutant: strictly before.
StrictlyBefore(f) ==
    LET found == {slots[k].frame : k \in {j \in ValidSlots : slots[j].frame < f}}
    IN  IF found = {} THEN NoFrame ELSE Max(found)

\* CopyNSMLGameRAMCheckpointAtOrBefore: the frame it finds.
AtOrBefore(f) ==
    LET found == {slots[k].frame : k \in {j \in ValidSlots : slots[j].frame <= f}}
    IN  IF found = {} THEN NoFrame ELSE Max(found)

\* Mutant: the next capture goes where it would have gone.
DiscardKeepingNext(f) ==
    /\ slots' = [k \in Slots |->
                    [slots[k] EXCEPT !.valid = @ /\ slots[k].frame <= f]]
    /\ UNCHANGED next

\* DiscardNSMLGameRAMCheckpointsAfter: the next capture reuses the slot of the
\* oldest frame discarded.
Discard(f) ==
    LET discarded == {k \in ValidSlots : slots[k].frame > f}
    IN  /\ slots' = [k \in Slots |->
                        IF k \in discarded THEN [slots[k] EXCEPT !.valid = FALSE]
                        ELSE slots[k]]
        /\ next' = IF discarded = {} THEN next
                   ELSE CHOOSE k \in discarded :
                           \A j \in discarded : slots[k].frame <= slots[j].frame

-----------------------------------------------------------------------------
(* The driver *)

\* A frame before the handshake is labelled with its raw number once that
\* reaches the epoch; before that the gate uses the emulator's frame count.
\* After a rematch the client's epoch is unknown and its raw frames stay
\* unlabelled until its rebased start frame.
BeginRawFrame ==
    /\ pc = "before" /\ ~ready /\ raw < LastFrame
    /\ IF raw >= Epoch /\ ~(client /\ restarts > 0 /\ raw < RematchStart)
       THEN SetCheckpointFrame(raw)
       ELSE UNCHANGED <<slots, next, active, logical>>
    /\ pc' = "gate"
    /\ UNCHANGED <<raw, ready, replay, restarts, client>>

\* The frame in which the handshake completes is the first logical one.
BeginReadyFrame ==
    /\ pc = "before" /\ ~ready /\ raw \in ReadyRaw
    /\ restarts > 0 => raw >= RematchStart
    /\ ready' = TRUE
    /\ SetCheckpointFrame(Epoch)
    /\ pc' = "gate"
    /\ UNCHANGED <<raw, replay, restarts, client>>

BeginLogicalFrame ==
    /\ pc = "before" /\ ready /\ raw <= LastFrame
    /\ SetCheckpointFrame(logical + 1)
    /\ pc' = "gate"
    /\ UNCHANGED <<raw, ready, replay, restarts, client>>

\* A rematch, once a match has been played, restores the bootstrap savestate
\* and clears the local ready frame; the outer frame number goes on, and the
\* rebased start frame lies after this frame.
BeginGeneration ==
    /\ pc = "before" /\ ready /\ restarts < MaxRestarts /\ logical > Epoch
    /\ raw < LastFrame
    /\ ready' = FALSE /\ restarts' = restarts + 1
    /\ IF client THEN UNCHANGED <<slots, next, active, logical>>
       ELSE SetCheckpointFrame(raw)
    /\ pc' = "gate"
    /\ UNCHANGED <<raw, replay, client>>

\* The gate of an outer frame without a correction.
NormalGate ==
    /\ pc = "gate"
    /\ \E v \in Versions : Capture(CaptureFrame, <<Era, v>>)
    /\ raw' = raw + 1
    /\ pc' = "before"
    /\ UNCHANGED <<active, logical, ready, replay, restarts, client>>

\* A misprediction of frame m, within the horizon, arms a correction.
Correctable(m) ==
    /\ ready /\ Epoch + Delay <= m
    /\ m < logical /\ logical - m <= MaxDepth

Arm(m) ==
    /\ pc = "gate" /\ Correctable(m)
    /\ AtOrBefore(m) # NoFrame
    /\ Discard(AtOrBefore(m))
    /\ replay' = <<AtOrBefore(m), AtOrBefore(m)>>
    /\ pc' = "replay"
    /\ UNCHANGED <<active, logical, raw, ready, restarts, client>>

\* A replayed gate: all but the first recapture.
ReplayGate ==
    /\ pc = "replay" /\ replay[2] <= logical
    /\ IF replay[2] = replay[1] THEN UNCHANGED <<slots, next>>
       ELSE \E v \in Versions : Capture(replay[2], <<Era, v>>)
    /\ replay' = <<replay[1], replay[2] + 1>>
    /\ UNCHANGED <<active, logical, raw, ready, pc, restarts, client>>

EndReplay ==
    /\ pc = "replay" /\ replay[2] > logical
    /\ replay' = <<NoFrame, NoFrame>>
    /\ raw' = raw + 1
    /\ pc' = "before"
    /\ UNCHANGED <<slots, next, active, logical, ready, restarts, client>>

\* The bound of the model.
Stopped == pc = "before" /\ raw >= LastFrame /\ UNCHANGED vars

Next == \/ BeginRawFrame \/ BeginReadyFrame \/ BeginLogicalFrame
        \/ BeginGeneration \/ NormalGate
        \/ (\E m \in Labels : Arm(m)) \/ ReplayGate \/ EndReplay \/ Stopped

Spec == Init /\ [][Next]_vars

-----------------------------------------------------------------------------
\* The write index stays within NSMLGameRAMCheckpoints, and a slot holds the
\* image of a stretch of this match session or none.
TypeOK ==
    /\ slots \in [Slots -> [valid : BOOLEAN, frame : Nat,
                            image : Images \cup {None}]]
    /\ next \in Slots
    /\ active \in BOOLEAN /\ logical \in 0 .. LastFrame
    /\ raw \in RawStart .. (LastFrame + 1) /\ ready \in BOOLEAN
    /\ pc \in {"before", "gate", "replay"}
    /\ replay \in Nat \X Nat
    /\ restarts \in 0 .. MaxRestarts /\ client \in BOOLEAN

\* The slot the lookup of frame f copies: the newest frame not after f, the
\* first such slot when two hold the same frame.
LookupSlot(f) ==
    Min({k \in ValidSlots : slots[k].frame = AtOrBefore(f)})

\* The frames a correction may ask for, and the checkpoints it can find for
\* them.  Before the handshake there is nothing to correct.
Asked == (Epoch + Delay) .. LastFrame
RingStore ==
    [g \in Asked |->
        IF ready /\ AtOrBefore(g) = g THEN slots[LookupSlot(g)].image ELSE None]

\* During a match the ring implements the checkpoint map the rollback runtime
\* relies on, whatever corrections discard and recapture and however often the
\* ring has wrapped (CaptureNSMLGameRAMCheckpointAtGate and
\* DiscardNSMLGameRAMCheckpointsAfter keep the ring in frame order).  The map
\* has the frames that can be corrected: under the label Epoch, which is one of
\* them only without an input delay, a raw checkpoint may hide the logical one.
Store == INSTANCE CheckpointStore WITH StoreFrames <- Asked, store <- RingStore
RingImplementsStore == Store!Spec

\* A correction within the horizon finds the checkpoint of the very frame it
\* asks for, captured in this generation after the handshake: the ring has not
\* overwritten it, and neither a raw label nor an earlier match shadows it.
HorizonRetained ==
    pc = "gate" =>
        \A m \in Labels : Correctable(m) =>
            /\ AtOrBefore(m) = m
            /\ slots[LookupSlot(m)].image[1] = Era

\* After the handshake the ring holds only checkpoints of this generation's
\* logical timeline: SetNSMLGameRAMCheckpointFrame says that those captured
\* under raw frame numbers "do not belong" to it and invalidates them.  One
\* escapes: when the first handshake completes in the raw frame after Epoch, the
\* label Epoch does not go backwards and the raw checkpoint of that label stays.
OnlyThisTimeline ==
    pc = "gate" /\ ready =>
        \A k \in ValidSlots :
            \/ slots[k].image[1] = Era
            \/ /\ restarts = 0 /\ slots[k].frame = Epoch
               /\ slots[k].image[1] = <<0, FALSE>>
=============================================================================
