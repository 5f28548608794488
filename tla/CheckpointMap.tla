---------------------------- MODULE CheckpointMap ----------------------------
(***************************************************************************)
(* The ROM-loop checkpoint store as the rollback runtime sees it: a map    *)
(* from a logical frame to the game-RAM image captured at the input gate   *)
(* before that frame's game tick.  An absent entry is None.  The store is  *)
(* the ring NDS::NSMLGameRAMCheckpoints of src/NDS.cpp; module             *)
(* CheckpointRing models the ring slot by slot and shows that it           *)
(* implements these operations.                                            *)
(***************************************************************************)
EXTENDS Integers, FiniteSetsExt

CONSTANTS
    None,           \* no checkpoint, no input
    RingCapacity    \* slots of the ring: 16

ASSUME RingAssumption == RingCapacity \in Nat \ {0}

\* "no frame": an empty std::optional, or kNoFrame
NoFrame == 0

\* CaptureNSMLGameRAMCheckpointAtGate: the capture of frame f overwrites the
\* slot of the frame captured RingCapacity captures ago.
CaptureAtGate(store, f, image) ==
    [g \in DOMAIN store |->
        CASE g = f                 -> image
          [] g <= f - RingCapacity -> None
          [] OTHER                 -> store[g]]

\* Mutant: the checkpoints of the mispredicted timeline stay.
DiscardNothing(store, f) == store

\* DiscardNSMLGameRAMCheckpointsAfter
DiscardAfter(store, f) ==
    [g \in DOMAIN store |-> IF g > f THEN None ELSE store[g]]

\* CopyNSMLGameRAMCheckpointAtOrBefore: the frame of the newest checkpoint not
\* after f, NoFrame when there is none.
LatestAtOrBefore(store, f) ==
    LET candidates == {g \in DOMAIN store : store[g] # None /\ g <= f}
    IN  IF candidates = {} THEN NoFrame ELSE Max(candidates)
=============================================================================
