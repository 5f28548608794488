--------------------------- MODULE CheckpointStore ---------------------------
(***************************************************************************)
(* What the rollback runtime is promised of the checkpoint ring: a map of  *)
(* frames to images, from which a capture removes nothing younger than     *)
(* RingCapacity frames, a discard removes exactly the frames after the     *)
(* restore point, and a change of the frame numbering removes everything.  *)
(***************************************************************************)
EXTENDS CheckpointMap

CONSTANTS Images, StoreFrames

VARIABLE store

Empty == [g \in StoreFrames |-> None]

Init == store = Empty

Capture ==
    \E f \in StoreFrames, image \in Images :
        store' = CaptureAtGate(store, f, image)

Discard == \E f \in StoreFrames : store' = DiscardAfter(store, f)

Forget == store' = Empty

Next == Capture \/ Discard \/ Forget

Spec == Init /\ [][Next]_store
=============================================================================
