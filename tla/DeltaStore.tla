------------------------------ MODULE DeltaStore ------------------------------
(***************************************************************************)
(* The checkpoints of the full-machine rollback backends                   *)
(* (NsmbRollbackStore, and its use in NsmbRollbackRuntime): whole images,  *)
(* deltas against a keyframe, deltas against the frame before, and         *)
(* preimages that undo one frame at a time from a copy of the latest one.  *)
(*                                                                         *)
(* The main RAM is a function from pages to values.  The frames of a match *)
(* are labelled with the emulator's own frame counter, as in a session     *)
(* whose games stand at the shared epoch when the match begins.            *)
(***************************************************************************)
EXTENDS Integers, FiniteSets, FiniteSetsExt, TLC

CONSTANTS
    None,
    Pages, Values,
    Modes,            \* DeltaMode: "full", "keyframe", "frame", "preimage"
    StartFrame,       \* SharedLogicalEpoch
    LastFrame,        \* bound: the last frame
    Window,           \* MELONDS_NSML_ROLLBACK_WINDOW
    KeyframeInterval, \* MELONDS_NSML_ROLLBACK_DELTA_KEYFRAME_INTERVAL
    Intervals,        \* MELONDS_NSML_ROLLBACK_CHECKPOINT_INTERVAL
    Skips,            \* ..._RESIM_SKIP_INTERMEDIATE_CHECKPOINTS
    MaxResims         \* MELONDS_NSML_ROLLBACK_MAX_RESIM_FRAMES, 0: no limit

ASSUME StoreAssumption ==
    /\ Modes \subseteq {"full", "keyframe", "frame", "preimage"}
    /\ StartFrame \in Nat \ {0} /\ LastFrame \in Nat /\ StartFrame <= LastFrame
    /\ Window \in Nat \ {0}
    /\ KeyframeInterval \in Nat \ {0} /\ Intervals \subseteq Nat \ {0}
    /\ Skips \subseteq BOOLEAN
    /\ MaxResims \subseteq Nat

VARIABLES
    mode, interval, skip, maxResim, \* the configuration of the process
    pc,              \* "before" a frame, in a "resim", about to "save"
    frame,           \* the label of the frame about to run
    confirmed,       \* frames whose misprediction has been handled
    ram,             \* the main RAM
    cursor,          \* resimFrame
    states,          \* Store::States_
    shadow,          \* FrameShadowFrame_, FrameShadowMainRAM_
    saved            \* history: the main RAM when a label was last saved

config == <<mode, interval, skip, maxResim>>
vars == <<config, pc, frame, confirmed, ram, cursor, states, shadow, saved>>

Frames == StartFrame .. LastFrame
Images == [Pages -> Values]
Patches == UNION {[S -> Values] : S \in SUBSET Pages}

\* A frame, and pages of it or of later frames.
Marks == [frame : Frames, pages : Patches]
Shadows == [frame : Frames, ram : Images]

ASSUME NoneAssumption == None \notin Frames \cup Images \cup Marks \cup Shadows

-----------------------------------------------------------------------------
(* A stored state: the RAM part of it, and the frame it builds on *)

Full(img) == [kind |-> "full", base |-> None, pages |-> img]
Bare == [kind |-> "bare", base |-> None, pages |-> <<>>]

Changed(a, b) == {p \in Pages : a[p] # b[p]}

\* The pages of img that differ from old.
Difference(old, img) == [p \in Changed(old, img) |-> img[p]]

\* DoRollbackSavestate in delta mode keeps the pages that differ from the base.
Delta(base, old, img) ==
    [kind |-> "delta", base |-> base, pages |-> Difference(old, img)]

\* CaptureFramePreimage keeps what those pages held before.
Preimage(base, old, img) ==
    [kind |-> "preimage", base |-> base, pages |-> Difference(img, old)]

\* The pages of old with those of new on top.
Apply(old, new) ==
    [p \in DOMAIN old \cup DOMAIN new |-> IF p \in DOMAIN new THEN new[p] ELSE old[p]]

-----------------------------------------------------------------------------
(* Store: saving *)

\* HasUsableFrameShadow
UsableShadow(st) == shadow # None /\ shadow.frame \in DOMAIN st

\* Mutant: a keyframe only when there is nothing to build on.
KeyframeIfEmpty(st, f) == DOMAIN st = {}

ForceKeyframe(st, f) ==
    KeyframeInterval = 1 \/ DOMAIN st = {} \/ f % KeyframeInterval = 0 \/ f = StartFrame

\* The keyframes a delta of frame f may build on.
Keyframes(st, f) == {g \in DOMAIN st : g <= f /\ st[g].kind = "full"}

\* PrepareSave, and the buffer that is saved for it.
PrepareSave(st, f, img) ==
    CASE mode = "full" -> Full(img)
      [] mode = "preimage" ->
            IF UsableShadow(st) THEN Preimage(shadow.frame, shadow.ram, img) ELSE Bare
      [] mode = "frame" ->
            IF ~ForceKeyframe(st, f) /\ UsableShadow(st)
            THEN Delta(shadow.frame, shadow.ram, img) ELSE Full(img)
      [] mode = "keyframe" ->
            IF ~ForceKeyframe(st, f) /\ Keyframes(st, f) # {}
            THEN LET b == Max(Keyframes(st, f)) IN Delta(b, st[b].pages, img)
            ELSE Full(img)

\* RefreshFrameShadowLocked
RefreshShadow(f, img) ==
    IF mode \in {"frame", "preimage"} THEN [frame |-> f, ram |-> img] ELSE shadow

\* Mutant: the frames a retained delta builds on are not kept.
RootsOnly(st, roots) == roots

\* All that the states of S build on is in S, or nowhere.
HasBases(st, S) ==
    \A g \in S : st[g].kind = "delta" /\ st[g].base \in DOMAIN st => st[g].base \in S

\* markRequiredChain from each of the roots: they, and all they build on.
RequiredFrames(st, roots) ==
    {g \in DOMAIN st : \A S \in SUBSET DOMAIN st :
                           roots \subseteq S /\ HasBases(st, S) => g \in S}

KeepFrom(f) == IF f > Window THEN f - Window ELSE 0

\* Store::Prune
Prune(st, sh, f) ==
    LET inWindow == {g \in DOMAIN st : g >= KeepFrom(f)}
        shadowed == IF sh = None THEN {} ELSE {sh.frame} \cap DOMAIN st
        keep == inWindow \cup RequiredFrames(st, inWindow \cup shadowed)
    IN  [g \in keep |-> st[g]]

\* Store::Put
Put(st, f, s) == [g \in DOMAIN st \cup {f} |-> IF g = f THEN s ELSE st[g]]

ShouldSaveCheckpoint(f) == interval <= 1 \/ f = StartFrame \/ f % interval = 0

\* SaveCheckpointIfNeeded, SaveCheckpointNowLocked: prepare, save, put, refresh
\* the shadow, prune.
SaveCheckpoint(f, img) ==
    IF ShouldSaveCheckpoint(f)
    THEN /\ shadow' = RefreshShadow(f, img)
         /\ states' = Prune(Put(states, f, PrepareSave(states, f, img)),
                            RefreshShadow(f, img), f)
         /\ saved' = [saved EXCEPT ![f] = img]
    ELSE UNCHANGED <<shadow, states, saved>>

-----------------------------------------------------------------------------
(* Store: restoring *)

\* BuildRestoreChain: from a delta to the frame it builds on, with the pages found
\* so far, of which the newest counts.
ToBase(at) ==
    IF at = None \/ at.frame \notin DOMAIN states THEN None
    ELSE IF states[at.frame].kind # "delta" THEN None
    ELSE [frame |-> states[at.frame].base,
          pages |-> Apply(states[at.frame].pages, at.pages)]

\* BuildPreimageRestore: from a frame to the one before it.
ToPreimage(at) ==
    IF at = None \/ at.frame \notin DOMAIN states THEN None
    ELSE IF states[at.frame].kind # "preimage" \/ states[at.frame].base >= at.frame THEN None
    ELSE [frame |-> states[at.frame].base,
          ram   |-> Apply(at.ram, states[at.frame].pages)]

\* RestoreStoredStates: the keyframe, then every delta.
ChainImage(f) ==
    LET walk[n \in 0 .. Cardinality(DOMAIN states)] ==
            IF n = 0 THEN [frame |-> f, pages |-> <<>>] ELSE ToBase(walk[n - 1])
        hits == {n \in DOMAIN walk :
                    /\ walk[n] # None /\ walk[n].frame \in DOMAIN states
                    /\ states[walk[n].frame].kind = "full"}
        last == walk[Min(hits)]
    IN  IF hits = {} THEN None ELSE Apply(states[last.frame].pages, last.pages)

\* RestorePreimageState: from the shadow backwards.
PreimageImage(f) ==
    LET walk[n \in 0 .. Cardinality(DOMAIN states)] ==
            IF n = 0 THEN shadow ELSE ToPreimage(walk[n - 1])
        hits == {n \in DOMAIN walk : walk[n] # None /\ walk[n].frame = f}
    IN  IF hits = {} THEN None ELSE walk[Min(hits)].ram

Restored(f) == IF mode = "preimage" THEN PreimageImage(f) ELSE ChainImage(f)

\* Store::LatestAtOrBefore
AtOrBefore(f) == {g \in DOMAIN states : g <= f}

\* ClampResimulationMismatch
ClampMismatch(m) ==
    IF maxResim > 0 /\ frame - m > maxResim THEN frame - maxResim ELSE m

\* Frames whose prediction may still turn out wrong.
Mismatches ==
    {m \in Frames \ confirmed : m < frame /\ m + 1 >= KeepFrom(frame)}

\* Mutant: the chain is not looked at.
AnyCheckpoint(m) == AtOrBefore(ClampMismatch(m)) # {}

Ready(m) ==
    /\ AtOrBefore(ClampMismatch(m)) # {}
    /\ Restored(Max(AtOrBefore(ClampMismatch(m)))) # None

-----------------------------------------------------------------------------
Init ==
    /\ mode \in Modes /\ interval \in Intervals /\ skip \in Skips
    /\ maxResim \in MaxResims
    /\ skip => maxResim = 0 /\ interval = 1 \* bound: one experiment at a time
    /\ pc = "before" /\ frame = StartFrame /\ confirmed = {}
    /\ ram \in Images /\ cursor = None
    /\ states = <<>> /\ shadow = None /\ saved = [f \in Frames |-> None]

\* ResimulateIfNeeded up to the restored checkpoint.
Correct(m) ==
    LET r == Max(AtOrBefore(ClampMismatch(m)))
    IN  /\ pc = "before" /\ m \in Mismatches /\ Ready(m)
        /\ ram' = Restored(r)
        /\ states' = [g \in AtOrBefore(r) |-> states[g]]
        /\ shadow' = RefreshShadow(r, ram')
        /\ cursor' = r
        /\ pc' = "resim"
        /\ confirmed' = confirmed \cup {m}
        /\ UNCHANGED <<config, frame, saved>>

\* "cannot resimulate": the checkpoint or its chain is missing, and the wrong
\* input stays.
DropCorrection(m) ==
    /\ pc = "before" /\ m \in Mismatches /\ ~Ready(m)
    /\ confirmed' = confirmed \cup {m}
    /\ pc' = "save"
    /\ UNCHANGED <<config, frame, ram, cursor, states, shadow, saved>>

\* Mutant: the shadow after a correction keeps the label of the restored frame.
RestoredShadow(img) == [shadow EXCEPT !.ram = img]

\* The shadow after the last frame of a correction.
FinalShadow(img) == RefreshShadow(frame, img)

\* A frame of the resimulation; its checkpoint is saved unless it is the last.
Resimulate ==
    /\ pc = "resim" /\ cursor < frame
    /\ \E img \in Images :
        /\ ram' = img
        /\ IF cursor + 1 < frame
           THEN /\ IF skip THEN UNCHANGED <<states, shadow, saved>>
                   ELSE SaveCheckpoint(cursor + 1, img)
                /\ cursor' = cursor + 1 /\ pc' = pc
           ELSE /\ shadow' = IF shadow = None THEN None ELSE FinalShadow(img)
                /\ cursor' = None /\ pc' = "save"
                /\ UNCHANGED <<states, saved>>
    /\ UNCHANGED <<config, frame, confirmed>>

\* The ordinary checkpoint of the frame, and the frame.
SaveAndRun ==
    /\ pc \in {"before", "save"} /\ frame < LastFrame
    /\ SaveCheckpoint(frame, ram)
    /\ ram' \in Images
    /\ frame' = frame + 1
    /\ pc' = "before"
    /\ confirmed' = {f \in confirmed : f + 1 >= KeepFrom(frame + 1)}
    /\ UNCHANGED <<config, cursor>>

Next ==
    \/ \E m \in Frames : Correct(m) \/ DropCorrection(m)
    \/ Resimulate \/ SaveAndRun

Spec == Init /\ [][Next]_vars

\* Pages are alike, and so are their contents.
Symmetry == Permutations(Pages) \cup Permutations(Values)

-----------------------------------------------------------------------------
(* Properties *)

\* The store keeps states of known frames, the machine a RAM image.
TypeOK ==
    /\ pc \in {"before", "resim", "save"} /\ frame \in Frames
    /\ ram \in Images /\ cursor \in Frames \cup {None}
    /\ DOMAIN states \subseteq Frames
    /\ shadow \in Shadows \cup {None}
    /\ saved \in [Frames -> Images \cup {None}]

\* Whatever was corrected, pruned and saved again before: if the checkpoint of
\* a frame can be restored, what comes out is the RAM that was last saved for
\* it, not one of a timeline that a correction has replaced.
RestoreExact ==
    pc = "before" => \A f \in DOMAIN states :
        Restored(f) # None => Restored(f) = saved[f]

\* A correction finds a checkpoint it can restore.
CorrectionReady == pc = "before" => \A m \in Mismatches : Ready(m)

\* With a checkpoint for every frame, whole images or either kind of delta, no
\* correction is dropped for a missing checkpoint or base: pruning "keeps every
\* base chain required by currently kept checkpoints".
ChainsComplete == mode # "preimage" /\ interval = 1 /\ ~skip => CorrectionReady

\* "This removed a class of false preimage chains that later produced chain
\* missing": with preimages no correction is dropped either.
PreimagesComplete == mode = "preimage" /\ interval = 1 /\ ~skip => CorrectionReady

\* Of the frames behind the window only those of one keyframe interval stay.
StoreBounded ==
    \A f \in DOMAIN states : AtOrBefore(f) = DOMAIN states =>
        Cardinality({g \in DOMAIN states : g < KeepFrom(f)}) < KeyframeInterval
=============================================================================
