SPECIFICATION Spec
SYMMETRY Symmetry
CONSTANTS
    None = None
    Pages = {p1, p2}
    Values = {v1, v2}
    Modes = {"full", "keyframe", "frame", "preimage"}
    StartFrame = 1
    LastFrame = 7
    Window = 2
    KeyframeInterval = 3
    Intervals = {1, 2}
    Skips = {FALSE, TRUE}
    MaxResims = {0, 1}
INVARIANTS
    TypeOK
    RestoreExact
    ChainsComplete
    StoreBounded
CHECK_DEADLOCK FALSE
