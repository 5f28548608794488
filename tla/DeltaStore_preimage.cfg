SPECIFICATION Spec
SYMMETRY Symmetry
CONSTANTS
    None = None
    Pages = {p1, p2}
    Values = {v1, v2}
    Modes = {"preimage"}
    StartFrame = 1
    LastFrame = 6
    Window = 2
    KeyframeInterval = 3
    Intervals = {1}
    Skips = {FALSE}
    MaxResims = {0}
INVARIANTS
    PreimagesComplete
CHECK_DEADLOCK FALSE
