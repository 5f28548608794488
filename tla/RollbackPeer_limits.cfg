CONSTANTS
    None = None
    Inputs = {neutral, jump}
    Neutral = neutral
    Epoch = 1
    LastFrame = 7
    Delay = 1
    Horizon = 3
    HistoryCapacity = 3
    RingCapacity = 4
    ResimulateDelay = 1
    Window = 1
    RawOffset = 0
    InputWait = TRUE
    PumpThread = TRUE
SPECIFICATION Spec
INVARIANTS
    PredictionsAgree
    CheckpointFaithful
PROPERTY SettledIsFinal
