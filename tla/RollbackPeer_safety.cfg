CONSTANTS
    None = None
    Inputs = {neutral, jump}
    Neutral = neutral
    Epoch = 1
    LastFrame = 7
    Delay = 1
    Horizon = 2
    HistoryCapacity = 3
    RingCapacity = 3
    ResimulateDelay = 0
    Window = 1
    RawOffset = 1
    InputWait = TRUE
    PumpThread = FALSE
SPECIFICATION FairSpec
INVARIANTS
    TypeOK
    PredictionsAgree
    RollbackSound
    CheckpointFaithful
    CorrectionAlwaysArms
PROPERTIES
    SettledIsFinal
    Converges
