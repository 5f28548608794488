CONSTANTS
    None = None
    Inputs = {neutral, jump}
    Neutral = neutral
    Epoch = 1
    LastFrame = 5
    Delay = 1
    Horizon = 2
    HistoryCapacity = 3
    RingCapacity = 3
    ResimulateDelay = 0
    Window = 1
    RawOffset = 1
    InputWait = TRUE
    PumpThread = TRUE
SPECIFICATION Spec
INVARIANT RollbackSound
