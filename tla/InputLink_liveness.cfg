SPECIFICATION FairSpec
CONSTANTS
    None = None
    Neutral = Neutral
    Epoch = 1
    LastFrame = 3
    Delay = 0
    Horizon = 1
    PauseInResult = FALSE
    MaxEntries = 1
    MaxInFlight = 1
    MaxResumes = 0
    MaxBreaks = 1
PROPERTIES
    AllDelivered
    RecoveryEnds
CHECK_DEADLOCK FALSE
