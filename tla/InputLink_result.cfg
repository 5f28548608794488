SPECIFICATION FairSpec
CONSTANTS
    None = None
    Neutral = Neutral
    Epoch = 1
    LastFrame = 3
    Delay = 0
    Horizon = 1
    PauseInResult = TRUE
    MaxEntries = 3
    MaxInFlight = 1
    MaxResumes = 0
    MaxBreaks = 0
PROPERTIES
    ResultReached
CHECK_DEADLOCK FALSE
