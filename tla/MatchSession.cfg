SPECIFICATION FairSpec
CONSTANTS
    None = None
    LastGeneration = 1
    MaxTimeouts = 1
    MaxFaults = 1
    MaxQueue = 1
    PumpThread = TRUE
INVARIANTS
    TypeOK
    SameStart
    NobodyStartsAlone
    NoStranger
PROPERTIES
    StartCompletes
CHECK_DEADLOCK FALSE
