SPECIFICATION FairSpec
CONSTANTS
    None = None
    LastGeneration = 1
    MaxTimeouts = 0
    MaxFaults = 1
    MaxQueue = 1
    PumpThread = FALSE
PROPERTIES
    RematchReached
CHECK_DEADLOCK FALSE
