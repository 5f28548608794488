SPECIFICATION Spec
CONSTANTS
    None = None
    Neutral = Neutral
    Epoch = 1
    LastFrame = 4
    Delay = 0
    Horizon = 1
    PauseInResult = FALSE
    MaxEntries = 1
    MaxInFlight = 1
    MaxResumes = 1
    MaxBreaks = 1
INVARIANTS
    TypeOK
    InputsAgree
    AckSound
    NoGaps
    ResumeAccepted
    LeadBounded
CHECK_DEADLOCK FALSE
