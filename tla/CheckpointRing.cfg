CONSTANTS
    None = None
    RingCapacity = 4
    Versions = {old, new}
    RawStart = 1
    Epoch = 2
    ReadyRaw = {2, 3, 4, 5, 8, 9}
    Delay = 1
    LastFrame = 11
    MaxDepth = 3
    MaxRestarts = 1
    RematchStart = 8
SPECIFICATION Spec
INVARIANTS
    TypeOK
    HorizonRetained
    OnlyThisTimeline
PROPERTY RingImplementsStore
