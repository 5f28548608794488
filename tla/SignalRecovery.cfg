CONSTANT MaxFaults = 3
SPECIFICATION FairSpec
INVARIANTS
    TypeOK
    NoStaleSdp
    SupersededHears
PROPERTIES
    FreshConnection
    Recovers
CHECK_DEADLOCK FALSE
