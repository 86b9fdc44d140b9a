SPECIFICATION FairSpec
CONSTANTS
    MaxMessages = 3
    MaxWritten = 4
    Faults = TRUE
INVARIANTS
    TypeOK
    InOrder
PROPERTIES
    EveryMessageWritten
    HandlerEnds
CHECK_DEADLOCK FALSE
