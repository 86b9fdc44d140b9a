SPECIFICATION FairSpec
CONSTANTS
    s1 = s1
    s2 = s2
    d1 = d1
    d2 = d2
    Ids = {s1,s2}
    Streams = {d1,d2}
    TempSessionTTLSecs = 2
    PersistSessionTTLDays = 1
    HoursPerDay = 1
    SecsPerHour = 2
    NanosPerSec = 2
    Admin = TRUE
    Faults = TRUE
INVARIANTS
    TypeOK
    UnattendedExpires
PROPERTIES
    AbandonedExpires
    GoneStaysGone
CHECK_DEADLOCK FALSE
