SPECIFICATION Spec
CONSTANTS
    d1 = d1
    d2 = d2
    d3 = d3
    d4 = d4
    u1 = u1
    u2 = u2
    Devices = {d1,d2,d3,d4}
    Settings = {u1,u2}
    Modes = {"auto", "online", "offline"}
    Faults = TRUE
    MaxCount = 5
SYMMETRY Symmetry
INVARIANTS
    TypeOK
    CountAccounted
    AnnouncedOnce
CHECK_DEADLOCK FALSE
