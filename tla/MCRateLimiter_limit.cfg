SPECIFICATION Spec
CONSTANTS
    r1 = r1
    r2 = r2
    Requests = {r1, r2}
    MaxRequestsPer10Secs = 2
    Window = 2
    Expiry = 3
    Prompt = TRUE
    Faults = TRUE
    MaxTime = 4
    MaxArrivals = 5
SYMMETRY Symmetry
INVARIANTS
    TypeOK
    AdmittedBound
    LimitedForCause
CHECK_DEADLOCK FALSE
