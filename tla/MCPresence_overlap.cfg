SPECIFICATION Spec
CONSTANTS
    d1 = d1
    d2 = d2
    u1 = u1
    Devices = {d1,d2}
    Settings = {u1}
    Modes = {"auto"}
    Faults = FALSE
    MaxCount = 2
SYMMETRY Symmetry
INVARIANT
    ShownAtRest
