SPECIFICATION Spec
CONSTANTS
    w1 = w1
    w2 = w2
    Alice = Alice
    Bob = Bob
    Workers = {w1,w2}
    Players = {Alice, Bob}
    Titles = {"t"}
    Requests = {"roll", "modify", "delete"}
    Distinct = TRUE
    Faults = FALSE
    MaxTime = 3
SYMMETRY Symmetry
INVARIANT
    DeletedStaysDeleted
CHECK_DEADLOCK FALSE
