SPECIFICATION Spec
CONSTANTS
    w1 = w1
    Alice = Alice
    Bob = Bob
    Workers = {w1}
    Players = {Alice, Bob}
    Titles = {"t", "u"}
    Requests = {"roll", "initiative", "reroll", "modify", "editInitiative", "delete", "share"}
    Distinct = TRUE
    Faults = FALSE
    MaxTime = 3
SYMMETRY Symmetry
INVARIANTS
    ClientsAgree
PROPERTY
    AtomicSpec
CHECK_DEADLOCK FALSE
