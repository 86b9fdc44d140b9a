SPECIFICATION Spec
CONSTANTS
    w1 = w1
    w2 = w2
    Alice = Alice
    Bob = Bob
    Workers = {w1,w2}
    Players = {Alice, Bob}
    Titles = {"t"}
    Requests = {"roll", "reroll", "delete", "share"}
    Distinct = TRUE
    Faults = TRUE
    MaxTime = 3
SYMMETRY Symmetry
INVARIANTS
    TypeOK
    OneRecordPerId
    PrivateConfined
    DeletedStaysDeleted
    RerolledOnce
PROPERTY
    AtomicSpec
CHECK_DEADLOCK FALSE
