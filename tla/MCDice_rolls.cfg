SPECIFICATION FairDiceSpec
CONSTANTS
    RollBufferSize = 2
    MaxSingleRoll = 2
    h1 = h1
    h2 = h2
    Handlers = {h1, h2}
    Bytes = {0, 5, 252}
    MaxSixes = 3
INVARIANTS
    DiceTypeOK
    RulesKept
PROPERTY
    RollsEnd
CHECK_DEADLOCK FALSE
