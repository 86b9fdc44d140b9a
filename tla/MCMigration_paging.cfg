SPECIFICATION FairMigrationSpec
CONSTANTS
    h1 = h1
    Handlers = {h1}
    MaxEventRange = 2
    MaxID = 3
    MaxRemovals = 1
    BufferSize = 2
    MaxRuns = 1
INVARIANTS
    MigrationTypeOK
    CompleteBesidesUntold
PROPERTIES
    AllButOldest
    MigrationEnds
    BackfillEnds
CHECK_DEADLOCK FALSE
