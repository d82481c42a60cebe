CONSTANTS
    Job = {1, 2}
    TempFile = {}
    Runner = {g1, g2}
    NoRunner = NoRunner
    NoJob = NoJob
    MaxParallel = 1
    MaxJobAttempts = 1
    MaxRestarts = 1
    StoreCanFail = FALSE
SPECIFICATION FairSpec
INVARIANTS
    EncodingRowOwned
    ParallelBoundKept
    SerialNeverOverlaps
PROPERTIES
    EncodingEnds
    PauseDrains
    ReadyIsServed
