CONSTANTS
    Job = {1}
    TempFile = {}
    Runner = {g1}
    NoRunner = NoRunner
    NoJob = NoJob
    MaxParallel = 1
    MaxJobAttempts = 2
    MaxRestarts = 0
    StoreCanFail = FALSE
SPECIFICATION UnpausedSpec
PROPERTIES
    FailuresAreRetried
