CONSTANTS
    Job = {1}
    TempFile = {}
    Runner = {g1}
    NoRunner = NoRunner
    NoJob = NoJob
    MaxParallel = 1
    MaxJobAttempts = 1
    MaxRestarts = 0
    StoreCanFail = FALSE
SPECIFICATION ButtonSpec
PROPERTIES
    PausedStartsNothing
