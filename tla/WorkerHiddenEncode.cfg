CONSTANTS
    Job = {1}
    TempFile = {}
    Runner = {g1, g2}
    NoRunner = NoRunner
    NoJob = NoJob
    MaxParallel = 2
    MaxJobAttempts = 2
    MaxRestarts = 0
    StoreCanFail = FALSE
SPECIFICATION Spec
INVARIANTS
    EncodesAreCounted
