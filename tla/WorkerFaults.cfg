CONSTANTS
    Job = {1, 2}
    TempFile = {2}
    Runner = {g1, g2}
    NoRunner = NoRunner
    NoJob = NoJob
    MaxParallel = 2
    MaxJobAttempts = 1
    MaxRestarts = 1
    StoreCanFail = TRUE
SPECIFICATION Spec
SYMMETRY RunnerSymmetry
INVARIANTS
    TypeOK
    RunHoldsRow
    OneRunPerJob
    MarksHaveEntries
    AttemptsCountRestarts
    RunsAreRegistered
PROPERTIES
    PauseIsRequeued
    ImplementsLifecycle
