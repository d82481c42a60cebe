SPECIFICATION Spec
CONSTANTS
    Run = {e1, e2}
    MaxImports = 2
    Sizes = {2, 3}
    MaxRetries = 0
    Policies = {"off"}
    SavingsPercent = {50}
    MarkersOn = FALSE
    FaultsOn = FALSE
    MaxUpsets = 0
INVARIANTS
    CommitIsAtomic
CHECK_DEADLOCK FALSE
