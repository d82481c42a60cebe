SPECIFICATION Spec
CONSTANTS
    Run = {e1, e2}
    MaxImports = 2
    Sizes = {3}
    MaxRetries = 1
    Policies = {"retry_higher_crf"}
    SavingsPercent <- RoundedOrNot
    MarkersOn = TRUE
    FaultsOn = TRUE
    MaxUpsets = 1
SYMMETRY RunSymmetry
INVARIANTS
    SourceIsWhole
    TempRemoved
    EncodedOnce
PROPERTIES
    GuardHolds
    EncodeDescends
CHECK_DEADLOCK FALSE
