SPECIFICATION FairSpec
CONSTANTS
    Job = {1}
    MaxParallel = 1
    MaxRestarts = 0
    WriteCanFail = FALSE
PROPERTIES
    WatchEnds
CHECK_DEADLOCK FALSE
