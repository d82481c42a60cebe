SPECIFICATION FairSpec
CONSTANTS
    Job = {1}
    MaxParallel = 1
    MaxRestarts = 2
    WriteCanFail = TRUE
INVARIANTS
    EncodingHasGoroutine
    DeletedStaysDeleted
    DoneHasOutput
    SuccessIsEncoded
PROPERTIES
    StatesOnlyAdvance
    ListenerIsTold
    EndedIsExpired
    SlotsComeBack
CHECK_DEADLOCK FALSE
