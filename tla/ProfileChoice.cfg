SPECIFICATION FairSpec
CONSTANTS
    sonarr = sonarr
    file = file
    Instance = {sonarr}
    KindOf <- Kinds
    Tag = {1}
    LabelOf <- Labels
    Item = {file}
    InstanceOf <- Library
    Profile = {p, q}
    NoProfile = NoProfile
    MarkersOn = TRUE
    MaxMappings = 2
    StoreCanFail = TRUE
INVARIANTS
    DeletedProfileUnused
    RowTellsProfile
PROPERTIES
    MappedIsQueued
CHECK_DEADLOCK FALSE
