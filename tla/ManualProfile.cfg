SPECIFICATION ManualSpec
CONSTANTS
    sonarr = sonarr
    file = file
    Instance = {sonarr}
    KindOf <- Kinds
    Tag = {1}
    LabelOf <- Labels
    Item = {file}
    InstanceOf <- Library
    Profile = {p, q}
    NoProfile = NoProfile
    MarkersOn = FALSE
    MaxMappings = 1
    StoreCanFail = FALSE
PROPERTIES
    ManualProfileKept
CHECK_DEADLOCK FALSE
