CONSTANTS
    u1 = u1
    u2 = u2
    c1 = c1
    None = None
    Attempts = {u1, u2}
    Chargers = {c1}
    Versions = {}
    Parts = 1
    AllowCancel = FALSE
    AllowCrash = TRUE
SPECIFICATION FairSpec
CONSTRAINT LiveBound
PROPERTIES
    FilesAreRemoved
    SlotIsFreed
    StopCompletes
CHECK_DEADLOCK FALSE
