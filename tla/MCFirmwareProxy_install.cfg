CONSTANTS
    u1 = u1
    u2 = u2
    c1 = c1
    None = None
    Attempts = {u1, u2}
    Chargers = {c1}
    Versions = {1, 2}
    Parts = 1
    AllowCancel = FALSE
    AllowCrash = FALSE
SPECIFICATION Spec
SYMMETRY Symmetry
CONSTRAINT InstallationsOnly
PROPERTIES
    InstalledIsProven
CHECK_DEADLOCK FALSE
