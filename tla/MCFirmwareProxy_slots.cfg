CONSTANTS
    u1 = u1
    u2 = u2
    c1 = c1
    None = None
    Attempts = {u1, u2}
    Chargers = {c1}
    Versions = {}
    Parts = 2
    AllowCancel = TRUE
    AllowCrash = TRUE
SPECIFICATION Spec
SYMMETRY Symmetry
INVARIANTS
    TypeOK
    SlotHeldDuringSetup
    ServedFileExists
    TimeoutVerdict
    OneAttemptAwaitsCharger
CHECK_DEADLOCK FALSE
