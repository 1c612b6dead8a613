SPECIFICATION Spec
CONSTANTS
    Writers = {w1, w2}
    Operations = {"limit", "led", "command"}
    MaxValue = 2
    Versions = {v1}
    Reboots = {FALSE}
    MayMiss = {"led"}
    Failures = {"connection", "other"}
    Lifetimes = 1
    ReloadBusy = FALSE
    AllowCancel = TRUE
    w1 = w1
    w2 = w2
    v1 = v1
    Refresher = Refresher
    None = None
SYMMETRY Symmetry
INVARIANT LimitsOrdered
INVARIANT FullRequestKept
INVARIANT TypeOK
PROPERTY LedScheduleKept
