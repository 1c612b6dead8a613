SPECIFICATION FairSpec
CONSTANTS
    Writers = {w1, w2}
    Operations = {"limit", "command", "bundle", "auto_start", "refresh"}
    MaxValue = 1
    Versions = {v1}
    Reboots = {FALSE}
    MayMiss = {}
    Failures = {"connection"}
    Lifetimes = 1
    ReloadBusy = FALSE
    AllowCancel = TRUE
    w1 = w1
    w2 = w2
    v1 = v1
    Refresher = Refresher
    None = None
PROPERTY EveryTaskEnds
