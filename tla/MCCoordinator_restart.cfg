SPECIFICATION Spec
CONSTANTS
    Writers = {w1}
    Operations = {"bundle", "wifi", "reset"}
    MaxValue = 1
    Versions = {v1, v2}
    Reboots = {FALSE, TRUE}
    MayMiss = {"boot"}
    Failures = {"connection", "other"}
    Lifetimes = 2
    ReloadBusy = TRUE
    AllowCancel = TRUE
    w1 = w1
    v1 = v1
    v2 = v2
    Refresher = Refresher
    None = None
SYMMETRY Symmetry
VIEW NoticeView
CONSTRAINT OneSchedule
INVARIANT NoticeIsPersisted
PROPERTY NoticeClearedOnEvidence
