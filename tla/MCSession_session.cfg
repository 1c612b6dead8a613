SPECIFICATION FairSpec
CONSTANTS
    Kinds = {"required", "optional", "wifi_set", "rf_scan", "auto_start", "connection_info"}
    MaxOps = 2
    MaxEvents = 2
    Junk = {"message", "frame"}
CHECK_DEADLOCK FALSE
INVARIANT TypeOK
INVARIANT ResultsAreAnswered
INVARIANT AutoStartPrecondition
INVARIANT EventAckedOnce
INVARIANT LinkReleased
PROPERTY NotificationAwaited
PROPERTY SessionEnds
