SPECIFICATION FairSpec
CONSTANTS
    Tasks = {t1, t2, t3}
    NoTask = NoTask
    MaxDepth = 2
    t1 = t1
    t2 = t2
    t3 = t3
INVARIANT TypeOK
PROPERTY OperationsAreSerial
PROPERTY EveryTaskGetsIn
