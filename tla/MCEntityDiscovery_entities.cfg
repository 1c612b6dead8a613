SPECIFICATION FairSpec
CONSTANTS
    Current <- MCCurrent
    Obsolete <- MCObsolete
INVARIANT TypeOK
INVARIANT HandedOverOnce
INVARIANT EntityIsEarned
PROPERTY ExpectedEntityAppears
