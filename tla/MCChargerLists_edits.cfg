SPECIFICATION Spec
CONSTANTS
    Tasks = {t1, t2}
    Cards = {k1, k2}
    Types = {box}
    Ids = {i1, i2}
    MaxSatellites = 1
    None = None
    t1 = t1
    t2 = t2
    k1 = k1
    k2 = k2
    i1 = i1
    i2 = i2
    box = box
SYMMETRY Symmetry
INVARIANT TypeOK
INVARIANT AtMostMaxSatellites
PROPERTY OtherElementsAreKept
PROPERTY SuccessIsStored
PROPERTY EditsAreAtomic
