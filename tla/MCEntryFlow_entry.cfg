SPECIFICATION FairSpec
CONSTANTS
    Forms = {f1, f2}
    Codes = {a, b}
    MaxChanges = 1
    None = None
    f1 = f1
    f2 = f2
    a = a
    b = b
CONSTRAINT OneMoves
INVARIANT TypeOK
INVARIANT OneEntryPerCharger
INVARIANT WrongCodeIsAnnounced
PROPERTY CodeChangesAreChecked
PROPERTY CodeTakesEffect
