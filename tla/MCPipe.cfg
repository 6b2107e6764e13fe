SPECIFICATION FairSpec
CONSTANTS
    SizeClasses <- ScaledClasses
    Readers = {r1, r2}
    ReadSizes = {1, 3}
    WriteSizes = {1, 3, 5}
    MaxBytes = 7
INVARIANTS
    TypeOK
    BufferAccount
    WasteBound
    NotAllAsleep
    DoneTells
PROPERTIES
    Implements
    SomeReadReturns
