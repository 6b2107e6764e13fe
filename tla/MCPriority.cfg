SPECIFICATION CarefulSpec
CONSTANTS
    Ids = {1, 2, 3}
    MaxClosed = 1
    MaxIdle = 1
    WeightModulus = 4
    DefaultWeight = 1
    Weights = {3}
    DataSize = 2
    CallBudget = 3
INVARIANTS
    TypeOK
    TreeIsSound
    
    RetentionBound
    OnlyRemovalDetaches
PROPERTIES
    Implements
