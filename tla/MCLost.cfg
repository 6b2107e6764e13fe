SPECIFICATION Spec
CONSTANTS
    Ids = {1, 2, 3}
    MaxClosed = 1
    MaxIdle = 3
    WeightModulus = 4
    DefaultWeight = 1
    Weights = {1}
    DataSize = 2
    CallBudget = 1
INVARIANTS
    PopFindsFrames
