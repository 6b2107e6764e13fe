SPECIFICATION Spec
CONSTANTS
    MaxInt32 = 3
    Streams = {1, 3}
    InitialStreamWindow = 2
    InitialSessionWindow = 3
    MaxFrameSize = 2
    MaxGrant = 2
INVARIANTS
    TypeOK
    
    ConnLedger
PROPERTY
    NeverOverruns
