SPECIFICATION Spec
CONSTANTS
    IsServer = TRUE
    HasHandler = TRUE
    IdleTimeout = FALSE
    MaxInt32 = 7
    StreamIDLimit = 3
    DefaultWindow = 2
    InitialSessionWindow = 3
    InitialStreamWindow = 2
    MaxFrameSize = 2
    ChanCap = 1
    Calls = {1, 2, 3, 4}
    Script <- ServerScript
    PeerFrames <- ServerFrames
    PeerBudget = 3
INVARIANTS
    ResetIsLast
    EndIsLast
    StreamCount
    ClosedIsFinal
    
    NoInternalError
PROPERTIES
    ImplementsScheduler
