SPECIFICATION FairSpec
CONSTANTS
    IsServer = TRUE
    HasHandler = TRUE
    IdleTimeout = FALSE
    MaxInt32 = 7
    StreamIDLimit = 3
    DefaultWindow = 2
    InitialSessionWindow = 2
    InitialStreamWindow = 2
    MaxFrameSize = 2
    ChanCap = 2
    Calls = {1}
    Script <- OneClose
    PeerFrames <- ErrorOnOpenStream
    PeerBudget = 3
PROPERTIES
    FatalEnds
CHECK_DEADLOCK FALSE
