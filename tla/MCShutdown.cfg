SPECIFICATION FairSpec
CONSTANTS
    IsServer = TRUE
    HasHandler = TRUE
    IdleTimeout = FALSE
    MaxInt32 = 7
    StreamIDLimit = 3
    DefaultWindow = 2
    InitialSessionWindow = 2
    InitialStreamWindow = 2
    MaxFrameSize = 2
    ChanCap = 1
    Calls = {1, 2}
    Script <- ShutdownScript
    PeerFrames <- ShutdownFrames
    PeerBudget = 3
INVARIANTS
    GracefulWaits
PROPERTIES
    ErrorEnds
    GracefulEnds
    HandshakeEnds
    AllReleased
CHECK_DEADLOCK FALSE
