SPECIFICATION Spec
CONSTANTS
    IsServer = FALSE
    HasHandler = TRUE
    IdleTimeout = FALSE
    MaxInt32 = 7
    StreamIDLimit = 3
    DefaultWindow = 2
    InitialSessionWindow = 2
    InitialStreamWindow = 2
    MaxFrameSize = 2
    ChanCap = 2
    Calls = {1, 2}
    Script <- WriteScript
    PeerFrames <- PaddedEnd
    PeerBudget = 2
INVARIANTS
    NoFrameOnClosedStream
