SPECIFICATION FairSpec
CONSTANTS
    IsServer = FALSE
    HasHandler = TRUE
    IdleTimeout = FALSE
    MaxInt32 = 7
    StreamIDLimit = 3
    DefaultWindow = 2
    InitialSessionWindow = 2
    InitialStreamWindow = 2
    MaxFrameSize = 2
    ChanCap = 1
    Calls = {1, 2, 3}
    Script <- ClientScript
    PeerFrames <- ClientFrames
    PeerBudget = 2
INVARIANTS
    OneFrameAtATime
    OpensWithHeaders
PROPERTIES
    BlockedCallReturns
