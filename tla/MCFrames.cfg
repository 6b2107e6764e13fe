SPECIFICATION Spec
CONSTANTS
    IsServer = FALSE
    HasHandler = TRUE
    IdleTimeout = FALSE
    MaxInt32 = 7
    StreamIDLimit = 4
    DefaultWindow = 2
    InitialSessionWindow = 2
    InitialStreamWindow = 2
    MaxFrameSize = 2
    ChanCap = 1
    Calls = {1, 2, 3}
    Script <- FrameScript
    PeerFrames <- FrameFrames
    PeerBudget = 2
PROPERTIES
    IdsAreFresh
    WithinPeerLimit
