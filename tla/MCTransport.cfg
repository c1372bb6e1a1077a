CONSTANTS
    MaxCode = 4
    MaxFrame = 7
    MaxPartialTimeouts = 1
    StormThreshold = 3
    MaxSent = 2
    MaxDamage = 2
    Radix = 10
    NameMax = 3
    ErrorMax = 10
    MaxName = 3
    FrameLimit = 2
    FrameTimeouts = 1
    FrameLetters = {0, 1, 2}
    StreamMax = 6
    BlockMax = 3
    Paired = 3
    HostDevice = 3
    MaxDelegates = 2
    ConnectTicks = 2
    SdpMin = 1
    SdpMax = 2
    FrameChunks = 2
    Clients = {"win", "mac"}
    WinClients = {"win"}
    MaxLookups = 3
    MaxRx = 1
    IdSpace = 2
    Labels = {1, 2, 3, 4}
    Totals = {1, 2}
    AckEvery = 3
SPECIFICATION TransportSpec
CHECK_DEADLOCK FALSE
INVARIANTS PacketsAsSent CodecsAreExact RadioStateIsSound
PROPERTIES LinkRecovers HostIsReached
