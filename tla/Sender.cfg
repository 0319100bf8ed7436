SPECIFICATION Spec
CONSTANTS
    Modulo = 16
    WinSz = 4
    Mtu = 2
    CongStart = 4
    DupBound = 2
    MapSz = 6
    LenShift = 4
    StreamLen = 5
    SendSizes = {1, 4}
    StartSeqs = {5}
    MaxCong = 4
    MaxDups = 2
    MaxLosses = 0
    MaxFails = 1
CHECK_DEADLOCK FALSE
CONSTRAINT UntilStale
INVARIANT CompletedIsReceived
INVARIANT RoundFits
INVARIANT SegmentsFitPeerWindow
INVARIANT NoStrandedMessage
INVARIANT RetryFindsMessage
INVARIANT NoLostEmptyWakeup
PROPERTY ImplementsStream
