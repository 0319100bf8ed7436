SPECIFICATION FairSpec
CONSTANTS
    Modulo = 16
    WinSz = 2
    Mtu = 3
    CongStart = 1
    DupBound = 3
    MapSz = 4
    LenShift = 4
    StreamLen = 4
    SendSizes = {1, 3}
    StartSeqs = {5}
    MaxCong = 3
    MaxDups = 1
    MaxLosses = 1
    MaxFails = 0
CHECK_DEADLOCK FALSE
CONSTRAINT UntilStale
PROPERTY SendReturnsUnlessStale
