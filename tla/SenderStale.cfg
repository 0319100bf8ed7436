SPECIFICATION Spec
CONSTANTS
    Modulo = 16
    WinSz = 3
    Mtu = 4
    CongStart = 1
    DupBound = 3
    MapSz = 5
    LenShift = 4
    StreamLen = 6
    SendSizes = {1, 5}
    StartSeqs = {5}
    MaxCong = 5
    MaxDups = 3
    MaxLosses = 0
    MaxFails = 0
CHECK_DEADLOCK FALSE
INVARIANT PeerHasStream
