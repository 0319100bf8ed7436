SPECIFICATION FairArithSpec
CONSTANTS
    Modulo = 16
    WinSz = 5
    StartSeqs = {0, 1, 2, 3, 4, 5, 6, 7, 8, 9, 10, 11, 12, 13, 14, 15}
    Rtts = {0, 30, 120}
    MaxRtt = 120
    Gkof = 28
    SizeMod = 4096
    MaxChanges = 3
    MaxBack = 1
    Base = 4
CHECK_DEADLOCK FALSE
INVARIANT ContainsIsSound
INVARIANT ContainsAllButTheEdge
INVARIANT OffsetIsExact
INVARIANT TimeoutCoversSample
INVARIANT ChecksumIsExact
INVARIANT CorruptionIsSeen
PROPERTY RtoSettles
