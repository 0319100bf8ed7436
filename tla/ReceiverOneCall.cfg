SPECIFICATION FairSpec
CONSTANTS
    Roles = {"passive"}
    Modulo = 16
    WinSz = 2
    StreamLen = 3
    MaxSeg = 2
    StartSeqs = {0, 5}
    RecvSizes = {3}
PROPERTY RecvReturns
CHECK_DEADLOCK FALSE
