SPECIFICATION Spec
CONSTANTS
    Roles = {"passive"}
    Modulo = 16
    WinSz = 2
    StreamLen = 6
    MaxSeg = 2
    StartSeqs = {0, 5}
    RecvSizes = {1, 3, 6}
INVARIANT DeliveredInOrder
CHECK_DEADLOCK FALSE
