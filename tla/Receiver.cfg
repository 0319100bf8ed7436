SPECIFICATION Spec
CONSTANTS
    Roles = {"passive", "active"}
    Modulo = 16
    WinSz = 2
    StreamLen = 6
    MaxSeg = 2
    StartSeqs = {0, 12}
    RecvSizes = {1, 3, 6}
INVARIANT AcceptedIsKept
INVARIANT UnreadIsFresh
INVARIANT NoLostDataWakeup
INVARIANT NoZeroWindowAdvertised
INVARIANT NoLostFlushWakeup
CHECK_DEADLOCK FALSE
PROPERTY ImplementsStream
