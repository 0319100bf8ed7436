SPECIFICATION FairSpec
CONSTANTS
    A = A
    B = B
    Modulo = 4
    Servers = {B}
    SendCallers = {A}
    RecvCallers = {B}
    MaxDups = 2
    MaxLosses = 0
    MaxCloses = 0
CHECK_DEADLOCK FALSE
PROPERTY HandshakesEnd
