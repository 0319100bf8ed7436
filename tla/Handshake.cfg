SPECIFICATION Spec
CONSTANTS
    A = A
    B = B
    Modulo = 4
    Servers = {B}
    SendCallers = {A, B}
    RecvCallers = {A, B}
    MaxDups = 2
    MaxLosses = 1
    MaxCloses = 2
CHECK_DEADLOCK FALSE
INVARIANT EstablishedAgree
INVARIANT ReceiverFollowsSender
INVARIANT SenderFollowsReceiver
INVARIANT DirectionsAgree
