SPECIFICATION Spec
CONSTANTS
    Lengths <- TwoLengths
    AckBytes = 8
    Mtu = 64
    Tags = {0}
    RcvBuf = 2
    Strays = 1
INVARIANTS
    AcceptedIsWhole
    MeasuredIsSent
    ReplayOkIsReassembled
CHECK_DEADLOCK FALSE
