SPECIFICATION Spec
CONSTANTS
    Args <- OneConversation
    ReqFrames <- FewRequests
    RspFrames <- Plain
    MaxFrames = 2
    MaxConns = 1
INVARIANT ExitZeroMeansChanged
CHECK_DEADLOCK FALSE
