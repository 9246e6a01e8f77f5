SPECIFICATION Spec
CONSTANTS
    Args <- OneArg
    ReqFrames <- FewRequests
    RspFrames <- FewResponses
    MaxFrames = 3
    MaxConns = 2
PROPERTY PqcRefusalIsTrue
CHECK_DEADLOCK FALSE
