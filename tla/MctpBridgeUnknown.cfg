SPECIFICATION Spec
CONSTANTS
    Tags = {1, 2}
    ReqFrames <- SessionReqFrames
    RspFrames <- SessionRspFrames
    BufMax = 3
    Window = 1
    MaxFrames = 2
PROPERTY RelayIsDirect
CHECK_DEADLOCK FALSE
