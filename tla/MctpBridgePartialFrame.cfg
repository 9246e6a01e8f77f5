SPECIFICATION Spec
CONSTANTS
    Tags = {1, 2}
    ReqFrames <- SessionReqFrames
    RspFrames <- SessionRspFrames
    BufMax = 3
    Window = 1
    MaxFrames = 2
INVARIANT CleanExitMeansWholeFrames
CHECK_DEADLOCK FALSE
