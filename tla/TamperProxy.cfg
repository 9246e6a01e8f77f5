SPECIFICATION Spec
CONSTANTS
    Args <- SomeArgs
    ReqFrames <- Requests
    RspFrames <- Responses
    MaxFrames = 4
    MaxConns = 2
INVARIANTS
    AtMostOneFlip
    FlipLandsWhereAsked
    ExitMatchesWire
CHECK_DEADLOCK FALSE
