SPECIFICATION Spec
CONSTANTS
    Args <- OneConversation
    ReqFrames <- FewRequests
    RspFrames <- PlainAndBroken
    MaxFrames = 3
    MaxConns = 1
INVARIANT RefusalExitsNonZero
CHECK_DEADLOCK FALSE
