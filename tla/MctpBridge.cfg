SPECIFICATION FairSpec
CONSTANTS
    Tags = {1, 2}
    ReqFrames <- AllReqFrames
    RspFrames <- AllRspFrames
    BufMax = 3
    Window = 2
    MaxFrames = 3
INVARIANTS
    TypeOK
    OneExchange
    SpdmTypeIsSpdmOnly
    CleanExitAccounts
    ShutdownEndsBoth
PROPERTIES
    RelayAsAsked
    RequesterNeverHangs
    RequesterEndsAfterEof
CHECK_DEADLOCK FALSE
