SPECIFICATION RunSpec
CONSTANTS
    MaxCases = 2
    Scripts <- OnlyCapture
INVARIANT NothingLeftHoldingPort
CHECK_DEADLOCK FALSE
