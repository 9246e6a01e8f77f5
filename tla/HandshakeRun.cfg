SPECIFICATION FairSpec
CONSTANTS
    MaxCases = 3
    Scripts <- AllScripts
INVARIANTS
    TypeOK
    OrphansAreKnown
    EvidenceIsOwn
PROPERTY ConnectedCaseEnds
CHECK_DEADLOCK FALSE
