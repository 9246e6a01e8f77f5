SPECIFICATION Spec
CONSTANTS
    ArmList <- SomeArms
    Selections = {0, 1, 4}
    DefaultSize = 4
    MaxExternal = 1
INVARIANT AsDeclaredIsTrue
CHECK_DEADLOCK FALSE
