SPECIFICATION Spec
CONSTANTS
    ArmCount = 3
    Kinds <- SomeKinds
    Policies = {"floor", "equality", "open", "broken"}
    References = {"signed", "spoiled", "undecodable"}
    Captures <- SomeCaptures
    Observations <- SomeObservations
    Builds <- SomeBuilds
    Ghsa = {"pinned", "left", "fresh"}
    Lookups <- SomeLookups
    Budgets <- SomeBudgets
    Generations = {1, 2}
INVARIANTS
    OutcomesHold
    DecidedRightly
    ChainIsFollowed
    FlipBreaksOneLink
PROPERTY NewIsReported
