SPECIFICATION FixtureSpec
CONSTANTS
    Files <- SomeFiles
    MaxChanges = 2
    Word <- SmallWord
    Queries <- SomeQueries
    HashBlocks = 2
    ValueBytes = 2
    Arguments <- SomeArguments
INVARIANTS
    TypeOK
    LoadedIsSound
    OneSource
    GeneratedIsAnswered
CHECK_DEADLOCK FALSE
