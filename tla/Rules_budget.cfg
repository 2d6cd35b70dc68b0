SPECIFICATION Spec
CONSTANTS
    Window = 1
    Memory = 1
    MaxNodes = 9
    MaxDepth = 3
    Scale = 2
    Reference = "ref"
    Subjects <- TwoSubjects
    Moves <- SomeMoves
    LastTime = 4
    Strategies <- SomeStrategies
    Requests <- SomeRequests
INVARIANT ReplayMatchesSingle
CHECK_DEADLOCK FALSE
