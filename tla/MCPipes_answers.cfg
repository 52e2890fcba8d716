SPECIFICATION SpecPipes
CONSTANTS
    PrefixBytes = 2
    Body <- MCBody
    Threads = {1, 2}
    Valid = {"p", "q"}
    Invalid = {"bad"}
    Canonical = {"q"}
    Questions <- MCQuestions
    MaxCalls = 3
    MaxIdle = 1
    AcceptedEntries = 1
    MemoEntries = 1
INVARIANTS
    FramesIntact
    AnswersAreRight
PROPERTIES
    FramesArrive
    EveryOperationEnds
CHECK_DEADLOCK FALSE
