SPECIFICATION Spec
CONSTANTS
    NumTabs = 2
    MaxGeneration = 3
    MaxConnections = 2
    MaxCalls = 2
    MaxRealms = 1
    Allowance = 1
PROPERTY EveryDocumentIsDecided
INVARIANTS
    ControlFindsChildIdle
    RealmsAreAccountedFor
    RealmsAreCurrent
    RepliesAnswerTheirCall
    OnlyOwnScriptsWrite
