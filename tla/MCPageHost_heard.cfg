SPECIFICATION Spec
CONSTANTS
    NumTabs = 2
    MaxGeneration = 2
    MaxConnections = 2
    MaxCalls = 2
    MaxRealms = 2
    Allowance = 1
INVARIANT ExecutingDocumentIsHeard
