SPECIFICATION FairSpec
CONSTANTS
    Urls <- MCUrls
    BuiltIn <- MCBuiltIn
    Invalid <- MCInvalid
    ClientKinds <- AllKinds
    Scripting = TRUE
    Sizes = {small}
    InitialSize = small
    Views = {v0, v1}
    FreshView = v0
    MaxTabs = 2
    MaxRequests = 2
    Retained = 2
PROPERTY EveryNavigationIsAnswered
