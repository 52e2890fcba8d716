SPECIFICATION Spec
CONSTANTS
    Urls <- MCUrls
    BuiltIn <- MCBuiltIn
    Invalid <- MCInvalid
    ClientKinds <- AllKinds
    Scripting = FALSE
    Sizes = {small, large}
    InitialSize = small
    Views = {v0, v1}
    FreshView = v0
    MaxTabs = 2
    MaxRequests = 3
    Retained = 2
INVARIANTS
    TypeOK
    OnlyReviewedContent
    OneAnswerPerRequest
    ClosedTabIsSilent
    FramesNumberedAndRetained
PROPERTIES
    DocumentsNeverGoBack
    ChangeIsPainted
    ImplementsNavigation
