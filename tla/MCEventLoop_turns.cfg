SPECIFICATION Spec
CONSTANTS
    MaxPromises = 3
    MaxThens = 2
    Combinators = {"all", "allSettled", "any", "race"}
    EnvPromises = 2
    MaxRequests = 4
    NumModules = 3
    Deferrers = {1}
    Bodies = {"return", "throw", "await"}
    Special = {2}
    SpecialBodies = {"twice", "inline", "imports", "later"}
    Imported = 3
    MaxImports = 2
INVARIANTS
    HandlersRunInOrder
    AdoptionIsFaithful
    CombinatorsAreRight
    RequestsSettleInOrder
    HeadHasOneContinuation
    FinishedStaysFinished
    DependenciesFirst
    ImportsAgree
    NobodyIsLeftWaiting
CHECK_DEADLOCK FALSE
