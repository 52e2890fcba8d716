SPECIFICATION Spec
CONSTANTS
    Clients = {a, b}
    Relays = {}
    MaxCores = 2
    MaxMessages = 1
SYMMETRY ClientSymmetry
INVARIANTS
    NeverBackToOldCore
    OneHistoryForAll
