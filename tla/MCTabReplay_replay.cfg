SPECIFICATION Spec
CONSTANTS
    Urls = {u1, u2}
    Sizes = {small}
    InitialSize = small
    Views = {v0}
    FreshView = v0
    MaxTabs = 3
    MaxChanges = 4
INVARIANTS
    ReplayReproducesTabs
