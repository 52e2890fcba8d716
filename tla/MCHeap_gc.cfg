SPECIFICATION Spec
CONSTANTS
    MaxObjects = 3
    MaxRoots = 1
    MaxCells = 1
    Kinds = {"plain", "weakmap", "registry", "arguments", "weakref", "namespace", "closure"}
    NurseryCapacity = 2
    MajorThreshold = 4
    MaxHeap = 6
INVARIANTS
    NothingDangles
    AccountsBalance
    HeapIsTheGraph
    WorklistsMarkWhatIsLive
PROPERTIES
    MajorKeepsOnlyReachable
