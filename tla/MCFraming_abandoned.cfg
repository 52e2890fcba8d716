SPECIFICATION Spec
CONSTANTS
    PrefixBytes = 2
    Body <- MCBody
INVARIANT FrameNeverAbandoned
