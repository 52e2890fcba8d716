SPECIFICATION Spec
CONSTANTS
    Clients = {a}
    Relays = {}
    MaxCores = 2
    MaxMessages = 2
INVARIANT FrameGenerationsIncrease
