SPECIFICATION FairSpec
CONSTANTS
    Clients = {}
    Relays = {compiler, debugger}
    MaxCores = 3
    MaxMessages = 0
INVARIANTS
    OneGenerationServes
    RelayMatchesBrowser
    OnlyGenuineDeathStops
PROPERTY CoreDeathIsNoticed
