SPECIFICATION Spec
CONSTANTS
    LastEpoch = 2
    PoolSize = 1
    Peer = {}
    InMemory = FALSE
    EarlyReturn = FALSE
    ResetEpoch = FALSE
    MaxCrash = 1
    NumberMayTear = FALSE
INVARIANTS
    NoCheckFails
