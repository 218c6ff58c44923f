SPECIFICATION MCSpec
CONSTANTS
    LastEpoch = 4
    PoolSize = 2
    Peer = {}
    InMemory = FALSE
    EarlyReturn = FALSE
    ResetEpoch = FALSE
    MaxCrash = 2
    NumberMayTear = FALSE
    Clients = {c1, c2, c3}
SYMMETRY Symmetry
INVARIANTS
    ChainOnDisk
    BlocksServed
    CountedByResult
