SPECIFICATION Spec
CONSTANTS
    Server = {s1, s2}
    StartEpoch = 1
    LastEpoch = 2
    MaxTx = 2
    Eager = TRUE
    SpuriousWakeup = FALSE
INVARIANTS
    FinishedEpochEmptied
