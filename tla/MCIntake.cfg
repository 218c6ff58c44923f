SPECIFICATION MCSpec
CONSTANTS
    Server = {1, 2, 3}
    StartEpoch = 1
    LastEpoch = 3
    MaxTx = 1
    Eager = FALSE
    SpuriousWakeup = FALSE
INVARIANTS
    ClosedEpochComplete
    ExactlyOneBlock
PROPERTIES
    EpochsInOrder
    EagerInOrder
