SPECIFICATION MCSpec
CONSTANTS
    StartupEpoch = 1
    EpochGap = 1
    MaxTx = 5
INVARIANTS
    PhasesExclude
    WorkOnce
    AnnouncedComplete
    CommitsMerged
