\* Two servers, two threads of the collector, two batches; a proposal may be sent
\* again, and a server restarts, the second one from its snapshot.
SPECIFICATION Spec
CONSTANTS
    Server = {1, 2}
    Used = 2
    Receiver = {1, 2}
    MaxBatch = 2
    QueueSize = 1
    LastEpoch = 3
    Pool = 2
    MaxResend = 1
    MaxRestart = 1
    Snapshots = {2}
INVARIANTS
    ProxyInOrder
    EpochsAreAskedFor
    EpochOfLog
