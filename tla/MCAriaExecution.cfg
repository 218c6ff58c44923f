\* Three transactions, two keys, two workers; safety and refinement.
CONSTANTS
    k1 = k1
    k2 = k2
    w1 = w1
    w2 = w2
    Tid <- MCTid3
    Key = {k1, k2}
    Worker = {w1, w2}
    Batches <- MCBatches
    MaxReads = 1
    MaxWrites = 1
    MaxFailed = 1
SYMMETRY Symmetric
SPECIFICATION Spec
INVARIANTS
    IInv
    DeterministicResult
    Serializable
    SmallestCommits
PROPERTIES
    SerialSpec
