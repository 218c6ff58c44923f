\* Four servers: two votes leave the fourth one out.  It may be late, and send
\* batches that are refused.
SPECIFICATION Spec
CONSTANTS
    Server = {1, 2, 3, 4}
    Observer = {1}
    Busy = {4}
    LastEpoch = 1
    Pool = 1
    MaxResend = 0
    Suspect = {4}
    Watcher = {1, 2}
    Faulty = {4}
INVARIANTS
    SameTransactions
    PassedIsApproved
    InvalidByQuorum
