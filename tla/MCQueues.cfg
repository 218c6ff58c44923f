SPECIFICATION MCSpec
CONSTANTS
    Waiter = {a1, a2}
    MaxWant = 2
    MaxSignal = 2
    MaxPermits = 4
    Pair = {a1, a2}
    Triple = {b1, b2, b3}
    Null = Null
SYMMETRY Symmetry
INVARIANTS
    NoLostWakeup
    FirstInFirstOut
    ExactlyOnce
    PermitsMatchElements
    TakenOnce
PROPERTIES
    IsSemaphore
