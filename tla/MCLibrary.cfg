SPECIFICATION MCSpec
CONSTANTS
    Tids = {1, 2, 3}
    Workers = {w1, w2}
    N = 2
    MaxEpoch = 3
    NoVersion = NoVersion
    Account = {a, b}
    Row = {x, y}
    Fields = {f, g}
    NoRow = NoRow
INVARIANTS
    
    
    MoneyPreserved
    
    
    
