SPECIFICATION Spec
CONSTANTS
    Tables = {t1, t2}
    Commands = {c1, c2}
    MaxVersion = 2
    MaxRuns = 3
    MaxChanges = 1
SYMMETRY CacheSymmetry
INVARIANTS LastStoreIsRead 
CHECK_DEADLOCK FALSE
