SPECIFICATION Spec
CONSTANTS
    Tables = {t1, t2}
    Commands = {c1}
    MaxVersion = 1
    MaxRuns = 2
    MaxChanges = 1
INVARIANT RefreshRemoves
CHECK_DEADLOCK FALSE
