SPECIFICATION Spec
CONSTANTS
    MaxChunk = 1
    MaxLines = 1
    MaxLosses = 2
    MaxMissed = 1
CHECK_DEADLOCK FALSE
INVARIANTS
    StrictIsOnRecord
