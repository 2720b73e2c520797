SPECIFICATION Spec
CONSTANTS
    Procs = {p1, p2}
    NoOne = NoOne
    MaxEntries = 1
    MaxBytes = 3
    Sizes = {1}
    MaxWrites = 4
    MaxFaults = 1
SYMMETRY Symmetry
INVARIANTS
    TypeOK
    SegmentBound
    NoRowTwice
PROPERTIES
    PrematureOnlyIfMoved
CHECK_DEADLOCK FALSE
