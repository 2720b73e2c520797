SPECIFICATION Spec
CONSTANTS
    Verifiers = {3}
    Old = {1, 2}
    Stray = 9
    Readers = {p1, p2}
    Keep = 1
    OlderThan = 1
    Guards = 2
    MaxViolations = 1
    MaxDays = 2
SYMMETRY ReaderSymmetry
CHECK_DEADLOCK FALSE
INVARIANTS
    VerifiedIsEarned
    ReadersSeeWhole
    LatestAreKept
