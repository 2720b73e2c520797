SPECIFICATION FairSpec
CONSTANTS
    Procs = {p1, p2}
    Budget = 1
    Stale = 2
INVARIANTS
    TypeOK
    ExclusionUntilTakeover
PROPERTIES
    WithLockReturns
    OrphanRecovered
