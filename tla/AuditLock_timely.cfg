SPECIFICATION TimelySpec
CONSTANTS
    Procs = {p1, p2, p3}
    Budget = 1
    Stale = 2
SYMMETRY Symmetry
INVARIANTS
    NoTakeover
PROPERTIES
    ImplementsMutex
