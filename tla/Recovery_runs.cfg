SPECIFICATION Spec
CONSTANTS
    Emitters = {e1, e2}
    Plans <- MCPlans
CHECK_DEADLOCK FALSE
INVARIANTS
    CrashLeavesItWhole
    AppliesWithinItsLeave
    WalkIsComplete
PROPERTY
    ApplyEnds
