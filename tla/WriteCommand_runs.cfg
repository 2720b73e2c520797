SPECIFICATION Spec
CONSTANTS
    MaxStatements = 3
    MaxMissed = 2
CHECK_DEADLOCK FALSE
INVARIANTS
    WideIsConfirmed
    SuccessRowIsTrue
    MigrationIsWhole
PROPERTIES
    ImplementsAuditedEffect
