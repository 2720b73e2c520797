SPECIFICATION Spec
CONSTANTS
    MaxChunk = 2
    MaxLines = 3
    MaxLosses = 2
    MaxMissed = 1
CHECK_DEADLOCK FALSE
INVARIANTS
    TypeOK
    QuestionIsWaitedFor
    SentIsConfirmed
    EverySendHasItsRow
    UnsafeIsNotReplayed
PROPERTIES
    ReturnsWithOutcome
    ImplementsAuditedEffect
    ClosedEnds
