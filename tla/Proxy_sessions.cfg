SPECIFICATION ProxySpec
CONSTANTS
    Clients = {c1}
    MaxMessages = 2
    MaxFailures = 1
CHECK_DEADLOCK FALSE
INVARIANTS
    ProxyTypeOK
    AnsweredOnce
    AnswerIsItsOwn
    RecordIsComplete
PROPERTIES
    SocketsFollow
