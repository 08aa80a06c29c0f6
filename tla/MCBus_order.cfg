SPECIFICATION Spec
CONSTANTS
    Threshold = 1
    BaseCooldown = 1
    MaxCooldown = 2
    NumEvents = 3
    Composite <- NoEvents
    NumRoutes = 1
    Reviewed <- NoRoutes
    HasDeadLetters = TRUE
    Exclusive = FALSE
    Concurrency = 2
    UnboundedRetry = FALSE
    MaxAttempts = 1
    AttemptLimit = 3
INVARIANTS
    AckAfterFinalRow
    AcksInInputOrder
    HeadOfLine
    UnackedBound
    OkMeansHandled
PROPERTIES
    ImplementsContract
