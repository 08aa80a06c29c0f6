SPECIFICATION Spec
CONSTANTS
    Threshold = 1
    BaseCooldown = 1
    MaxCooldown = 2
    NumEvents = 1
    Composite <- NoEvents
    NumRoutes = 1
    Reviewed <- NoRoutes
    HasDeadLetters = FALSE
    Exclusive = FALSE
    Concurrency = 2
    UnboundedRetry = FALSE
    MaxAttempts = 2
    AttemptLimit = 3
INVARIANTS
    NoUnauditedDelivery
