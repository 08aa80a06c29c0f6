SPECIFICATION FairSpec
CONSTANTS
    Threshold = 2
    BaseCooldown = 1
    MaxCooldown = 3
    NumEvents = 2
    Composite <- SecondEvent
    NumRoutes = 2
    Reviewed <- FirstRoute
    HasDeadLetters = TRUE
    Exclusive = FALSE
    Concurrency = 2
    UnboundedRetry = FALSE
    MaxAttempts = 2
    AttemptLimit = 3
INVARIANTS
    TypeOK
    AuditTrail
    AckTrail
    LifecycleWord
    BreakerInvariant
PROPERTIES
    ImplementsLifecycle
    PulledIsHandled
