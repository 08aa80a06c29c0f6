SPECIFICATION Spec
CONSTANTS
    c1 = c1
    c2 = c2
    Callers = {c1}
    Inputs <- Colliding
    Capacity = 1
    Ttl = 2
    Faulty = FALSE
    MaxTime = 2
    MaxCalls = 2
INVARIANTS
    HitAnswersTheQuestion
