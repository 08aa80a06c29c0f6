SPECIFICATION Spec
CONSTANTS
    c1 = c1
    c2 = c2
    Callers = {c1, c2}
    Inputs <- Planned
    Capacity = 1
    Ttl = 2
    Faulty = TRUE
    MaxTime = 3
    MaxCalls = 3
SYMMETRY Symmetry
INVARIANTS
    HitIsFresh
    HitAnswersTheQuestion
PROPERTIES
    MissRemovesExpired
