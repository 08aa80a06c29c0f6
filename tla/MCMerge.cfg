SPECIFICATION FairSpec
CONSTANTS
    NumEvents = 5
    Keys <- TwoKeys
    KeyOf <- Interleaved
    NoKey = 0
    MaxParts = 2
    Generations = 8
INVARIANTS
    NothingLost
    PartsInOrder
    ArrivalOrderPerKey
    OpenGroupHasTimer
PROPERTIES
    OnlyOwnTimerFlushes
    EveryEventLeaves
