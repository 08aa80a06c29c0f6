SPECIFICATION FairSpec
CONSTANTS
    Publishers = {bus}
    Capacity = 1
    NumItems = 4
INVARIANTS
    UnreadBound
    LostBound
PROPERTIES
    PublishReturns
