SPECIFICATION ChainSpec
CONSTANTS
    Publishers = {p, q}
    Capacity = 0
    NumItems = 5
    Window = 1
    NumEvents = 2
    MaxFaults = 1
INVARIANTS
    OkMeansAcked
    AckHeard
    RefusedIsGone
    InFlightBound
    NothingSilent
    AtLeastOnceWhileLinked
PROPERTIES
    EveryEventSettles
