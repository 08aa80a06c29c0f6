SPECIFICATION ChainSpec
CONSTANTS
    Publishers = {p}
    Capacity = 0
    NumItems = 1
    Window = 1
    NumEvents = 1
    MaxFaults = 0
INVARIANTS
    EndToEnd
