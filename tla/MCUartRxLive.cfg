SPECIFICATION FairSpec
CONSTANTS
    Reader = {r1, r2}
    Writer = {}
    Capacity = 2
    HwFifo = 2
    Budget = 1
    MaxRx = 3
    MaxTx = 0
    MarkerLen = 1
    FillBudget = 1
    MaxTimerMarkers = 0
    MaxMarkers = 0
    OtherWork = {}
PROPERTIES InputComesThrough
