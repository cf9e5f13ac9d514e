SPECIFICATION Spec
CONSTANTS
    Reader = {r1, r2}
    Writer = {w1}
    Capacity = 2
    HwFifo = 2
    Budget = 1
    MaxRx = 3
    MaxTx = 1
    MarkerLen = 1
    FillBudget = 1
    MaxTimerMarkers = 0
    MaxMarkers = 0
    OtherWork = {"CUSTOM"}
SYMMETRY Symmetry
INVARIANTS RxArmed RxInOrder ByteHasReader
