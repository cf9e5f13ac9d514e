SPECIFICATION Spec
CONSTANTS
    Reader = {}
    Writer = {w1, w2}
    Capacity = 2
    HwFifo = 1
    Budget = 1
    MaxRx = 0
    MaxTx = 6
    MarkerLen = 2
    FillBudget = 1
    MaxTimerMarkers = 1
    MaxMarkers = 2
    OtherWork = {"TIMER"}
SYMMETRY Symmetry
INVARIANTS TxArmed TxInOrder SlotHasWriter
