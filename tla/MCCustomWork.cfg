SPECIFICATION FairSpec
CONSTANTS
    Capacity = 3
    MaxSubmit = 5
    OtherWork = {"TIMER", "UART_RX"}
INVARIANTS PoolExact NoLostRaise
PROPERTIES RunsInOrder CallbackRuns RaiseServed
