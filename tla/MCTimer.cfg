SPECIFICATION Spec
CONSTANTS
    Event = {e1, e2, e3}
    None = null
    Interval = 2
    EventBudget = 1
    Durations = {0, 1, 7}
    MaxTime = 7
    MaxNow = 3
SYMMETRY Symmetry
INVARIANTS DeadlineKept StoppedIsQuiet EventOwnedOnce NotEarly
PROPERTIES CleanupOnce
