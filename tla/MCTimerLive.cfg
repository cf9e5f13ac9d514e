SPECIFICATION FairSpec
CONSTANTS
    Event = {e1, e2}
    None = null
    Interval = 1
    EventBudget = 1
    Durations = {0, 1, 6}
    MaxTime = 6
    MaxNow = 2
PROPERTIES TimeIsServed
