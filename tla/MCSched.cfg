SPECIFICATION FairSpec
CONSTANTS
    Task = {t1, t2, t3}
    Queue = {q1}
    Idle = idle
    None = null
INVARIANTS SchedInv
PROPERTIES ReturnsClean NeverOvertaken RunnableRuns ZombieFreed
