SPECIFICATION Spec
CONSTANTS
    Threads = {t1, t2}
    Idle = idle
    NoThread = NoThread
    AppLocks = {a, b}
    Sems = {s1}
    ThreadLock = thread_lock
    Priorities = {1, 2}
    SleepTimes = {0, 10}
    Calls = {"create", "spin_lock", "spin_unlock", "exit", "destroy", "yield", "sem_wait", "sem_post", "msleep", "set_priority"}
    MayYieldHolding = FALSE
    StartFailures = {"nomem","notimer"}
    TickHz = 100
    IntMax = 2147483647
    InitCount = 0
    MaxCount = 2
SYMMETRY Symmetry
INVARIANTS
    TypeOK
    LocksSafe
    ThreadListSound
    HighestPriorityRuns
    NoLostWakeup
PROPERTIES
    ContextPreserved
    ImplementsThreading
