SPECIFICATION Spec
CONSTANTS
    Threads = {t1, t2}
    Idle = idle
    NoThread = NoThread
    AppLocks = {}
    Sems = {s1}
    ThreadLock = thread_lock
    Priorities = {1}
    SleepTimes = {1}
    Calls = {"create", "msleep"}
    MayYieldHolding = FALSE
    StartFailures = {}
    TickHz = 100
    IntMax = 2147483647
    InitCount = 0
    MaxCount = 1
PROPERTIES
    ContextPreserved
