SPECIFICATION FairReleaseSpec
CONSTANTS
    Threads = {t1, t2}
    Idle = idle
    NoThread = NoThread
    AppLocks = {a}
    Sems = {s1}
    ThreadLock = thread_lock
    Priorities = {1}
    SleepTimes = {10}
    Calls = {"create", "sem_wait", "sem_post", "msleep", "spin_lock", "spin_unlock"}
    MayYieldHolding = FALSE
    StartFailures = {}
    TickHz = 100
    IntMax = 2147483647
    InitCount = 0
    MaxCount = 1
PROPERTIES
    RunnableRuns
    CallsComplete
