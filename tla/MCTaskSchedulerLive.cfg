SPECIFICATION FairSpec
CONSTANTS
    WorkerCount = 2
    c1 = c1
    k1 = k1
    k2 = k2
    Client = {c1}
    Owner = Owner
    Task = {k1, k2}
    Caller <- MCCaller
    Waits = {k1}
    NoThread = NoThread
    NoQueue = NoQueue
    NoTask = NoTask
CHECK_DEADLOCK FALSE
PROPERTIES
    CallReturns DestructorReturnsUnlessWakeupLost PoolFairSpec
