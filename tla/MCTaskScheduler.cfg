SPECIFICATION Spec
CONSTANTS
    WorkerCount = 2
    c1 = c1
    c2 = c2
    k1 = k1
    k2 = k2
    k3 = k3
    Client = {c1, c2}
    Owner = Owner
    Task = {k1, k2, k3}
    Caller <- MCCaller
    Waits = {}
    NoThread = NoThread
    NoQueue = NoQueue
    NoTask = NoTask
CHECK_DEADLOCK FALSE
INVARIANTS
    TypeOK ExactlyOnce NoStrandedTask DestroyedClean HaltsOnlyWhenDone
PROPERTY PoolSpec
