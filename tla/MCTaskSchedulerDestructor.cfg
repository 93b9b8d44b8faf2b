SPECIFICATION FairSpec
CONSTANTS
    WorkerCount = 1
    Client = {}
    Owner = Owner
    Task = {}
    Caller <- MCCaller
    Waits = {}
    NoThread = NoThread
    NoQueue = NoQueue
    NoTask = NoTask
CHECK_DEADLOCK FALSE
PROPERTY DestructorReturns
