SPECIFICATION Parallel
CONSTANTS
    WorkerCount = 3
    MaxIterations = 7
    IntRange = 16
    m_capacity = 4
    Producer = {p1, p2}
    Consumer = {c1}
    Value = {v1, v2, v3}
    Limit = 3
    NoThread = NoThread
    NoValue = NoValue
    Moved = Moved
INVARIANTS
    FairDivision
    EachIterationOnce
    NoSlotShared
    EmptyIsEmpty
PROPERTIES
    WaitReturns
    FifoSpec
