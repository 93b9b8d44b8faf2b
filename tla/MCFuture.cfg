SPECIFICATION FairSpec
CONSTANTS
    c1 = c1
    c2 = c2
    c3 = c3
    Consumer = {c1, c2, c3}
    Ops <- MCOps
    Promiser = Promiser
    Nobody = Nobody
CHECK_DEADLOCK FALSE
INVARIANTS
    ReceivedOnce
    GetNeverMoved
    CallbackNotLost
    WaitIncludesCallback
PROPERTIES
    CallsReturn
