SPECIFICATION Spec
CONSTANTS
    Thread = {t1, t2, t3, t4}
    Queue = {q1, q2}
    Element = {e1, e2, e3}
    NoThread = NoThread
    NoQueue = NoQueue
    NoElement = NoElement
SYMMETRY Symmetry
INVARIANTS
    NoStrandedElement
PROPERTY NothingLost
