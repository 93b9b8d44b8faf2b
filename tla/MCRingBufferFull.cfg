SPECIFICATION Spec
CONSTANTS
    m_capacity = 3
    Producer = {p1, p2}
    Consumer = {c1}
    Value = {v1, v2, v3}
    Limit = 3
    NoThread = NoThread
    NoValue = NoValue
    Moved = Moved
SYMMETRY Symmetry
INVARIANT EmptyIsEmpty
