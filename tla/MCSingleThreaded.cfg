SPECIFICATION Components
CONSTANTS
    a1 = a1
    a2 = a2
    a3 = a3
    b1 = b1
    A = A
    B = B
    Event = {a1, a2, a3, b1}
    Type = {A, B}
    TypeOf <- MCTypeOf
    EventPoolSize = 3
    Observer = {o1, o2, o3}
    MaxNesting = 3
    Owning = {p1, p2, p3}
    Local = {l1, l2}
    x1 = x1
    x2 = x2
    Object = {x1, x2}
    Allocator = {m1, m2}
    Class = {"Derived", "Base", "Second", "NotVirtual"}
    ClassOf <- MCClassOf
    LocalClass = "Derived"
    Base <- MCBase
    Displaced <- MCDisplaced
    Virtual = {"Derived", "Base", "Second"}
    Instance = {i1, i2, i3}
    NoInstance = NoInstance
    MaxDepth = 5
    Timed = {f, g}
    MaxTimers = 5
    Handler = {h1, h2}
    NoHandler = NoHandler
    Modulus = 8
    MaxSize = 3
    Char = {"a", "/", "."}
    MaxLength = 4
SYMMETRY Symmetry
CHECK_DEADLOCK FALSE
INVARIANTS
    ToldInOrder
    EveryoneTold
    HandledInOrder
    StoredAreHandled
    StaleOnlyBeyondPool
    DestroyedOnce
    IdentityKept
    GuardsRun
    CallTree
    HandlerCalled
    LoopsExact
    StringsExact
