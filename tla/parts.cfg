SPECIFICATION Spec
CONSTANTS
    t1 = t1 t2 = t2 t3 = t3 t4 = t4
    u1 = u1 u2 = u2 u3 = u3
    h1 = h1 h2 = h2
    NoTask = NoTask
    LockNo = {0}
    NoCore = NoCore
    Affinity <- OneCore
    OpenMode <- Modes
    None = None
    Task = {u1, u2, u3}
    Loc = {l1, l2}
    Part = {"choice", "mutex", "time", "lock", "mlock", "device"}
    MaxPri = 2
    MaxMutex = 2
    Attribute = {"fifo", "inherit", "ceiling"}
    Ceiling = {1, 2}
    InOrder = TRUE
    Cyc = {h1}
    Alm = {h2}
    Modulus = 8
    PERIOD = 2
    Reltim = {0, 2}
    Assprc = {0, 1}
    MaxLag = 4
    MaxOpn = 2
    MaxReq = 2
    Unit = {0}
    Mixed = FALSE
SYMMETRY Symmetry
INVARIANTS
    BestChoice
    HoldersConsistent
    PriorityIsDue
    LinkedIffStarted
    StartsOnArrival
    RequestsServed
    QueuedOnce
    LockHasOwner
    MLockExcludes
    SleeperIsWoken
    ProcessedByOne
    AbortIsSignalled
PROPERTY NeverEarly
CHECK_DEADLOCK FALSE
