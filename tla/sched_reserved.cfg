SPECIFICATION Spec
CONSTANTS
    a = a
    b = b
    i = i
    NoTask = NoTask
    Idle = Idle
    NoCore = NoCore
    Task = {a, b, i}
    Affinity <- Migrating
    InitTask = i
    InitPri <- Priorities
    Pri = {1, 2}
    MaxSus = 1
    MaxWup = 1
    Programs <- ReservedPrograms
    Handlers = {}
INVARIANTS
    ReservedIsReclaimed
CHECK_DEADLOCK FALSE
