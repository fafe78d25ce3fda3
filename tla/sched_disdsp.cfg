SPECIFICATION Spec
CONSTANTS
    a = a
    b = b
    i = i
    NoTask = NoTask
    Idle = Idle
    NoCore = NoCore
    Task = {a, b, i}
    Affinity <- Migrating
    InitTask = i
    InitPri <- Priorities
    Pri = {1, 2}
    MaxSus = 1
    MaxWup = 1
    Programs <- DisabledPrograms
    Handlers = {}
PROPERTIES
    DisabledIsNotDispatched
CHECK_DEADLOCK FALSE
