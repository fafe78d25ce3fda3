SPECIFICATION Spec
CONSTANTS
    a = a
    b = b
    i = i
    NoTask = NoTask
    Idle = Idle
    NoCore = NoCore
    Task = {a, b, i}
    Affinity <- Migrating
    InitTask = i
    InitPri <- Priorities
    Pri = {1, 2}
    MaxSus = 2
    MaxWup = 1
    Programs <- AllPrograms
    Handlers = {0}
INVARIANTS
    OwnedUnlessStale
    FreeIsUnused
    PublishedIsReady
    DispatchOwed
    SuspensionCounted
    QueueHoldsReady
    NoLostWakeup
    OnePublication
    WaitingNeverRuns
CHECK_DEADLOCK FALSE
