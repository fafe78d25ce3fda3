SPECIFICATION Spec
CONSTANTS
    c0 = c0
    c1 = c1
    t1 = t1
    t2 = t2
    h = h
    NoCore = NoCore
    NoCtx = NoCtx
    Core <- Cores
    Task <- Tasks
    Handler <- NoHandlers
    Affinity <- AllMigrating
    RawCallers <- Tasks
    MaxNest = 2
    HandlerNest = 1
INVARIANTS
    MutualExclusion
