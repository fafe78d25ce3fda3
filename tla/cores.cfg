SPECIFICATION CoresSpec
CONSTANTS
    c0 = c0
    c1 = c1
    t1 = t1
    t2 = t2
    h = h
    NoCore = NoCore
    NoCtx = NoCtx
    Core <- Cores
    Task <- Tasks
    Handler <- Handlers
    Affinity <- OneMigrating
    RawCallers <- PinnedOnly
    MaxNest = 2
    HandlerNest = 1
    FifoDepth = 1
    MaxSends = 3
INVARIANTS
    MutualExclusion
    MaskedWhileHeld
    MaskRestored
    DepthMatchesNesting
    NoIllegalUse
    NoLostReason
PROPERTIES
    DeadNeverEnters
    ReleaseCompletes
    RescheduleArrives
    TimeHandlerArrives
