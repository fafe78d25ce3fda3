SPECIFICATION MLockSpec
CONSTANTS
    t1 = t1 t2 = t2
    NoCore = NoCore
    None = None
    Task = {t1, t2}
    Affinity <- OneEach
    LockNo = {0, 1}
INVARIANT MLockExcludes
CHECK_DEADLOCK FALSE
