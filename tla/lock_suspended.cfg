SPECIFICATION LockSpec
CONSTANTS
    None = None
    Task = {u1, u2, u3}
    Loc = {l1, l2}
    MaxPri = 2
INVARIANT OwnerIsNotSuspended
CHECK_DEADLOCK FALSE
