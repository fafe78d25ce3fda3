SPECIFICATION DevSpec
CONSTANTS
    t1 = t1 t2 = t2 t3 = t3
    None = None
    Task <- TwoTasks
    MaxOpn = 2
    MaxReq = 1
    Unit = {0}
    OpenMode <- ReadWrite
    Mixed = FALSE
INVARIANT DriverIsOpen
