SPECIFICATION Spec
CONSTANTS
    t1 = t1 t2 = t2 t3 = t3
    m1 = m1 m2 = m2
    b0 = b0 b1 = b1
    None = None
    Task <- MCTask
    Pri <- MCPri
    Queue <- MCQueue
    Kind <- MCKind
    Mail <- MCMsg
    Msg <- MCMsg
    MsgPri <- MCMsgPri
    MsgSz <- MCMsgSz
    Bit <- MCBit
    Mode <- MCMode
    MaxSem = 2
    BufSz = {0, 8}
    HEADERSZ = 2
    MplSz = 8
    BlkSz = {2, 3}
    BlkCnt = 2
SYMMETRY Symmetry
INVARIANTS
    QueuesInOrder
    ReturnsWhatWasDecided
    NobodyLeft
    ContentsAccounted
PROPERTIES
    NoOvertaking
    WholeMessagesInOrder
CHECK_DEADLOCK FALSE
