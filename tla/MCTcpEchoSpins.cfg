SPECIFICATION FairSpec
CONSTANTS
    Conns = {c1}
    None = None
    Pbufs = {p1, p2}
    Bodies = {"none", "a", "b"}
    SegLens = {4}
    STORAGE_SIZE_BYTES = 3
    TCP_WND = 4
    TCP_SND_BUF = 4
PROPERTY UnpackReturns
CHECK_DEADLOCK FALSE
