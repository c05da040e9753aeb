SPECIFICATION FairSpec
CONSTANTS
    Conns = {c1, c2}
    None = None
    Pbufs = {p1, p2}
    Bodies = {"none", "a", "b"}
    SegLens = {1, 2}
    STORAGE_SIZE_BYTES = 2
    TCP_WND = 3
    TCP_SND_BUF = 2
INVARIANTS
    TypeOK
    HoldsNoPbuf
    WindowIsWhole
    SpinsOnlyWhenOverfull
PROPERTIES
    ImplementsEchoService
    StoredIsEchoed
CHECK_DEADLOCK FALSE
