SPECIFICATION Spec
CONSTANTS
    Conns = {c1}
    Pbufs = {p1, p2}
    Bodies = {"none", "request", "answer"}
    ReqLens = {15}
    TCP_WND = 38
    TCP_SND_BUF = 34
    MaxLeaked = 1
SYMMETRY Symmetry
INVARIANT NoPbufLost
