SPECIFICATION FairSpec
CONSTANTS
    Conns = {c1, c2}
    Pbufs = {p1, p2}
    Bodies = {"none", "request", "answer"}
    ReqLens = {15}
    TCP_WND = 34
    TCP_SND_BUF = 30
    MaxLeaked = 1
INVARIANTS
    TypeOK
    SessionPerConnection
    NoDanglingPbuf
    SentPbufsAreFreed
    LockstepIsAnswered
    WindowComesBack
    TotLenIsStaleForAnswersOnly
PROPERTIES
    DeferredIsSent
    FinEndsSession
