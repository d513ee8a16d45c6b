SPECIFICATION FairSpec
CONSTANTS
    f1 = f1
    f2 = f2
    f3 = f3
    Fibers = {f1, f2}
    Fds = {1, 2}
    InitFds = {{1}, {1, 2}}
    Fionbio = {TRUE}
    NoFiber = NoFiber
    NoCtx = NoCtx
    UserOps = {"write", "accept", "connect", "close", "socket", "sleep", "setfl", "fionbio", "timeo"}
    MaxConn = 2
    MaxCalls = 2
INVARIANTS
    TypeOK
    OneWake
    TimeoutIsOwn
    TimerInForce
    CtxFresh
    NoThreadBlocks
    CloseWakes
PROPERTIES
    ReadyCallReturns
CHECK_DEADLOCK FALSE
