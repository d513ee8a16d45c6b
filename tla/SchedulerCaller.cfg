\* use_caller and no created thread: stop() runs everything.
CONSTANTS
    w1 = w1
    w2 = w2
    c1 = c1
    c2 = c2
    c3 = c3
    f1 = f1
    f2 = f2
    f3 = f3
    Workers = {}
    Main = main
    UseCaller = TRUE
    Cbs = {c1, c2, c3}
    Fibers = {f1, f2, f3}
    Affine = {}
    AnyThread = AnyThread
    NoFiber = NoFiber
    NoCb = NoCb
    MaxYield = 2
SPECIFICATION FairSpec
PROPERTIES RefinesTaskPool EveryTaskRuns
