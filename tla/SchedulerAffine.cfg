\* use_caller with one created thread, which schedule() may name.
CONSTANTS
    w1 = w1
    w2 = w2
    c1 = c1
    c2 = c2
    c3 = c3
    f1 = f1
    f2 = f2
    f3 = f3
    Workers = {w1}
    Main = main
    UseCaller = TRUE
    Cbs = {c1, c2}
    Fibers = {f1, f2}
    Affine = {w1}
    AnyThread = AnyThread
    NoFiber = NoFiber
    NoCb = NoCb
    MaxYield = 3
SPECIFICATION Spec
SYMMETRY Symmetry
INVARIANTS TypeOK AssertionsHold OneOwner OneResumePath CountsExact WorkHasServer StopDrains
