\* Two threads and two fibers that suspend twice.
CONSTANTS
    t1 = t1
    t2 = t2
    k1 = k1
    k2 = k2
    Threads = {t1, t2}
    Tasks = {k1, k2}
    NoTask = NoTask
    InitPermits = 0
    MaxWaits = 2
    MaxPermits = 0
SPECIFICATION Spec
SYMMETRY Symmetry
INVARIANT WaitsServed
