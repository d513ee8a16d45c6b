\* One connection, in a table that has to grow for it; three clients, two pollers.
CONSTANTS
    c1 = c1
    c2 = c2
    c3 = c3
    p1 = p1
    p2 = p2
    Clients = {c1, c2, c3}
    Pollers = {p1, p2}
    Fds = {2}
    InitSize = 2
    NoClient = NoClient
    MaxGen = 1
    MaxClose = 1
SPECIFICATION Spec
SYMMETRY Symmetry
INVARIANTS TypeOK PendingExact WaiterIffEvent KernelWatches ReadyIsReported
