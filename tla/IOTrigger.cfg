\* Two clients wait for one connection and a third cancels one of them.
CONSTANTS
    c1 = c1
    c2 = c2
    c3 = c3
    p1 = p1
    p2 = p2
    Clients = {c1, c2, c3}
    Pollers = {p1}
    Fds = {2}
    InitSize = 2
    NoClient = NoClient
    MaxGen = 1
    MaxClose = 0
SPECIFICATION Spec
INVARIANT TriggerAssertion
