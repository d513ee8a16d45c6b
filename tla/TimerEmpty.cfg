\* The last timer is cancelled while a thread is about to list it.
CONSTANTS
    t1 = t1
    t2 = t2
    i1 = i1
    i2 = i2
    Timers = {t1}
    Idlers = {i1, i2}
    Periods = {1}
    Gap = 1
    MAX_TIMEOUT = 2
    IntHalf = 4
    Start = 3
    MaxReal = 1
    MaxBack = 0
SPECIFICATION Spec
INVARIANT ListIsSafe
