\* One timer, two threads that list it, and a clock that is set back once.
CONSTANTS
    t1 = t1
    t2 = t2
    i1 = i1
    i2 = i2
    Timers = {t1}
    Idlers = {i1, i2}
    Periods = {1, 2}
    Gap = 1
    MAX_TIMEOUT = 2
    IntHalf = 4
    Start = 3
    MaxReal = 2
    MaxBack = 1
SPECIFICATION Spec
SYMMETRY Symmetry
INVARIANTS TypeOK CallbackIffListed
PROPERTIES SpentStaysSpent NeverEarly
