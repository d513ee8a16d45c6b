\* Two timers that overtake each other, and one thread that sleeps for them.
CONSTANTS
    t1 = t1
    t2 = t2
    i1 = i1
    i2 = i2
    Timers = {t1, t2}
    Idlers = {i1}
    Periods = {1}
    Gap = 1
    MAX_TIMEOUT = 2
    IntHalf = 4
    Start = 3
    MaxReal = 2
    MaxBack = 0
SPECIFICATION FairSpec
INVARIANT NoOversleep
PROPERTY DueIsServed
