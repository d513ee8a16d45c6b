\* Two setters and one writer; loggers a and root are configured, u is the user's.
CONSTANTS
    s1 = s1
    s2 = s2
    w1 = w1
    Setters = {s1, s2}
    Writers = {w1}
    Default = {}
    MaxListeners = 2
    MaxSets = 3
    Letters = {"m", "x"}
    ItemNames <- MCItemNames
    Order <- MCOrder
    Root = "root"
    UserNames = {"u"}
    Docs <- MCDocs
    EventLevels = {2}
    UserPatterns <- MCUserPatterns
    DefaultPattern <- MCDefault
    Absent = Absent
    MaxPattern = 5
    MaxItems = 4
SPECIFICATION Spec
SYMMETRY Symmetry
INVARIANTS TypeOK ConfigApplied ListenersTold NoEventLost FormatterExact
