SPECIFICATION Spec
CONSTANTS
    MaxLine = 3
    MaxSeen = 1
    MaxStarts = 2
    MaxFault = 1
    Habits = {}
INVARIANTS OnceEach NoHistory NothingSkipped
PROPERTY EveryShot
CHECK_DEADLOCK FALSE
