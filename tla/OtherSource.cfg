SPECIFICATION Spec
CONSTANTS
    MaxLine = 3
    MaxSeen = 1
    MaxStarts = 2
    MaxFault = 1
    Habits = {"others"}
INVARIANT NoHistory
CHECK_DEADLOCK FALSE
