CONSTANTS
    MaxShot = 1
    MaxSize = 1
    MaxTimer = 1
    MaxQueue = 1
    MaxStarts = 1
    Habits = {"edit"}
SPECIFICATION Spec
INVARIANT OneRowPerShot
CHECK_DEADLOCK FALSE
