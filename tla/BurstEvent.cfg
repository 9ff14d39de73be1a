CONSTANTS
    MaxShot = 1
    MaxSize = 3
    MaxTimer = 2
    MaxQueue = 2
    MaxStarts = 1
    Habits = {"burst"}
SPECIFICATION Spec
PROPERTIES WholeFile
CHECK_DEADLOCK FALSE
