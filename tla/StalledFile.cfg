CONSTANTS
    MaxShot = 1
    MaxSize = 2
    MaxTimer = 2
    MaxQueue = 2
    MaxStarts = 1
    Habits = {"stall"}
SPECIFICATION Spec
INVARIANTS OneFileOneRow
CHECK_DEADLOCK FALSE
