CONSTANTS
    MaxShot = 2
    MaxSize = 2
    MaxTimer = 2
    MaxQueue = 2
    MaxStarts = 2
    Habits = {"stall", "fail"}
SPECIFICATION Spec
INVARIANTS OneRowPerShot RightFile NothingMissed
PROPERTIES WholeFile EveryLanding
\* The survey ends, and the switch may be used so often only.
CHECK_DEADLOCK FALSE
