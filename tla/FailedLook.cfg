CONSTANTS
    MaxShot = 2
    MaxSize = 2
    MaxTimer = 2
    MaxQueue = 2
    MaxStarts = 1
    Habits = {"fail"}
SPECIFICATION Spec
INVARIANTS NoneOvertaken
CHECK_DEADLOCK FALSE
