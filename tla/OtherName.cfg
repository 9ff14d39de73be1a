CONSTANTS
    MaxFile = 3
    MaxClick = 3
    MaxWorker = 1
SPECIFICATION Spec
INVARIANT HeldAtRest
CHECK_DEADLOCK FALSE
