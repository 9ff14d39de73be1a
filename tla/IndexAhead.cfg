CONSTANTS
    MaxFile = 3
    MaxClick = 3
    MaxWorker = 1
SPECIFICATION Spec
INVARIANT IndexComesBack
CHECK_DEADLOCK FALSE
