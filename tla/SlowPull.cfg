SPECIFICATION FairSpec
CONSTANTS
    Fetch = {f1}
    Burst = 1
    Size = 9
    Grown = 1
    BUFFER_SIZE = 2
    SOCKET_HIGH_WATER = 4
    SOCKET_LOW_WATER = 2
    SOCKET_MAX_BUFFER = 16
    Window = 2
    Timeout = 3
    Faults = {}
PROPERTY Completes
CHECK_DEADLOCK FALSE
