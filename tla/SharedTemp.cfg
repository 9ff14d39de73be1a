SPECIFICATION Spec
CONSTANTS
    Fetch = {f1, f2}
    Burst = 2
    Size = 4
    Grown = 0
    BUFFER_SIZE = 2
    SOCKET_HIGH_WATER = 4
    SOCKET_LOW_WATER = 2
    SOCKET_MAX_BUFFER = 16
    Window = 2
    Timeout = 8
    Faults = {}
INVARIANT InstalledWhole
CHECK_DEADLOCK FALSE
