SPECIFICATION SwitchSpec
CONSTANTS
    A = A
    B = B
    w = w
    Node = {A, B}
    Runner = {loop, button}
    Host <- HostA
    Peers <- PairPeers
    Path = {p, w}
    Roles = {"both"}
    Faults = {"net", "tear"}
    Skew <- NoSkew
    Edited = {p}
    Switchers = {A}
    MaxTime = 4
    MTIME_TOLERANCE = 1
    WRITE_STABILITY_SEC = 1
    TOMBSTONE_MAX_AGE = 10
INVARIANT DeletionRemembered
