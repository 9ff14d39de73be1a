SPECIFICATION GrantedSpec
CONSTANTS
    A = A
    B = B
    w = w
    Node = {A, B}
    Runner = {A, B}
    Host <- OneLoopHost
    Peers <- PairPeers
    Path = {p, w}
    Roles = {"both"}
    Faults = {}
    Skew <- NoSkew
    Edited = {p}
    Switchers = {}
    MaxTime = 3
    MTIME_TOLERANCE = 1
    WRITE_STABILITY_SEC = 1
    TOMBSTONE_MAX_AGE = 10
PROPERTY PullsNewer
SYMMETRY Swap
