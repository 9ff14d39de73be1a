SPECIFICATION WitnessSpec
CONSTANTS
    A = A
    B = B
    C = C
    w = w
    Node = {A, B}
    Runner = {A, B}
    Host <- OneLoopHost
    Peers <- PairPeers
    Path = {p, w}
    Roles = {"both"}
    Faults = {}
    Skew <- NoSkew
    Edited = {p}
    Switchers = {}
    Stamps = {0, 1, 2}
    StartTime = 2
    MaxTime = 3
    MTIME_TOLERANCE = 1
    WRITE_STABILITY_SEC = 1
    TOMBSTONE_MAX_AGE = 10
PROPERTIES Settles NewestSpreads DeletionSpreads
