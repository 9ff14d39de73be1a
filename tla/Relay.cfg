SPECIFICATION LineSpec
CONSTANTS
    A = A
    B = B
    C = C
    w = w
    Node = {A, B, C}
    Runner = {A, B, C}
    Host <- LineHost
    Peers <- LinePeers
    Path = {p}
    Roles = {"both"}
    Faults = {}
    Skew <- NoSkew
    Edited = {p}
    Switchers = {}
    Stamps = {0, 2}
    StartTime = 2
    MaxTime = 3
    MTIME_TOLERANCE = 1
    WRITE_STABILITY_SEC = 1
    TOMBSTONE_MAX_AGE = 10
PROPERTY NewestSpreads
