SPECIFICATION RolesSpec
CONSTANTS
    A = A
    B = B
    w = w
    Node = {A, B}
    Runner = {A}
    Host <- HostA
    Peers <- PairPeers
    Path = {p, w}
    Roles = {"both", "slave", "master"}
    Faults = {"net", "event", "unlink"}
    Skew <- NoSkew
    Edited = {p}
    Switchers = {A}
    MaxTime = 4
    MTIME_TOLERANCE = 1
    WRITE_STABILITY_SEC = 1
    TOMBSTONE_MAX_AGE = 2
PROPERTY NoWipe
