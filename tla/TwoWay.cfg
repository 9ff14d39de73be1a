SPECIFICATION EitherSpec
CONSTANTS
    A = A
    B = B
    w = w
    Node = {A, B}
    Runner = {A, B}
    Host <- OneLoopHost
    Peers <- PairPeers
    Path = {p, w}
    Roles = {"both"}
    Faults = {"save", "crash", "net"}
    Skew <- NoSkew
    Edited = {p}
    Switchers = {}
    MaxTime = 4
    MTIME_TOLERANCE = 1
    WRITE_STABILITY_SEC = 1
    TOMBSTONE_MAX_AGE = 2
INVARIANTS TombstoneDurable NoPhantomTombstone
PROPERTY SharedFolderSpec
SYMMETRY Swap
