CONSTANTS
    MaxFile = 2
    Base = {a}
    MaxTry = 1
    MaxBatch = 1
    MaxForeign = 0
SPECIFICATION Spec
INVARIANT ClaimTrue
CHECK_DEADLOCK FALSE
