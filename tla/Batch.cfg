CONSTANTS
    MaxFile = 2
    Base = {a, b}
    MaxTry = 3
    MaxBatch = 2
    MaxForeign = 1
SPECIFICATION Spec
INVARIANTS ReportTrue TapeWhole
PROPERTIES NothingReplaced CancelMeant BatchEnds
\* After the last batch nothing is left to do.
CHECK_DEADLOCK FALSE
