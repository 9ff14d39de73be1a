CONSTANTS
    MaxFile = 3
    MaxClick = 5
    MaxWorker = 3
SPECIFICATION Spec
INVARIANTS NoOrphan OneOpenFile ConvertsShown
PROPERTY EveryCallEnds
\* The user has clicked enough.
CHECK_DEADLOCK FALSE
