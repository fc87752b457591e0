CONSTANTS
    NumWorkers = 2
    MaxLines = 2
SPECIFICATION FairSpec
CHECK_DEADLOCK FALSE
INVARIANTS
    TypeOK
    LinesStay
    NoRowLeftBehind
    LastFrameIsLatest
PROPERTIES
    DisplayStops
