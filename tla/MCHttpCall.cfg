SPECIFICATION CallFairSpec
CONSTANTS
    MAX_READ_ATTEMPTS = 3
    Connect = 4
    Request = 8
    Total = 12
    Pause = 1
    MaxClock = 16
    Nothing = Nothing
CHECK_DEADLOCK FALSE
INVARIANTS
    DoneAtMostOnce
    ReportIsTrue
    KeepsItsBudget
PROPERTIES
    CallsEnd
