SPECIFICATION Spec
CHECK_DEADLOCK FALSE
CONSTANTS
    RedoLimit = 1
    MaxRuns = 3
    MaxDeaths = 0
    MaxStray = 0
    MaxMoves = 1
    MaxPushes = 0
    MaxHands = 0
    Windows = {}
INVARIANTS
    MergedOnce
