SPECIFICATION Spec
CHECK_DEADLOCK FALSE
CONSTANTS
    RedoLimit = 1
    MaxRuns = 1
    MaxDeaths = 0
    MaxStray = 1
    MaxMoves = 1
    MaxPushes = 1
    MaxHands = 1
    Windows = {"resolve"}
INVARIANTS
    NoUnjudgedCommit
