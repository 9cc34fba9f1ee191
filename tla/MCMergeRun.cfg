SPECIFICATION Spec
CHECK_DEADLOCK FALSE
CONSTANTS
    RedoLimit = 1
    MaxRuns = 2
    MaxDeaths = 1
    MaxStray = 1
    MaxMoves = 1
    MaxPushes = 1
    MaxHands = 1
    Windows = {}
INVARIANTS
    MergedIsVerified
    ResultIsTrue
    RepeatsMergeOnce
PROPERTIES
    RunEnds
