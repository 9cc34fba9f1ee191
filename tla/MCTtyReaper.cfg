SPECIFICATION ReaperSpec
CHECK_DEADLOCK FALSE
CONSTANTS
    MaxPid = 5
    MaxTick = 2
    MaxForks = 1
    MaxChanges = 2
INVARIANTS
    OnlyStuckSignalled
PROPERTIES
    StuckIsEnded
