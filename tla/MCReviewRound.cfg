SPECIFICATION RoundSpec
CHECK_DEADLOCK FALSE
CONSTANTS
    Perspective = {"spec", "security"}
    Chain <- MCChain
    Files = 3
    Limit = 3
    DispatchCap = 4
    Sizes = {1, 4}
    MaxLoop = 1
    MaxHops = 1
    MaxFixed = 1
INVARIANT CoverageIsExact
