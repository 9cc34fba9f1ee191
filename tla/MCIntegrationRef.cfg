CONSTANTS
    Task = {t1, t2}
    CodeTask = {t1}
    Conflict = {{t1, t2}}
    Doc = {d1}
    Stray = stray
    Orch = orch
    Free = free
    NoDoc = nodoc
    MaxCommits = 3
    Usage <- MCUsage
SPECIFICATION FairSpec
CHECK_DEADLOCK FALSE
INVARIANTS ReportedIsKept
PROPERTIES RefNeverLoses CheckedOutIsMerged MergeEnds
