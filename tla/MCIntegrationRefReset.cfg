CONSTANTS
    Task = {t1, t2}
    CodeTask = {t1, t2}
    Conflict = {}
    Doc = {d1}
    Stray = stray
    Orch = orch
    Free = free
    NoDoc = nodoc
    MaxCommits = 3
    Usage <- MCUsageReset
SPECIFICATION Spec
CHECK_DEADLOCK FALSE
PROPERTIES RefNeverRewinds
