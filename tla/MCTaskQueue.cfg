CONSTANTS
    Task = {t1, t2}
    Launch = {l1, l2, l3}
    NoTask = NoTask
    NoLaunch = NoLaunch
    SharedId = sid
    MaxEvents = 4
    Faults = {"noindex", "noprompt", "lost", "nostart"}
SPECIFICATION FairSpec
CHECK_DEADLOCK FALSE
INVARIANTS TypeOK InFlightMatches OneImplementer FailedBlamesItsLaunch DoneIsLanded
PROPERTIES GoneIsTerminal LifecycleSpec
