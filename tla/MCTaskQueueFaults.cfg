CONSTANTS
    Task = {t1}
    Launch = {l1, l2}
    NoTask = NoTask
    NoLaunch = NoLaunch
    SharedId = sid
    MaxEvents = 3
    Faults = {"open", "noindex", "noprompt", "lost", "nostart", "both", "stopdead",
              "shared", "late"}
SPECIFICATION Spec
CHECK_DEADLOCK FALSE
SYMMETRY Symmetry
PROPERTY LifecycleSpec
