SPECIFICATION SchedulerSpec
CONSTANTS
    a1 = a1
    a2 = a2
    b = b
    c = c
    run = run
    Repos = {1, 2}
    Jobs = {a1, b}
    RepoOf <- Repository
    PathOf <- Path
    Loop = run
    Tasks = {t1, t2}
    Callers = {t1, t2, run}
    OpenAfter = 1
    MaxEpoch = 2
    MaxIndexInflight = 1
    MaxJobAttempts = 2
    MaxBroken = 1
PROPERTIES
    Settles
CHECK_DEADLOCK FALSE
