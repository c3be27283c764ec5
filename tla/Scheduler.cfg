SPECIFICATION SchedulerSpec
CONSTANTS
    a1 = a1
    a2 = a2
    b = b
    c = c
    run = run
    Repos = {1, 2}
    Jobs = {a1, a2, b}
    RepoOf <- Repository
    PathOf <- Path
    Loop = run
    Tasks = {t1, t2}
    Callers = {t1, t2, run}
    OpenAfter = 2
    MaxEpoch = 2
    MaxIndexInflight = 2
    MaxJobAttempts = 2
    MaxBroken = 1
INVARIANTS
    RunIsAccounted
    BreakerIsKept
    FairTurn
PROPERTIES
    BreakerSpec
CHECK_DEADLOCK FALSE
