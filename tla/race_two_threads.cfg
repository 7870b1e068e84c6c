SPECIFICATION Spec
CONSTANTS
    j1 = j1
    j2 = j2
    t1 = t1
    t2 = t2
    w1 = w1
    w2 = w2
    g = g
    None = None
    Jobs = {j1, j2}
    Threads = {t1, t2}
    Conns = {w1}
    DependsOn <- Independent
    Group <- OneGroup
    GroupLimit <- LimitOne
    CanBuild <- AllCanBuild
    SystemErrorAttempts = 2
    MaxConnects = 2
    AllowLocalRace = TRUE
    LocalConsumption = TRUE
    StopOnFirstError = TRUE
    FastCancel = TRUE
    UserAbort = TRUE
    RemoteFaults = {"systemError", "disconnect"}
SYMMETRY JobsThreadsAndWorkers
INVARIANTS
    TypeOK
    NoUseAfterFree
    OneWriter
    FinishedAsExpected
    GroupsWithinLimit
    Ownership
PROPERTIES
    ConcludedOnce
CHECK_DEADLOCK FALSE
