SPECIFICATION Spec
CONSTANTS
    j1 = j1
    j2 = j2
    t1 = t1
    t2 = t2
    w1 = w1
    w2 = w2
    g = g
    None = None
    Jobs = {j1}
    Threads = {t1}
    Conns = {w1}
    DependsOn <- Independent
    Group <- OneGroup
    GroupLimit <- Unlimited
    CanBuild <- AllCanBuild
    SystemErrorAttempts = 2
    MaxConnects = 1
    AllowLocalRace = TRUE
    LocalConsumption = TRUE
    StopOnFirstError = FALSE
    FastCancel = FALSE
    UserAbort = FALSE
    RemoteFaults = {"systemError", "disconnect"}
INVARIANTS
    UndisposedJobIsRacing
