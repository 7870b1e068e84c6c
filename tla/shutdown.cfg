SPECIFICATION FairSpec
CONSTANTS
    j1 = j1
    j2 = j2
    t1 = t1
    t2 = t2
    w1 = w1
    w2 = w2
    g = g
    None = None
    Jobs = {j1, j2}
    Threads = {t1, t2}
    Conns = {w1}
    DependsOn <- Independent
    Group <- OneGroup
    GroupLimit <- Unlimited
    CanBuild <- OneOldWorker
    SystemErrorAttempts = 2
    MaxConnects = 1
    AllowLocalRace = FALSE
    LocalConsumption = TRUE
    StopOnFirstError = TRUE
    FastCancel = TRUE
    UserAbort = FALSE
    RemoteFaults = {"systemError", "disconnect"}
INVARIANTS
    NoRaceInv
    NoJobOutlivesQueue
    StopHasCause
PROPERTIES
    BuildEnds
