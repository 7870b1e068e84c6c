SPECIFICATION FairSpec
CONSTANTS
    cl = cl
    None = None
    Jobs = {j1, j2}
    Clients = {c1, c2}
    WorkerThreads = {w1}
    Tools = {cl}
    ToolOf <- OneToolChain
    Files = {f1, f2}
    Slots = 1
    Offers = {2}
    MaxSessions = 1
    Leavers = {c1}
    MaxLeaving = 1
INVARIANTS
    TypeOK
    JobsHaveOneHolder
    JobsStartWithTools
    ActiveIsExact
    SlotsNotOverbooked
    RequestsCanBeAnswered
    OwnersUpload
    CompleteToolsAreNoticed
PROPERTIES
    ReadyJobsEnd
