SPECIFICATION Spec
CONSTANTS
    cl = cl
    None = None
    Jobs = {j1, j2}
    Clients = {c1, c2}
    WorkerThreads = {w1}
    Tools = {cl}
    ToolOf <- OneToolChain
    Files = {f1}
    Slots = 1
    Offers = {0, 1}
    MaxSessions = 1
    Leavers = {c1, c2}
    MaxLeaving = 1
SYMMETRY Interchangeable
INVARIANTS
    SomebodyUploads
