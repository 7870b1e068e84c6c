SPECIFICATION Spec
CONSTANTS
    cl = cl
    None = None
    Jobs = {j1, j2, j3}
    Clients = {c1, c2, c3}
    WorkerThreads = {w1}
    Tools = {cl}
    ToolOf <- OneToolChain
    Files = {f1}
    Slots = 2
    Offers = {1}
    MaxSessions = 1
    Leavers = {c1, c2}
    MaxLeaving = 1
SYMMETRY Interchangeable
INVARIANTS
    SomeJobWaits
