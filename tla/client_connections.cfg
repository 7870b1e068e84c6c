SPECIFICATION FairSpec
CONSTANTS
    Nobody = Nobody
    Workers = {w1}
    WorkerConnectionLimit = 1
    MaxAvailable = 1
    MaxRequests = 1
    MaxSignals = 2
INVARIANTS
    TypeOK
    NoUseAfterFree
    ShutDownBeforeDeleted
    WakeUpsSuffice
PROPERTIES
    ClientExits
    LostConnectionsEnd
    MessagesLeave
