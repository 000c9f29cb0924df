CONSTANTS
    j1 = j1
    j2 = j2
    j3 = j3
    NoJob = NoJob
    Jobs = {j1, j2}
    Unhandled = {j2}
    MaxRetries <- AllTwice
    BufferSize = 1
SPECIFICATION FairSpec
INVARIANTS
    OneDelivery
    PendingIsDelivered
PROPERTIES
    ImplementsLifecycle
    StopReturns
    ServedUnlessStuck
CHECK_DEADLOCK FALSE
