CONSTANTS
    j1 = j1
    j2 = j2
    j3 = j3
    w1 = w1
    w2 = w2
    g1 = g1
    NoJob = NoJob
    NoGroup = NoGroup
    Jobs = {j1, j2}
    Workers = {w1, w2}
    Groups = {g1}
    GroupOf <- FirstTwoInGroup
    GroupLimit <- LimitOne
    Unhandled <- NoneUnhandled
    MaxRetries <- Budgets
    MaxConcurrency = 2
    MaxFaults = 0
    MaxRestarts = 1
SPECIFICATION FairSpec
INVARIANTS
    GroupAccounting
PROPERTIES
    PendingIsServed
CHECK_DEADLOCK FALSE
