CONSTANTS
    j1 = j1
    j2 = j2
    j3 = j3
    w1 = w1
    w2 = w2
    g1 = g1
    NoJob = NoJob
    NoGroup = NoGroup
    Jobs = {j1, j2}
    Workers = {w1, w2}
    Groups = {g1}
    GroupOf <- OnlyFirstInGroup
    GroupLimit <- LimitOne
    Unhandled <- NoneUnhandled
    MaxRetries <- Budgets
    MaxConcurrency = 2
    MaxFaults = 1
    MaxRestarts = 1
SPECIFICATION Spec
INVARIANTS
    TypeOK
    SlotAccounting
    RunningIsOwned
    ExclusiveExecution
    RetryBudget
PROPERTIES
    SettledIsFinal
    ImplementsLifecycle
SYMMETRY WorkerSymmetry
CHECK_DEADLOCK FALSE
