SPECIFICATION Spec
CONSTANTS
    Chapters = {1, 2}
    Begun = {1, 2}
    Finished = {1}
    Queries = {{1, 2}, {1}}
    MaxOps = 2
    MaxPulls = 1
    Lossy = TRUE
VIEW LiveState
INVARIANTS
    TypeOK
    QuietListIsFresh
    CtaLeadsOn
    SpinnerIsHonest
CHECK_DEADLOCK FALSE
