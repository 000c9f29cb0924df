SPECIFICATION Spec
CONSTANTS
    Sources = {"A", "B"}
    Readable = {"A", "B"}
    Titles = {"t0", "t1"}
    Notes = {"", "n1"}
    Statuses = {"reading", "dropped"}
    Bound <- BoundToBoth
    Active <- ReadsA
    Syncs = {"s1", "s2"}
    MaxOps = 3
    Lossy = TRUE
INVARIANTS
    TypeOK
    ContentIsBound
    ReportedUserFieldsAreStored
    ReportedProviderStaysBound
    QuietViewIsFresh
CHECK_DEADLOCK FALSE
