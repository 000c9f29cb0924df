SPECIFICATION Spec
CONSTANTS
    Sources = {"A", "B"}
    Readable = {"A"}
    Ids = {1}
    Local <- Manga
    LocalMode = "rtl"
    Bound <- BoundToA
    Active <- ReadsA
    Offer <- Offers
    Other <- OtherManga
    MaxOps = 4
    MaxEdits = 1
    MaxForeign = 1
    Lossy = TRUE
VIEW LiveState
INVARIANTS
    ReportedImportIsApplied
    QuietViewIsFresh
    ReportedMergeIsWhole
CHECK_DEADLOCK FALSE
