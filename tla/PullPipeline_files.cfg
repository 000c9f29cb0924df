CONSTANTS
    c1 = c1
    c2 = c2
    p1 = p1
    p2 = p2
    None = None
    Chapters = {c1}
    Pages = {p1, p2}
    Imported = {}
    WithCover = TRUE
    FirstSource = 0
    UserOps = {"progress", "deleteFiles", "deleteChapter", "pullChapter", "cancel", "bind",
               "refreshChapter", "saveChapter"}
    FailureKinds = {"transient"}
    MaxRetries = 2
    MaxConcurrency = 2
    MaxPulls = 1
    MaxJobs = 5
    MaxUserOps = 1
    MaxFetchFailures = 1
    MaxFaults = 0
    MaxCrashes = 0
SPECIFICATION FairSpec
INVARIANTS
    DownloadedIsComplete
    ClaimHasOwner
PROPERTY PullCompletes
CHECK_DEADLOCK FALSE
