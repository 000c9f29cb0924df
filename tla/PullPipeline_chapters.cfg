CONSTANTS
    c1 = c1
    c2 = c2
    p1 = p1
    p2 = p2
    None = None
    Chapters = {c1, c2}
    Pages = {p1}
    Imported = {}
    WithCover = FALSE
    FirstSource = 1
    UserOps = {"refreshManga"}
    FailureKinds = {"transient"}
    MaxRetries = 2
    MaxConcurrency = 2
    MaxPulls = 2
    MaxJobs = 4
    MaxUserOps = 1
    MaxFetchFailures = 0
    MaxFaults = 1
    MaxCrashes = 1
SPECIFICATION Spec
INVARIANT TypeOK
INVARIANT NoDuplicateChapterPull
INVARIANT UndisturbedPullSchedulesChapters
SYMMETRY ChapterSymmetry
CHECK_DEADLOCK FALSE
