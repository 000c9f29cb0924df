--------------------------- MODULE PullPipeline ---------------------------
(***************************************************************************)
(* The pull pipeline for one manga and one provider: the handlers of       *)
(* internal/queue/pull_handler.go on top of the library's files            *)
(* (internal/library/library.go) and beside the requests that touch the    *)
(* same files.                                                             *)
(*                                                                         *)
(* pull_manga saves the chapters it misses and enqueues pull_chapter for   *)
(* each, pull_chapter resolves the pages and enqueues pull_page for each,  *)
(* pull_cover fetches the cover under the claim file .cover-pending. The   *)
(* library's own mutex makes each of its operations one step; the striped  *)
(* manga lock is held by pull_manga and by the end of pull_page across     *)
(* several. The queue is abstracted to pending, running and settled jobs   *)
(* (module SqliteQueue has its inner workings).                            *)
(***************************************************************************)
EXTENDS Naturals, Sequences, FiniteSets

CONSTANTS
    Chapters,          \* chapter ids the provider lists
    Pages,             \* page indices of every chapter
    None,              \* no chapter, no page
    Imported,          \* chapters the library knows before any pull
    WithCover,         \* TRUE when the manga has a cover URL
    FirstSource,       \* the content source at the start, 0 for none
    UserOps,           \* requests that are made meanwhile
    FailureKinds,      \* how an upstream fetch may fail
    MaxRetries,        \* MaxRetries of the jobs (3 in the code)
    MaxConcurrency,    \* goroutines the driver runs at once
    MaxPulls,          \* bound: pull_manga requests
    MaxJobs,           \* bound: jobs in the table
    MaxUserOps,        \* bound: requests beside the pulls
    MaxFetchFailures,  \* bound: failed upstream fetches
    MaxFaults,         \* bound: file system or job store errors
    MaxCrashes         \* bound: process restarts

ASSUME PullAssumption ==
    /\ IsFiniteSet(Chapters) /\ IsFiniteSet(Pages) /\ Pages # {}
    /\ None \notin Chapters \cup Pages
    /\ Imported \subseteq Chapters
    /\ WithCover \in BOOLEAN /\ FirstSource \in Nat
    /\ UserOps \subseteq {"progress", "bind", "cancel", "deleteFiles",
                    "deleteChapter", "pullChapter", "refreshChapter", "saveChapter",
                    "refreshManga"}
    /\ FailureKinds \subseteq {"transient", "permanent"}
    /\ MaxRetries \in Nat \ {0} /\ MaxConcurrency \in Nat \ {0}

VARIABLES
    jobs,      \* the job table with, in pc, where a job's handler stands
    meta,      \* meta.json of each chapter, or NoMeta
    files,     \* page images on disk
    cover,     \* cover.<ext> exists
    claim,     \* .cover-pending exists
    bindings,  \* bindings.json: the user's content source, and its sync stamp
    lock,      \* mangaLocks: the job that holds it, 0 when free
    spent,     \* requests, failed fetches, faults and restarts so far
    leaked,    \* history: the one who owed the release of the claim is gone
    deleted,   \* history: chapters that were deleted at some time
    refreshing,\* requests that hold a copy and are going to save it
    added,     \* history: chapters such a request added to the library
    lost       \* history: chapters whose PageCount a save without it replaced

disk == <<meta, files, cover, claim, bindings>>
outside == <<refreshing, added, lost>>
vars == <<jobs, meta, files, cover, claim, bindings, lock, spent, leaked, deleted, outside>>

Kinds    == {"manga", "chapter", "page", "cover"}
NoMeta   == [paged |-> FALSE, stamped |-> FALSE, progress |-> 0, there |-> FALSE]
NewMeta  == [NoMeta EXCEPT !.there = TRUE]
NoSource == [source |-> 0, synced |-> FALSE]

NewJob(kind, c, p, parent) ==
    [kind |-> kind, ch |-> c, pg |-> p, parent |-> parent, st |-> "pending",
     tries |-> 0, pc |-> "idle", todo |-> {}, metaCopy |-> NoMeta, bindCopy |-> NoSource]

Ids       == DOMAIN jobs
Working   == {i \in Ids : jobs[i].pc # "idle"}
At(i, kind, pc) == jobs[i].kind = kind /\ jobs[i].pc = pc
HasMeta(c) == meta[c].there

\* countDownloadedPages and getChapterFileStatus.
DownloadedPages(c) == {p \in Pages : <<c, p>> \in files}
IsDownloaded(c) ==
    /\ HasMeta(c)
    /\ DownloadedPages(c) # {}
    /\ meta[c].paged => Cardinality(DownloadedPages(c)) >= Cardinality(Pages)

Init ==
    /\ jobs = <<>>
    /\ meta = [c \in Chapters |-> IF c \in Imported THEN NewMeta ELSE NoMeta]
    /\ files = {}
    /\ cover = FALSE
    /\ claim = FALSE
    /\ bindings = [NoSource EXCEPT !.source = FirstSource]
    /\ lock = 0
    /\ spent = [pulls |-> 0, ops |-> 0, fetches |-> 0, faults |-> 0, crashes |-> 0]
    /\ leaked = FALSE
    /\ deleted = {}
    /\ refreshing = {}
    /\ added = {}
    /\ lost = {}

Spend(what) == spent' = [spent EXCEPT ![what] = @ + 1]

----------------------------------------------------------------------------
(***************************************************************************)
(* The queue as the handlers see it                                        *)
(***************************************************************************)
\* Names ending in Mutant are slips a programmer could make in the definition
\* below them; no action uses them.
Goto(i, pc) == jobs' = [jobs EXCEPT ![i].pc = pc]

AfterMutant(j, r) ==
    IF j.st # "running" THEN j.st
    ELSE IF r = "ok" THEN "done"
    ELSE IF r = "permanent" \/ j.tries + 2 >= MaxRetries THEN "failed" ELSE "pending"

\* finalizeJob: a job that is no longer running (cancelled) is left alone.
After(j, r) ==
    IF j.st # "running" THEN j.st
    ELSE IF r = "ok" THEN "done"
    ELSE IF r = "permanent" \/ j.tries + 1 >= MaxRetries THEN "failed" ELSE "pending"

Ended(j, r) ==
    [j EXCEPT !.pc = "idle", !.todo = {}, !.metaCopy = NoMeta, !.bindCopy = NoSource,
              !.st = After(j, r),
              !.tries = IF r = "ok" \/ j.st # "running" THEN @ ELSE @ + 1]

End(i, r) == jobs' = [jobs EXCEPT ![i] = Ended(jobs[i], r)]

\* The deferred Unlock.
Unlocked(i) == IF lock = i THEN 0 ELSE lock

Claim(i) ==
    /\ jobs[i].st = "pending" /\ jobs[i].pc = "idle"
    /\ Cardinality(Working) < MaxConcurrency
    /\ jobs' = [jobs EXCEPT ![i].st = "running", ![i].pc = "fetch"]
    /\ UNCHANGED <<disk, lock, spent, leaked, deleted, outside>>

\* Job i goes on as j and enqueueChild creates child.
WithChild(i, j, child) == jobs' = Append([jobs EXCEPT ![i] = j], child)
RoomForChild == Len(jobs) < MaxJobs

----------------------------------------------------------------------------
(***************************************************************************)
(* HandlePullManga                                                         *)
(***************************************************************************)
MissingMutant == Chapters
Missing == {c \in Chapters : ~HasMeta(c)}

ListChaptersMutant(i) ==
    /\ At(i, "manga", "fetch")
    /\ jobs' = [jobs EXCEPT ![i].pc = "chapters", ![i].todo = Missing]
    /\ UNCHANGED <<disk, lock, spent, leaked, deleted, outside>>

\* FetchChapters has answered; the lock is taken and the library listed.
ListChapters(i) ==
    /\ At(i, "manga", "fetch")
    /\ lock = 0
    /\ lock' = i
    /\ jobs' = [jobs EXCEPT ![i].pc = "chapters", ![i].todo = Missing]
    /\ UNCHANGED <<disk, spent, leaked, deleted, outside>>

\* The list was made under the lock, but a refresh may have added the chapter
\* since, and its pages may have been pulled.
SaveChapter(i) ==
    /\ At(i, "manga", "chapters")
    /\ \E c \in jobs[i].todo :
          /\ meta' = [meta EXCEPT ![c] = NewMeta]
          /\ lost' = IF c \in added /\ meta[c].paged THEN lost \cup {c} ELSE lost
          /\ jobs' = [jobs EXCEPT ![i].pc = "saved", ![i].ch = c]
    /\ UNCHANGED <<files, cover, claim, bindings, lock, spent, leaked, deleted, refreshing, added>>

EnqueuePullChapterMutant(i) ==
    LET j == jobs[i]
    IN  /\ At(i, "manga", "saved")
        /\ RoomForChild
        /\ WithChild(i, [j EXCEPT !.pc = "chapters", !.todo = {}, !.ch = None],
                     NewJob("chapter", j.ch, None, i))
        /\ UNCHANGED <<disk, lock, spent, leaked, deleted, outside>>

EnqueuePullChapter(i) ==
    LET j == jobs[i]
    IN  /\ At(i, "manga", "saved")
        /\ RoomForChild
        /\ WithChild(i, [j EXCEPT !.pc = "chapters", !.todo = @ \ {j.ch}, !.ch = None],
                     NewJob("chapter", j.ch, None, i))
        /\ UNCHANGED <<disk, lock, spent, leaked, deleted, outside>>

\* ClaimCoverEnqueue: the O_EXCL file, unless there is a cover already.
ClaimCover(i) ==
    LET claimed == WithCover /\ ~cover /\ ~claim
    IN  /\ At(i, "manga", "chapters")
        /\ jobs[i].todo = {}
        /\ claim' = (claimed \/ claim)
        /\ Goto(i, IF claimed THEN "claimed" ELSE "bindings")
        /\ UNCHANGED <<meta, files, cover, bindings, lock, spent, leaked, deleted, outside>>

EnqueuePullCover(i) ==
    /\ At(i, "manga", "claimed")
    /\ RoomForChild
    /\ WithChild(i, [jobs[i] EXCEPT !.pc = "bindings"], NewJob("cover", None, None, i))
    /\ UNCHANGED <<disk, lock, spent, leaked, deleted, outside>>

\* GetBindings, then SaveBindings with the stamp, as two library operations;
\* without a content source there is nothing to stamp.
GetBindings(i) ==
    /\ At(i, "manga", "bindings")
    /\ IF bindings.source = 0
       THEN End(i, "ok") /\ lock' = Unlocked(i)
       ELSE /\ jobs' = [jobs EXCEPT ![i].pc = "stamp", ![i].bindCopy = bindings]
            /\ UNCHANGED lock
    /\ UNCHANGED <<disk, spent, leaked, deleted, outside>>

SaveBindings(i) ==
    /\ At(i, "manga", "stamp")
    /\ bindings' = [jobs[i].bindCopy EXCEPT !.synced = TRUE]
    /\ End(i, "ok")
    /\ lock' = Unlocked(i)
    /\ UNCHANGED <<meta, files, cover, claim, spent, leaked, deleted, outside>>

----------------------------------------------------------------------------
(***************************************************************************)
(* HandlePullChapter                                                       *)
(***************************************************************************)
SaveChapterPagesMutant(i) ==
    LET c == jobs[i].ch
    IN  /\ At(i, "chapter", "fetch")
        /\ jobs' = [jobs EXCEPT ![i].pc = "pages", ![i].todo = Pages]
        /\ UNCHANGED <<disk, lock, spent, leaked, deleted, outside>>

\* FetchPages has answered: SaveChapterPages writes pages.json (which nobody
\* in the pipeline reads) and, if there is a meta.json, its page_count.
SaveChapterPages(i) ==
    LET c == jobs[i].ch
    IN  /\ At(i, "chapter", "fetch")
        /\ meta' = IF HasMeta(c) THEN [meta EXCEPT ![c].paged = TRUE] ELSE meta
        /\ jobs' = [jobs EXCEPT ![i].pc = "pages", ![i].todo = Pages]
        /\ UNCHANGED <<files, cover, claim, bindings, lock, spent, leaked, deleted, outside>>

EnqueuePullPage(i) ==
    /\ At(i, "chapter", "pages")
    /\ RoomForChild
    /\ \E p \in jobs[i].todo :
          WithChild(i, [jobs[i] EXCEPT !.todo = @ \ {p}], NewJob("page", jobs[i].ch, p, i))
    /\ UNCHANGED <<disk, lock, spent, leaked, deleted, outside>>

PullChapterDone(i) ==
    /\ At(i, "chapter", "pages")
    /\ jobs[i].todo = {}
    /\ End(i, "ok")
    /\ UNCHANGED <<disk, lock, spent, leaked, deleted, outside>>

----------------------------------------------------------------------------
(***************************************************************************)
(* HandlePullPage                                                          *)
(***************************************************************************)
\* downloadImage: from the image cache or from upstream, put in place by a
\* link or a rename; the chapter's directory is created if need be.
DownloadPage(i) ==
    /\ At(i, "page", "fetch")
    /\ files' = files \cup {<<jobs[i].ch, jobs[i].pg>>}
    /\ Goto(i, "downloaded")
    /\ UNCHANGED <<meta, cover, claim, bindings, lock, spent, leaked, deleted, outside>>

\* Under the manga lock: GetChapter, which fails when meta.json is gone ...
GetChapter(i) ==
    /\ At(i, "page", "downloaded")
    /\ lock = 0
    /\ IF HasMeta(jobs[i].ch)
       THEN /\ lock' = i
            /\ jobs' = [jobs EXCEPT ![i].pc = "stamp", ![i].metaCopy = meta[jobs[i].ch]]
       ELSE End(i, "transient") /\ UNCHANGED lock
    /\ UNCHANGED <<disk, spent, leaked, deleted, outside>>

\* ... then SaveChapter of the copy with DownloadedAt.
StampChapter(i) ==
    /\ At(i, "page", "stamp")
    /\ meta' = [meta EXCEPT ![jobs[i].ch] = [jobs[i].metaCopy EXCEPT !.stamped = TRUE]]
    /\ End(i, "ok")
    /\ lock' = Unlocked(i)
    /\ UNCHANGED <<files, cover, claim, bindings, spent, leaked, deleted, outside>>

----------------------------------------------------------------------------
(***************************************************************************)
(* HandlePullCover                                                         *)
(***************************************************************************)
DownloadCover(i) ==
    /\ At(i, "cover", "fetch")
    /\ cover' = TRUE
    /\ Goto(i, "release")
    /\ UNCHANGED <<meta, files, claim, bindings, lock, spent, leaked, deleted, outside>>

ReleaseCoverClaim(i) ==
    /\ At(i, "cover", "release")
    /\ claim' = FALSE
    /\ leaked' = FALSE
    /\ End(i, "ok")
    /\ UNCHANGED <<meta, files, cover, bindings, lock, spent, deleted, outside>>

----------------------------------------------------------------------------
(***************************************************************************)
(* Failures                                                                *)
(***************************************************************************)
FetchFailsMutant(i, r) ==
    /\ jobs[i].pc = "fetch"
    /\ r \in FailureKinds
    /\ spent.fetches < MaxFetchFailures
    /\ Spend("fetches")
    /\ End(i, r)
    /\ UNCHANGED <<disk, lock, leaked, deleted, outside>>

\* The provider or the image host answers with an error; pull_cover gives up
\* its claim then, whether or not it will be tried again.
FetchFails(i, r) ==
    /\ jobs[i].pc = "fetch"
    /\ r \in FailureKinds
    /\ spent.fetches < MaxFetchFailures
    /\ Spend("fetches")
    /\ End(i, r)
    /\ claim' = IF jobs[i].kind = "cover" THEN FALSE ELSE claim
    /\ leaked' = IF jobs[i].kind = "cover" THEN FALSE ELSE leaked
    /\ UNCHANGED <<meta, files, cover, bindings, lock, deleted, outside>>

\* enqueueChild fails, with the child already in the table (Enqueue failed)
\* or not (CreateJob failed); pull_manga gives up its cover claim.
ChildOf(i) ==
    LET j == jobs[i]
    IN  CASE j.pc = "saved"   -> {NewJob("chapter", j.ch, None, i)}
          [] j.pc = "claimed" -> {NewJob("cover", None, None, i)}
          [] j.pc = "pages"   -> {NewJob("page", j.ch, p, i) : p \in j.todo}
          [] OTHER            -> {}

EnqueueChildFails(i) ==
    LET j == [Ended(jobs[i], "transient") EXCEPT !.ch = IF jobs[i].kind = "manga" THEN None ELSE @]
    IN  /\ spent.faults < MaxFaults
        /\ Spend("faults")
        /\ \E child \in ChildOf(i) :
              \/ jobs' = [jobs EXCEPT ![i] = j]
              \/ RoomForChild /\ WithChild(i, j, child)
        /\ claim' = IF jobs[i].pc = "claimed" THEN FALSE ELSE claim
        /\ leaked' = IF jobs[i].pc = "claimed" THEN FALSE ELSE leaked
        /\ lock' = Unlocked(i)
        /\ UNCHANGED <<meta, files, cover, bindings, deleted, outside>>

\* A library operation fails: the handler returns its error. Only a failed
\* claim is permanent, and only a failed release leaves the claim behind.
LibraryFails(i) ==
    /\ jobs[i].pc \in {"chapters", "bindings", "stamp", "downloaded", "release"}
    /\ spent.faults < MaxFaults
    /\ Spend("faults")
    /\ End(i, IF WithCover /\ jobs[i].pc = "chapters" /\ jobs[i].todo = {}
              THEN "permanent" ELSE "transient")
    /\ leaked' = (leaked \/ (claim /\ jobs[i].pc = "release"))
    /\ lock' = Unlocked(i)
    /\ UNCHANGED <<disk, deleted, outside>>

\* The process ends: handlers are gone, their rows stay as they are.
Crash ==
    /\ spent.crashes < MaxCrashes
    /\ Spend("crashes")
    /\ jobs' = [i \in Ids |-> IF i \in Working
                              THEN [jobs[i] EXCEPT !.pc = "idle", !.todo = {},
                                       !.metaCopy = NoMeta, !.bindCopy = NoSource]
                              ELSE jobs[i]]
    /\ lock' = 0
    /\ leaked' = (leaked \/ (claim /\ \E i \in Working : jobs[i].kind \in {"manga", "cover"}))
    /\ refreshing' = {}
    /\ UNCHANGED <<disk, deleted, added, lost>>

----------------------------------------------------------------------------
(***************************************************************************)
(* Requests                                                                *)
(***************************************************************************)
\* POST /library/manga/:id/pull
PullManga ==
    /\ spent.pulls < MaxPulls
    /\ RoomForChild
    /\ Spend("pulls")
    /\ jobs' = Append(jobs, NewJob("manga", None, None, 0))
    /\ UNCHANGED <<disk, lock, leaked, deleted, outside>>

Request(op) ==
    /\ op \in UserOps
    /\ spent.ops < MaxUserOps
    /\ Spend("ops")

\* POST .../chapters/:id/pull
PullChapter(c) ==
    /\ Request("pullChapter")
    /\ HasMeta(c)
    /\ RoomForChild
    /\ jobs' = Append(jobs, NewJob("chapter", c, None, 0))
    /\ UNCHANGED <<disk, lock, leaked, deleted, outside>>

UpdateChapterProgress(c) ==
    /\ Request("progress")
    /\ HasMeta(c)
    /\ meta' = [meta EXCEPT ![c].progress = @ + 1]
    /\ UNCHANGED <<jobs, files, cover, claim, bindings, lock, leaked, deleted, outside>>

SwitchContentProvider ==
    /\ Request("bind")
    /\ bindings' = [bindings EXCEPT !.source = @ + 1]
    /\ UNCHANGED <<jobs, meta, files, cover, claim, lock, leaked, deleted, outside>>

DeleteChapterFiles(c) ==
    /\ Request("deleteFiles")
    /\ HasMeta(c)
    /\ files' = {f \in files : f[1] # c}
    /\ meta' = [meta EXCEPT ![c].stamped = FALSE]
    /\ UNCHANGED <<jobs, cover, claim, bindings, lock, leaked, deleted, outside>>

DeleteChapter(c) ==
    /\ Request("deleteChapter")
    /\ HasMeta(c)
    /\ files' = {f \in files : f[1] # c}
    /\ meta' = [meta EXCEPT ![c] = NoMeta]
    /\ deleted' = deleted \cup {c}
    /\ UNCHANGED <<jobs, cover, claim, bindings, lock, leaked, outside>>

\* CancelJob: the tree of i; handlers that are at work are not told.
InTree(k, i) ==
    \/ k = i
    \/ jobs[k].parent = i
    \/ jobs[k].parent # 0 /\ jobs[jobs[k].parent].parent = i

CancelJob(i) ==
    LET S == {k \in Ids : InTree(k, i) /\ jobs[k].st \in {"pending", "running"}}
    IN  /\ Request("cancel")
        /\ jobs' = [k \in Ids |-> IF k \in S THEN [jobs[k] EXCEPT !.st = "cancelled"] ELSE jobs[k]]
        /\ leaked' = (\/ leaked
                      \/ claim /\ \E k \in S : jobs[k].kind = "cover" /\ jobs[k].pc = "idle")
        /\ UNCHANGED <<disk, lock, deleted, outside>>

----------------------------------------------------------------------------
(***************************************************************************)
(* Requests that read, ask the provider and save what they read, without   *)
(* the manga lock                                                          *)
(***************************************************************************)
\* A request on its way: the chapters it is going to save and the copy they
\* get, for refreshLibraryManga the bindings it read as well. One that fails
\* (the provider, the storage, a client gone away) takes no further step.
Refresh(stage, todo, copy, binds) ==
    [id |-> spent.ops, stage |-> stage, todo |-> todo, copy |-> copy, binds |-> binds]

\* refreshChapter and refreshChaptersBatch take the chapter's meta.json and
\* change its title, number and dates; the batch makes a new one where there
\* is none. POST saveChapter takes the document its client read or made.
CopiesFor(op, c) ==
    IF HasMeta(c) /\ op = "refreshChapter" THEN {meta[c]}
    ELSE {NewMeta} \cup (IF HasMeta(c) THEN {meta[c]} ELSE {})

RefreshChapter(op, c) ==
    /\ op \in {"refreshChapter", "saveChapter"}
    /\ Request(op)
    /\ \E copy \in CopiesFor(op, c) :
          refreshing' = refreshing \cup {Refresh("saving", {c}, copy, NoSource)}
    /\ UNCHANGED <<jobs, disk, lock, leaked, deleted, added, lost>>

\* refreshLibraryManga: GetManga, and nothing without a content source ...
RefreshManga ==
    /\ Request("refreshManga")
    /\ bindings.source # 0
    /\ refreshing' = refreshing \cup {Refresh("listing", {}, NewMeta, bindings)}
    /\ UNCHANGED <<jobs, disk, lock, leaked, deleted, added, lost>>

\* ... FetchChapters and ListChapters; the content source may be another
\* provider, whose chapters are not these.
RefreshLists(r) ==
    /\ r.stage = "listing"
    /\ \E todo \in {{}, Missing} :
          refreshing' = (refreshing \ {r}) \cup {[r EXCEPT !.stage = "saving", !.todo = todo]}
    /\ UNCHANGED <<jobs, disk, lock, spent, leaked, deleted, added, lost>>

\* SaveChapter of the copy, whatever meta.json says by now.
RefreshSaves(r) ==
    /\ r.stage = "saving"
    /\ \E c \in r.todo :
          /\ meta' = [meta EXCEPT ![c] = r.copy]
          /\ refreshing' = (refreshing \ {r}) \cup
                {q \in {[r EXCEPT !.todo = @ \ {c}]} : q.todo # {} \/ q.binds # NoSource}
          /\ added' = IF HasMeta(c) THEN added ELSE added \cup {c}
          /\ lost' = IF meta[c].paged /\ ~r.copy.paged THEN lost \cup {c} ELSE lost
    /\ UNCHANGED <<jobs, files, cover, claim, bindings, lock, spent, leaked, deleted>>

\* refreshLibraryManga ends with SaveBindings of the copy it began with.
RefreshBinds(r) ==
    /\ r.stage = "saving" /\ r.todo = {} /\ r.binds # NoSource
    /\ bindings' = [r.binds EXCEPT !.synced = TRUE]
    /\ refreshing' = refreshing \ {r}
    /\ UNCHANGED <<jobs, meta, files, cover, claim, lock, spent, leaked, deleted, added, lost>>

----------------------------------------------------------------------------
Handle(i) ==
    \/ ListChapters(i) \/ SaveChapter(i) \/ EnqueuePullChapter(i)
    \/ ClaimCover(i) \/ EnqueuePullCover(i)
    \/ GetBindings(i) \/ SaveBindings(i)
    \/ SaveChapterPages(i) \/ EnqueuePullPage(i) \/ PullChapterDone(i)
    \/ DownloadPage(i) \/ GetChapter(i) \/ StampChapter(i)
    \/ DownloadCover(i) \/ ReleaseCoverClaim(i)

Failure ==
    \/ \E i \in Ids : \/ \E r \in {"transient", "permanent"} : FetchFails(i, r)
                      \/ EnqueueChildFails(i)
                      \/ LibraryFails(i)
    \/ Crash

Requests ==
    \/ PullManga
    \/ SwitchContentProvider
    \/ \E c \in Chapters : \/ PullChapter(c) \/ UpdateChapterProgress(c)
                           \/ DeleteChapterFiles(c) \/ DeleteChapter(c)
    \/ \E i \in Ids : CancelJob(i)
    \/ \E c \in Chapters, op \in UserOps : RefreshChapter(op, c)
    \/ RefreshManga
    \/ \E r \in refreshing : RefreshLists(r) \/ RefreshSaves(r) \/ RefreshBinds(r)

Next == (\E i \in Ids : Claim(i) \/ Handle(i)) \/ Failure \/ Requests

Spec == Init /\ [][Next]_vars

\* Pending jobs are claimed (PendingIsServed of SqliteQueue), handlers are
\* scheduled, and a mutex is granted to one of its waiters.
Fairness ==
    \A i \in 1..MaxJobs :
       /\ WF_vars(i \in Ids /\ Claim(i))
       /\ SF_vars(i \in Ids /\ Handle(i))

FairSpec == Spec /\ Fairness

----------------------------------------------------------------------------
(***************************************************************************)
(* Properties                                                              *)
(***************************************************************************)
MetaTypes   == [paged : BOOLEAN, stamped : BOOLEAN, progress : Nat, there : BOOLEAN]
SourceTypes == [source : Nat, synced : BOOLEAN]
Steps       == {"idle", "fetch", "chapters", "saved", "claimed", "bindings", "stamp", "pages",
                "downloaded", "release"}
Inside      == {"chapters", "saved", "claimed", "bindings", "stamp"}
JobTypes    == [kind : Kinds, ch : Chapters \cup {None}, pg : Pages \cup {None}, parent : Nat,
                st : {"pending", "running", "done", "failed", "cancelled"},
                tries : 0..MaxRetries, pc : Steps, todo : SUBSET (Chapters \cup Pages),
                metaCopy : MetaTypes, bindCopy : SourceTypes]

RefreshTypes == [id : Nat, stage : {"listing", "saving"}, todo : SUBSET Chapters,
                 copy : {m \in MetaTypes : m.there}, binds : SourceTypes]

\* Types; the lock is held exactly by a handler that is inside its section.
TypeOK ==
    /\ jobs \in Seq(JobTypes)
    /\ meta \in [Chapters -> MetaTypes]
    /\ files \subseteq Chapters \X Pages
    /\ cover \in BOOLEAN /\ claim \in BOOLEAN /\ leaked \in BOOLEAN
    /\ bindings \in SourceTypes
    /\ spent \in [pulls : Nat, ops : Nat, fetches : Nat, faults : Nat, crashes : Nat]
    /\ deleted \subseteq Chapters /\ added \subseteq Chapters /\ lost \subseteq Chapters
    /\ refreshing \subseteq RefreshTypes
    /\ lock \in Ids \cup {0}
    /\ \A i \in Ids : lock = i <=> jobs[i].pc \in Inside

\* Overlapping pull_manga jobs, their retries and their crashes never enqueue
\* pull_chapter twice for a chapter: the listing and the saving happen under
\* the manga lock. A chapter that was deleted may be pulled again.
NoDuplicateChapterPull ==
    \A i, k \in Ids :
       /\ jobs[i].kind = "chapter" /\ jobs[i].parent # 0
       /\ jobs[k].kind = "chapter" /\ jobs[k].parent # 0
       /\ jobs[i].ch = jobs[k].ch /\ jobs[i].ch \notin deleted
       => i = k

\* "For each missing chapter, creates chapter metadata (meta.json) and
\* enqueues a child pull_chapter job" (docs/design/content_pull.md): once a
\* pull_manga job is done, each chapter that nobody else had added (an import
\* or a refresh) has its pull_chapter.
CompletedPullSchedulesChapters ==
    (\E i \in Ids : jobs[i].kind = "manga" /\ jobs[i].st = "done") =>
       \A c \in Chapters \ (Imported \cup added) :
          \E k \in Ids : jobs[k].kind = "chapter" /\ jobs[k].ch = c

\* The same as long as no step of several failed: a storage error or a crash
\* between SaveChapter and enqueueChild is what loses a chapter.
UndisturbedPullSchedulesChapters ==
    spent.faults = 0 /\ spent.crashes = 0 => CompletedPullSchedulesChapters

\* A chapter reported as downloaded has every page on disk, at every moment
\* of the pull: PageCount is known before the first page can arrive, and the
\* copies pull_page writes back have it. What escapes is named: a chapter that
\* was deleted and saved anew while pages of the old pull still arrive, and
\* one whose PageCount was overwritten by a save that is not under the manga
\* lock, of a copy made before pull_chapter stored it (RefreshSaves), or by a
\* pull_manga that listed the chapter as missing before a refresh added it.
DownloadedIsComplete ==
    \A c \in Chapters \ (deleted \cup lost) : IsDownloaded(c) => DownloadedPages(c) = Pages

\* The claim file always has somebody who will remove it, the pull_manga
\* that made it or a pull_cover job to come, unless that one was cancelled
\* or lost with the process, or failed to remove it.
ClaimHasOwner ==
    claim => \/ leaked
             \/ \E i \in Ids : \/ At(i, "manga", "claimed")
                               \/ jobs[i].kind = "cover" /\ jobs[i].pc # "idle"
                               \/ jobs[i].kind = "cover" /\ jobs[i].st = "pending"

\* Fewer transient failures than MaxRetries never lose anything: every
\* requested pull ends with all pages and the cover on disk, the chapters
\* stamped and the claim released, if nobody else interferes and no storage
\* error or crash is met.
PullCompletes ==
    (spent.pulls > 0) ~>
       \/ spent.ops + spent.faults + spent.crashes > 0
       \/ /\ files = Chapters \X Pages
          /\ \A c \in Chapters : meta[c].stamped
          /\ WithCover => cover
          /\ ~claim

(***************************************************************************)
(* What the documentation says and the pipeline does not keep              *)
(***************************************************************************)
\* "Atomic locking ensuring only one cover pull is enqueued at a time per
\* manga" (docs/design/content_pull.md): a failed attempt gives up the claim
\* although its job is going to be retried.
OneCoverPull ==
    \A i, k \in Ids :
       /\ jobs[i].kind = "cover" /\ jobs[i].st \in {"pending", "running"}
       /\ jobs[k].kind = "cover" /\ jobs[k].st \in {"pending", "running"}
       => i = k

\* DownloadedIsComplete without the exemption of `lost`, which refreshChapter
\* breaks: its copy of meta.json, made before pull_chapter stored PageCount, is
\* saved while pages arrive, and the first one makes the chapter "downloaded".
PageCountIsKept ==
    \A c \in Chapters \ deleted : IsDownloaded(c) => DownloadedPages(c) = Pages

\* "so a failed cover fetch can be re-enqueued" (ClaimCoverEnqueue): a claim
\* whose pull_cover was cancelled before it ran is never released.
ClaimIsReleased == claim ~> ~claim

\* "without losing their position" (docs/design/reading_progress.md): reading
\* progress saved while pull_page stamps the chapter is overwritten.
ProgressIsKept ==
    [][\A c \in Chapters : meta'[c].there => meta'[c].progress >= meta[c].progress]_vars

\* "Updates content.last_synced_at in bindings.json": a provider switched to
\* while pull_manga stamps the bindings is switched back.
BindingIsKept == [][bindings'.source >= bindings.source]_vars
=============================================================================
