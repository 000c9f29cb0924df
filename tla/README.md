# A TLA+ model of kiyomi

kiyomi is a self-hosted manga server: a Go backend that keeps a library of
files, pulls chapters from content providers through a background job queue,
runs providers as plugin processes, and serves a React frontend. This directory
holds TLA+ modules of its concurrent core and of the stateful parts of the
frontend, TLC configurations that check them on small instances, and TLAPS proofs
of their safety properties for every instance.

Run from this directory: `tlc -config SqliteQueue_safety.cfg MCSqliteQueue`,
`tlapm SqliteQueueProofs.tla`. `PROJECT.json` lists every run, mutant, finding,
hazard and theorem, and the source lines behind every definition.

## 1. Inventory

| Component | State | Operations | Hard behaviour | What makes it correct |
|---|---|---|---|---|
| Job queue contract (`internal/queue/queue.go`) | status of a job | submit, claim, attempt, retry, settle, remove | two drivers, one contract | settled is final; a claim is exclusive |
| SQLite driver (`internal/queue/sqlite/driver.go`) | table `jobs`; `runningCount`, `activeGroups` in memory | CreateJob, Enqueue, CancelJob, DeleteJob, CleanupJobs, poll, run, finalize, Stop | poller against creators, cancels and deletes; storage errors; crash and reopen | limits hold, one goroutine per job, retry budget, every pending job served |
| In-memory driver (`internal/queue/inmemory/driver.go`) | map of jobs, channel `queueChan` | the same, with one worker | worker sends to the channel it reads; deletes under the worker's pointer | no identifier delivered twice or lost; Stop returns |
| Machinery driver (`internal/queue/machinery`) | in Redis | thin mapping | external | not modelled |
| Pull pipeline (`internal/queue/pull_handler.go`) | library files, claim file, striped manga lock | pull_manga, pull_chapter, pull_page, pull_cover, refresh_metadata | overlapping pulls, retries of half-done work, requests on the same files | nothing pulled twice, nothing lost, no half-downloaded chapter shown as complete |
| Job API (`internal/api/job_handler.go`) | none | create, cancel, delete, clean up | CreateJob and Enqueue are two calls, with a compensating delete | a failed request leaves no job |
| Library (`internal/library/library.go`) | one directory per manga: `metadata.json`, `bindings.json`, `user_state.json`, chapters with `meta.json`, `pages.json`, images, cover | about 60 operations under one RWMutex | read-modify-write across two operations | no lost update, claims released |
| Library API (`internal/api/library_handler.go`) | none | import, progress, bindings, merge, refresh, delete, pull | several library operations per request | same |
| Image cache (`internal/cache/cache.go`) | image and sidecar file per URL | GetPath, GetOrFetch, CopyTo, purge, Clear | singleflight; purge without the lock | one fetch per URL; sidecar belongs to image |
| Plugin host (`internal/plugin/host`) | instances, binary paths, configuration, processes | ReloadAll, Reload, Start, Close, UpdatePluginConfig, drain | overlapping reloads, calls in flight, replaced binaries | current instance alive and routed; calls drained; no process left behind |
| Provider registry (`pkg/provider/registry.go`) | candidates, routing tables, preferences | Register, UnregisterPlugin, lookups, preference | lookups between steps of the manager | no route to a dead process; precedence |
| Plugin SDK HTTP client (`plugin-sdk/http`) | token bucket, retry state | request with rate limit, retry, Retry-After | limits under concurrency | never over the rate; bounded retries |
| Provider SDK (`pkg/provider/sdk`) | none | error classification, selectors | - | permanent errors are not retried |
| Reader (`web/src/routes/ReaderPage.tsx`, `hooks/useReader*.ts`) | page, resumed chapter, animation, timers, cached chapters | turn, swipe, scroll, change chapter or mode, save | answers in any order, timers that outlive a chapter, lost saves | the page saved is the page read; no input lock stays |
| Details page (`routes/DetailsPage.tsx`, `components/details`, `components/chapter-list`) | cached chapters and jobs, optimistic pulls, selection | pull, refresh, delete, mark, in rows and batches | polling against jobs and mutations | the list settles on the server's; no spinner for ever |
| Metadata dialogs (`components/import-metadata`, `components/merge-manga`) | candidate, cards, loading flag, import under way | search, look up, compare, import, merge | late answers after closing; three requests, one of them failing | what is reported as imported is what the click captured; a merge loses nothing |
| Manga record (`EditMetadataDialog`, `DetailsUserMetadata`, `ProviderList`, `AddProviderDialog`) | form, notes, add dialog, cached manga | edit, set status, save notes, add, remove, switch | five writers of three documents, and syncs, each with a cached copy | what is reported as saved is stored; content source is bound |
| Other pages of the frontend | one query or mutation each | - | - | not modelled, see section 8 |
| Guards, resolver, config, logging, bundled plugins, generated code | - | - | - | not modelled, see section 8 |

How they interact: an API request creates a job row and enqueues it; the driver
claims it and calls a handler of the pull pipeline in a goroutine; the handler
calls a provider through the registry (a gRPC adapter of a plugin process),
writes library files, and enqueues child jobs. Requests read and write the same
files and cancel or delete the same jobs; reload requests replace the plugin
processes under the callers; the cleanup worker prunes old job trees. The
frontend keeps what the server answered in a query cache: a mutation sends what
the page has captured, and its success invalidates cached queries, which drops a
fetch under way and starts another. Between those events the page and the server
go their own ways.

## 2. Modules

| Module | Models | Instances |
|---|---|---|
| `JobLifecycle` | what a queue driver promises about one job: the abstract specification | through the drivers |
| `SqliteQueue` | the SQLite driver with its two clients, API requests and `enqueueChild` | `MCSqliteQueue` |
| `SqliteQueueProofs` and the seven other `...Proofs` | theorems about the module of that name (section 6) | - |
| `InMemoryQueue` | the in-memory driver with the same clients | `MCInMemoryQueue` |
| `PullPipeline` | the four pull handlers over the library's files | `MCPullPipeline` |
| `PluginHost` | plugin manager, processes, registry routes and callers | `MCPluginHost` |
| `Reader` | the reader of the frontend with its inputs, timers and saves | `MCReader` |
| `DetailsPage` | chapter list, batch bar, jobs and caches of the details page | itself |
| `MetadataImport` | the import and merge dialogs with the requests they send | `MCMetadataImport` |
| `MangaRecord` | the parts of the page that write a manga's three documents | `MCMangaRecord` |

Definitions that end in `Mutant`, or whose comment begins with it, stand before
the definition they vary. No action uses them; each shows that some property notices a slip at that place.

### SqliteQueue

One function per column of `jobs` (`status`, `retries`, `parent`, `cancelled`),
`exec` for the goroutines of `runJob` (phase, job, the copy of `retries` that
the scan made), `runningCount` and `activeGroups` as in the code. `creator` says
who stands between `CreateJob` and `Enqueue` of a job: an API request, a request
that is undoing it, or a goroutine. `victims` is what the first statement of
`CleanupJobs` returned.

* The pool has one connection (`SetMaxOpenConns(1)`), and `pollAndDispatch` and
  `finalizeJob` hold `activeMu` throughout, so a poll, a finalization and every
  transaction is one action. Everything between two of them interleaves.
* `PollAndDispatch` takes any set of rows that a scan in some row order could
  claim and leave (`Claimable`, `ScanEnds`, `ScanFails`). The code scans in the
  order of `created_at`; leaving the order open adds behaviours, and the
  properties, the liveness of both jobs included, hold with them.
* Each storage error is an action (`PollClaimFails` leaves the slots of rows
  claimed before it taken, as the code does; `PollCommitFails` gives them back;
  `RunJobFails`, `FinalizeJobFails`, `HandlerEnqueueFails`), bounded by
  `MaxFaults`. `Restart` is a crash, or the end after `Stop`: the file is
  reopened, the memory is fresh. `MaxRestarts` bounds both.
* A handler's return is taken together with `finalizeJob`, because it is a step
  of its goroutine alone. The poll trigger channel is abstracted: a poll may
  happen at any time, and must happen eventually (100 ms ticker).
* `reopened` and `stranded` are history: jobs whose `Enqueue` found a row that
  was not pending, and rows left running by a lost goroutine or write.
* Not here: `UpdateJob` (no caller), the read-only queries, timestamps (which prunable tree is old enough is left
  open). Identifiers are UUIDs; a client of the job API may name one itself
  (job_handler.go:63,80-83), and that one reuses the id of a deleted job is left
  out, here and in `InMemoryQueue`.

### InMemoryQueue

`queue` is the buffered channel, `worker` its only reader. `stage` says how far
the creator of a job is; sending blocks while the buffer is full. The worker
keeps a pointer: when its entry is deleted, `worker.object` keeps the status the
detached object has. `processJob` ends by setting the job pending under the lock
and calling `Enqueue` after releasing it; the gap is an action boundary.
`CleanupJobs` is modelled although only tests call it on this driver;
`UpdateJob`, which has no caller, is left out. The status that `processJob` reads without the lock (driver.go:416) is
checked again under it, so the unlocked read adds no behaviour.

### JobLifecycle

`state` and the set `open` of jobs whose submission is not finished. A job is
claimed by one step, may be put back or settled, and a settled or removed job is
only left again while its submission is open. Both drivers implement it under
the mapping in their `Lifecycle` instance; for SQLite this is also proved.

### PullPipeline

One manga and one provider. `jobs` is the job table, with `pc` saying where a
job's handler stands; the queue itself is reduced to pending, running and
settled, and `CreateJob` plus `Enqueue` of a child is one step, because their
race is the subject of `SqliteQueue`. `meta`, `files`, `cover`, `claim` and
`bindings` are the files. Every library operation is one step (it holds the
library's mutex), and the manga lock `lock` is held over several, as in the
code. `metaCopy` and `bindCopy` are what a handler read and will write back.
`refreshing` are the requests that read, ask the provider and save what they read
without that lock: `refreshChapter` and the batch of it, `saveChapter` with a
document of its client, and `refreshLibraryManga`, which saves every missing
chapter anew and then the bindings it began with (`FirstSource` is the content
source at the start, 0 for none). `leaked`, `deleted`, `added` (chapters a refresh
made, which pull_manga then takes for known) and `lost` (chapters whose page count
was saved away by an older copy) are history. `DownloadedIsComplete` exempts
`deleted` and `lost`; the code reports such a chapter as downloaded with its first
page, and `PageCountIsKept`, the same without `lost`, is what it does not keep. A
`saveChapter` whose document has a wrong page count is left out: the
model's clients send a document they read or a new one. `pages.json`, `user_state.json` and image
bytes are left out: no handler of the pipeline reads them. `InTree` looks two
levels up, which is the depth of the trees (manga, chapter, page).

### PluginHost

`proc` are the processes ever launched, `instances` and `paths` the manager's
maps, `route` the registry's candidates per provider and plugin, `reloader` one
`ReloadAll` each, `caller` one provider call each. A launch is two steps, with
the configuration read in the second; `Start` holds `mu` over two (unregister
and close the old instance; register the new one), `Close` over the whole
shutdown. A swap in `Reload` is one step although adapters are registered one by
one: the old process is alive meanwhile, so a lookup between two registrations
sees what a lookup before or after the swap sees. `drain` merges all goroutines
that drain one process; a second one can only do what the first does.
`ActiveCalls` is derived from the callers, since every `startCall` is paired with
one `done`. `cause` and `late` are history. Binaries keep their plugin id.

### Reader

`view` is the chapter on the screen and what is loaded of it, `tr` the state of
`useReaderProgressTracker` (page, resumed, prompt), `server` what is stored. A
device of `Devices` is a way to act: touch and mouse gestures with their springs
and slides, keys, footer, top bar, scrolling, the mode menu. Every `setTimeout`
is an action of its own; a saved page waits 1.5 s in `SaveTimer`, whose effect
arms it again with each change. `shown` are the images that were on the screen
(`OnScreen`: in a paged mode the one of the tracker's page, if the chapter has it; in
a strip the one scrolled to, which is the tracker's if the provider numbers pages from
0, `IndexBase`). A slide ends with `prev + 1`, whatever moved the reader since: after
a change of chapter it may leave the tracker at a page the chapter does not have,
and a key pressed in a strip moves the tracker and does not scroll. `strayed` names
these pages; they are saved like any other, and `SavesAreShown` exempts them. Answers (details, list, pages, saves) come in any
order and, if `Lossy`, not at all. The model shows that a key pressed while the
pages load marks the chapter read at page 0, that pages which arrive before the
list resume at page 1, and that leaving within 1.5 s loses the page, as the
documents say.

### DetailsPage

`server` and `jobs` are the library and the queue; `list` and `jobsSeen` the cached
copies, with their fetches; `opt` the optimistic pulls, `sel` the selection and
`reqs` the requests under way.
A page job stores its file, then reads the chapter's `meta.json` and saves what it
read, in two steps under the manga lock (`stamp`); a mark, a removal or progress in
between is undone on the server, and `behind` records it, since nothing tells the
page. A refresh, of the manga or of a batch, reads and saves chapter by chapter and
may stop half-way; the other batch handlers are one step each. The page count a
stale copy may lose is the subject of `PullPipeline`.
`pull_chapter` completes when its page jobs are enqueued, as in `PullPipeline`;
the page polls the list only while that job is active or an unfinished chapter is
shown. `JobFinished` is the effect that clears an optimistic pull. The refetch on
focus happens once its data are old, and nothing relies on it. Job lists only grow:
deleting or cleaning up jobs (job_handler.go:147-226) before the page has seen them
finished is left out, so `SpinnerIsHonest` says nothing about a job that vanishes.

### MetadataImport

A reference `<<provider, id>>` names a remote manga. `loads` are the requests for
details under way, each with its fallback, because no answer is matched with what
the dialog now shows; `imp` is what the import captured, phase by phase: metadata,
content source, binding, or one merge. `Apply` is the server: the metadata PATCH
replaces the document, the merge deletes its sources (best effort) before it saves
the result and takes links and attributes without regard to the choice. The merge
handler (library_handler.go:1415-1549) is one step, or two when its save fails;
writers between its read and its save are left out. `ForeignWrite` is anybody else:
a metadata refresh, or a sync that writes back the bindings of the start. The binding
an import sends joins the provider selected at the click with the id of the candidate
on the screen (`Binding`); `switched` is history and says that the provider was
changed while a search, result, load or candidate of another was at hand, after which
the two may be of different mangas. `ReportedImportIsApplied` claims one remote manga
except then. Bounds
are on openings, searches and imports (`MaxOps`), choices of cards (`MaxEdits`)
and foreign writes (`MaxForeign`).

### MangaRecord

`record` are the three documents on the server, `view` the cached copy, `req` one
mutation per part of the page. A binding `<<p, q>>` is provider p with an id found
at q: a search that answers late fills the results of another provider, and the
binding is then of a foreign id. An edit saves metadata (without the cover the
form does not have) and then the bindings of its cached copy; a user patch reads
and writes back the user state in two steps; add, remove and switch are one step
each, under the library's mutex. An open form is filled again whenever the cached
manga changes. Empty notes are left out of the request, so notes once written
cannot be cleared. `held` are syncs, each a refresh of the manga or the last part of
a pull_manga: they read the bindings (`SyncReads`) and later save that copy with a
new time (`SyncSaves`) or fail. A sync may take back a provider that was added after
it read; the answer of that addition is then no promise (`said.vouched`), and
`ReportedProviderStaysBound` exempts exactly the providers that some sync did not
have in its copy when they were added. `said` and `behind` are history. A merge into
this manga, whose stale bindings are written too, and adding the manga anew
(provider_handler.go:481) are left out, as is the option of addProvider to refresh at
once, which the page does not use.

## 3. Runs

`PROJECT.json` lists twelve. `pass` runs:

| Run | Distinct states | Shows |
|---|---|---|
| `sqlite_safety` | 676 000 | slots never over-committed, running rows owned, one goroutine per job, retry budget, settled is final, implements `JobLifecycle` |
| `sqlite_liveness` | 171 000 | two jobs in a group of limit one: the group counter agrees with its goroutines and keeps the limit, and every pending job is settled, deleted or lost to a restart |
| `inmem` | 5 800 | no double or lost delivery, implements `JobLifecycle`; Stop ends the worker even when it is blocked; a job waits for ever only behind a worker that is |
| `pull_chapters` | 501 000 | overlapping pulls never enqueue a chapter twice, with a storage error, a crash and a refresh of the manga beside them; an undisturbed pull enqueues all that the refresh did not add |
| `pull_files` | 157 000 | a chapter shown as downloaded is complete, unless it was deleted or a refresh or save took its page count away; the claim file has an owner, unless that one was cancelled or lost; a pull nobody interferes with ends, after a transient failure, with everything on disk and the claim released |
| `host_safety` | 2 750 000 | the current instance is alive and routed; counted calls are drained |
| `host_liveness` | 213 000 | no route to a killed process while versions drop no provider; reload requests and the shutdown end although callers may hang |
| `reader_safety` | 375 000 | a page is saved only for a chapter in which its image was on the screen, late slides and keys in a strip excepted; animations end; one completion prompt a visit; no answer moves a resumed reader |
| `details` | 1 615 000 | with nothing under way the list is the server's, unless an answer was lost, a refresh stopped half-way or a page job saved an old copy; a spinner stands for a pull that is going on; the reading button leads to an unread chapter |
| `metadata` | 754 000 | what an import reports is what its click captured, and of one remote manga unless the provider was switched on the way; a quiet page shows the server's record; a reported merge has everything of both mangas |
| `record` | 1 223 000 | the content source is a bound, capable provider; reported status, notes and (but for syncs with an older copy) providers are stored; a quiet page shows the server's record |

One run, `sqlite_reopen`, ends in a violation: `Enqueue` reopens a job that was
completed since `CreateJob`, and it is executed a second time. The quotation is in
`PROJECT.json` under `findings`.

Further configurations ask narrower questions. Those of the first table hold,
those of the second end in a counterexample:

| Configuration | Property | Question |
|---|---|---|
| `SqliteQueue_unhandled` | `PendingIsServed` | a job without a handler is failed even beside one that keeps the only slot |
| `Reader_liveness` | `EventuallySaved` | a reader left alone on a page has it stored for good, although requests are lost |
| `MetadataImport_liveness` | `DialogSettles`, `ComparisonHasCandidate`, `SpinnerIsOwed` | the dialog does not stay behind its spinner; a comparison has a candidate |

| Configuration | Property | What happens |
|---|---|---|
| `SqliteQueue_recovery` | `StrandedIsRecovered` | rows left running by a crash are never recovered |
| `SqliteQueue_cancel` | `CancelledJobSpawnsNothing` | the handler of a cancelled job goes on creating children |
| `SqliteQueue_prune` | `PruningSparesLiveJobs` | a child added between selecting and deleting is pruned alive |
| `InMemoryQueue_full` | `PendingIsServed` | the worker blocks on its own full channel and serves nobody again |
| `InMemoryQueue_cancel` | `FailedIsFinal` | a retry undoes a cancellation |
| `InMemoryQueue_delete` | `DeletedStaysDeleted` | a retry undoes a deletion |
| `PullPipeline_partial` | `CompletedPullSchedulesChapters` | a chapter saved but not enqueued is skipped by every later pull |
| `PullPipeline_covers` | `OneCoverPull` | two cover pulls at a time |
| `PullPipeline_claim` | `ClaimIsReleased` | the claim of a cancelled pull_cover stays for ever |
| `PullPipeline_progress` | `ProgressIsKept` | progress saved during a read-modify-write is lost |
| `PullPipeline_binding` | `BindingIsKept` | so is a switched content provider |
| `PluginHost_orphan` | `NoOrphanProcess` | of two overlapping reloads one leaves its process behind |
| `PluginHost_stale` | `RoutedIsServed` | a provider dropped by an update stays routed to a killed process |
| `PluginHost_seamless` | `ReloadIsSeamless` | a caller between lookup and call meets a killed process |
| `PluginHost_config` | `ConfigIsApplied` | a process swapped in after an update runs with the former configuration |
| `Reader_readmark` | `ReadOnlyIfFinished` | the save effect runs with the page of the former chapter and marks one read that was never shown |
| `DetailsPage_pulled` | `PulledIsShown` | polling ends with pull_chapter, before its pages are downloaded: "Pulled chapters show green dot in chapter list" (docs/user_journey.md:130) |
| `MetadataImport_cards` | `SelectedCardIsStored` | fields that are equal are left out of a PATCH that replaces the document, and are erased (docs/design/metadata_import.md:50) |
| `MangaRecord_capable` | `LastContentCapableStays` | after the content source is removed the last provider that can be read from is removed too: "Returns error if it would leave no Content-capable provider" (library.go:1303) |

## 4. Bounds

* Two jobs and two goroutines are enough for every race between two creators,
  between a job and its child or parent, and for contention for the last slot;
  one fault and one restart reach each error path once at any moment. Their
  combinations are covered by the proofs, which have no bound.
* In `inmem` a buffer of one and two jobs make both senders block: a request
  behind a queued job, and the worker that retries one job while the other is
  queued. A handler that blocks in `enqueueChild` needs a third job
  and takes the same path through `EnqueueSend`.
* In `PullPipeline`, `MaxJobs` leaves room for every job the other bounds can
  produce, except in `pull_chapters`, where the table is full with two
  pulls and two jobs for chapters (one each, or two for the same), so that their
  pages are not enqueued, and in `pull_files`, where a repeated
  pull_chapter may find no room for all of its pages. `MaxRetries` is 2 instead
  of 3, with fewer failures than that in `pull_files`.
* `pull_chapters` takes its two chapters as interchangeable: a pull handles the
  missing ones as a set, and none is imported at the start.
* In `PluginHost`, three processes let two overlapping reloads replace the same
  instance; a launch may always fail, so running into `MaxProcesses` takes no
  behaviour away except more launches. `host_liveness` has two, which lets two
  Starts collide or one reload follow a Start. Reload requests are
  symmetric, which `host_safety` uses.
* In `reader_safety` two inputs and one opening, in a chapter of one page
  before one of two, reach every pair of gestures around a change of chapter. In
  `details` two requests, one of them a pull, are two mutations that race with each
  other and with a job; the run identifies states that differ only in what nothing
  reads any more once the requests are used up (`LiveState`). In `metadata` four operations are opening, searching,
  loading and importing, or closing and opening again in between; one foreign write
  falls anywhere; its `LiveState` forgets the dialog once the operations are used up,
  since only a further one could take it to the record. In `record` three of openings, requests and foreign saves give two
  writers of a document, one of them a dialog, or one beside a sync that read before
  and saves after it. A lost request has been handled wholly or not at all when the
  page hears of it, so two runs of `patchLibraryManga` never overlap, and at one
  provider one search is under way at a time.
* Deadlock checking is off everywhere: with all bounds used up the systems have
  nothing left to do.

## 5. Fairness

Weak fairness of polling (ticker), of goroutines that have been started, and of
`Enqueue` after `CreateJob` (a request runs to its end). Handlers return because
the requests they make have timeouts. In `PullPipeline` a handler's steps have
strong fairness: the Go mutex hands itself over to a waiter that starves. In
`PluginHost`, reload requests, drains and the shutdown go on, and callers owe
nothing: a hanging call must not hold them up. In `Reader` and `MetadataImport`
(further configurations only) timers fire and requests are answered or fail,
because the browser ends them; the user owes nothing. Nothing makes failures, faults,
crashes, requests or installs happen.

## 6. Proofs

Each of the eight modules with a specification of its own has a `...Proofs` module
that extends it. The theorems hold for every value of the constants that satisfies
the module's assumption, so for any number of jobs, processes, chapters, requests,
faults and restarts; TLC evaluates the assumptions in every run. Each inductive
invariant was first checked by TLC on the instance of the run whose properties it
implies.

| Module | Theorem | States |
|---|---|---|
| `SqliteQueueProofs` | `TypeCorrect` | `Spec => []TypeOK` |
| | `SlotsBounded`, `GroupsBounded` | `SlotAccounting`, `GroupAccounting` |
| | `RunningOwned`, `OneExecution` | `RunningIsOwned`, `ExclusiveExecution` |
| | `RetriesBounded` | `RetryBudget` |
| | `SettledStays` | the action property `SettledIsFinal` |
| | `RefinesLifecycle` | `Spec => Lifecycle!Spec` |
| `InMemoryQueueProofs` | `DeliveredOnce`, `NothingForgotten` | `OneDelivery`, `PendingIsDelivered` |
| | `RetriesBounded` | `RetryBudget` |
| | `RefinesLifecycle` | `Spec => Lifecycle!Spec` |
| `PullPipelineProofs` | `TypeCorrect` | `TypeOK`, with the lock discipline |
| | `NoChapterPulledTwice` | `NoDuplicateChapterPull` |
| | `DownloadedChaptersAreComplete` | `DownloadedIsComplete` |
| | `ClaimAlwaysHasOwner` | `ClaimHasOwner` |
| | `UndisturbedPullsAreWhole` | `UndisturbedPullSchedulesChapters` |
| `PluginHostProofs` | `TypeCorrect` | `TypeOK` |
| | `CurrentStaysRouted` | `CurrentIsRouted` |
| | `DrainedCallsAlwaysFinish` | `DrainedCallsFinish` |
| | `RoutedStaysServed` | `Spec /\ []NoProviderDropped => []RoutedIsServed` |
| | `NoProcessLeftBehind` | `Spec /\ []NoOverlap => []NoOrphanProcess` |
| `ReaderProofs` | `SavesAreAlwaysShown`, `AnimationsEnd` | `SavesAreShown`, `AnimationEnds` |
| | `PromptsOncePerVisit` | `PromptOncePerVisit` |
| | `AnswersNeverMovePage` | the action property `AnswersKeepPage` |
| `DetailsPageProofs` | `TypeCorrect` | `TypeOK` |
| | `QuietListStaysFresh` | `QuietListIsFresh` |
| | `SpinnersStayHonest` | `SpinnerIsHonest` |
| | `CtaAlwaysLeadsOn` | `CtaLeadsOn` |
| `MetadataImportProofs` | `ReportedImportsAreApplied` | `ReportedImportIsApplied` |
| | `ReportedMergesAreWhole` | `ReportedMergeIsWhole` |
| | `QuietViewIsAlwaysFresh` | `QuietViewIsFresh` |
| | `ShownComparisonHasCandidate` | `ComparisonHasCandidate` and `SpinnerIsOwed` |
| `MangaRecordProofs` | `TypeCorrect` | `TypeOK` |
| | `ContentStaysBound` | `ContentIsBound` |
| | `ReportedUserFieldsStayStored` | `ReportedUserFieldsAreStored` |
| | `ReportedProvidersStayBound` | `ReportedProviderStaysBound` |
| | `QuietViewIsAlwaysFresh` | `QuietViewIsFresh` |

The arguments, and what each inductive invariant adds to the property:

- **SqliteQueue** (`Accounting`, `Ownership`). The counters are natural numbers
  because no counter is below the number of its goroutines, and the poller finds
  enough idle goroutines because the claimed rows fit into the free slots.
  Exclusive execution needs that a pending or absent job outside `reopened` is in no
  goroutine; ownership needs exclusiveness, since the row a goroutine leaves would
  be unowned if another had it too. The retry budget needs that a goroutine's copy
  of `retries` is the row's while the row is running.
- **InMemoryQueue** (`Delivery`, `Budget`). One delivery needs that a job never created is
  nowhere, and that until it stores a retry the worker holds the map entry itself
  or its entry is gone: only then does a late `Enqueue` meet no second copy. The
  budget needs that a detached object keeps the tries of its former entry.
- **PullPipeline** (`Pipeline`, then `Undisturbed` and the claim's owner). The lock
  carries the argument about chapters: what `pull_manga` listed as missing stays
  missing until it saves it. The order of the jobs carries the one about files:
  `PageCount` is on disk before there is a job for a page, and the copies of
  `meta.json` that handlers write back were read after that. Refreshes are outside
  the lock; what their copies take away goes to `lost`, which the invariant exempts,
  and a chapter they made goes to `added`.
- **PluginHost** (`Handover`, `CallsSafe`, `RoutedIsKept`, `Accounted`). A process in
  the hands of a reload is known to nobody else until it is published once; a call
  on a process that was found idle began after that. Two results are conditional,
  because the code has the other behaviour too: `PluginHost_stale.cfg` shows a route
  to a killed process after a version that drops a provider, and
  `PluginHost_orphan.cfg` a process lost by two overlapping reloads. The hypotheses
  name exactly these two.
- **Reader** (`TrackerKept`, `Gesture`). Every event ends with the three effects of the
  tracker, so the facts are proved about the effects, then about their composition
  `Settle`, then about the events: a mounted reader tracks the chapter of its
  address, a save timer names a page whose image was on the screen there or that a
  slide strayed to, and an animation that swallows input has a slide timer left. A
  tracker that has not strayed is within its chapter, which is why its page is drawn.
  `SavesAreAlwaysShown` assumes `IndexBase = 0`; with pages numbered from 1 a strip
  shows the image before the one that is saved.
- **DetailsPage** (`Typed`, `ListKept`, `JobsGrow`, `OptKept`). What keeps list and
  spinner right is what is still to come. A chapter the list is wrong about has an
  unheard answer, a fetch that was not served before the change, or an entry in
  `behind`; and a refresh or a page job that holds a copy is known to be about to
  save it, so that the save is heard of or recorded;
  an optimistic pull has a request under way, an active newest job in the cache, or
  a job the cache lacks and will get. The last needs that job lists only grow and
  that the cache follows them: a finished job is then new to the cache, the effect
  runs, and it clears the row. Request numbers suffice by counting. `First` and
  `Last` exist by a minimal counterexample in the strict subset order of a finite
  set.
- **MetadataImport** (`Told`, `Candidates`). What each request of the chain that was
  carried out has left in the record, and that a partial merge takes nothing away.
  That binding and candidate are one needs that, until the provider is switched,
  every search, result, load and candidate is of the selected provider (`Found`).
- **MangaRecord** (`Kept`). What the requests under way carry: bindings that agree in
  themselves, a user state read after the last report, no removal of a provider that
  was or will be reported as added, and a write not yet followed by a fetch; and that
  every copy a sync holds agrees in itself and has all providers reported as added.

The assumptions on constants are those the code's configuration meets; the only one
a proof added is `MaxRetries >= 1` in `PullPipeline`: the pull jobs are created with
three, and a driver tries a job with none once.

Only model-checked: the liveness properties (`PendingIsServed`, `StopReturns`,
`ServedUnlessStuck`, `PullCompletes`, `ManagerReturns`), since fairness and ENABLED are
outside the prover, and `TypeOK` of `Reader` and `MetadataImport`: `Reader` filters a
sequence with `SelectSeq`, for which the prover has no theory; of `MetadataImport` the
parts that the arguments need are proved (`Shapes`, `Candidates`).

## 7. Plan

1. Next theorems: the types of `MetadataImport`; the safety properties that only
   the further configurations check, under hypotheses that name what breaks them,
   as `RoutedStaysServed` and `NoProcessLeftBehind` do.
2. Next modules: `ImageCache` (singleflight, sidecars, purge without the lock,
   and the linking of cached images in `downloadImage`); `refresh_metadata` and the
   group limits; registry preferences and the choice between colliding providers;
   the SDK's rate limiter and retry; the plugin settings form and the job list of
   the frontend; pure algorithms (SDK version check, version comparison, ring
   buffer, time stamps as text).
3. Compositions: `PullPipeline` over `JobLifecycle`, so that the pipeline's
   properties rest on what the drivers are proved to promise.

## 8. Not modelled, and why

The Machinery driver (the behaviour is in the library and Redis), configuration,
logging, start-up wiring, generated protocol code, the bundled scrapers (parsing
of third-party pages), address guards and DNS resolution (stateless functions
over network data). Of the frontend, the library, explore, job, plugin and
settings pages: lists and forms over one query and one mutation each; and in the
modelled pages everything that only draws. Adding a manga to the library, and
removing it, leave the page. In the modelled parts:
`PluginManager.Stop`, `Registry.SwapProvider`, `Registry.Unregister` and
`Driver.UpdateJob` have no caller outside the tests. The abort of the Go runtime
on the unsynchronised access to the plugin configuration maps is listed as a
hazard only.
