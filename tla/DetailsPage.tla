---------------------------- MODULE DetailsPage ----------------------------
(***************************************************************************)
(* The details page of a manga of the library: its chapter list with the   *)
(* row menus, the selection mode and its batch bar, the mutations and the  *)
(* two polled queries behind them (chapters, jobs), the handlers of the    *)
(* server that answer them and the pull jobs that run meanwhile.           *)
(*                                                                         *)
(* One action is one event of the browser (a click, an answer, a timer),   *)
(* one request handled by the server, or one step of a job.  The effect    *)
(* that clears optimistic pulls runs in the event that changes its data.   *)
(*                                                                         *)
(* A chapter is its number.  Its files are "none", "part" or "full", its   *)
(* page 0 or the page it was left at.  A pull_chapter job only enqueues the *)
(* jobs of its pages: "pull" while it is pending or running, "pages" when   *)
(* it is completed and a page job is not, then "done"; or "failed".  A page *)
(* job has "stored" its file, then holds the lock of the manga, "stamping", *)
(* between its read of the chapter's meta.json and the save of what it read. *)
(***************************************************************************)
EXTENDS Naturals, Sequences, FiniteSets

CONSTANTS
    Chapters,     \* chapters of the content provider, by number
    Begun,        \* chapters left at a page after the first
    Finished,     \* chapters marked read
    Queries,      \* filter texts, each the set of chapters it matches
    MaxOps,       \* bound: the user stops after so many requests and filters
    MaxPulls,     \* bound: chapters the user asks to pull
    Lossy         \* whether requests and answers may be lost

LeftAt == 2       \* the page a chapter of Begun was left at

ASSUME DetailsAssumption ==
    /\ Chapters \subseteq Nat \ {0} /\ IsFiniteSet(Chapters) /\ Chapters # {}
    /\ Begun \subseteq Chapters /\ Finished \subseteq Chapters
    /\ Queries \subseteq SUBSET Chapters /\ Chapters \in Queries
    /\ MaxOps \in Nat /\ MaxPulls \in Nat
    /\ Lossy \in BOOLEAN

VARIABLES
    server,       \* the chapters in the library
    jobs,         \* the pull jobs of each chapter, newest first
    stamp,        \* the copy of a meta.json that a page job is about to save
    reqs,         \* requests under way
    ops,          \* requests and filters so far
    pulls,        \* chapters asked for so far
    list,         \* cached chapter list
    listFetch, listErr,
    jobsSeen,     \* cached jobs
    jobsFetch,
    opt,          \* optimisticPullIds
    sel,          \* selection mode, selected rows, anchor, remove dialog
    query,        \* what the filter matches
    toldFailed,   \* history: chapters whose last pull was answered with an error
    behind        \* history: queries that missed a change for want of an answer,
                  \* or the list one that a page job made with an old copy

serverVars == <<server, jobs, stamp>>
mutVars    == <<reqs, ops, pulls>>
listVars   == <<list, listFetch, listErr>>
jobsVars   == <<jobsSeen, jobsFetch>>
vars == <<serverVars, mutVars, listVars, jobsVars, opt, sel, query, toldFailed, behind>>

Gone == [here |-> FALSE, files |-> "none", read |-> FALSE, page |-> 0]
NoCopy == [ch |-> 0, read |-> FALSE, page |-> 0]
NoSelection == [on |-> FALSE, ids |-> {}, last |-> 0, dialog |-> FALSE]
Idle  == [st |-> "idle"]
Asked == [st |-> "asked"]
Served(d) == [st |-> "served", data |-> d]

RowOps   == {"pull", "deleteFiles", "remove"}
BatchOps == {"batchPull", "batchDeleteFiles", "batchRemove", "batchRefresh",
             "markRead", "markUnread"}
RefreshOps == {"refresh", "batchRefresh"}
Ops == RowOps \cup BatchOps \cup RefreshOps

----------------------------------------------------------------------------
(***************************************************************************)
(* What a render computes                                                  *)
(***************************************************************************)
Listed == {c \in Chapters : list[c].here}
Filtered == Listed \cap query
Rows == IF listErr THEN {} ELSE Filtered
Downloaded(l, c) == l[c].here /\ l[c].files = "full"
HasFiles(c) == list[c].here /\ list[c].files # "none"

ActivePull(js, c) == \E i \in DOMAIN js[c] : js[c][i] = "pull"
ActiveJob(js) ==
    \E c \in Chapters : \E i \in DOMAIN js[c] : js[c][i] \in {"pull", "pages"}

\* isPending and variables of a useMutation are those of its last call.
Pending(op) == \E r \in reqs : r.op = op /\ r.last
PendingIds(op) == UNION {r.ids : r \in {s \in reqs : s.op = op /\ s.last}}

Pulling ==
    {c \in Chapters : ActivePull(jobsSeen, c)}
        \cup {c \in opt : ~Downloaded(list, c)}
        \cup PendingIds("pull") \cup PendingIds("batchPull")
DeletingFiles == PendingIds("deleteFiles") \cup PendingIds("batchDeleteFiles")
Removing == PendingIds("remove") \cup PendingIds("batchRemove")
Processing == Pulling \cup DeletingFiles \cup Removing

Badge(c) ==
    CASE c \in Removing -> "removing"
      [] c \in DeletingFiles -> "deleting"
      [] c \in Pulling \/ list[c].files = "part" -> "pulling"
      [] Downloaded(list, c) -> "downloaded"
      [] OTHER -> "none"

HasActivePullJobs == \E c \in Chapters : ActivePull(jobsSeen, c)
ListPolls == HasActivePullJobs \/ \E c \in Listed : list[c].files = "part"
JobsPoll == ActiveJob(jobsSeen)

\* The effect on [chapters, mangaJobs]; the server lists the newest job first.
JobFinishedCompleted(js, c) == js[c] # <<>> /\ Head(js[c]) \in {"pages", "done"}
JobFinished(js, c) == js[c] # <<>> /\ Head(js[c]) \in {"pages", "done", "failed"}

Cleared(l, js) == {c \in opt : Downloaded(l, c) \/ JobFinished(js, c)}

CleanupEffect(l, js) ==
    opt' = IF l # list \/ js # jobsSeen THEN opt \ Cleared(l, js) ELSE opt

----------------------------------------------------------------------------
(***************************************************************************)
(* The reading button: getReadingCtaInfo for the last read chapter that    *)
(* the cached details name (0: none), in terms of the cached list.         *)
(***************************************************************************)
First(S) == CHOOSE c \in S : \A d \in S : c <= d
Last(S)  == CHOOSE c \in S : \A d \in S : c >= d
Unread == {c \in Listed : ~list[c].read}
InProgressAnyRead == {c \in Listed : list[c].page > 1}
InProgress == {c \in Unread : list[c].page > 1}
After(S, c) == {d \in S : d > c}

NextUnread(last) ==
    LET read == Listed \ Unread
        from == IF last \in read /\ After(Unread, last) # {} THEN last ELSE Last(read)
    IN  IF After(Unread, from) # {} THEN First(After(Unread, from)) ELSE First(Unread)

ReadingCta(last) ==
    IF InProgress # {}
    THEN LET c == IF last \in InProgress THEN last ELSE Last(InProgress)
         IN  [type |-> "resume", ch |-> c, page |-> list[c].page]
    ELSE IF Unread = Listed THEN [type |-> "start", ch |-> First(Listed), page |-> 1]
    ELSE IF Unread = {}     THEN [type |-> "reread", ch |-> First(Listed), page |-> 1]
    ELSE [type |-> "next", ch |-> NextUnread(last), page |-> 1]

----------------------------------------------------------------------------
Init ==
    /\ server = [c \in Chapters |->
                    [Gone EXCEPT !.here = TRUE, !.read = c \in Finished,
                                 !.page = IF c \in Begun THEN LeftAt ELSE 0]]
    /\ jobs = [c \in Chapters |-> <<>>] /\ stamp = NoCopy
    /\ reqs = {} /\ ops = 0 /\ pulls = 0
    /\ list = server /\ listFetch = Idle /\ listErr = FALSE
    /\ jobsSeen = jobs /\ jobsFetch = Idle
    /\ opt = {}
    /\ sel = NoSelection
    /\ query = Chapters
    /\ toldFailed = {}
    /\ behind = {}

----------------------------------------------------------------------------
(***************************************************************************)
(* Requests: mutate, the handler, the answer                               *)
(***************************************************************************)
Acts == ops < MaxOps
FreeNumber == First((1 .. MaxOps) \ {r.n : r \in reqs})

Send(op, ids) ==
    /\ Acts
    /\ ops' = ops + 1
    /\ reqs' = {[r EXCEPT !.last = @ /\ r.op # op] : r \in reqs}
                    \cup {[n |-> FreeNumber, op |-> op, ids |-> ids, stage |-> "sent", last |-> TRUE,
                           todo |-> {}, copy |-> NoCopy]}
    /\ IF op \in {"pull", "batchPull"}
       THEN /\ pulls + Cardinality(ids) <= MaxPulls
            /\ pulls' = pulls + Cardinality(ids)
            /\ opt' = opt \cup ids
            /\ toldFailed' = toldFailed \ ids
       ELSE UNCHANGED <<pulls, opt, toldFailed>>
    /\ UNCHANGED <<serverVars, listVars, jobsVars, query, behind>>

\* A chapter that is gone refuses a whole batch, but not a removal.
Accepts(r) == r.op = "batchRemove" \/ \A c \in r.ids : server[c].here

Applied(r, c) ==
    LET ch == server[c]
    IN  CASE c \notin r.ids -> ch
          [] r.op \in {"remove", "batchRemove"} -> Gone
          [] r.op \in {"deleteFiles", "batchDeleteFiles"} -> [ch EXCEPT !.files = "none"]
          [] r.op = "markRead" -> [ch EXCEPT !.read = TRUE, !.page = 0]
          [] r.op = "markUnread" -> [ch EXCEPT !.read = FALSE, !.page = 0]
          [] OTHER -> ch

NewJobs(r, c) ==
    IF r.op \in {"pull", "batchPull"} /\ c \in r.ids
    THEN <<"pull">> \o jobs[c] ELSE jobs[c]

Staged(r, stage) == (reqs \ {r}) \cup {[r EXCEPT !.stage = stage]}

Handle(r) ==
    /\ r.stage = "sent" /\ r.op \notin RefreshOps
    /\ IF Accepts(r)
       THEN /\ server' = [c \in Chapters |-> Applied(r, c)]
            /\ jobs' = [c \in Chapters |-> NewJobs(r, c)]
            /\ reqs' = Staged(r, "ok")
       ELSE reqs' = Staged(r, "refused") /\ UNCHANGED <<server, jobs>>
    /\ UNCHANGED <<stamp, ops, pulls, listVars, jobsVars, opt, sel, query, toldFailed, behind>>

(***************************************************************************)
(* A refresh is "busy" while it saves one chapter after the other, without *)
(* a lock, and "cut" when it goes on although its connection broke.         *)
(***************************************************************************)
CopyOf(c) == [ch |-> c, read |-> server[c].read, page |-> server[c].page]
SavedCopy(k) == [server EXCEPT ![k.ch].here = TRUE, ![k.ch].read = k.read, ![k.ch].page = k.page]
Works(r) == r.stage \in {"busy", "cut"}
UnchangedByRefresh == UNCHANGED <<jobs, stamp, ops, pulls, listVars, jobsVars, opt, sel, query, toldFailed>>

\* The provider has answered. The whole manga gets the chapters it does not
\* have now; a batch gets its own.
RefreshBegins(r) ==
    /\ r.stage = "sent" /\ r.op \in RefreshOps
    /\ reqs' = (reqs \ {r}) \cup
          {[r EXCEPT !.stage = "busy",
                     !.todo = IF r.op = "refresh" THEN {c \in Chapters : ~server[c].here} ELSE r.ids]}
    /\ UNCHANGED <<server, behind>> /\ UnchangedByRefresh

\* refreshChaptersBatch reads what it will save, or makes it if there is none;
\* refreshChaptersFromContent makes it.
RefreshReads(r, c) ==
    /\ Works(r) /\ r.copy = NoCopy /\ c \in r.todo
    /\ reqs' = (reqs \ {r}) \cup
          {[r EXCEPT !.todo = @ \ {c},
                     !.copy = IF r.op = "batchRefresh" THEN CopyOf(c) ELSE [NoCopy EXCEPT !.ch = c]]}
    /\ UNCHANGED <<server, behind>> /\ UnchangedByRefresh

RefreshSaves(r) ==
    /\ Works(r) /\ r.copy # NoCopy
    /\ server' = SavedCopy(r.copy)
    /\ reqs' = (reqs \ {r}) \cup {[r EXCEPT !.copy = NoCopy]}
    /\ UNCHANGED behind /\ UnchangedByRefresh

\* It has saved them all, or a save fails: the answer is an error then and what
\* was saved stays. Nobody hears the answer when the connection is cut.
RefreshEnds(r) ==
    /\ Works(r)
    /\ \/ /\ r.stage = "busy" /\ r.todo = {} /\ r.copy = NoCopy
          /\ reqs' = Staged(r, "ok") /\ UNCHANGED behind
       \/ /\ r.stage = "busy" /\ Lossy /\ r.copy # NoCopy
          /\ reqs' = Staged(r, "refused") /\ behind' = behind \cup {"list"}
       \/ /\ r.stage = "cut" /\ (r.todo = {} \/ r.copy # NoCopy)
          /\ reqs' = reqs \ {r} /\ behind' = behind \cup {"list"}
    /\ UNCHANGED server /\ UnchangedByRefresh

ConnectionBreaks(r) ==
    /\ Lossy /\ r.stage = "busy"
    /\ reqs' = (reqs \ {r}) \cup {[r EXCEPT !.stage = "cut", !.last = FALSE]}
    /\ UNCHANGED <<server, behind>> /\ UnchangedByRefresh

RefreshSteps(r) ==
    \/ RefreshBegins(r) \/ RefreshSaves(r) \/ RefreshEnds(r) \/ ConnectionBreaks(r)
    \/ \E c \in Chapters : RefreshReads(r, c)

\* invalidateQueries drops a fetch under way and starts another.
InvalidateJoins(f) == IF f = Idle THEN Asked ELSE f
Invalidate(f) == Asked

OnSuccess(r) ==
    /\ r.stage = "ok"
    /\ reqs' = reqs \ {r}
    /\ listFetch' = Invalidate(listFetch)
    /\ jobsFetch' = IF r.op \in {"pull"} \cup (BatchOps \ {"batchRefresh"})
                    THEN Invalidate(jobsFetch) ELSE jobsFetch
    /\ UNCHANGED <<serverVars, ops, pulls, list, listErr, jobsSeen, opt, sel, query, toldFailed, behind>>

\* The server refused, or the request, the provider or the answer was lost.
\* Only a toast: nothing is refetched and an optimistic pull stays.
OnError(r) ==
    /\ r.stage = "refused" \/ (Lossy /\ r.stage \in {"sent", "ok"})
    /\ reqs' = reqs \ {r}
    /\ toldFailed' = IF r.op \in {"pull", "batchPull"} THEN toldFailed \cup r.ids ELSE toldFailed
    /\ behind' = IF r.stage = "ok" THEN behind \cup {"list"} ELSE behind
    /\ UNCHANGED <<serverVars, ops, pulls, listVars, jobsVars, opt, sel, query>>

----------------------------------------------------------------------------
(***************************************************************************)
(* The chapter list and the jobs: fetches and polls                        *)
(***************************************************************************)
Snapshot == [c \in Chapters |-> IF server[c].here THEN server[c] ELSE Gone]

ListServed ==
    /\ listFetch = Asked
    /\ listFetch' = Served(Snapshot)
    /\ behind' = behind \ {"list"}
    /\ UNCHANGED <<serverVars, mutVars, list, listErr, jobsVars, opt, sel, query, toldFailed>>

ListArrives ==
    /\ listFetch.st = "served"
    /\ list' = listFetch.data /\ listErr' = FALSE
    /\ listFetch' = Idle
    /\ CleanupEffect(listFetch.data, jobsSeen)
    /\ UNCHANGED <<serverVars, mutVars, jobsVars, sel, query, toldFailed, behind>>

\* After its retry the query keeps its data and reports an error.
ListFails ==
    /\ Lossy /\ listFetch # Idle
    /\ listFetch' = Idle /\ listErr' = TRUE
    /\ behind' = behind \cup {"list"}
    /\ UNCHANGED <<serverVars, mutVars, list, jobsVars, opt, sel, query, toldFailed>>

\* The jobs of the pages are running, whatever they do.
PageSteps == {"pages", "stored", "stamping"}
Shown(j) == IF j \in PageSteps THEN "pages" ELSE j
JobsShown == [c \in Chapters |-> [i \in DOMAIN jobs[c] |-> Shown(jobs[c][i])]]

JobsServed ==
    /\ jobsFetch = Asked
    /\ jobsFetch' = Served(JobsShown)
    /\ behind' = behind \ {"jobs"}
    /\ UNCHANGED <<serverVars, mutVars, listVars, jobsSeen, opt, sel, query, toldFailed>>

JobsArrive ==
    /\ jobsFetch.st = "served"
    /\ jobsSeen' = jobsFetch.data
    /\ jobsFetch' = Idle
    /\ CleanupEffect(list, jobsFetch.data)
    /\ UNCHANGED <<serverVars, mutVars, listVars, sel, query, toldFailed, behind>>

JobsFail ==
    /\ Lossy /\ jobsFetch # Idle
    /\ jobsFetch' = Idle
    /\ behind' = behind \cup {"jobs"}
    /\ UNCHANGED <<serverVars, mutVars, listVars, jobsSeen, opt, sel, query, toldFailed>>

\* refetchInterval; a fetch under way is joined, which changes nothing.
ListPoll ==
    /\ ListPolls /\ listFetch = Idle
    /\ listFetch' = Asked
    /\ UNCHANGED <<serverVars, mutVars, list, listErr, jobsVars, opt, sel, query, toldFailed, behind>>

JobsPollTick ==
    /\ JobsPoll /\ jobsFetch = Idle
    /\ jobsFetch' = Asked
    /\ UNCHANGED <<serverVars, mutVars, listVars, jobsSeen, opt, sel, query, toldFailed, behind>>

\* refetchOnWindowFocus of the list, once its data are five minutes old.
Focus ==
    /\ listFetch = Idle
    /\ listFetch' = Asked
    /\ UNCHANGED <<serverVars, mutVars, list, listErr, jobsVars, opt, sel, query, toldFailed, behind>>

----------------------------------------------------------------------------
(***************************************************************************)
(* The pull jobs on the server                                             *)
(***************************************************************************)
Becomes(c, i, st) == jobs' = [jobs EXCEPT ![c][i] = st]
UnchangedByJobs == UNCHANGED <<mutVars, listVars, jobsVars, opt, sel, query, toldFailed>>

PullChapterEnds(c, i) ==
    /\ jobs[c][i] = "pull"
    /\ Becomes(c, i, "pages") \/ Becomes(c, i, "failed")
    /\ UNCHANGED <<server, stamp, behind>> /\ UnchangedByJobs

\* The file of a page is stored, for a chapter that was removed too.
PullPage(c, i) ==
    /\ jobs[c][i] = "pages"
    /\ server' = [server EXCEPT ![c].files = IF @ = "none" THEN "part" ELSE "full"]
    /\ Becomes(c, i, "stored")
    /\ UNCHANGED <<stamp, behind>> /\ UnchangedByJobs

PullPageFails(c, i) ==
    /\ jobs[c][i] = "pages"
    /\ Becomes(c, i, "done")
    /\ UNCHANGED <<server, stamp, behind>> /\ UnchangedByJobs

\* One job of the manga at a time reads the meta.json; without one it fails.
PullPageReads(c, i) ==
    /\ jobs[c][i] = "stored" /\ stamp = NoCopy
    /\ IF server[c].here THEN stamp' = CopyOf(c) /\ Becomes(c, i, "stamping")
                         ELSE stamp' = stamp /\ Becomes(c, i, "done")
    /\ UNCHANGED <<server, behind>> /\ UnchangedByJobs

\* DownloadedAt goes back with the rest of the copy, a read mark, a page or a
\* chapter that a request has changed since; no request will refetch the list.
PullPageStamps(c, i) ==
    /\ jobs[c][i] = "stamping"
    /\ server' = SavedCopy(stamp)
    /\ behind' = IF server' # server THEN behind \cup {"list"} ELSE behind
    /\ stamp' = NoCopy
    /\ Becomes(c, i, IF server[c].files = "full" THEN "done" ELSE "pages")
    /\ UnchangedByJobs

----------------------------------------------------------------------------
(***************************************************************************)
(* The user: header, row menus, selection, batch bar                       *)
(***************************************************************************)
Free == Acts /\ ~sel.dialog   \* the remove dialog is modal

Refresh ==
    /\ Free /\ ~Pending("refresh")
    /\ Send("refresh", {})
    /\ UNCHANGED sel

RowMenu(c, op) ==
    /\ Free /\ ~sel.on
    /\ c \in Rows /\ c \notin Processing
    /\ op = "deleteFiles" => HasFiles(c)
    /\ Send(op, {c})
    /\ UNCHANGED sel

SetFilter(q) ==
    /\ Acts /\ Free /\ q # query
    /\ query' = q
    /\ ops' = ops + 1
    /\ UNCHANGED <<serverVars, reqs, pulls, listVars, jobsVars, opt, sel, toldFailed, behind>>

Select(s) ==
    /\ Acts
    /\ sel' = s
    /\ UNCHANGED <<serverVars, mutVars, listVars, jobsVars, opt, query, toldFailed, behind>>

EnterSelection == Free /\ ~sel.on /\ Listed # {} /\ Select([sel EXCEPT !.on = TRUE])
HandleExitSelectionMode == Free /\ sel.on /\ Select(NoSelection)
HandleSelectAll == Free /\ sel.on /\ Select([sel EXCEPT !.ids = Filtered])
HandleSelectNone == Free /\ sel.on /\ sel.ids # {} /\ Select([sel EXCEPT !.ids = {}, !.last = 0])
HandleInvertSelection == Free /\ sel.on /\ Select([sel EXCEPT !.ids = Filtered \ @])

\* A range lies between two chapters that are both shown.
ShownBetween(a, b) == {c \in Filtered : (a <= c /\ c <= b) \/ (b <= c /\ c <= a)}
Toggled(c) == IF c \in sel.ids THEN sel.ids \ {c} ELSE sel.ids \cup {c}

HandleToggleRow(c, shift) ==
    /\ Free /\ sel.on
    /\ c \in Rows /\ c \notin Processing
    /\ Select([sel EXCEPT
                  !.ids = IF shift /\ sel.last \in Filtered THEN @ \cup ShownBetween(sel.last, c) ELSE Toggled(c),
                  !.last = c])

HasDownloadedInSelection == \E c \in sel.ids : HasFiles(c)

\* The bar's buttons do not look at Processing, and keep the selection.
BatchButton(op) ==
    /\ Free /\ sel.on /\ sel.ids # {}
    /\ op \in BatchOps \ {"batchRemove"}
    /\ ~Pending(op)
    /\ op \in {"markRead", "markUnread"} => ~Pending("markRead") /\ ~Pending("markUnread")
    /\ op = "batchDeleteFiles" => HasDownloadedInSelection
    /\ Send(op, sel.ids)
    /\ UNCHANGED sel

OpenRemoveDialog ==
    /\ Free /\ sel.on /\ sel.ids # {} /\ ~Pending("batchRemove")
    /\ Select([sel EXCEPT !.dialog = TRUE])

CancelRemove == sel.dialog /\ Select([sel EXCEPT !.dialog = FALSE])

ConfirmRemoveStaysOpen ==
    /\ sel.dialog /\ ~Pending("batchRemove")
    /\ Send("batchRemove", sel.ids)
    /\ sel' = [NoSelection EXCEPT !.on = sel.on, !.dialog = TRUE]

HandleConfirmRemove ==
    /\ sel.dialog /\ ~Pending("batchRemove")
    /\ Send("batchRemove", sel.ids)
    /\ sel' = [NoSelection EXCEPT !.on = sel.on]

----------------------------------------------------------------------------
Requests == \E r \in reqs : Handle(r) \/ RefreshSteps(r) \/ OnSuccess(r) \/ OnError(r)
Fetches ==
    \/ ListServed \/ ListArrives \/ ListFails \/ ListPoll \/ Focus
    \/ JobsServed \/ JobsArrive \/ JobsFail \/ JobsPollTick
Jobs ==
    \E c \in Chapters : \E i \in DOMAIN jobs[c] :
        \/ PullChapterEnds(c, i) \/ PullPage(c, i) \/ PullPageFails(c, i)
        \/ PullPageReads(c, i) \/ PullPageStamps(c, i)
Selection ==
    \/ EnterSelection \/ HandleExitSelectionMode \/ HandleSelectAll \/ HandleSelectNone
    \/ HandleInvertSelection
    \/ \E c \in Chapters, shift \in BOOLEAN : HandleToggleRow(c, shift)
    \/ \E op \in BatchOps : BatchButton(op)
    \/ OpenRemoveDialog \/ CancelRemove \/ HandleConfirmRemove
User ==
    \/ Refresh
    \/ \E c \in Chapters, op \in RowOps : RowMenu(c, op)
    \/ \E q \in Queries : SetFilter(q)
    \/ Selection

Next == Requests \/ Fetches \/ Jobs \/ User

Spec == Init /\ [][Next]_vars

\* A request is handled and answered, a fetch returns, a timer fires and a job
\* ends; the user and the window's focus owe nothing.
FairSpec ==
    /\ Spec
    /\ WF_vars(Requests) /\ WF_vars(Jobs)
    /\ WF_vars(ListServed) /\ WF_vars(ListArrives) /\ WF_vars(ListPoll)
    /\ WF_vars(JobsServed) /\ WF_vars(JobsArrive) /\ WF_vars(JobsPollTick)

----------------------------------------------------------------------------
(***************************************************************************)
(* Properties                                                              *)
(***************************************************************************)
ChapterState == [here : BOOLEAN, files : {"none", "part", "full"}, read : BOOLEAN, page : {0, LeftAt}]
Copies == [ch : Chapters \cup {0}, read : BOOLEAN, page : {0, LeftAt}]
ShownState == {"pull", "pages", "done", "failed"}
JobState == ShownState \cup PageSteps
Lists == [Chapters -> ChapterState]
JobLists == [Chapters -> Seq(JobState)]
ShownLists == [Chapters -> Seq(ShownState)]
FetchOf(data) == {Idle, Asked} \cup [st : {"served"}, data : data]
RequestTypes == [n : 1 .. MaxOps, op : Ops, ids : SUBSET Chapters,
                 stage : {"sent", "busy", "cut", "ok", "refused"}, last : BOOLEAN,
                 todo : SUBSET Chapters, copy : Copies]
Selections == [on : BOOLEAN, ids : SUBSET Chapters, last : Chapters \cup {0}, dialog : BOOLEAN]

\* The state is well formed; the remove dialog never asks about no chapter and
\* the selection is kept only in selection mode (useChapterSelection).
TypeOK ==
    /\ server \in Lists /\ stamp \in Copies
    /\ list \in Lists /\ listFetch \in FetchOf(Lists) /\ listErr \in BOOLEAN
    /\ jobs \in JobLists /\ jobsSeen \in ShownLists /\ jobsFetch \in FetchOf(ShownLists)
    /\ reqs \subseteq RequestTypes
    /\ ops \in 0 .. MaxOps /\ pulls \in 0 .. MaxPulls
    /\ opt \subseteq Chapters /\ toldFailed \subseteq Chapters /\ query \in Queries
    /\ behind \subseteq {"list", "jobs"}
    /\ sel \in Selections
    /\ sel.ids # {} => sel.on
    /\ sel.dialog => sel.ids # {}

Size(f) == CASE f = "none" -> 0 [] f = "part" -> 1 [] OTHER -> 2

\* Once every request is answered and no fetch is under way, the list shows the
\* chapters, the read marks and the pages the server has, and no file that was
\* deleted (the invalidations of the ten mutations). What escapes is named by
\* "behind", until the list is served again: an answer that was lost, a refresh
\* that stopped half-way, and the old copy of a meta.json that a page job saves
\* over a later change (HandlePullPage), which nothing tells the page of.
QuietListIsFresh ==
    reqs = {} /\ listFetch = Idle /\ "list" \notin behind =>
        \A c \in Chapters :
            /\ list[c].here = server[c].here
            /\ list[c].here => /\ list[c].read = server[c].read
                               /\ list[c].page = server[c].page
                               /\ Size(list[c].files) <= Size(server[c].files)

\* Whatever chapter the cached details call the last read one, the reading
\* button leads to a listed chapter: to one in progress, at its page, if there
\* is one, and to an unread one while there is one (getReadingCtaInfo).
CtaLeadsOn ==
    Listed # {} => \A cta \in {ReadingCta(last) : last \in Chapters \cup {0}} :
        /\ cta.ch \in Listed
        /\ Unread # {} => cta.ch \in Unread
        /\ (\E c \in Unread : list[c].page > 1) => list[cta.ch].page = cta.page /\ cta.page > 1

\* When all requests are answered, the jobs are up to date and none of them is
\* an active pull, a row shows the spinner only for some of its pages or for a
\* pull that was answered with an error (the optimistic ids and their effect).
SpinnerIsHonest ==
    reqs = {} /\ jobsFetch = Idle /\ "jobs" \notin behind /\ ~HasActivePullJobs =>
        \A c \in Listed :
            Badge(c) = "pulling" => c \in toldFailed \/ list[c].files = "part"

\* The state as far as it matters: once the user has stopped, nothing reads the
\* filter, the error of the list, the number of pulls or the selection, but TypeOK
\* and that only whether the last two are well formed.
LiveState ==
    <<serverVars, reqs, ops, list, listFetch, jobsVars, opt, toldFailed, behind,
      pulls <= MaxPulls, sel.ids # {} => sel.on, sel.dialog => sel.ids # {},
      IF Acts THEN <<pulls, sel, query, listErr>> ELSE <<>> >>

\* A chapter that is downloaded shows the badge in the end, while the page
\* stays open (polling of the chapter list).
PulledIsShown ==
    \A c \in Chapters :
        Downloaded(server, c) ~> (Badge(c) = "downloaded" \/ ~Downloaded(server, c))
=============================================================================
