----------------------------- MODULE MangaRecord -----------------------------
(***************************************************************************)
(* One manga of the library and the parts of its page that write it: the   *)
(* edit dialog, the panel with the user's status and notes, the list of    *)
(* providers and the dialog that adds one.  The server keeps metadata,     *)
(* user state and bindings in a file each; the page shows one cached copy  *)
(* of all three, and each part writes from its own view of it.             *)
(*                                                                         *)
(* A binding is a reference <<p, q>>: provider p, with the id that a       *)
(* search at provider q returned.  "title" stands for the fields of the    *)
(* edit form, "cover" for the one that the form does not have, "status"    *)
(* for status, rating and favourite, "last" for the last read chapter.     *)
(* A closed form, and notes that are not edited, hold nothing: opening     *)
(* them fills them from the cached manga.                                  *)
(*                                                                         *)
(* A sync is a refresh of the chapter list, from the page's button or      *)
(* another device's, or the end of a pull_manga job: it writes back a      *)
(* whole copy of the bindings that it read before it asked the provider.   *)
(* A merge of another manga into this one is left to MetadataImport.       *)
(***************************************************************************)
EXTENDS Naturals, FiniteSets

CONSTANTS
    Sources,      \* providers that are loaded
    Readable,     \* the ones with the content capability
    Titles,       \* what may be typed as a title
    Notes,        \* what may be typed as notes, with "" for none
    Statuses,     \* reading states
    Bound,        \* references of the manga at the beginning
    Active,       \* the one it is read from
    Syncs,        \* bound: syncs that may be at work at once
    MaxOps,       \* bound: openings of a dialog or of the notes, requests, syncs, and
                  \* saves of reading progress
    Lossy         \* whether requests and answers may be lost

Refs  == Sources \X Sources
NoRef == <<>>
Modes == {"rtl", "ltr"}

\* The references that can be read from.
Capable(providers) == {r \in providers : r[1] \in Readable}

ASSUME RecordAssumption ==
    /\ IsFiniteSet(Sources) /\ Readable \subseteq Sources /\ "" \notin Sources
    /\ Bound \subseteq Refs /\ Active \in Capable(Bound)
    /\ "t0" \in Titles /\ "" \in Notes /\ "reading" \in Statuses /\ "" \notin Statuses
    /\ MaxOps \in Nat /\ Lossy \in BOOLEAN

VARIABLES
    record,    \* the three files on the server
    held,      \* the copy of the bindings that each sync holds
    view,      \* the cached manga
    fetch,     \* the fetch that renews it
    form,      \* edit dialog: open, title, mode
    notes,     \* the panel's notes: editing, text
    add,       \* add dialog: open, step, provider, results, picked, debounce timer
    searches,  \* providers with a search under way
    awaited,   \* the last search while it is under way (isSearching), or ""
    req,       \* the mutation under way of each part of the page
    said,      \* history: what the user was told is stored, "?" where in doubt; vouched:
               \* no edit, nor a removal of the same provider, since the add under way,
               \* and no sync that took its copy before it
    ops,       \* events so far
    behind     \* history: the cache missed a change for want of an answer

pageVars == <<form, notes>>
addVars  == <<add, searches, awaited>>
viewVars == <<view, fetch>>
serverVars == <<record, held>>
vars == <<serverVars, viewVars, pageVars, addVars, req, said, ops, behind>>

Kinds == {"edit", "user", "remove", "switch", "add"}
Idle  == [st |-> "idle"]
Asked == [st |-> "asked"]
Served(d) == [st |-> "served", data |-> d]
Pending(k) == req[k] # Idle

\* getInitialReadingMode
ModeShown(v) == IF v.content.mode = "" THEN "rtl" ELSE v.content.mode
FormClosed == [open |-> FALSE, title |-> "", mode |-> ""]
FormOf(v)  == [open |-> TRUE, title |-> v.title, mode |-> ModeShown(v)]
NotEditing == [editing |-> FALSE, text |-> ""]

\* getInitialProviderId: one that is not bound yet, if there is one.
InitialProvider(v) ==
    LET free == Sources \ {r[1] : r \in v.providers}
    IN  CHOOSE p \in (IF free # {} THEN free ELSE Sources) : TRUE

\* resetState
AddClosed(v) ==
    [open |-> FALSE, step |-> "pick", provider |-> InitialProvider(v), results |-> "",
     picked |-> "", timer |-> FALSE]

Init ==
    /\ record = [title |-> "t0", cover |-> "c0",
                 user |-> [status |-> "reading", notes |-> "", last |-> "c1"],
                 providers |-> Bound, content |-> [ref |-> Active, mode |-> "rtl"]]
    /\ view = record /\ fetch = Idle
    /\ form = FormClosed /\ notes = NotEditing
    /\ add = AddClosed(record) /\ searches = {} /\ awaited = ""
    /\ req = [k \in Kinds |-> Idle]
    /\ said = [status |-> "reading", notes |-> "", linked |-> {}, vouched |-> FALSE]
    /\ ops = 0 /\ behind = FALSE /\ held = [y \in Syncs |-> Idle]

\* A dialog is modal: with one open the rest of the page takes no click.
PageFree == ~form.open /\ ~add.open

Counted == ops < MaxOps /\ ops' = ops + 1

Carries(k, b) == Pending(k) /\ req[k].body = b

\* mutate: the page sends what it captured, one request at a time per part; its buttons
\* are disabled meanwhile, except for the switch, where this is a bound.
Send(k, body) ==
    /\ ~Pending(k) /\ Counted
    /\ req' = [req EXCEPT ![k] = [st |-> "sent", body |-> body]]
    /\ UNCHANGED <<serverVars, viewVars, behind>>

-----------------------------------------------------------------------------
\* The edit dialog: useEditMetadataForm, EditMetadataDialog.

OpenEdit ==
    /\ PageFree /\ Counted
    /\ form' = FormOf(view)
    /\ UNCHANGED <<serverVars, viewVars, notes, addVars, req, said, behind>>

FillForm(f) ==
    /\ form.open /\ form' = f
    /\ UNCHANGED <<serverVars, viewVars, notes, addVars, req, said, ops, behind>>

TypeTitle  == \E t \in Titles \ {form.title} : FillForm([form EXCEPT !.title = t])
ChooseMode == \E d \in Modes \ {form.mode} : FillForm([form EXCEPT !.mode = d])
CancelEdit == FillForm(FormClosed)

\* handleSubmit: the form's fields, and the cached bindings with the form's reading mode.
\* From here on the save may drop a provider that was added.
HandleSubmit ==
    /\ form.open
    /\ Send("edit", [title |-> form.title, providers |-> view.providers,
                     content |-> [ref |-> view.content.ref, mode |-> form.mode]])
    /\ said' = [said EXCEPT !.linked = {}, !.vouched = FALSE]
    /\ UNCHANGED <<pageVars, addVars>>

-----------------------------------------------------------------------------
\* The panel with the user's fields: DetailsUserMetadata.

SetStatus ==
    /\ PageFree
    /\ \E s \in Statuses \ {view.user.status} : Send("user", [status |-> s])
    /\ UNCHANGED <<pageVars, addVars, said>>

EditNotes ==
    /\ PageFree /\ ~notes.editing /\ Counted
    /\ notes' = [editing |-> TRUE, text |-> view.user.notes]
    /\ UNCHANGED <<serverVars, viewVars, form, addVars, req, said, behind>>

\* The text area and its buttons are disabled while an update is under way.
LeaveNotes(n) ==
    /\ PageFree /\ notes.editing /\ ~Pending("user")
    /\ notes' = n
    /\ UNCHANGED <<serverVars, viewVars, form, addVars, req, said, ops, behind>>

TypeNotes   == \E t \in Notes \ {notes.text} : LeaveNotes([notes EXCEPT !.text = t])
CancelNotes == LeaveNotes(NotEditing)

\* Empty notes are sent as undefined, which leaves them out of the request.
SaveNotes ==
    /\ PageFree /\ notes.editing
    /\ Send("user", IF notes.text = "" THEN [none |-> TRUE] ELSE [notes |-> notes.text])
    /\ notes' = NotEditing
    /\ UNCHANGED <<form, addVars, said>>

-----------------------------------------------------------------------------
\* The list of providers: ProviderList, DetailsPage.

\* canRemoveProvider
CanRemove(r) == r \in Capable(view.providers) => Cardinality(Capable(view.providers)) > 1

Remove ==
    /\ PageFree
    /\ \E r \in view.providers :
        /\ CanRemove(r) /\ Send("remove", r)
        /\ said' = [said EXCEPT !.linked = @ \ {r}, !.vouched = @ /\ ~Carries("add", r)]
    /\ UNCHANGED <<pageVars, addVars>>

SwitchTo ==
    /\ PageFree
    /\ \E r \in Capable(view.providers) \ {view.content.ref} : Send("switch", r)
    /\ UNCHANGED <<pageVars, addVars, said>>

-----------------------------------------------------------------------------
\* The dialog that adds a provider: useAddProviderSearch, AddProviderDialog.

SetAdd(a) ==
    /\ add' = a
    /\ UNCHANGED <<serverVars, viewVars, pageVars, searches, awaited, req, said, ops, behind>>

OpenAdd ==
    /\ PageFree /\ Counted
    /\ add' = [add EXCEPT !.open = TRUE, !.timer = TRUE]
    /\ UNCHANGED <<serverVars, viewVars, pageVars, searches, awaited, req, said, behind>>

\* Mutant: the step is not reset.
CloseAddKeepsStep == add.open /\ SetAdd([AddClosed(view) EXCEPT !.step = add.step])

CloseAdd == add.open /\ SetAdd(AddClosed(view))

\* The results of the former provider stay, and the debounce timer starts again.
SelectProvider ==
    /\ add.open /\ add.step = "pick"
    /\ \E p \in Sources \ {add.provider} : SetAdd([add EXCEPT !.provider = p, !.timer = TRUE])

\* Bound: one search at a time at a provider.
TimerFires ==
    /\ add.timer /\ add.provider \notin searches
    /\ add' = [add EXCEPT !.timer = FALSE]
    /\ searches' = searches \cup {add.provider} /\ awaited' = add.provider
    /\ UNCHANGED <<serverVars, viewVars, pageVars, req, said, ops, behind>>

\* Each answer, of the last search or of an earlier one, replaces the results.
SearchAnswers ==
    \E p \in searches :
        /\ \E found \in {p, ""} : add' = [add EXCEPT !.results = found]
        /\ searches' = searches \ {p}
        /\ awaited' = IF awaited = p THEN "" ELSE awaited
        /\ UNCHANGED <<serverVars, viewVars, pageVars, req, said, ops, behind>>

HandleResultSelect ==
    /\ add.open /\ add.step = "pick" /\ awaited = "" /\ add.results # ""
    /\ SetAdd([add EXCEPT !.step = "confirm", !.picked = add.results, !.timer = FALSE])

BackToPick ==
    /\ add.open /\ add.step = "confirm"
    /\ SetAdd([add EXCEPT !.step = "pick", !.timer = TRUE])

\* handleConfirm: the selected provider with the id of the selected result.
HandleConfirm ==
    /\ add.open /\ add.step = "confirm"
    /\ LET r == <<add.provider, add.picked>>
       IN  /\ Send("add", r)
           /\ said' = [said EXCEPT !.vouched = ~Pending("edit") /\ ~Carries("remove", r)]
    /\ UNCHANGED <<pageVars, addVars>>

-----------------------------------------------------------------------------
\* The server.

Ready(k) == req[k].st = (CASE k = "edit" -> "half" [] k = "user" -> "read" [] OTHER -> "sent")

\* Mutant: the page sends the cached user state with the changed field in it.
UserPatchFromView ==
    /\ req["user"].st = "sent"
    /\ req' = [req EXCEPT !["user"] = [st |-> "read", body |-> @.body, base |-> view.user]]
    /\ UNCHANGED <<serverVars, viewVars, pageVars, addVars, said, ops, behind>>

\* patchLibraryManga takes the stored user state before it writes the changed one.
UserPatchReads ==
    /\ req["user"].st = "sent"
    /\ req' = [req EXCEPT !["user"] = [st |-> "read", body |-> @.body, base |-> record.user]]
    /\ UNCHANGED <<serverVars, viewVars, pageVars, addVars, said, ops, behind>>

\* It saves the metadata of an edit, without a cover, before the bindings.
EditSavesMetadata ==
    /\ req["edit"].st = "sent"
    /\ record' = [record EXCEPT !.title = req["edit"].body.title, !.cover = ""]
    /\ req' = [req EXCEPT !["edit"].st = "half"]
    /\ UNCHANGED <<held, viewVars, pageVars, addVars, said, ops, behind>>

\* UserState with the fields of the request put into it.
PatchedUser(base, body) ==
    [f \in DOMAIN base |-> IF f \in DOMAIN body THEN body[f] ELSE base[f]]

\* RemoveProvider: a binding that is gone is an error, and so is the last capable one
\* while it is the content source.
RemoveAccepted(r) ==
    /\ r \in record.providers
    /\ record.content.ref = r => Capable(record.providers \ {r}) # {}

\* Mutant: the content source stays when its binding goes.
AfterRemoveKeepsContent(r) == [record EXCEPT !.providers = @ \ {r}]

\* Mutant: a binding is found by its provider alone.
AfterRemoveAll(r) ==
    LET gone == {x \in record.providers : x[1] = r[1]}
    IN  [record EXCEPT !.providers = @ \ gone,
                       !.content = IF @.ref \in gone THEN [ref |-> NoRef, mode |-> ""] ELSE @]

AfterRemove(r) ==
    [record EXCEPT !.providers = @ \ {r},
                   !.content = IF @.ref = r THEN [ref |-> NoRef, mode |-> ""] ELSE @]

\* The record after the write of request k.
Written(k, b) ==
    CASE k = "edit"   -> [record EXCEPT !.providers = b.providers, !.content = b.content]
      [] k = "user"   -> IF "none" \in DOMAIN b THEN record
                         ELSE [record EXCEPT !.user = PatchedUser(req[k].base, b)]
      [] k = "remove" -> AfterRemove(b)
      [] k = "switch" -> [record EXCEPT !.providers = @ \cup {b}, !.content.ref = b]
      [] k = "add"    -> [record EXCEPT !.providers = @ \cup {b}]

\* A sync will write back bindings without r.
Endangered(r) == \E y \in Syncs : held[y].st = "copy" /\ r \notin held[y].providers

Handled(k) ==
    /\ Ready(k)
    /\ k = "remove" => RemoveAccepted(req[k].body)
    /\ record' = Written(k, req[k].body)
    /\ req' = [req EXCEPT ![k] = [st |-> "done", body |-> @.body]]
    /\ said' = IF k # "add" THEN said
               ELSE [said EXCEPT !.vouched = @ /\ ~Endangered(req[k].body)]
    /\ UNCHANGED <<held, viewVars, pageVars, addVars, ops, behind>>

\* saved by a reader on this or on another device: UpdateChapterProgress
ProgressSaved ==
    /\ Counted /\ behind' = TRUE
    /\ record' = [record EXCEPT !.user.last = "c2"]
    /\ UNCHANGED <<held, viewVars, pageVars, addVars, req, said>>

\* refreshChaptersFromContent, and pull_manga before it stamps the bindings: nothing
\* without a content source.
SyncReads(y) ==
    /\ held[y] = Idle /\ record.content.ref # NoRef /\ Counted
    /\ held' = [held EXCEPT ![y] = [st |-> "copy", providers |-> record.providers,
                                    content |-> record.content]]
    /\ UNCHANGED <<record, viewVars, pageVars, addVars, req, said, behind>>

\* SaveBindings of the copy with the time of the sync.  The page hears of it with the
\* refresh's answer or some later event (Refetch), or not at all.
SyncSaves(y) ==
    /\ held[y].st = "copy"
    /\ record' = [record EXCEPT !.providers = held[y].providers, !.content = held[y].content]
    /\ held' = [held EXCEPT ![y] = Idle]
    /\ behind' = (behind \/ record' # record)
    /\ UNCHANGED <<viewVars, pageVars, addVars, req, said, ops>>

\* The provider does not answer, or the client has gone.
SyncFails(y) ==
    /\ held[y].st = "copy"
    /\ held' = [held EXCEPT ![y] = Idle]
    /\ UNCHANGED <<record, viewVars, pageVars, addVars, req, said, ops, behind>>

-----------------------------------------------------------------------------
\* The answers.

\* What the page tells the user when request k succeeds.
Reported(k, b) ==
    CASE k = "user" -> [f \in DOMAIN said |-> IF f \in DOMAIN b THEN b[f] ELSE said[f]]
      [] k = "add"  -> [said EXCEPT !.linked = IF said.vouched THEN @ \cup {b} ELSE @,
                                    !.vouched = FALSE]
      [] OTHER      -> said

\* Mutant: a fetch that is under way is joined (cancelRefetch: false).
OnSuccessJoins(k) ==
    /\ fetch' = IF fetch = Idle THEN Asked ELSE fetch
    /\ form' = IF k = "edit" THEN FormClosed ELSE form
    /\ add' = IF k = "add" THEN AddClosed(view) ELSE add
    /\ said' = Reported(k, req[k].body)

\* onSuccess: the manga is fetched again, a fetch under way is dropped, and the dialog
\* of the request closes.
OnSuccess(k) ==
    /\ fetch' = Asked
    /\ form' = IF k = "edit" THEN FormClosed ELSE form
    /\ add' = IF k = "add" THEN AddClosed(view) ELSE add
    /\ said' = Reported(k, req[k].body)

Answered(k) ==
    /\ req[k].st = "done"
    /\ req' = [req EXCEPT ![k] = Idle]
    /\ OnSuccess(k)
    /\ UNCHANGED <<serverVars, view, notes, searches, awaited, ops, behind>>

\* An error leaves the page as it is.
Dropped(k) ==
    /\ req' = [req EXCEPT ![k] = Idle]
    /\ UNCHANGED <<serverVars, viewVars, pageVars, addVars, ops>>

Refused ==
    /\ req["remove"].st = "sent" /\ ~RemoveAccepted(req["remove"].body)
    /\ Dropped("remove") /\ UNCHANGED <<said, behind>>

\* Bound: when the page hears of a broken connection, the request has been handled wholly
\* or not at all.
RequestLost(k) ==
    /\ Lossy /\ req[k].st = "sent"
    /\ Dropped(k) /\ UNCHANGED <<said, behind>>

InDoubt(k, b) ==
    IF k = "user" THEN [f \in DOMAIN said |-> IF f \in DOMAIN b THEN "?" ELSE said[f]] ELSE said

AnswerLost(k) ==
    /\ Lossy /\ req[k].st = "done"
    /\ Dropped(k)
    /\ said' = InDoubt(k, req[k].body) /\ behind' = TRUE

-----------------------------------------------------------------------------
\* The cached manga.

\* after a reconnect, or when the chapter list or another dialog invalidates it
Refetch ==
    /\ fetch = Idle
    /\ fetch' = Asked
    /\ UNCHANGED <<serverVars, view, pageVars, addVars, req, said, ops, behind>>

ViewServed ==
    /\ fetch = Asked
    /\ fetch' = Served(record) /\ behind' = FALSE
    /\ UNCHANGED <<serverVars, view, pageVars, addVars, req, said, ops>>

\* A change fills the open form again, over what was typed; edited notes stay.
ViewArrives ==
    /\ fetch.st = "served"
    /\ view' = fetch.data /\ fetch' = Idle
    /\ form' = IF form.open /\ fetch.data # view THEN FormOf(fetch.data) ELSE form
    /\ UNCHANGED <<serverVars, notes, addVars, req, said, ops, behind>>

FetchFails ==
    /\ Lossy /\ fetch # Idle
    /\ fetch' = Idle /\ behind' = TRUE
    /\ UNCHANGED <<serverVars, view, pageVars, addVars, req, said, ops>>

-----------------------------------------------------------------------------
EditStep   == OpenEdit \/ TypeTitle \/ ChooseMode \/ CancelEdit \/ HandleSubmit
PanelStep  == SetStatus \/ EditNotes \/ TypeNotes \/ CancelNotes \/ SaveNotes
ListStep   == Remove \/ SwitchTo
AddStep    == \/ OpenAdd \/ CloseAdd \/ SelectProvider \/ TimerFires \/ SearchAnswers
              \/ HandleResultSelect \/ BackToPick \/ HandleConfirm
ServerStep == \/ UserPatchReads \/ EditSavesMetadata \/ ProgressSaved \/ Refused
              \/ \E k \in Kinds : Handled(k)
SyncStep   == \E y \in Syncs : SyncReads(y) \/ SyncSaves(y) \/ SyncFails(y)
AnswerStep == \E k \in Kinds : Answered(k) \/ RequestLost(k) \/ AnswerLost(k)
CacheStep  == Refetch \/ ViewServed \/ ViewArrives \/ FetchFails

Next == \/ EditStep \/ PanelStep \/ ListStep \/ AddStep
        \/ ServerStep \/ SyncStep \/ AnswerStep \/ CacheStep

Spec == Init /\ [][Next]_vars

-----------------------------------------------------------------------------
Users   == [status : Statuses, notes : Notes, last : {"c1", "c2"}]
Content == [ref : Refs \cup {NoRef}, mode : Modes \cup {""}]
Records == [title : Titles, cover : {"c0", ""}, user : Users,
            providers : SUBSET Refs, content : Content]
Edits   == [title : Titles, providers : SUBSET Refs, content : Content]
Patches == [status : Statuses] \cup [notes : Notes \ {""}] \cup [none : {TRUE}]
Forms   == [open : {TRUE}, title : Titles, mode : Modes] \cup {FormClosed}
Drafts  == [editing : {TRUE}, text : Notes] \cup {NotEditing}
Adds    == [open : BOOLEAN, step : {"pick", "confirm"}, provider : Sources,
            results : Sources \cup {""}, picked : Sources \cup {""}, timer : BOOLEAN]
Sayings == [status : Statuses \cup {"?"}, notes : Notes \cup {"?"}, linked : SUBSET Refs,
            vouched : BOOLEAN]
Copies  == [st : {"copy"}, providers : SUBSET Refs, content : Content]
InFlight(body) == [st : {"sent", "done"}, body : body] \cup {Idle}
Requests(k) ==
    CASE k = "edit" -> InFlight(Edits) \cup [st : {"half"}, body : Edits]
      [] k = "user" -> InFlight(Patches) \cup [st : {"read"}, body : Patches, base : Users]
      [] OTHER      -> InFlight(Refs)

\* Type invariant: what each part of the page holds and has under way; a dialog that is
\* closed is back at its first step, and one that asks for a confirmation has a result.
TypeOK ==
    /\ record \in Records /\ view \in Records
    /\ fetch \in {Idle, Asked} \cup [st : {"served"}, data : Records]
    /\ form \in Forms /\ notes \in Drafts /\ add \in Adds
    /\ add.step = "confirm" => add.open /\ add.picked # ""
    /\ add.timer => add.open /\ add.step = "pick"
    /\ searches \subseteq Sources /\ awaited \in searches \cup {""}
    /\ DOMAIN req = Kinds /\ \A k \in Kinds : req[k] \in Requests(k)
    /\ said \in Sayings /\ held \in [Syncs -> Copies \cup {Idle}]
    /\ ops \in 0..MaxOps /\ behind \in BOOLEAN

\* The manga is never read from a provider that it is not bound to, or that cannot serve
\* chapters: whatever an edit writes back from a cached copy, a sync from the one it read, a
\* removal clears and a switch sets, content and providers of bindings.json agree
\* (library.go: RemoveProvider, SwitchContentProvider; useEditMetadataForm: bindings in
\* handleSubmit; refreshChaptersFromContent).
ContentIsBound ==
    record.content.ref # NoRef => record.content.ref \in Capable(record.providers)

\* The status and the notes that the page last reported as saved are the stored ones,
\* although each request writes the whole user state: the panel has one request at a time
\* and the server starts from the stored state (patchLibraryManga, DetailsUserMetadata:
\* isUpdating).
ReportedUserFieldsAreStored ==
    ~Pending("user") => \A f \in {"status", "notes"} : said[f] # "?" => record.user[f] = said[f]

\* A provider that was reported as added stays bound while others are added, removed or
\* switched to and the manga is synced at the same time, until the user removes it or saves
\* the edit dialog, which writes the bindings of its cached copy (library.go: AddProvider
\* under the lock).  One that is added while a sync is at work is excepted when the copy
\* of that sync lacks it: the sync takes it away without a word (refreshChaptersFromContent,
\* HandlePullManga); a sync that starts later keeps it.
ReportedProviderStaysBound == said.linked \subseteq record.providers

\* With nothing under way the page shows what the server stores, whatever the order of the
\* fetches and the writes, unless an answer was lost, or another device or a sync wrote
\* (invalidateQueries in every onSuccess).
QuietViewIsFresh ==
    fetch = Idle /\ (\A k \in Kinds : ~Pending(k)) /\ ~behind => view = record

\* "Returns error if it would leave no Content-capable provider" (library.go: RemoveProvider):
\* a manga that had a provider to read from keeps one.
LastContentCapableStays == Capable(record.providers) # {}
=============================================================================
