--------------------------- MODULE MetadataImport ---------------------------
(***************************************************************************)
(* The metadata dialogs of a manga of the library: "import" searches a     *)
(* provider, loads a candidate, compares it with the cached manga field by *)
(* field and applies the choice with up to three requests; "merge" runs    *)
(* the same comparison against another manga of the library and merges it  *)
(* with one.  The server keeps metadata and bindings in separate files.    *)
(*                                                                         *)
(* A remote manga is named by a reference <<provider, id>>: the same id at *)
(* two providers names two mangas.  A text is a value, "" when absent; a   *)
(* list is the set of its items, which the code compares and merges by     *)
(* trimmed lower-case text.  "cover" stands for cover and description,     *)
(* "year" for the attributes, "authors" for authors, artists, publishers,  *)
(* "tags" for tags and aliases.                                            *)
(***************************************************************************)
EXTENDS Naturals, FiniteSets

CONSTANTS
    Sources,      \* providers that are loaded
    Readable,     \* the ones with the content capability
    Ids,          \* remote ids
    Local,        \* metadata of the manga
    LocalMode,    \* its reading mode
    Bound,        \* its provider references
    Active,       \* the reference that is its content source
    Offer,        \* what a reference offers: metadata and reading mode
    Other,        \* another manga of the library: metadata, reading mode, references
    MaxOps,       \* bound: openings, searches, loads, imports of the user
    MaxEdits,     \* bound: changes of a selected card or of the tags
    MaxForeign,   \* bound: writes by others (another tab, refresh_metadata, pull_manga)
    Lossy         \* whether requests and answers may be lost

Texts  == {"title", "cover", "year"}
Lists  == {"authors", "links"}
Fields == Texts \cup Lists \cup {"tags"}
TextCards == {"current", "incoming"}
ListCards == {"current", "incoming", "merged"}
Refs   == Sources \X Ids
NoRef  == <<>>
Merged == <<"other">>       \* the candidate of the merge dialog

IsMeta(v) == /\ DOMAIN v = Fields
             /\ \A f \in Lists \cup {"tags"} : IsFiniteSet(v[f])

ASSUME ImportAssumption ==
    /\ Readable \subseteq Sources /\ IsFiniteSet(Sources) /\ Sources # {} /\ IsFiniteSet(Ids)
    /\ IsMeta(Local)
    /\ Bound \subseteq Refs /\ Active \in Bound
    /\ DOMAIN Offer = Refs /\ \A r \in Refs : IsMeta(Offer[r].meta)
    /\ IsMeta(Other.meta) /\ Other.providers \subseteq Refs
    /\ MaxOps \in Nat /\ MaxEdits \in Nat /\ MaxForeign \in Nat /\ Lossy \in BOOLEAN

VARIABLES
    kind,         \* the dialog in use: "import" or "merge"
    record,       \* the manga on the server
    other,        \* whether the other manga is on the server
    view,         \* the cached manga
    fetch,        \* the fetch that renews it
    dlg,          \* open, its initial reference, its step
    provider,     \* selectedProviderId
    results,      \* searchResults
    remote,       \* selectedRemoteManga
    choice,       \* the selected cards, and the selected tags
    loading,      \* isLoadingDetails
    loads,        \* loads of details under way, with their fallbacks
    search,       \* search under way: its provider, or ""
    lookup,       \* direct lookup under way
    imp,          \* importMutation: the request under way and what it captured
    ops, edits, foreign,  \* events so far
    behind,       \* history: the cache missed a change for want of an answer
    disturbed,    \* history: another writer since the import was clicked
    switched      \* history: the provider was changed with something of another at hand

serverVars == <<record, other>>
viewVars   == <<view, fetch>>
findVars   == <<provider, results, loading, loads, search, lookup, switched>>
cmpVars    == <<remote, choice>>
vars == <<kind, serverVars, viewVars, dlg, findVars, cmpVars, imp, ops, edits, foreign,
          behind, disturbed>>

Idle  == [st |-> "idle"]
Asked == [st |-> "asked"]
Served(d) == [st |-> "served", data |-> d]
NoImport == [phase |-> "idle"]
Closed(step) == [open |-> FALSE, initial |-> NoRef, step |-> step]
FirstStep == IF kind = "merge" THEN "pick" ELSE "search"

Importing == imp.phase \in {"patch", "switch", "bind", "merge"}

----------------------------------------------------------------------------
(***************************************************************************)
(* The comparison                                                          *)
(***************************************************************************)
IncomingOf(r) == IF r = Merged THEN [meta |-> Other.meta, mode |-> Other.mode] ELSE Offer[r]
Nothing == [meta |-> [f \in Fields |-> IF f \in Texts THEN "" ELSE {}], mode |-> ""]
Incoming == IF remote = NoRef THEN Nothing ELSE IncomingOf(remote)

Empty(meta, f) == IF f \in Texts THEN meta[f] = "" ELSE meta[f] = {}

\* Mutant: every difference is merged, texts too.
DefaultMerged(r) ==
    LET in == IncomingOf(r)
        Pick(f) == IF Empty(in.meta, f) \/ in.meta[f] = view.meta[f] THEN "current" ELSE "merged"
    IN  [cards |-> [f \in Texts \cup Lists |-> Pick(f)],
         mode  |-> IF in.mode = "" THEN "current" ELSE "incoming",
         tags  |-> view.meta["tags"] \cup in.meta["tags"]]

\* The preselection of initComparisonState, against the cached manga of now.
Default(r) ==
    LET in == IncomingOf(r)
        Same(f) == in.meta[f] = view.meta[f]
        Pick(f) ==
            CASE Empty(in.meta, f) -> "current"
              [] f = "year" -> "incoming"
              [] Same(f) -> "current"
              [] f = "links" -> "merged"
              [] OTHER -> "incoming"
    IN  [cards |-> [f \in Texts \cup Lists |-> Pick(f)],
         mode  |-> IF in.mode = "" THEN "current" ELSE "incoming",
         tags  |-> view.meta["tags"] \cup in.meta["tags"]]

AcceptAll ==
    LET in == Incoming
    IN  [cards |-> [f \in Texts \cup Lists |->
                        IF Empty(in.meta, f) THEN "current" ELSE "incoming"],
         mode  |-> IF in.mode = "" THEN "current" ELSE "incoming",
         tags  |-> IF in.meta["tags"] = {} THEN view.meta["tags"] ELSE in.meta["tags"]]

KeepAll ==
    [cards |-> [f \in Texts \cup Lists |-> "current"],
     mode  |-> "current",
     tags  |-> view.meta["tags"]]

\* initComparisonState, and the step that shows it.
ShowComparison(r) ==
    /\ remote' = r
    /\ choice' = Default(r)

\* fieldsToPatch: an unselected field is left out, and so is an equal title.
Sends(f) ==
    CASE f = "tags" -> TRUE
      [] f \in Lists -> choice.cards[f] # "current"
      [] f = "title" -> /\ choice.cards[f] = "incoming" /\ ~Empty(Incoming.meta, f)
                        /\ Incoming.meta[f] # view.meta[f]
      [] OTHER -> choice.cards[f] = "incoming" /\ ~Empty(Incoming.meta, f)

SentValue(f) ==
    CASE f = "tags" -> choice.tags
      [] f \in Lists /\ choice.cards[f] = "merged" -> view.meta[f] \cup Incoming.meta[f]
      [] OTHER -> Incoming.meta[f]

FieldsToPatch == [f \in {g \in Fields : Sends(g)} |-> SentValue(f)]

\* What the selected cards show.
Card(f) ==
    CASE f = "tags" -> choice.tags
      [] choice.cards[f] = "current" -> view.meta[f]
      [] choice.cards[f] = "merged" -> view.meta[f] \cup Incoming.meta[f]
      [] OTHER -> Incoming.meta[f]
Cards == [f \in Fields |-> Card(f)]

WantsMode ==
    choice.mode = "incoming" /\ Incoming.mode # "" /\ Incoming.mode # view.mode

----------------------------------------------------------------------------
Init ==
    /\ kind \in {"import", "merge"}
    /\ record = [meta |-> Local, providers |-> Bound, content |-> Active, mode |-> LocalMode]
    /\ other = TRUE
    /\ view = record /\ fetch = Idle
    /\ dlg = Closed(FirstStep)
    /\ provider = CHOOSE p \in {r[1] : r \in Bound} : TRUE
    /\ results = {} /\ remote = NoRef
    /\ choice = [cards |-> [f \in Texts \cup Lists |-> "incoming"], mode |-> "incoming", tags |-> {}]
    /\ loading = FALSE /\ loads = {} /\ search = "" /\ lookup = NoRef
    /\ imp = NoImport
    /\ ops = 0 /\ edits = 0 /\ foreign = 0
    /\ behind = FALSE /\ disturbed = FALSE /\ switched = FALSE

Acts == ops < MaxOps /\ ops' = ops + 1 /\ UNCHANGED edits

----------------------------------------------------------------------------
(***************************************************************************)
(* Opening, searching, loading a candidate                                 *)
(***************************************************************************)
DefaultProvider(v, initial) ==
    LET bound == {r[1] : r \in v.providers} \cap Sources
    IN  IF initial # NoRef /\ initial[1] \in Sources THEN initial[1]
        ELSE IF bound # {} THEN CHOOSE p \in bound : TRUE
        ELSE CHOOSE p \in Sources : TRUE

\* Whether all that is found, asked for or shown is of provider p.
AllFrom(p) ==
    /\ \A r \in results : r[1] = p
    /\ \A l \in loads : l.ref[1] = p /\ (l.fallback # NoRef => l.fallback[1] = p)
    /\ search \in {"", p}
    /\ lookup # NoRef => lookup[1] = p
    /\ remote # NoRef => remote[1] = p

\* History: nothing forgets what was found at another provider.
NoteSwitch ==
    switched' = IF provider' = provider THEN switched ELSE ~AllFrom(provider)'

\* The effect on [open, the initial reference, the default provider, the title].
ResetEffect(v, initial) ==
    /\ provider' = DefaultProvider(v, initial)
    /\ results' = {}
    /\ IF initial # NoRef
       THEN loading' = TRUE /\ loads' = loads \cup {[ref |-> initial, fallback |-> NoRef]}
       ELSE UNCHANGED <<loading, loads>>
    /\ UNCHANGED <<search, lookup>>

\* From the action bar, without a reference, or from the row of a provider.
Open(initial) ==
    /\ kind = "import" /\ ~dlg.open /\ Acts
    /\ initial \in view.providers \cup {NoRef}
    /\ dlg' = [open |-> TRUE, initial |-> initial,
               step |-> IF initial = NoRef THEN "search" ELSE dlg.step]
    /\ ResetEffect(view, initial)
    /\ UNCHANGED <<kind, serverVars, viewVars, cmpVars, imp, foreign, behind, disturbed>>
    /\ NoteSwitch

Spinner == loading /\ remote = NoRef
Searching == dlg.open /\ ~Spinner /\ dlg.step = "search"
Comparing == dlg.open /\ (kind = "import" => ~Spinner) /\ dlg.step = "compare"

SelectProvider(p) ==
    /\ Searching /\ Acts
    /\ p # provider /\ provider' = p
    /\ UNCHANGED <<kind, serverVars, viewVars, dlg, results, loading, loads, search, lookup,
                   cmpVars, imp, foreign, behind, disturbed>>
    /\ NoteSwitch

Search ==
    /\ Searching /\ Acts
    /\ search = "" /\ search' = provider
    /\ UNCHANGED <<kind, serverVars, viewVars, dlg,
                   switched, provider, results, loading, loads, lookup,
                   cmpVars, imp, foreign, behind, disturbed>>

\* Results or none; an error clears them too.  The provider may have changed.
SearchAnswers ==
    /\ search # "" /\ search' = ""
    /\ results' \in {{}, {search} \X Ids}
    /\ UNCHANGED <<kind, serverVars, viewVars, dlg,
                   switched, provider, loading, loads, lookup,
                   cmpVars, imp, ops, edits, foreign, behind, disturbed>>

\* loadMangaDetails asks the provider selected now for the id of the result.
PickResult(r) ==
    /\ Searching /\ Acts
    /\ r \in results /\ ~loading /\ search = ""
    /\ loading' = TRUE
    /\ loads' = loads \cup {[ref |-> <<provider, r[2]>>, fallback |-> r]}
    /\ UNCHANGED <<kind, serverVars, viewVars, dlg,
                   switched, provider, results, search, lookup,
                   cmpVars, imp, foreign, behind, disturbed>>

\* No load knows whether the dialog still waits for it.
LoadAnswers(l) ==
    /\ ShowComparison(l.ref)
    /\ dlg' = [dlg EXCEPT !.step = "compare"]
    /\ loading' = FALSE /\ loads' = loads \ {l}
    /\ UNCHANGED <<kind, serverVars, viewVars, switched, provider, results, search, lookup,
                   imp, ops, edits, foreign, behind, disturbed>>

\* Mutant: the error path leaves isLoadingDetails set.
LoadFailsSpinning(l) ==
    /\ IF l.fallback # NoRef
       THEN ShowComparison(l.fallback) /\ dlg' = [dlg EXCEPT !.step = "compare"]
       ELSE UNCHANGED cmpVars /\ dlg' = [dlg EXCEPT !.step = "search"]
    /\ loads' = loads \ {l}
    /\ UNCHANGED <<kind, serverVars, viewVars,
                   switched, provider, results, loading, search, lookup,
                   imp, ops, edits, foreign, behind, disturbed>>

LoadFails(l) ==
    /\ IF l.fallback # NoRef
       THEN ShowComparison(l.fallback) /\ dlg' = [dlg EXCEPT !.step = "compare"]
       ELSE UNCHANGED cmpVars /\ dlg' = [dlg EXCEPT !.step = "search"]
    /\ loading' = FALSE /\ loads' = loads \ {l}
    /\ UNCHANGED <<kind, serverVars, viewVars, switched, provider, results, search, lookup,
                   imp, ops, edits, foreign, behind, disturbed>>

Lookup(id) ==
    /\ Searching /\ Acts
    /\ lookup = NoRef /\ lookup' = <<provider, id>>
    /\ UNCHANGED <<kind, serverVars, viewVars, dlg,
                   switched, provider, results, loading, loads, search,
                   cmpVars, imp, foreign, behind, disturbed>>

LookupAnswers ==
    /\ lookup # NoRef /\ lookup' = NoRef
    /\ \/ ShowComparison(lookup) /\ dlg' = [dlg EXCEPT !.step = "compare"]
       \/ UNCHANGED <<cmpVars, dlg>>     \* an error message
    /\ UNCHANGED <<kind, serverVars, viewVars,
                   switched, provider, results, loading, loads, search,
                   imp, ops, edits, foreign, behind, disturbed>>

\* MergeMangaDialog: a source is picked and the comparison is mounted.
PickSource ==
    /\ kind = "merge" /\ ~dlg.open /\ Acts
    /\ dlg' = [dlg EXCEPT !.open = TRUE, !.step = "compare"]
    /\ ShowComparison(Merged)
    /\ ~Importing /\ imp' = NoImport     \* bound: not while its merge is under way
    /\ UNCHANGED <<kind, serverVars, viewVars, findVars, foreign, behind, disturbed>>

----------------------------------------------------------------------------
(***************************************************************************)
(* The comparison step                                                     *)
(***************************************************************************)
Edits == edits < MaxEdits /\ edits' = edits + 1

UnchangedByCards ==
    UNCHANGED <<kind, serverVars, viewVars, dlg, findVars, remote, imp, ops, foreign, behind, disturbed>>

\* Cover, title, description: both cards, when the candidate has a value.
ChooseText(f, c) ==
    /\ Comparing /\ Edits /\ f \in {"title", "cover"} /\ ~Empty(Incoming.meta, f)
    /\ choice.cards[f] # c /\ choice' = [choice EXCEPT !.cards[f] = c]
    /\ UnchangedByCards

\* The rows of the attributes, which "Show all" offers even when empty.
ChooseAttribute(c) ==
    /\ Comparing /\ Edits
    /\ \/ choice.cards["year"] # c /\ choice' = [choice EXCEPT !.cards["year"] = c]
       \/ choice.mode # c /\ choice' = [choice EXCEPT !.mode = c]
    /\ UnchangedByCards

ChooseList(f, c) ==
    /\ Comparing /\ Edits
    /\ ~Empty(Incoming.meta, f) \/ (f = "links" /\ ~Empty(view.meta, f))
    /\ choice.cards[f] # c /\ choice' = [choice EXCEPT !.cards[f] = c]
    /\ UnchangedByCards

\* What the editors offer, selected or not.
TagPool == view.meta["tags"] \cup Incoming.meta["tags"]

\* Merge, Current, Incoming, Clear, and adding or removing one.
EditTags ==
    /\ Comparing /\ Edits
    /\ \E S \in SUBSET TagPool :
           S # choice.tags /\ choice' = [choice EXCEPT !.tags = S]
    /\ UnchangedByCards

AcceptIncoming ==
    Comparing /\ Edits /\ remote # NoRef /\ choice' = AcceptAll /\ UnchangedByCards

KeepCurrent ==
    Comparing /\ Edits /\ choice' = KeepAll /\ UnchangedByCards

Back ==
    /\ kind = "import" /\ Comparing /\ Acts
    /\ dlg' = [dlg EXCEPT !.step = "search"]
    /\ UNCHANGED <<kind, serverVars, viewVars, findVars, cmpVars, imp, foreign, behind, disturbed>>

\* Mutant: the step is kept.
HandleCloseKeepsStep ==
    /\ dlg' = [dlg EXCEPT !.open = FALSE, !.initial = NoRef]
    /\ results' = {} /\ remote' = NoRef

\* handleClose: loads, searches and an import under way go on.
HandleClose ==
    /\ dlg' = Closed(FirstStep)
    /\ results' = {} /\ remote' = NoRef

Close ==
    /\ dlg.open /\ Acts
    /\ HandleClose
    /\ UNCHANGED <<kind, serverVars, viewVars,
                   switched, provider, loading, loads, search, lookup, choice,
                   imp, foreign, behind, disturbed>>

----------------------------------------------------------------------------
(***************************************************************************)
(* importMutation: what it sends is captured by the click                  *)
(***************************************************************************)
\* Mutant: the binding names the provider the dialog was opened for.
BindingDefault == <<DefaultProvider(view, dlg.initial), remote[2]>>

\* The binding has the provider selected now and the id of the candidate.
Binding == <<provider, remote[2]>>

Import ==
    /\ Comparing /\ ~Importing /\ Acts
    /\ imp' = IF kind = "merge"
              THEN [phase |-> "merge", choice |-> choice]
              ELSE [phase |-> "patch", patch |-> FieldsToPatch, cards |-> Cards,
                    ref |-> Binding, setMode |-> WantsMode, mode |-> Incoming.mode,
                    candidate |-> remote, switched |-> switched]
    /\ disturbed' = FALSE
    /\ UNCHANGED <<kind, serverVars, viewVars, dlg, findVars, cmpVars, foreign, behind>>

\* PATCH /metadata saves its body: a field the body leaves out becomes empty.
Saved(patch) ==
    [f \in Fields |-> IF f \in DOMAIN patch THEN patch[f] ELSE Nothing.meta[f]]

\* Mutant: a list is taken from the chosen side as a text is.
MergedMetaChosen(ch) ==
    [f \in Fields |->
        CASE f \in Texts \cup Lists ->
                 IF ch.cards[f] = "incoming" THEN Other.meta[f] ELSE record.meta[f]
          [] OTHER -> record.meta[f] \cup Other.meta[f]]

\* The merge keeps the lists of both and takes a text from the chosen side.
MergedMeta(ch) ==
    [f \in Fields |->
        CASE f \in Texts -> IF ch.cards[f] = "incoming" THEN Other.meta[f] ELSE record.meta[f]
          [] f = "links" -> record.meta[f]
          [] OTHER -> record.meta[f] \cup Other.meta[f]]

\* A source that cannot be deleted is logged and stays.
SourceDeleted == other' \in IF Lossy THEN BOOLEAN ELSE {FALSE}

Apply(i) ==
    CASE i.phase = "patch" ->
            record' = [record EXCEPT !.meta = Saved(i.patch)] /\ UNCHANGED other
      [] i.phase = "switch" ->
            /\ record' = [record EXCEPT !.providers = @ \cup {i.ref}, !.content = i.ref,
                                        !.mode = i.mode]
            /\ UNCHANGED other
      [] i.phase = "bind" ->
            record' = [record EXCEPT !.providers = @ \cup {i.ref}] /\ UNCHANGED other
      [] i.phase = "merge" ->
            /\ record' = [record EXCEPT !.meta = MergedMeta(i.choice),
                                        !.providers = @ \cup Other.providers]
            /\ SourceDeleted

Accepts(i) ==
    CASE i.phase = "switch" -> i.ref[1] \in Readable
      [] i.phase = "merge" -> other
      [] OTHER -> TRUE

\* onError: a toast.  What earlier requests did stays, and nothing is refetched.
Fails ==
    /\ imp' = [imp EXCEPT !.phase = "failed"]
    /\ behind' = TRUE
    /\ UNCHANGED <<dlg, results, remote, fetch>>

NextPhase(i) == IF i.phase = "patch" /\ i.setMode THEN "switch" ELSE "bind"

\* Mutant: a fetch under way is taken for the renewal.
SucceedsJoins ==
    /\ imp' = [imp EXCEPT !.phase = "done"]
    /\ fetch' = IF fetch = Idle THEN Asked ELSE fetch
    /\ HandleClose

\* onSuccess invalidates, drops a fetch under way, and closes the dialog.
Succeeds ==
    /\ imp' = [imp EXCEPT !.phase = "done"]
    /\ fetch' = Asked
    /\ HandleClose

RequestApplied ==
    /\ Importing /\ Accepts(imp)
    /\ Apply(imp)
    /\ IF imp.phase \in {"bind", "merge"}
       THEN Succeeds
       ELSE /\ imp' = [imp EXCEPT !.phase = NextPhase(imp)]
            /\ UNCHANGED <<dlg, results, remote, fetch>>
    /\ UNCHANGED <<kind, view, switched, provider, loading, loads, search, lookup, choice,
                   ops, edits, foreign, behind, disturbed>>

RequestRefused ==
    /\ Importing /\ (~Accepts(imp) \/ Lossy)
    /\ Fails
    /\ UNCHANGED <<kind, serverVars, view,
                   switched, provider, loading, loads, search, lookup, choice,
                   ops, edits, foreign, disturbed>>

\* The request was carried out, its answer was lost.
AnswerLost ==
    /\ Lossy /\ Importing /\ Accepts(imp)
    /\ Apply(imp)
    /\ Fails
    /\ UNCHANGED <<kind, view,
                   switched, provider, loading, loads, search, lookup, choice, ops, edits, foreign, disturbed>>

\* The sources are deleted before the merged metadata and then the merged
\* bindings are saved, and either may fail.
MergeSaveFails ==
    /\ Lossy /\ imp.phase = "merge" /\ Accepts(imp)
    /\ SourceDeleted
    /\ record' \in {record, [record EXCEPT !.meta = MergedMeta(imp.choice)]}
    /\ Fails
    /\ UNCHANGED <<kind, view, switched, provider, loading, loads, search, lookup, choice,
                   ops, edits, foreign, disturbed>>

----------------------------------------------------------------------------
(***************************************************************************)
(* The cached manga, and other writers of the record                       *)
(***************************************************************************)
\* A reconnect, or an answer to another mutation of the page.  One that would
\* find nothing new is left out.
Refetch ==
    /\ fetch = Idle /\ view # record
    /\ fetch' = Asked
    /\ UNCHANGED <<kind, serverVars, view, dlg, findVars, cmpVars, imp, ops, edits, foreign, behind, disturbed>>

ViewServed ==
    /\ fetch = Asked
    /\ fetch' = Served(record)
    /\ behind' = FALSE
    /\ UNCHANGED <<kind, serverVars, view, dlg, findVars, cmpVars, imp, ops, edits, foreign, disturbed>>

\* The reset effect of an open import dialog runs when what it depends on changes.
ViewArrives ==
    LET new == fetch.data
    IN  /\ fetch.st = "served"
        /\ view' = new /\ fetch' = Idle
        /\ UNCHANGED <<kind, serverVars, dlg, cmpVars, imp, ops, edits, foreign, behind, disturbed>>
        /\ IF /\ kind = "import" /\ dlg.open
              /\ \/ new.meta["title"] # view.meta["title"]
                 \/ DefaultProvider(new, dlg.initial) # DefaultProvider(view, dlg.initial)
           THEN ResetEffect(new, dlg.initial) /\ NoteSwitch
           ELSE UNCHANGED findVars

FetchFails ==
    /\ Lossy /\ fetch # Idle
    /\ fetch' = Idle /\ behind' = TRUE
    /\ UNCHANGED <<kind, serverVars, view, dlg, findVars, cmpVars, imp, ops, edits, foreign, disturbed>>

\* Another tab edits the title or a refresh_metadata job brings another; or a refresh
\* of the chapters or a pull_manga job writes back the bindings that it read before.
\* A write that changes nothing is left out.
ForeignWrite ==
    /\ foreign < MaxForeign /\ foreign' = foreign + 1
    /\ record' \in {[record EXCEPT !.meta["title"] = "foreign"],
                    [record EXCEPT !.providers = Bound, !.content = Active, !.mode = LocalMode]}
    /\ record' # record
    /\ behind' = TRUE
    /\ disturbed' = TRUE
    /\ UNCHANGED <<kind, other, viewVars, dlg, findVars, cmpVars, imp, ops, edits>>

----------------------------------------------------------------------------
Next ==
    \/ \E r \in Refs \cup {NoRef} : Open(r)
    \/ \E p \in Sources : SelectProvider(p)
    \/ Search
    \/ SearchAnswers
    \/ \E r \in results : PickResult(r)
    \/ \E l \in loads : LoadAnswers(l) \/ LoadFails(l)
    \/ \E id \in Ids : Lookup(id)
    \/ LookupAnswers
    \/ PickSource
    \/ \E f \in Texts, c \in TextCards : ChooseText(f, c)
    \/ \E c \in TextCards : ChooseAttribute(c)
    \/ \E f \in Lists, c \in ListCards : ChooseList(f, c)
    \/ EditTags
    \/ AcceptIncoming
    \/ KeepCurrent
    \/ Back
    \/ Close
    \/ Import
    \/ RequestApplied
    \/ RequestRefused
    \/ AnswerLost
    \/ MergeSaveFails
    \/ Refetch
    \/ ViewServed
    \/ ViewArrives
    \/ FetchFails
    \/ ForeignWrite

Spec == Init /\ [][Next]_vars

RequestEnds == RequestApplied \/ RequestRefused \/ AnswerLost \/ MergeSaveFails

\* Every request is answered or fails: fetch ends one way or the other.
Fairness ==
    /\ WF_vars(\E l \in loads : LoadAnswers(l) \/ LoadFails(l))
    /\ WF_vars(RequestEnds)

FairSpec == Spec /\ Fairness

----------------------------------------------------------------------------
(***************************************************************************)
(* Properties                                                              *)
(***************************************************************************)
\* Only a list can be merged.
IsCards(c) ==
    /\ DOMAIN c = Texts \cup Lists
    /\ \A f \in Texts : c[f] \in TextCards
    /\ \A f \in Lists : c[f] \in ListCards
IsRecord(v) ==
    /\ IsMeta(v.meta) /\ v.providers \subseteq Refs /\ v.content \in Refs

\* The type invariant.
TypeOK ==
    /\ kind \in {"import", "merge"}
    /\ IsRecord(record) /\ IsRecord(view) /\ other \in BOOLEAN
    /\ fetch.st \in {"idle", "asked", "served"} /\ (fetch.st = "served" => IsRecord(fetch.data))
    /\ dlg.open \in BOOLEAN /\ dlg.initial \in Refs \cup {NoRef}
    /\ dlg.step \in {"search", "compare", "pick"}
    /\ provider \in Sources /\ results \subseteq Refs
    /\ remote \in Refs \cup {NoRef, Merged}
    /\ IsCards(choice.cards) /\ choice.mode \in {"current", "incoming"}
    /\ loading \in BOOLEAN /\ search \in Sources \cup {""} /\ lookup \in Refs \cup {NoRef}
    /\ \A l \in loads : l.ref \in Refs /\ l.fallback \in Refs \cup {NoRef}
    /\ imp.phase \in {"idle", "patch", "switch", "bind", "merge", "done", "failed"}
    /\ ops \in 0 .. MaxOps /\ edits \in 0 .. MaxEdits /\ foreign \in 0 .. MaxForeign
    /\ behind \in BOOLEAN /\ disturbed \in BOOLEAN /\ switched \in BOOLEAN

\* However late a load, a lookup or an import answers, and whatever was closed
\* and opened meanwhile, the comparison is never shown without a candidate:
\* importing then would patch the manga with nothing but its own tags.
ComparisonHasCandidate == dlg.step = "compare" => remote # NoRef

\* An import that reports success has done all of what the click captured, and
\* until somebody else writes it stays: the metadata of the candidate shown then,
\* the content source and the binding, though the dialog may show another
\* candidate by now.  Metadata and binding are those of one remote manga, unless
\* the provider was changed while a search, a result, a load or a candidate of
\* another was at hand: the binding then joins the provider selected at the click
\* with the id of the candidate.
ReportedImportIsApplied ==
    kind = "import" /\ imp.phase = "done" =>
        /\ ~disturbed => /\ imp.ref \in record.providers
                         /\ imp.setMode => record.content = imp.ref /\ record.mode = imp.mode
                         /\ record.meta = Saved(imp.patch)
        /\ ~imp.switched => imp.ref = imp.candidate

\* When nothing is under way the cached manga is the one of the server, unless
\* an import failed half way, a fetch failed or somebody else wrote.
QuietViewIsFresh ==
    fetch = Idle /\ ~Importing /\ ~behind => view = record

\* A merge that reports success lost no author, tag or binding of either manga,
\* though its source is deleted before the merged manga is saved, and the manga
\* is still read from one of its providers; only a writer that held older bindings
\* takes those of the source away again.
ReportedMergeIsWhole ==
    kind = "merge" /\ imp.phase = "done" =>
        /\ Bound \subseteq record.providers
        /\ ~disturbed => Other.providers \subseteq record.providers
        /\ \A f \in {"authors", "tags"} : Local[f] \cup Other.meta[f] \subseteq record.meta[f]
        /\ record.content \in record.providers

\* The state as far as it matters to the three properties above: once the user has
\* stopped, nothing the dialog shows or waits for reaches the record or the page.
LiveState ==
    <<kind, serverVars, viewVars, imp, ops, foreign, behind, disturbed,
      IF ops < MaxOps THEN <<dlg, findVars, cmpVars, edits>> ELSE <<>> >>

\* The spinner that hides the whole dialog is always owed to a load that has
\* still to end, though loads of closed and reopened dialogs share one flag.
SpinnerIsOwed == loading => loads # {}

\* The spinner of the dialog and the disabled button of an import end.
DialogSettles == (loading ~> ~loading) /\ (Importing ~> ~Importing)

\* An import that reports success has stored what the selected cards show, for
\* a card of the manga itself too.
SelectedCardIsStored ==
    kind = "import" /\ imp.phase = "done" /\ ~disturbed => record.meta = imp.cards
=============================================================================
