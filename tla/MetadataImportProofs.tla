------------------------ MODULE MetadataImportProofs ------------------------
(***************************************************************************)
(* Proofs about the metadata dialogs, for any providers, ids, mangas and   *)
(* offers, and any number of openings, imports, losses and other writers.  *)
(*                                                                         *)
(* An import is a chain of up to three requests; the invariant says what   *)
(* each request that was carried out has left in the record, so that the   *)
(* report at the end of the chain can be trusted.                          *)
(***************************************************************************)
EXTENDS MetadataImport, TLAPS

RecordFields == {"meta", "providers", "content", "mode"}
ImportFields == {"phase", "patch", "cards", "ref", "setMode", "mode", "candidate", "switched"}

\* The record and the mutation have the fields that the steps read and write.
Shapes ==
    /\ DOMAIN record = RecordFields /\ DOMAIN record.meta = Fields
    /\ kind = "import" => /\ imp.phase \in {"idle", "patch", "switch", "bind", "done", "failed"}
                          /\ imp.phase # "idle" => DOMAIN imp = ImportFields
    /\ kind = "merge" => imp.phase \in {"idle", "merge", "done", "failed"}
    /\ "phase" \in DOMAIN imp

\* What the requests of an import that were carried out have left in the record.
ImportSoFar ==
    kind = "import" =>
        /\ imp.phase \in {"switch", "bind", "done"} /\ ~disturbed =>
              record.meta = Saved(imp.patch)
        /\ imp.phase \in {"bind", "done"} /\ imp.setMode /\ ~disturbed =>
              record.content = imp.ref /\ record.mode = imp.mode
        /\ imp.phase = "done" /\ ~disturbed => imp.ref \in record.providers

\* A merge, carried out wholly or in part, takes nothing from the manga.
MergeSoFar ==
    kind = "merge" =>
        /\ Bound \subseteq record.providers /\ record.content = Active
        /\ \A f \in {"authors", "tags"} : Local[f] \subseteq record.meta[f]
        /\ imp.phase = "done" =>
              /\ ~disturbed => Other.providers \subseteq record.providers
              /\ \A f \in {"authors", "tags"} : Other.meta[f] \subseteq record.meta[f]

\* A fetch that was served after the last write shows the record; the writes of a chain
\* whose end the page has not heard of are the exception.
ViewKept ==
    ~behind /\ imp.phase \notin {"switch", "bind"} =>
        /\ fetch = Idle => view = record
        /\ fetch.st = "served" => fetch.data = record

Told == Shapes /\ ImportSoFar /\ MergeSoFar /\ ViewKept

-----------------------------------------------------------------------------
(***************************************************************************)
(* Steps of the dialog                                                     *)
(***************************************************************************)
DialogStep ==
    \/ \E r \in Refs \cup {NoRef} : Open(r)
    \/ \E p \in Sources : SelectProvider(p)
    \/ Search
    \/ SearchAnswers
    \/ \E r \in results : PickResult(r)
    \/ \E l \in loads : LoadAnswers(l) \/ LoadFails(l)
    \/ \E id \in Ids : Lookup(id)
    \/ LookupAnswers
    \/ \E f \in Texts, c \in TextCards : ChooseText(f, c)
    \/ \E c \in TextCards : ChooseAttribute(c)
    \/ \E f \in Lists, c \in ListCards : ChooseList(f, c)
    \/ EditTags
    \/ AcceptIncoming
    \/ KeepCurrent
    \/ Back
    \/ Close

\* What is on the server, in the cache and under way, and not what the dialog shows.
LEMMA Untouched ==
    ASSUME Told, UNCHANGED <<kind, record, view, fetch, imp, behind, disturbed>>
    PROVE  Told'
<1>1. Shapes'
  BY DEF Told, Shapes
<1>2. ImportSoFar'
  BY DEF Told, ImportSoFar, Saved, Nothing
<1>3. MergeSoFar' /\ ViewKept'
  BY DEF Told, MergeSoFar, ViewKept
<1> QED BY <1>1, <1>2, <1>3 DEF Told

LEMMA DialogStepKept ==
    ASSUME Told, DialogStep
    PROVE  Told'
<1>1. UNCHANGED <<kind, record, view, fetch, imp, behind, disturbed>>
  BY DEF DialogStep, Open, SelectProvider, Search, SearchAnswers, PickResult, LoadAnswers,
         LoadFails, Lookup, LookupAnswers, ChooseText, ChooseAttribute, ChooseList, EditTags,
         AcceptIncoming, KeepCurrent, Back, Close, UnchangedByCards, serverVars, viewVars
<1> QED BY <1>1, Untouched

\* A mutation that starts, or is forgotten.
LEMMA BeginKept ==
    ASSUME Told, PickSource \/ Import
    PROVE  Told'
<1>1. UNCHANGED <<kind, record, view, fetch, behind>> /\ ~Importing
  BY DEF PickSource, Import, serverVars, viewVars
<1>2. imp.phase \notin {"switch", "bind"}
  BY <1>1 DEF Importing
<1>3. CASE PickSource
  <2>1. kind = "merge" /\ imp' = NoImport
    BY <1>3 DEF PickSource
  <2>2. imp'.phase = "idle" /\ DOMAIN imp' = {"phase"}
    BY <2>1 DEF NoImport
  <2>3. Shapes'
    BY <1>1, <2>1, <2>2 DEF Told, Shapes
  <2>4. ImportSoFar' /\ MergeSoFar'
    BY <1>1, <2>1, <2>2 DEF Told, ImportSoFar, MergeSoFar
  <2>5. ViewKept'
    BY <1>1, <1>2 DEF Told, ViewKept
  <2> QED BY <2>3, <2>4, <2>5 DEF Told
<1>4. CASE Import /\ kind = "merge"
  <2>1. imp' = [phase |-> "merge", choice |-> choice]
    BY <1>4 DEF Import
  <2>2. imp'.phase = "merge" /\ "phase" \in DOMAIN imp'
    BY <2>1
  <2>3. Shapes'
    BY <1>1, <1>4, <2>2 DEF Told, Shapes
  <2>4. ImportSoFar' /\ MergeSoFar'
    BY <1>1, <1>4, <2>2 DEF Told, ImportSoFar, MergeSoFar
  <2>5. ViewKept'
    BY <1>1, <1>2 DEF Told, ViewKept
  <2> QED BY <2>3, <2>4, <2>5 DEF Told
<1>5. CASE Import /\ kind # "merge"
  <2>1. imp' = [phase |-> "patch", patch |-> FieldsToPatch, cards |-> Cards,
                ref |-> Binding, setMode |-> WantsMode, mode |-> Incoming.mode,
                candidate |-> remote, switched |-> switched]
    BY <1>5 DEF Import
  <2>2. imp'.phase = "patch" /\ DOMAIN imp' = ImportFields
    BY <2>1 DEF ImportFields
  <2>3. Shapes'
    BY <1>1, <1>5, <2>2 DEF Told, Shapes, ImportFields
  <2>4. ImportSoFar' /\ MergeSoFar'
    BY <1>1, <1>5, <2>2 DEF Told, ImportSoFar, MergeSoFar
  <2>5. ViewKept'
    BY <1>1, <1>2 DEF Told, ViewKept
  <2> QED BY <2>3, <2>4, <2>5 DEF Told
<1> QED BY <1>3, <1>4, <1>5

-----------------------------------------------------------------------------
(***************************************************************************)
(* Requests carried out, refused or lost                                   *)
(***************************************************************************)
\* What a request leaves in the record, by its phase.
LEMMA Applied ==
    ASSUME Told, Importing, Apply(imp)
    PROVE  /\ DOMAIN record' = RecordFields /\ DOMAIN record'.meta = Fields
           /\ imp.phase = "patch" => record'.meta = Saved(imp.patch)
           /\ imp.phase = "switch" => /\ record'.meta = record.meta
                                      /\ record'.content = imp.ref /\ record'.mode = imp.mode
           /\ imp.phase = "bind" =>
                 /\ record'.meta = record.meta /\ record'.content = record.content
                 /\ record'.mode = record.mode /\ imp.ref \in record'.providers
           /\ imp.phase = "merge" =>
                 /\ record'.content = record.content
                 /\ record'.providers = record.providers \cup Other.providers
                 /\ \A f \in {"authors", "tags"} :
                       record'.meta[f] = record.meta[f] \cup Other.meta[f]
<1>1. DOMAIN record = RecordFields /\ DOMAIN record.meta = Fields
  BY DEF Told, Shapes
<1>2. CASE imp.phase = "patch"
  <2>1. record' = [record EXCEPT !.meta = Saved(imp.patch)] /\ DOMAIN Saved(imp.patch) = Fields
    BY <1>2 DEF Apply, Saved
  <2> QED BY <1>1, <1>2, <2>1 DEF RecordFields
<1>3. CASE imp.phase = "switch"
  <2>1. record' = [record EXCEPT !.providers = @ \cup {imp.ref}, !.content = imp.ref,
                                 !.mode = imp.mode]
    BY <1>3 DEF Apply
  <2> QED BY <1>1, <1>3, <2>1 DEF RecordFields
<1>4. CASE imp.phase = "bind"
  <2>1. record' = [record EXCEPT !.providers = @ \cup {imp.ref}]
    BY <1>4 DEF Apply
  <2> QED BY <1>1, <1>4, <2>1 DEF RecordFields
<1>5. CASE imp.phase = "merge"
  <2>1. record' = [record EXCEPT !.meta = MergedMeta(imp.choice),
                                 !.providers = @ \cup Other.providers]
    BY <1>5 DEF Apply
  <2>2. /\ DOMAIN MergedMeta(imp.choice) = Fields
        /\ \A f \in {"authors", "tags"} :
              MergedMeta(imp.choice)[f] = record.meta[f] \cup Other.meta[f]
    BY DEF MergedMeta, Fields, Texts, Lists
  <2> QED BY <1>1, <1>5, <2>1, <2>2 DEF RecordFields
<1> QED BY <1>2, <1>3, <1>4, <1>5 DEF Importing

LEMMA RequestAppliedKept ==
    ASSUME Told, RequestApplied
    PROVE  Told'
<1>1. /\ Importing /\ Apply(imp) /\ UNCHANGED <<kind, view, behind, disturbed>>
      /\ "phase" \in DOMAIN imp
  BY DEF Told, Shapes, RequestApplied
<1> DEFINE q == IF imp.phase \in {"bind", "merge"} THEN "done" ELSE NextPhase(imp)
<1>2. imp' = [imp EXCEPT !.phase = q]
  BY DEF RequestApplied, Succeeds
<1>3. /\ imp'.phase = q /\ DOMAIN imp' = DOMAIN imp
      /\ \A x \in DOMAIN imp \ {"phase"} : imp'[x] = imp[x]
  BY <1>1, <1>2
<1>4. /\ imp.phase = "patch" => q = IF imp.setMode THEN "switch" ELSE "bind"
      /\ imp.phase = "switch" => q = "bind"
      /\ imp.phase \in {"bind", "merge"} => q = "done" /\ fetch' = Asked
      /\ imp.phase \in {"patch", "switch", "bind", "merge"}
  BY <1>1 DEF RequestApplied, Succeeds, NextPhase, Importing
<1> HIDE DEF q
<1>5. /\ DOMAIN record' = RecordFields /\ DOMAIN record'.meta = Fields
      /\ imp.phase = "patch" => record'.meta = Saved(imp.patch)
      /\ imp.phase = "switch" => /\ record'.meta = record.meta
                                 /\ record'.content = imp.ref /\ record'.mode = imp.mode
      /\ imp.phase = "bind" =>
            /\ record'.meta = record.meta /\ record'.content = record.content
            /\ record'.mode = record.mode /\ imp.ref \in record'.providers
      /\ imp.phase = "merge" =>
            /\ record'.content = record.content
            /\ record'.providers = record.providers \cup Other.providers
            /\ \A f \in {"authors", "tags"} :
                  record'.meta[f] = record.meta[f] \cup Other.meta[f]
  BY <1>1, Applied
<1>6. Shapes'
  BY <1>1, <1>3, <1>4, <1>5 DEF Told, Shapes
<1>7. ImportSoFar'
  <2>1. SUFFICES ASSUME kind = "import" PROVE ImportSoFar'
    BY <1>1 DEF ImportSoFar
  <2>2. DOMAIN imp = ImportFields
    BY <1>4, <2>1 DEF Told, Shapes
  <2>3. /\ imp'.patch = imp.patch /\ imp'.ref = imp.ref /\ imp'.setMode = imp.setMode
        /\ imp'.mode = imp.mode
    BY <1>3, <2>2 DEF ImportFields
  <2>4. Saved(imp.patch)' = Saved(imp.patch)
    BY <2>3 DEF Saved, Nothing
  <2>5. imp.phase \in {"switch", "bind"} /\ ~disturbed => record.meta = Saved(imp.patch)
    BY <2>1 DEF Told, ImportSoFar
  <2>6. imp.phase = "bind" /\ imp.setMode /\ ~disturbed => record.content = imp.ref /\ record.mode = imp.mode
    BY <2>1 DEF Told, ImportSoFar
  <2>7. imp.phase # "merge"
    BY <2>1 DEF Told, Shapes
  <2>8. imp'.phase \in {"switch", "bind", "done"} /\ ~disturbed' => record'.meta = Saved(imp.patch)'
    BY <1>1, <1>4, <1>5, <2>4, <2>5, <2>7
  <2>9. imp'.phase \in {"bind", "done"} /\ imp'.setMode /\ ~disturbed' =>
           record'.content = imp'.ref /\ record'.mode = imp'.mode
    BY <1>1, <1>3, <1>4, <1>5, <2>3, <2>6, <2>7
  <2>10. imp'.phase = "done" => imp'.ref \in record'.providers
    BY <1>3, <1>4, <1>5, <2>3, <2>7
  <2> QED BY <2>8, <2>9, <2>10 DEF ImportSoFar
<1>8. MergeSoFar'
  <2>1. SUFFICES ASSUME kind = "merge" PROVE MergeSoFar'
    BY <1>1 DEF MergeSoFar
  <2>2. imp.phase = "merge"
    BY <1>4, <2>1 DEF Told, Shapes
  <2> QED BY <1>5, <2>1, <2>2 DEF Told, MergeSoFar
<1>9. ViewKept'
  <2>1. imp'.phase \notin {"switch", "bind"} => fetch' = Asked
    BY <1>3, <1>4
  <2>2. Asked # Idle /\ Asked.st # "served"
    BY DEF Asked, Idle
  <2> QED BY <2>1, <2>2 DEF ViewKept
<1> QED BY <1>6, <1>7, <1>8, <1>9 DEF Told

\* A mutation that ends with an error, whatever part of it was carried out.
LEMMA FailedKept ==
    ASSUME Told, Importing, Fails, UNCHANGED <<kind, disturbed>>,
           DOMAIN record' = RecordFields, DOMAIN record'.meta = Fields,
           kind = "merge" => /\ record'.content = record.content
                             /\ record.providers \subseteq record'.providers
                             /\ \A f \in {"authors", "tags"} : record.meta[f] \subseteq record'.meta[f]
    PROVE  Told'
<1>1. behind' = TRUE /\ imp' = [imp EXCEPT !.phase = "failed"] /\ "phase" \in DOMAIN imp
  BY DEF Fails, Told, Shapes
<1>2. imp'.phase = "failed" /\ DOMAIN imp' = DOMAIN imp
  BY <1>1
<1>3. imp.phase # "idle"
  BY DEF Importing
<1>4. Shapes'
  BY <1>2, <1>3 DEF Told, Shapes
<1>5. ImportSoFar' /\ ViewKept'
  BY <1>1, <1>2 DEF ImportSoFar, ViewKept
<1>6. MergeSoFar'
  BY <1>2 DEF Told, MergeSoFar
<1> QED BY <1>4, <1>5, <1>6 DEF Told

LEMMA RequestFailsKept ==
    ASSUME Told, RequestRefused \/ AnswerLost \/ MergeSaveFails
    PROVE  Told'
<1>1. DOMAIN record = RecordFields /\ DOMAIN record.meta = Fields
  BY DEF Told, Shapes
<1>2. CASE RequestRefused
  <2>1. Importing /\ Fails /\ UNCHANGED <<kind, disturbed, record>>
    BY <1>2 DEF RequestRefused, serverVars
  <2> QED BY <1>1, <2>1, FailedKept
<1>3. CASE AnswerLost
  <2>1. Importing /\ Fails /\ Apply(imp) /\ UNCHANGED <<kind, disturbed>>
    BY <1>3 DEF AnswerLost
  <2>2. DOMAIN record' = RecordFields /\ DOMAIN record'.meta = Fields
    BY <2>1, Applied
  <2>3. kind = "merge" => imp.phase = "merge"
    BY <2>1 DEF Told, Shapes, Importing
  <2>4. kind = "merge" =>
           /\ record'.content = record.content
           /\ record.providers \subseteq record'.providers
           /\ \A f \in {"authors", "tags"} : record.meta[f] \subseteq record'.meta[f]
    BY <2>1, <2>3, Applied
  <2> QED BY <2>1, <2>2, <2>4, FailedKept
<1>4. CASE MergeSaveFails
  <2>1. /\ Importing /\ Fails /\ UNCHANGED <<kind, disturbed>>
        /\ \/ record' = record
           \/ record' = [record EXCEPT !.meta = MergedMeta(imp.choice)]
    BY <1>4 DEF MergeSaveFails, Importing
  <2>2. /\ DOMAIN MergedMeta(imp.choice) = Fields
        /\ \A f \in {"authors", "tags"} :
              MergedMeta(imp.choice)[f] = record.meta[f] \cup Other.meta[f]
    BY DEF MergedMeta, Fields, Texts, Lists
  <2>3. DOMAIN record' = RecordFields /\ DOMAIN record'.meta = Fields
    BY <1>1, <2>1, <2>2 DEF RecordFields
  <2>4. /\ record'.content = record.content
        /\ record.providers \subseteq record'.providers
        /\ \A f \in {"authors", "tags"} : record.meta[f] \subseteq record'.meta[f]
    BY <1>1, <2>1, <2>2 DEF RecordFields
  <2> QED BY <2>1, <2>3, <2>4, FailedKept
<1> QED BY <1>2, <1>3, <1>4

-----------------------------------------------------------------------------
(***************************************************************************)
(* Steps of the cache, and other writers                                   *)
(***************************************************************************)
LEMMA CacheStepKept ==
    ASSUME Told, Refetch \/ ViewServed \/ ViewArrives \/ FetchFails
    PROVE  Told'
<1>1. UNCHANGED <<kind, record, imp, disturbed>>
  BY DEF Refetch, ViewServed, ViewArrives, FetchFails, serverVars
<1>2. Shapes' /\ MergeSoFar'
  BY <1>1 DEF Told, Shapes, MergeSoFar
<1>3. ImportSoFar'
  BY <1>1 DEF Told, ImportSoFar, Saved, Nothing
<1>4. Asked # Idle /\ Asked.st # "served" /\ Idle.st # "served"
  BY DEF Asked, Idle
<1>5. CASE Refetch
  <2>1. fetch' = Asked
    BY <1>5 DEF Refetch
  <2>2. ViewKept'
    BY <1>4, <2>1 DEF ViewKept
  <2> QED BY <1>2, <1>3, <2>2 DEF Told
<1>6. CASE ViewServed
  <2>1. fetch'.st = "served" /\ fetch'.data = record /\ fetch' # Idle
    BY <1>6 DEF ViewServed, Served, Idle
  <2>2. ViewKept'
    BY <1>1, <2>1 DEF ViewKept
  <2> QED BY <1>2, <1>3, <2>2 DEF Told
<1>7. CASE ViewArrives
  <2>1. fetch.st = "served" /\ view' = fetch.data /\ fetch' = Idle /\ behind' = behind
    BY <1>7 DEF ViewArrives
  <2>2. ViewKept'
    BY <1>1, <1>4, <2>1 DEF Told, ViewKept
  <2> QED BY <1>2, <1>3, <2>2 DEF Told
<1>8. CASE FetchFails
  <2>1. behind' = TRUE
    BY <1>8 DEF FetchFails
  <2>2. ViewKept'
    BY <2>1 DEF ViewKept
  <2> QED BY <1>2, <1>3, <2>2 DEF Told
<1> QED BY <1>5, <1>6, <1>7, <1>8

\* Another writer changes the title or the bindings alone.
LEMMA ForeignWriteKept ==
    ASSUME Told, ForeignWrite
    PROVE  Told'
<1>1. /\ UNCHANGED <<kind, imp>> /\ behind' = TRUE /\ disturbed' = TRUE
      /\ \/ record' = [record EXCEPT !.meta = [record.meta EXCEPT !["title"] = "foreign"]]
         \/ record' = [record EXCEPT !.providers = Bound, !.content = Active,
                                     !.mode = LocalMode]
      /\ DOMAIN record = RecordFields /\ DOMAIN record.meta = Fields
  BY DEF ForeignWrite, Told, Shapes
<1> DEFINE m == [record.meta EXCEPT !["title"] = "foreign"]
<1>2. DOMAIN m = Fields /\ \A f \in {"authors", "tags"} : m[f] = record.meta[f]
  BY <1>1 DEF Fields, Texts, Lists
<1>3. \/ record' = [record EXCEPT !.meta = m]
      \/ record' = [record EXCEPT !.providers = Bound, !.content = Active, !.mode = LocalMode]
  BY <1>1
<1> HIDE DEF m
<1>4. /\ DOMAIN record' = RecordFields /\ record'.meta \in {m, record.meta}
      /\ record'.providers \in {record.providers, Bound}
      /\ record'.content \in {record.content, Active}
  BY <1>1, <1>3 DEF RecordFields
<1>5. Shapes'
  BY <1>1, <1>2, <1>4 DEF Told, Shapes
<1>6. ImportSoFar'
  BY <1>1 DEF ImportSoFar
<1>7. MergeSoFar'
  BY <1>1, <1>2, <1>4 DEF Told, MergeSoFar
<1>8. ViewKept'
  BY <1>1 DEF ViewKept
<1> QED BY <1>5, <1>6, <1>7, <1>8 DEF Told

-----------------------------------------------------------------------------
(***************************************************************************)
(* The invariant, and what follows from it                                 *)
(***************************************************************************)
LEMMA InitTold ==
    ASSUME Init
    PROVE  Told
<1>1. DOMAIN Local = Fields
  BY ImportAssumption DEF IsMeta
<1>2. /\ record = [meta |-> Local, providers |-> Bound, content |-> Active, mode |-> LocalMode]
      /\ imp = NoImport /\ view = record /\ fetch = Idle
  BY DEF Init
<1>3. imp.phase = "idle" /\ "phase" \in DOMAIN imp /\ fetch.st # "served"
  BY <1>2 DEF NoImport, Idle
<1>4. /\ DOMAIN record = RecordFields /\ record.meta = Local
      /\ record.providers = Bound /\ record.content = Active
  BY <1>2 DEF RecordFields
<1>5. Shapes
  BY <1>1, <1>3, <1>4 DEF Shapes
<1>6. ImportSoFar /\ MergeSoFar
  BY <1>3, <1>4 DEF ImportSoFar, MergeSoFar
<1>7. ViewKept
  BY <1>2, <1>3 DEF ViewKept
<1> QED BY <1>5, <1>6, <1>7 DEF Told

LEMMA NextTold ==
    ASSUME Told, [Next]_vars
    PROVE  Told'
<1>1. CASE DialogStep
  BY <1>1, DialogStepKept
<1>2. CASE PickSource \/ Import
  BY <1>2, BeginKept
<1>3. CASE RequestApplied
  BY <1>3, RequestAppliedKept
<1>4. CASE RequestRefused \/ AnswerLost \/ MergeSaveFails
  BY <1>4, RequestFailsKept
<1>5. CASE Refetch \/ ViewServed \/ ViewArrives \/ FetchFails
  BY <1>5, CacheStepKept
<1>6. CASE ForeignWrite
  BY <1>6, ForeignWriteKept
<1>7. CASE UNCHANGED vars
  <2>1. UNCHANGED <<kind, record, view, fetch, imp, behind, disturbed>>
    BY <1>7 DEF vars, serverVars, viewVars
  <2> QED BY <2>1, Untouched
<1>8. Next => \/ DialogStep \/ PickSource \/ Import \/ RequestApplied \/ RequestRefused
              \/ AnswerLost \/ MergeSaveFails \/ Refetch \/ ViewServed \/ ViewArrives
              \/ FetchFails \/ ForeignWrite
  BY Zenon DEF Next, DialogStep
<1> QED BY <1>1, <1>2, <1>3, <1>4, <1>5, <1>6, <1>7, <1>8

\* The chain of an import or a merge, request by request: the inductive invariant.
THEOREM ChainInvariant == Spec => []Told
<1>1. Init => Told
  BY InitTold
<1>2. Told /\ [Next]_vars => Told'
  BY NextTold
<1> QED BY <1>1, <1>2, PTL DEF Spec

\* A merge that reports success keeps the authors, tags and bindings of both mangas and the
\* content source, although earlier attempts may have failed half way
\* (mergeLibraryManga).
THEOREM ReportedMergesAreWhole == Spec => []ReportedMergeIsWhole
<1>1. Told => ReportedMergeIsWhole
  <2>1. Active \in Bound
    BY ImportAssumption
  <2> QED BY <2>1 DEF Told, MergeSoFar, ReportedMergeIsWhole
<1> QED BY <1>1, ChainInvariant, PTL

\* With nothing under way the page shows the record, unless a mutation failed half way, a
\* fetch failed or somebody else wrote (onSuccess: invalidateQueries).
THEOREM QuietViewIsAlwaysFresh == Spec => []QuietViewIsFresh
<1>1. Told => QuietViewIsFresh
  BY DEF Told, ViewKept, QuietViewIsFresh, Importing
<1> QED BY <1>1, ChainInvariant, PTL

-----------------------------------------------------------------------------
(***************************************************************************)
(* What the dialog shows                                                   *)
(***************************************************************************)
\* A load names a candidate, so that its answer shows one.
Candidates ==
    /\ ComparisonHasCandidate /\ SpinnerIsOwed
    /\ \A l \in loads : l.ref # NoRef
    /\ "step" \in DOMAIN dlg

\* The steps that load, show or drop a candidate.
ShowStep ==
    \/ \E r \in Refs \cup {NoRef} : Open(r)
    \/ \E r \in results : PickResult(r)
    \/ \E l \in loads : LoadAnswers(l) \/ LoadFails(l)
    \/ LookupAnswers
    \/ PickSource \/ Back \/ Close \/ RequestApplied \/ ViewArrives

LEMMA OthersShowNothing ==
    ASSUME [Next]_vars, ~ShowStep
    PROVE  UNCHANGED <<dlg, remote, loading, loads>>
<1>1. CASE UNCHANGED vars
  BY <1>1 DEF vars, cmpVars, findVars
<1>2. CASE Next
  BY <1>2 DEF Next, ShowStep, SelectProvider, Search, SearchAnswers, Lookup, ChooseText,
     ChooseAttribute, ChooseList, EditTags, AcceptIncoming, KeepCurrent, UnchangedByCards,
     Import, RequestRefused, AnswerLost, MergeSaveFails, Fails, Refetch, ViewServed,
     FetchFails, ForeignWrite, cmpVars, findVars
<1> QED BY <1>1, <1>2

\* HandleClose takes the candidate and the step that shows it together.
LEMMA ClosedShowsNothing ==
    ASSUME HandleClose
    PROVE  dlg'.step # "compare" /\ "step" \in DOMAIN dlg'
BY DEF HandleClose, Closed, FirstStep

LEMMA ShowStepKept ==
    ASSUME Candidates, ShowStep
    PROVE  Candidates'
<1>1. ASSUME NEW ref, NEW fallback, ref # NoRef,
             loads' = loads \cup {[ref |-> ref, fallback |-> fallback]}
      PROVE  loads' # {} /\ \A l \in loads' : l.ref # NoRef
  <2>1. PICK new : new = [ref |-> ref, fallback |-> fallback]
    OBVIOUS
  <2>2. new.ref = ref
    BY <2>1
  <2> QED BY <1>1, <2>1, <2>2 DEF Candidates
<1>2. CASE \E r \in Refs \cup {NoRef} : Open(r)
  <2>1. PICK r \in Refs \cup {NoRef} : Open(r)
    BY <1>2
  <2>2. /\ dlg'.step = "compare" => dlg.step = "compare"
        /\ UNCHANGED remote /\ "step" \in DOMAIN dlg'
    BY <2>1 DEF Open, cmpVars
  <2>3. SpinnerIsOwed' /\ \A l \in loads' : l.ref # NoRef
    BY <1>1, <2>1 DEF Open, ResetEffect, Candidates, SpinnerIsOwed
  <2> QED BY <2>2, <2>3 DEF Candidates, ComparisonHasCandidate
<1>3. CASE \E r \in results : PickResult(r)
  <2>1. PICK r \in results : PickResult(r)
    BY <1>3
  <2>2. <<provider, r[2]>> # NoRef
    BY DEF NoRef
  <2>3. /\ loads' = loads \cup {[ref |-> <<provider, r[2]>>, fallback |-> r]}
        /\ UNCHANGED <<dlg, remote>>
    BY <2>1 DEF PickResult, cmpVars
  <2>4. loads' # {} /\ \A l \in loads' : l.ref # NoRef
    BY <1>1, <2>2, <2>3
  <2> QED BY <2>3, <2>4 DEF Candidates, ComparisonHasCandidate, SpinnerIsOwed
<1>4. CASE \E l \in loads : LoadAnswers(l) \/ LoadFails(l)
  <2>1. PICK l \in loads : LoadAnswers(l) \/ LoadFails(l)
    BY <1>4
  <2>2. loading' = FALSE /\ loads' = loads \ {l}
    BY <2>1 DEF LoadAnswers, LoadFails
  <2>3. (dlg'.step = "compare" => remote' # NoRef) /\ "step" \in DOMAIN dlg'
    BY <2>1 DEF LoadAnswers, LoadFails, ShowComparison, Candidates, ComparisonHasCandidate, cmpVars
  <2> QED BY <2>2, <2>3 DEF Candidates, ComparisonHasCandidate, SpinnerIsOwed
<1>5. CASE LookupAnswers
  BY <1>5 DEF LookupAnswers, ShowComparison, cmpVars, Candidates, ComparisonHasCandidate,
              SpinnerIsOwed
<1>6. CASE PickSource
  <2>1. Merged # NoRef
    BY DEF Merged, NoRef
  <2> QED BY <1>6, <2>1 DEF PickSource, ShowComparison, findVars, Candidates,
             ComparisonHasCandidate, SpinnerIsOwed
<1>7. CASE Back
  BY <1>7 DEF Back, findVars, Candidates, ComparisonHasCandidate, SpinnerIsOwed
<1>8. CASE Close \/ RequestApplied
  <2>1. /\ HandleClose \/ UNCHANGED <<dlg, remote>>
        /\ UNCHANGED <<loading, loads>>
    BY <1>8 DEF Close, RequestApplied, Succeeds
  <2> QED BY <2>1, ClosedShowsNothing DEF Candidates, ComparisonHasCandidate, SpinnerIsOwed
<1>9. CASE ViewArrives
  <2>1. UNCHANGED <<dlg, remote>>
    BY <1>9 DEF ViewArrives, cmpVars
  <2>2. SpinnerIsOwed' /\ \A l \in loads' : l.ref # NoRef
    BY <1>1, <1>9 DEF ViewArrives, ResetEffect, findVars, Candidates, SpinnerIsOwed
  <2> QED BY <2>1, <2>2 DEF Candidates, ComparisonHasCandidate
<1> QED BY <1>2, <1>3, <1>4, <1>5, <1>6, <1>7, <1>8, <1>9 DEF ShowStep

\* What the dialog shows: the inductive invariant.
THEOREM DialogInvariant == Spec => []Candidates
<1>1. Init => Candidates
  <2>1. SUFFICES ASSUME Init PROVE Candidates
    OBVIOUS
  <2>2. dlg = Closed(FirstStep) /\ loading = FALSE /\ loads = {}
    BY <2>1 DEF Init
  <2>3. dlg.step # "compare" /\ "step" \in DOMAIN dlg
    BY <2>2 DEF Closed, FirstStep
  <2> QED BY <2>2, <2>3 DEF Candidates, ComparisonHasCandidate, SpinnerIsOwed
<1>2. Candidates /\ [Next]_vars => Candidates'
  <2>1. SUFFICES ASSUME Candidates, [Next]_vars PROVE Candidates'
    OBVIOUS
  <2>2. CASE ShowStep
    BY <2>1, <2>2, ShowStepKept
  <2>3. CASE ~ShowStep
    <3>1. UNCHANGED <<dlg, remote, loading, loads>>
      BY <2>1, <2>3, OthersShowNothing
    <3> QED BY <2>1, <3>1 DEF Candidates, ComparisonHasCandidate, SpinnerIsOwed
  <2> QED BY <2>2, <2>3
<1> QED BY <1>1, <1>2, PTL DEF Spec

\* However late a load, a lookup or an import answers, the comparison is shown with a
\* candidate, and the spinner that hides the dialog is owed to a load that has still to end
\* (useMetadataSearch: loadMangaDetails, ImportMetadataDialog: handleClose).
THEOREM ShownComparisonHasCandidate == Spec => [](ComparisonHasCandidate /\ SpinnerIsOwed)
<1>1. Candidates => ComparisonHasCandidate /\ SpinnerIsOwed
  BY DEF Candidates
<1> QED BY <1>1, DialogInvariant, PTL
-----------------------------------------------------------------------------
(***************************************************************************)
(* The candidate and its provider                                          *)
(***************************************************************************)
IsPair(r) == r = <<r[1], r[2]>>

\* References are pairs, what is at hand is of the selected provider unless it was changed,
\* and what an import captured names one remote manga.
Found ==
    kind = "import" =>
        /\ dlg.initial \in Refs \cup {NoRef} /\ "initial" \in DOMAIN dlg
        /\ \A r \in results : IsPair(r)
        /\ \A l \in loads : IsPair(l.ref) /\ (l.fallback # NoRef => IsPair(l.fallback))
        /\ lookup # NoRef => IsPair(lookup)
        /\ remote # NoRef => IsPair(remote)
        /\ ~switched => AllFrom(provider)
        /\ imp.phase # "idle" /\ ~imp.switched => imp.ref = imp.candidate

\* The steps that find, show or capture something, or change the provider.
FindStep ==
    \/ \E r \in Refs \cup {NoRef} : Open(r)
    \/ \E p \in Sources : SelectProvider(p)
    \/ Search \/ SearchAnswers
    \/ \E r \in results : PickResult(r)
    \/ \E l \in loads : LoadAnswers(l) \/ LoadFails(l)
    \/ \E id \in Ids : Lookup(id)
    \/ LookupAnswers
    \/ Back \/ Close \/ Import \/ RequestEnds \/ ViewArrives

LEMMA OthersFindNothing ==
    ASSUME [Next]_vars, ~FindStep, kind = "import"
    PROVE  UNCHANGED <<kind, dlg, findVars, remote, imp>>
<1>1. CASE UNCHANGED vars
  BY <1>1 DEF vars, cmpVars
<1>2. CASE Next
  BY <1>2 DEF Next, FindStep, RequestEnds, PickSource, ChooseText,
     ChooseAttribute, ChooseList, EditTags, AcceptIncoming, KeepCurrent, UnchangedByCards,
     Refetch, ViewServed, FetchFails, ForeignWrite, cmpVars
<1> QED BY <1>1, <1>2

\* The provider of a load that the reset effect starts is the one it selects.
LEMMA ResetKeepsFound ==
    ASSUME Found, kind = "import", NEW v, NEW initial \in Refs \cup {NoRef},
           ResetEffect(v, initial), NoteSwitch,
           UNCHANGED <<kind, remote, imp>>,
           dlg'.initial \in Refs \cup {NoRef}, "initial" \in DOMAIN dlg'
    PROVE  Found'
<1>1. ~switched' => AllFrom(provider)'
  <2>1. CASE provider' # provider
    BY <2>1 DEF NoteSwitch
  <2>2. CASE provider' = provider /\ initial = NoRef
    BY <2>2 DEF NoteSwitch, ResetEffect, Found, AllFrom
  <2>3. CASE provider' = provider /\ initial # NoRef
    <3>1. initial[1] \in Sources
      BY <2>3 DEF Refs
    <3>2. provider' = initial[1]
      BY <2>3, <3>1 DEF ResetEffect, DefaultProvider
    <3>3. PICK new : new = [ref |-> initial, fallback |-> NoRef]
      OBVIOUS
    <3>4. new.ref = initial /\ new.fallback = NoRef /\ loads' = loads \cup {new}
      BY <2>3, <3>3 DEF ResetEffect
    <3> QED BY <2>3, <3>2, <3>4 DEF NoteSwitch, ResetEffect, Found, AllFrom
  <2> QED BY <2>1, <2>2, <2>3
<1>2. \A l \in loads' : IsPair(l.ref) /\ (l.fallback # NoRef => IsPair(l.fallback))
  <2>1. CASE initial = NoRef
    BY <2>1 DEF ResetEffect, Found
  <2>2. CASE initial # NoRef
    <3>1. IsPair(initial)
      BY <2>2 DEF Refs, IsPair
    <3>2. PICK new : new = [ref |-> initial, fallback |-> NoRef]
      OBVIOUS
    <3>3. new.ref = initial /\ new.fallback = NoRef /\ loads' = loads \cup {new}
      BY <2>2, <3>2 DEF ResetEffect
    <3> QED BY <3>1, <3>3 DEF Found
  <2> QED BY <2>1, <2>2
<1> QED BY <1>1, <1>2 DEF Found, ResetEffect, IsPair

\* A reference that is shown is one that was at hand.
LEMMA ShownIsFound ==
    ASSUME Found, kind = "import", NEW r, IsPair(r), ~switched => r[1] = provider,
           ShowComparison(r), dlg' = [dlg EXCEPT !.step = "compare"],
           UNCHANGED <<kind, provider, results, search, switched, imp>>,
           loads' \subseteq loads, lookup' \in {lookup, NoRef}
    PROVE  Found'
<1>1. dlg'.initial = dlg.initial /\ "initial" \in DOMAIN dlg'
  BY DEF Found
<1>2. remote' = r
  BY DEF ShowComparison
<1>3. ~switched' => AllFrom(provider)'
  BY <1>2 DEF Found, AllFrom
<1> QED BY <1>1, <1>2, <1>3 DEF Found, IsPair

LEMMA FindStepKept ==
    ASSUME Found, Candidates, Shapes, FindStep, kind = "import"
    PROVE  Found'
<1>1. CASE \E r \in Refs \cup {NoRef} : Open(r)
  <2>1. PICK r \in Refs \cup {NoRef} : Open(r)
    BY <1>1
  <2>2. dlg'.initial = r /\ "initial" \in DOMAIN dlg'
    BY <2>1 DEF Open
  <2>3. ResetEffect(view, r) /\ NoteSwitch /\ UNCHANGED <<kind, remote, imp>>
    BY <2>1 DEF Open, cmpVars
  <2> QED BY <2>2, <2>3, ResetKeepsFound
<1>2. CASE \E p \in Sources : SelectProvider(p)
  <2>1. /\ NoteSwitch /\ provider' # provider
        /\ UNCHANGED <<kind, dlg, results, loads, search, lookup, remote, imp>>
    BY <1>2 DEF SelectProvider, cmpVars
  <2>2. ~switched' => AllFrom(provider)'
    BY <2>1 DEF NoteSwitch
  <2> QED BY <2>1, <2>2 DEF Found
<1>3. CASE Search \/ SearchAnswers \/ \E id \in Ids : Lookup(id)
  <2>1. UNCHANGED <<kind, dlg, loads, provider, switched, remote, imp>>
    BY <1>3 DEF Search, SearchAnswers, Lookup, cmpVars
  <2>2. CASE Search
    <3>1. search' = provider /\ UNCHANGED <<results, lookup>>
      BY <2>2 DEF Search
    <3>2. ~switched' => AllFrom(provider)'
      BY <2>1, <3>1 DEF Found, AllFrom
    <3> QED BY <2>1, <3>1, <3>2 DEF Found
  <2>3. CASE SearchAnswers
    <3>1. /\ search # "" /\ search' = "" /\ UNCHANGED lookup
          /\ \A r \in results' : r \in {search} \X Ids
      BY <2>3 DEF SearchAnswers
    <3>2. ASSUME NEW r \in results' PROVE IsPair(r) /\ r[1] = search
      <4>1. r \in {search} \X Ids
        BY <3>1, <3>2
      <4>2. r = <<r[1], r[2]>> /\ r[1] \in {search}
        BY <4>1
      <4> QED BY <4>2 DEF IsPair
    <3>3. ~switched' => AllFrom(provider)'
      BY <2>1, <3>1, <3>2 DEF Found, AllFrom
    <3> QED BY <2>1, <3>1, <3>2, <3>3 DEF Found
  <2>4. CASE \E id \in Ids : Lookup(id)
    <3>1. PICK id \in Ids : Lookup(id)
      BY <2>4
    <3>2. lookup' = <<provider, id>> /\ UNCHANGED <<results, search>>
      BY <3>1 DEF Lookup
    <3>3. IsPair(lookup') /\ lookup'[1] = provider
      BY <3>2 DEF IsPair
    <3>4. ~switched' => AllFrom(provider)'
      BY <2>1, <3>2, <3>3 DEF Found, AllFrom
    <3> QED BY <2>1, <3>2, <3>3, <3>4 DEF Found
  <2> QED BY <1>3, <2>2, <2>3, <2>4
<1>4. CASE \E r \in results : PickResult(r)
  <2>1. PICK r \in results : PickResult(r)
    BY <1>4
  <2>2. PICK new : new = [ref |-> <<provider, r[2]>>, fallback |-> r]
    OBVIOUS
  <2>3. /\ new.ref = <<provider, r[2]>> /\ new.fallback = r /\ loads' = loads \cup {new}
        /\ UNCHANGED <<kind, dlg, results, search, lookup, provider, switched, remote, imp>>
    BY <2>1, <2>2 DEF PickResult, cmpVars
  <2>4. IsPair(new.ref) /\ IsPair(new.fallback) /\ new.ref[1] = provider
    BY <2>1, <2>3 DEF Found, IsPair
  <2>5. ~switched' => AllFrom(provider)'
    BY <2>3, <2>4 DEF Found, AllFrom
  <2> QED BY <2>3, <2>4, <2>5 DEF Found
<1>5. CASE \E l \in loads : LoadAnswers(l) \/ LoadFails(l)
  <2>1. PICK l \in loads : LoadAnswers(l) \/ LoadFails(l)
    BY <1>5
  <2>2. /\ loads' = loads \ {l}
        /\ UNCHANGED <<kind, results, search, lookup, provider, switched, imp>>
    BY <2>1 DEF LoadAnswers, LoadFails
  <2>3. /\ IsPair(l.ref) /\ (l.fallback # NoRef => IsPair(l.fallback))
        /\ ~switched => l.ref[1] = provider /\ (l.fallback # NoRef => l.fallback[1] = provider)
    BY <2>1 DEF Found, AllFrom
  <2>4. \/ ShowComparison(l.ref) /\ dlg' = [dlg EXCEPT !.step = "compare"]
        \/ /\ l.fallback # NoRef
           /\ ShowComparison(l.fallback) /\ dlg' = [dlg EXCEPT !.step = "compare"]
        \/ UNCHANGED remote /\ dlg' = [dlg EXCEPT !.step = "search"]
    BY <2>1 DEF LoadAnswers, LoadFails, cmpVars
  <2>5. CASE ShowComparison(l.ref) /\ dlg' = [dlg EXCEPT !.step = "compare"]
    BY <2>2, <2>3, <2>5, ShownIsFound
  <2>6. CASE /\ l.fallback # NoRef
             /\ ShowComparison(l.fallback) /\ dlg' = [dlg EXCEPT !.step = "compare"]
    BY <2>2, <2>3, <2>6, ShownIsFound
  <2>7. CASE UNCHANGED remote /\ dlg' = [dlg EXCEPT !.step = "search"]
    <3>1. dlg'.initial = dlg.initial /\ "initial" \in DOMAIN dlg'
      BY <2>7 DEF Found
    <3>2. ~switched' => AllFrom(provider)'
      BY <2>2, <2>7 DEF Found, AllFrom
    <3> QED BY <2>2, <2>7, <3>1, <3>2 DEF Found
  <2> QED BY <2>4, <2>5, <2>6, <2>7
<1>6. CASE LookupAnswers
  <2>1. /\ lookup # NoRef /\ lookup' = NoRef
        /\ UNCHANGED <<kind, results, loads, search, provider, switched, imp>>
        /\ \/ ShowComparison(lookup) /\ dlg' = [dlg EXCEPT !.step = "compare"]
           \/ UNCHANGED <<remote, dlg>>
    BY <1>6 DEF LookupAnswers, cmpVars
  <2>2. IsPair(lookup) /\ (~switched => lookup[1] = provider)
    BY <2>1 DEF Found, AllFrom
  <2>3. CASE ShowComparison(lookup) /\ dlg' = [dlg EXCEPT !.step = "compare"]
    BY <2>1, <2>2, <2>3, ShownIsFound
  <2>4. CASE UNCHANGED <<remote, dlg>>
    <3>1. ~switched' => AllFrom(provider)'
      BY <2>1, <2>4 DEF Found, AllFrom
    <3> QED BY <2>1, <2>4, <3>1 DEF Found
  <2> QED BY <2>1, <2>3, <2>4
<1>7. CASE Back \/ Close
  <2>1. /\ UNCHANGED <<kind, loads, search, lookup, provider, switched, imp>>
        /\ \/ UNCHANGED <<results, remote>>
           \/ results' = {} /\ remote' = NoRef
        /\ \/ dlg' = [dlg EXCEPT !.step = "search"]
           \/ dlg' = Closed(FirstStep)
    BY <1>7 DEF Back, Close, HandleClose, findVars, cmpVars
  <2>2. dlg'.initial \in Refs \cup {NoRef} /\ "initial" \in DOMAIN dlg'
    BY <2>1 DEF Found, Closed
  <2>3. ~switched' => AllFrom(provider)'
    BY <2>1 DEF Found, AllFrom
  <2> QED BY <2>1, <2>2, <2>3 DEF Found
<1>8. CASE Import
  <2>1. /\ UNCHANGED <<kind, dlg, results, loads, search, lookup, provider, switched, remote>>
        /\ dlg.step = "compare"
        /\ imp' = [phase |-> "patch", patch |-> FieldsToPatch, cards |-> Cards,
                   ref |-> Binding, setMode |-> WantsMode, mode |-> Incoming.mode,
                   candidate |-> remote, switched |-> switched]
    BY <1>8 DEF Import, Comparing, findVars, cmpVars
  <2>2. imp'.ref = Binding /\ imp'.candidate = remote /\ imp'.switched = switched
    BY <2>1
  <2>3. remote # NoRef
    BY <2>1 DEF Candidates, ComparisonHasCandidate
  <2>4. ~switched => Binding = remote
    BY <2>3 DEF Found, AllFrom, Binding, IsPair
  <2>5. ~switched' => AllFrom(provider)'
    BY <2>1 DEF Found, AllFrom
  <2> QED BY <2>1, <2>2, <2>4, <2>5 DEF Found
<1>9. CASE RequestEnds
  <2>1. /\ UNCHANGED <<kind, loads, search, lookup, provider, switched>>
        /\ \/ UNCHANGED <<results, remote, dlg>>
           \/ results' = {} /\ remote' = NoRef /\ dlg' = Closed(FirstStep)
        /\ \E q : imp' = [imp EXCEPT !.phase = q]
        /\ Importing
    BY <1>9 DEF RequestEnds, RequestApplied, RequestRefused, AnswerLost, MergeSaveFails, Fails,
                Succeeds, HandleClose, Importing
  <2>2. /\ imp.phase # "idle" /\ imp'.ref = imp.ref /\ imp'.candidate = imp.candidate
        /\ imp'.switched = imp.switched
    BY <2>1 DEF Importing, Shapes, ImportFields
  <2>3. dlg'.initial \in Refs \cup {NoRef} /\ "initial" \in DOMAIN dlg'
    BY <2>1 DEF Found, Closed
  <2>4. ~switched' => AllFrom(provider)'
    BY <2>1 DEF Found, AllFrom
  <2> QED BY <2>1, <2>2, <2>3, <2>4 DEF Found
<1>10. CASE ViewArrives
  <2>1. /\ UNCHANGED <<kind, dlg, remote, imp>>
        /\ \/ ResetEffect(fetch.data, dlg.initial) /\ NoteSwitch
           \/ UNCHANGED findVars
    BY <1>10 DEF ViewArrives, cmpVars
  <2>2. dlg.initial \in Refs \cup {NoRef} /\ "initial" \in DOMAIN dlg
    BY DEF Found
  <2>3. CASE ResetEffect(fetch.data, dlg.initial) /\ NoteSwitch
    BY <2>1, <2>2, <2>3, ResetKeepsFound
  <2>4. CASE UNCHANGED findVars
    <3>1. ~switched' => AllFrom(provider)'
      BY <2>1, <2>4 DEF Found, AllFrom, findVars
    <3> QED BY <2>1, <2>4, <3>1 DEF Found, findVars
  <2> QED BY <2>1, <2>3, <2>4
<1> QED BY <1>1, <1>2, <1>3, <1>4, <1>5, <1>6, <1>7, <1>8, <1>9, <1>10 DEF FindStep

LEMMA NextFound ==
    ASSUME Found, Candidates, Shapes, [Next]_vars
    PROVE  Found'
<1>1. UNCHANGED kind
  BY DEF Next, vars, Open, SelectProvider, Search, SearchAnswers, PickResult, LoadAnswers,
     LoadFails, Lookup, LookupAnswers, PickSource, ChooseText, ChooseAttribute, ChooseList,
     EditTags, AcceptIncoming, KeepCurrent, UnchangedByCards, Back, Close, Import,
     RequestApplied, RequestRefused, AnswerLost, MergeSaveFails, Refetch, ViewServed,
     ViewArrives, FetchFails, ForeignWrite
<1>2. CASE kind # "import"
  BY <1>1, <1>2 DEF Found
<1>3. CASE kind = "import" /\ FindStep
  BY <1>3, FindStepKept
<1>4. CASE kind = "import" /\ ~FindStep
  <2>1. UNCHANGED <<kind, dlg, findVars, remote, imp>>
    BY <1>4, OthersFindNothing
  <2>2. ~switched' => AllFrom(provider)'
    BY <1>4, <2>1 DEF Found, AllFrom, findVars
  <2> QED BY <2>1, <2>2 DEF Found, findVars
<1> QED BY <1>2, <1>3, <1>4

\* An import that reports success has applied the metadata, the content source and the
\* binding that the click captured, whatever the dialog shows meanwhile, and they are those
\* of one remote manga unless the provider was changed with something of another at hand
\* (useMetadataComparison: importMutation).
THEOREM ReportedImportsAreApplied == Spec => []ReportedImportIsApplied
<1>1. Init => Found
  <2>1. SUFFICES ASSUME Init PROVE Found
    OBVIOUS
  <2>2. /\ dlg = Closed(FirstStep) /\ results = {} /\ loads = {} /\ lookup = NoRef
        /\ remote = NoRef /\ search = "" /\ imp = NoImport
    BY <2>1 DEF Init
  <2>3. dlg.initial = NoRef /\ "initial" \in DOMAIN dlg /\ imp.phase = "idle"
    BY <2>2 DEF Closed, NoImport
  <2>4. AllFrom(provider)
    BY <2>2 DEF AllFrom
  <2> QED BY <2>2, <2>3, <2>4 DEF Found
<1>2. Found /\ Candidates /\ Told /\ [Next]_vars => Found'
  BY NextFound DEF Told
<1>3. Told /\ Found => ReportedImportIsApplied
  BY DEF Told, ImportSoFar, Found, ReportedImportIsApplied
<1> QED BY <1>1, <1>2, <1>3, ChainInvariant, DialogInvariant, PTL DEF Spec
=============================================================================
