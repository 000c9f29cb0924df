-------------------------- MODULE MangaRecordProofs --------------------------
(***************************************************************************)
(* Proofs about the record of a manga and the page that writes it, for any *)
(* providers, titles, notes and states, and any number of openings,        *)
(* requests and losses.                                                    *)
(*                                                                         *)
(* Each property needs to know what the requests carry while they are      *)
(* under way: bindings that agree in themselves, a user state that was     *)
(* read after the last report, a provider that nobody else is taking away, *)
(* and a write that has not been followed by a fetch; and what the copies  *)
(* hold that the syncs write back.                                         *)
(***************************************************************************)
EXTENDS MangaRecord, TLAPS

USE DEF serverVars

\* Content and providers of a copy of the bindings agree.
Sourced(b) == b.content.ref # NoRef => b.content.ref \in Capable(b.providers)

BindingsAgree ==
    /\ Sourced(record) /\ Sourced(view)
    /\ fetch.st = "served" => Sourced(fetch.data)
    /\ req["edit"].st # "idle" => Sourced(req["edit"].body)
    /\ req["switch"].st # "idle" => req["switch"].body[1] \in Readable

\* What was reported is stored, but for what a request has just written; what
\* that request has read is still what is stored.
UserKept ==
    \A f \in {"status", "notes"} :
       /\ said[f] # "?" => \/ record.user[f] = said[f]
                           \/ req["user"].st = "done" /\ f \in DOMAIN req["user"].body
       /\ req["user"].st = "read" => req["user"].base[f] = record.user[f]
       /\ req["user"].st = "done" /\ f \in DOMAIN req["user"].body =>
             record.user[f] = req["user"].body[f]

\* No request under way can take away what was, or will be, reported as added.
LinksKept ==
    /\ said.linked \subseteq record.providers
    /\ req["edit"].st # "idle" => said.linked = {} /\ ~said.vouched
    /\ req["remove"].st # "idle" => req["remove"].body \notin said.linked
    /\ said.vouched /\ req["add"].st # "idle" =>
          /\ req["add"].st = "done" => req["add"].body \in record.providers
          /\ req["remove"].st # "idle" => req["remove"].body # req["add"].body

\* A write that the page has not heard of yet.
Unheard == \E k \in Kinds : req[k].st \in {"half", "done"}

ViewKept ==
    ~behind /\ ~Unheard => /\ fetch = Idle => view = record
                           /\ fetch.st = "served" => fetch.data = record

-----------------------------------------------------------------------------
(***************************************************************************)
(* Types                                                                   *)
(***************************************************************************)
PageTypes ==
    /\ form \in Forms /\ notes \in Drafts /\ add \in Adds
    /\ add.step = "confirm" => add.open /\ add.picked # ""
    /\ add.timer => add.open /\ add.step = "pick"
    /\ searches \subseteq Sources /\ awaited \in searches \cup {""}

Fetches == {Idle, Asked} \cup [st : {"served"}, data : Records]

StoreTypes ==
    /\ record \in Records /\ view \in Records /\ fetch \in Fetches
    /\ said \in Sayings /\ behind \in BOOLEAN

ReqTypes == DOMAIN req = Kinds /\ \A k \in Kinds : req[k] \in Requests(k)

Typed == PageTypes /\ StoreTypes /\ ReqTypes /\ ops \in 0..MaxOps

Kept == Typed /\ BindingsAgree /\ UserKept /\ LinksKept /\ ViewKept

\* What a sync writes back agrees in itself and has what was reported as added.
HeldKept ==
    /\ held \in [Syncs -> Copies \cup {Idle}]
    /\ \A y \in Syncs : held[y].st = "copy" =>
          /\ Sourced(held[y])
          /\ said.linked \subseteq held[y].providers
          /\ said.vouched /\ req["add"].st = "done" => req["add"].body \in held[y].providers

LEMMA TypeParts == Typed <=> PageTypes /\ StoreTypes /\ ReqTypes /\ ops \in 0..MaxOps
BY DEF Typed

LEMMA TypePartsNext ==
    ASSUME PageTypes', StoreTypes', ReqTypes', ops' \in 0..MaxOps
    PROVE  Typed'
BY DEF Typed

Bodies(k) == CASE k = "edit" -> Edits [] k = "user" -> Patches [] OTHER -> Refs

\* How a request looks, and which shapes are requests.
LEMMA RequestShape ==
    ASSUME NEW k \in Kinds, NEW r \in Requests(k)
    PROVE  /\ r.st = "idle" <=> r = Idle
           /\ r.st \in {"idle", "sent", "done"} \cup (IF k = "edit" THEN {"half"} ELSE {})
                       \cup (IF k = "user" THEN {"read"} ELSE {})
           /\ r.st # "idle" => r.body \in Bodies(k)
           /\ r.st = "read" => r.base \in Users
BY DEF Requests, InFlight, Idle, Bodies, Kinds

LEMMA RequestMade ==
    ASSUME NEW k \in Kinds, NEW b \in Bodies(k)
    PROVE  /\ [st |-> "sent", body |-> b] \in Requests(k)
           /\ [st |-> "done", body |-> b] \in Requests(k)
           /\ Idle \in Requests(k)
BY DEF Requests, InFlight, Bodies, Kinds

LEMMA FetchShape ==
    ASSUME StoreTypes
    PROVE  /\ fetch.st \in {"idle", "asked", "served"}
           /\ fetch.st = "idle" <=> fetch = Idle
           /\ fetch.st = "asked" <=> fetch = Asked
           /\ fetch.st = "served" => fetch.data \in Records
BY DEF StoreTypes, Fetches, Idle, Asked

LEMMA Provider ==
    ASSUME NEW v
    PROVE  InitialProvider(v) \in Sources /\ AddClosed(v) \in Adds
           /\ AddClosed(v).step = "pick" /\ ~AddClosed(v).timer /\ ~AddClosed(v).open
<1>1. Sources # {}
  BY RecordAssumption DEF Capable, Refs
<1>2. InitialProvider(v) \in Sources
  BY <1>1 DEF InitialProvider
<1> QED BY <1>2 DEF AddClosed, Adds

-----------------------------------------------------------------------------
(***************************************************************************)
(* Steps on the page alone                                                 *)
(***************************************************************************)
PageStep ==
    \/ OpenEdit \/ TypeTitle \/ ChooseMode \/ CancelEdit
    \/ EditNotes \/ TypeNotes \/ CancelNotes
    \/ OpenAdd \/ CloseAdd \/ SelectProvider \/ TimerFires \/ SearchAnswers
    \/ HandleResultSelect \/ BackToPick

LEMMA CountedTyped ==
    ASSUME ops \in 0..MaxOps, Counted \/ ops' = ops
    PROVE  ops' \in 0..MaxOps
<1>1. MaxOps \in Nat
  BY RecordAssumption
<1> QED BY <1>1 DEF Counted

\* Nothing that is stored, sent or reported changes.
LEMMA UntouchedKept ==
    ASSUME Kept, UNCHANGED <<record, view, fetch, req, said, behind>>, PageTypes',
           ops' \in 0..MaxOps
    PROVE  Kept'
<1>1. Typed'
  BY TypeParts, TypePartsNext DEF Kept, StoreTypes, ReqTypes
<1>2. BindingsAgree' /\ UserKept' /\ LinksKept' /\ ViewKept'
  BY DEF Kept, BindingsAgree, UserKept, LinksKept, ViewKept, Unheard, Sourced
<1> QED BY <1>1, <1>2 DEF Kept

LEMMA FormTyped ==
    ASSUME NEW v \in Records
    PROVE  FormOf(v) \in Forms
<1>1. v.title \in Titles /\ v.content.mode \in Modes \cup {""}
  BY DEF Records, Content
<1>2. ModeShown(v) \in Modes
  BY <1>1 DEF ModeShown, Modes
<1> QED BY <1>1, <1>2 DEF FormOf, Forms

LEMMA OpenForm ==
    ASSUME PageTypes, form.open
    PROVE  form \in [open : {TRUE}, title : Titles, mode : Modes]
<1>1. FormClosed.open = FALSE
  BY DEF FormClosed
<1>2. form # FormClosed
  BY <1>1
<1> QED BY <1>2 DEF PageTypes, Forms

LEMMA PageStepTypes ==
    ASSUME PageTypes, view \in Records, PageStep
    PROVE  PageTypes'
<1>1. CASE OpenEdit
  BY <1>1, FormTyped DEF OpenEdit, PageTypes, addVars
<1> DEFINE Open == [open : {TRUE}, title : Titles, mode : Modes]
<1>15. form.open => form \in Open
  BY OpenForm
<1>2. CASE TypeTitle
  <2>1. PICK t \in Titles : form.open /\ form' = [form EXCEPT !.title = t]
    BY <1>2 DEF TypeTitle, FillForm
  <2>2. form' \in Open
    BY <1>15, <2>1
  <2> QED BY <1>2, <2>2 DEF TypeTitle, FillForm, PageTypes, addVars, Forms
<1>3. CASE ChooseMode
  <2>1. PICK d \in Modes : form.open /\ form' = [form EXCEPT !.mode = d]
    BY <1>3 DEF ChooseMode, FillForm
  <2>2. form' \in Open
    BY <1>15, <2>1
  <2> QED BY <1>3, <2>2 DEF ChooseMode, FillForm, PageTypes, addVars, Forms
<1>4. CASE CancelEdit
  BY <1>4 DEF CancelEdit, FillForm, PageTypes, addVars, Forms
<1>5. CASE EditNotes
  BY <1>5 DEF EditNotes, PageTypes, addVars, Drafts, Records, Users
<1>6. CASE TypeNotes
  BY <1>6 DEF TypeNotes, LeaveNotes, PageTypes, addVars, Drafts, NotEditing
<1>7. CASE CancelNotes
  BY <1>7 DEF CancelNotes, LeaveNotes, PageTypes, addVars, Drafts
<1>8. CASE OpenAdd
  BY <1>8 DEF OpenAdd, PageTypes, pageVars, Adds, PageFree
<1>9. CASE CloseAdd
  BY <1>9, Provider DEF CloseAdd, SetAdd, PageTypes, pageVars
<1>10. CASE SelectProvider
  BY <1>10 DEF SelectProvider, SetAdd, PageTypes, pageVars, Adds
<1>11. CASE TimerFires
  BY <1>11 DEF TimerFires, PageTypes, pageVars, Adds
<1>12. CASE SearchAnswers
  BY <1>12 DEF SearchAnswers, PageTypes, pageVars, Adds
<1>13. CASE HandleResultSelect
  BY <1>13 DEF HandleResultSelect, SetAdd, PageTypes, pageVars, Adds
<1>14. CASE BackToPick
  BY <1>14 DEF BackToPick, SetAdd, PageTypes, pageVars, Adds
<1> QED BY <1>1, <1>2, <1>3, <1>4, <1>5, <1>6, <1>7, <1>8, <1>9, <1>10, <1>11, <1>12, <1>13, <1>14
        DEF PageStep

LEMMA PageStepKept ==
    ASSUME Kept, PageStep
    PROVE  Kept'
<1>1. PageTypes /\ view \in Records /\ ops \in 0..MaxOps
  BY TypeParts DEF Kept, StoreTypes
<1>2. UNCHANGED <<record, view, fetch, req, said, behind>> /\ (Counted \/ ops' = ops)
  BY DEF PageStep, OpenEdit, TypeTitle, ChooseMode, CancelEdit, FillForm, EditNotes, TypeNotes,
         CancelNotes, LeaveNotes, OpenAdd, CloseAdd, SelectProvider, TimerFires, SearchAnswers,
         HandleResultSelect, BackToPick, SetAdd, viewVars
<1> QED BY <1>1, <1>2, PageStepTypes, CountedTyped, UntouchedKept

-----------------------------------------------------------------------------
(***************************************************************************)
(* Requests that are sent                                                  *)
(***************************************************************************)
LEMMA SendEffect ==
    ASSUME Kept, NEW k \in Kinds, NEW b \in Bodies(k), Send(k, b)
    PROVE  /\ req'[k].st = "sent" /\ req'[k].body = b /\ req[k].st = "idle"
           /\ \A x \in Kinds \ {k} : req'[x] = req[x]
           /\ ReqTypes' /\ ops' \in 0..MaxOps
           /\ UNCHANGED <<record, view, fetch, behind>> /\ ViewKept'
<1> DEFINE r == [st |-> "sent", body |-> b]
<1>1. ReqTypes /\ ops \in 0..MaxOps
  BY TypeParts DEF Kept
<1>2. r.st = "sent" /\ r.body = b /\ r \in Requests(k)
  BY RequestMade
<1>3. req' = [req EXCEPT ![k] = r] /\ Counted /\ UNCHANGED <<record, view, fetch, behind>>
  BY DEF Send, viewVars
<1> HIDE DEF r
<1>4. req'[k] = r /\ (\A x \in Kinds \ {k} : req'[x] = req[x]) /\ ReqTypes'
  BY <1>1, <1>2, <1>3 DEF ReqTypes
<1>5. req[k].st = "idle"
  BY DEF Send, Pending, Idle
<1>6. ViewKept'
  <2>1. Unheard => Unheard'
    BY <1>4, <1>5 DEF Unheard
  <2> QED BY <1>3, <2>1 DEF Kept, ViewKept
<1> QED BY <1>1, <1>2, <1>3, <1>4, <1>5, <1>6, CountedTyped

\* What is not about request k, and what no request may change.
LEMMA AboutOthers ==
    ASSUME Kept, NEW k \in Kinds, \A x \in Kinds \ {k} : req'[x] = req[x],
           UNCHANGED <<record, view, fetch>>
    PROVE  /\ k \notin {"edit", "switch"} => BindingsAgree'
           /\ k # "user" /\ said'.status = said.status /\ said'.notes = said.notes => UserKept'
           /\ k \notin {"edit", "remove", "add"} /\ UNCHANGED said => LinksKept'
<1>1. ASSUME k \notin {"edit", "switch"}
      PROVE  BindingsAgree'
  BY <1>1 DEF Kept, BindingsAgree, Kinds, Sourced
<1>2. ASSUME k # "user", said'.status = said.status, said'.notes = said.notes
      PROVE  UserKept'
  <2>1. req'["user"] = req["user"] /\ \A f \in {"status", "notes"} : said'[f] = said[f]
    BY <1>2 DEF Kinds
  <2> QED BY <2>1 DEF Kept, UserKept
<1>3. ASSUME k \notin {"edit", "remove", "add"}, UNCHANGED said
      PROVE  LinksKept'
  BY <1>3 DEF Kept, LinksKept, Kinds
<1> QED BY <1>1, <1>2, <1>3

LEMMA SubmitKept ==
    ASSUME Kept, HandleSubmit
    PROVE  Kept'
<1> DEFINE b == [title |-> form.title, providers |-> view.providers,
                 content |-> [ref |-> view.content.ref, mode |-> form.mode]]
<1>1. PageTypes /\ StoreTypes /\ form.open
  BY TypeParts DEF Kept, HandleSubmit
<1>2. form.title \in Titles /\ form.mode \in Modes
  BY <1>1, OpenForm
<1>3. view.providers \subseteq Refs /\ view.content.ref \in Refs \cup {NoRef}
  BY <1>1 DEF StoreTypes, Records, Content
<1>4. "edit" \in Kinds /\ b \in Bodies("edit") /\ Sourced(b)
  <2>1. [ref |-> view.content.ref, mode |-> form.mode] \in Content
    BY <1>2, <1>3 DEF Content
  <2>2. b \in Edits
    BY <1>2, <1>3, <2>1 DEF Edits
  <2>3. Sourced(b)
    BY DEF Kept, BindingsAgree, Sourced
  <2> QED BY <2>2, <2>3 DEF Bodies, Kinds
<1>5. Send("edit", b) /\ UNCHANGED <<form, notes, add, searches, awaited>>
      /\ said' = [said EXCEPT !.linked = {}, !.vouched = FALSE]
  BY DEF HandleSubmit, pageVars, addVars
<1> HIDE DEF b
<1>6. /\ req'["edit"].st = "sent" /\ req'["edit"].body = b /\ req["edit"].st = "idle"
      /\ \A x \in Kinds \ {"edit"} : req'[x] = req[x]
      /\ ReqTypes' /\ ops' \in 0..MaxOps
      /\ UNCHANGED <<record, view, fetch, behind>> /\ ViewKept'
  BY <1>4, <1>5, SendEffect
<1>7. /\ said' \in Sayings /\ said'.linked = {} /\ ~said'.vouched
      /\ said'.status = said.status /\ said'.notes = said.notes
  BY <1>1, <1>5 DEF StoreTypes, Sayings
<1>8. Typed'
  <2>1. PageTypes' /\ StoreTypes'
    BY <1>1, <1>5, <1>6, <1>7 DEF PageTypes, StoreTypes
  <2> QED BY <1>6, <2>1, TypePartsNext
<1>9. BindingsAgree'
  BY <1>4, <1>6 DEF Kept, BindingsAgree, Kinds, Sourced
<1>10. UserKept'
  BY <1>4, <1>6, <1>7, AboutOthers
<1>11. LinksKept'
  BY <1>7 DEF LinksKept
<1> QED BY <1>6, <1>8, <1>9, <1>10, <1>11 DEF Kept

LEMMA SendUserKept ==
    ASSUME Kept, SetStatus \/ SaveNotes
    PROVE  Kept'
<1>1. PageTypes /\ StoreTypes /\ "user" \in Kinds
  BY TypeParts DEF Kept, Kinds
<1>2. PICK b \in Patches : Send("user", b)
  <2>1. CASE SetStatus
    <3>1. PICK s \in Statuses : Send("user", [status |-> s])
      BY <2>1 DEF SetStatus
    <3> QED BY <3>1 DEF Patches
  <2>2. CASE SaveNotes
    <3> DEFINE b == IF notes.text = "" THEN [none |-> TRUE] ELSE [notes |-> notes.text]
    <3>1. notes.text \in Notes
      <4>1. "" \in Notes
        BY RecordAssumption
      <4>2. CASE notes = NotEditing
        BY <4>1, <4>2 DEF NotEditing
      <4>3. CASE notes \in [editing : {TRUE}, text : Notes]
        BY <4>3
      <4> QED BY <1>1, <4>2, <4>3 DEF PageTypes, Drafts
    <3>2. b \in Patches
      BY <3>1 DEF Patches
    <3>3. Send("user", b)
      BY <2>2 DEF SaveNotes
    <3> HIDE DEF b
    <3> QED BY <3>2, <3>3
  <2> QED BY <2>1, <2>2
<1>3. b \in Bodies("user")
  BY DEF Bodies
<1>4. /\ req'["user"].st = "sent" /\ req'["user"].body = b /\ req["user"].st = "idle"
      /\ \A x \in Kinds \ {"user"} : req'[x] = req[x]
      /\ ReqTypes' /\ ops' \in 0..MaxOps
      /\ UNCHANGED <<record, view, fetch, behind>> /\ ViewKept'
  BY <1>1, <1>2, <1>3, SendEffect
<1>5. /\ UNCHANGED said /\ PageTypes'
  BY <1>1 DEF SetStatus, SaveNotes, pageVars, addVars, PageTypes, Drafts
<1>6. Typed'
  <2>1. StoreTypes'
    BY <1>1, <1>4, <1>5 DEF StoreTypes
  <2> QED BY <1>4, <1>5, <2>1, TypePartsNext
<1>7. BindingsAgree' /\ LinksKept'
  BY <1>1, <1>4, <1>5, AboutOthers
<1>8. UserKept'
  BY <1>4, <1>5 DEF Kept, UserKept
<1> QED BY <1>4, <1>6, <1>7, <1>8 DEF Kept

LEMMA SendRefKept ==
    ASSUME Kept, Remove \/ SwitchTo \/ HandleConfirm
    PROVE  Kept'
<1>1. /\ PageTypes /\ StoreTypes /\ {"remove", "switch", "add"} \subseteq Kinds
      /\ view.providers \subseteq Refs /\ ReqTypes
  BY TypeParts DEF Kept, Kinds, StoreTypes, Records
<1>2. UNCHANGED <<form, notes, add, searches, awaited>>
  BY DEF Remove, SwitchTo, HandleConfirm, pageVars, addVars
<1>3. PageTypes'
  BY <1>1, <1>2 DEF PageTypes
<1>4. Refs = Bodies("remove") /\ Refs = Bodies("switch") /\ Refs = Bodies("add")
  BY DEF Bodies
<1>5. \A k \in Kinds : Pending(k) => req[k].st # "idle"
  BY <1>1, RequestShape DEF Pending, ReqTypes
<1>6. CASE Remove
  <2>1. PICK r \in view.providers :
           /\ Send("remove", r)
           /\ said' = [said EXCEPT !.linked = @ \ {r}, !.vouched = @ /\ ~Carries("add", r)]
    BY <1>6 DEF Remove
  <2>2. /\ req'["remove"].st = "sent" /\ req'["remove"].body = r /\ req["remove"].st = "idle"
        /\ \A x \in Kinds \ {"remove"} : req'[x] = req[x]
        /\ ReqTypes' /\ ops' \in 0..MaxOps
        /\ UNCHANGED <<record, view, fetch, behind>> /\ ViewKept'
    BY <1>1, <1>4, <2>1, SendEffect
  <2>3. /\ said' \in Sayings /\ said'.linked = said.linked \ {r}
        /\ said'.vouched => said.vouched /\ ~Carries("add", r)
        /\ said'.status = said.status /\ said'.notes = said.notes
    BY <1>1, <2>1 DEF StoreTypes, Sayings
  <2>4. Typed'
    <3>1. StoreTypes'
      BY <1>1, <2>2, <2>3 DEF StoreTypes
    <3> QED BY <1>3, <2>2, <2>3, <3>1, TypePartsNext
  <2>5. BindingsAgree' /\ UserKept'
    BY <1>1, <2>2, <2>3, AboutOthers
  <2>6. LinksKept'
    <3>1. said'.vouched /\ req["add"].st # "idle" => req["add"].body # r
      <4>1. req["add"].st # "idle" => Pending("add")
        BY DEF Pending, Idle
      <4> QED BY <2>3, <4>1 DEF Carries
    <3>2. req'["add"] = req["add"] /\ req'["edit"] = req["edit"]
      BY <2>2 DEF Kinds
    <3> QED BY <2>2, <2>3, <3>1, <3>2 DEF Kept, LinksKept
  <2> QED BY <2>2, <2>4, <2>5, <2>6 DEF Kept
<1>7. CASE SwitchTo
  <2>1. PICK r \in Capable(view.providers) : Send("switch", r) /\ UNCHANGED said
    BY <1>7 DEF SwitchTo
  <2>2. r \in Refs /\ r[1] \in Readable
    BY <1>1, <2>1 DEF Capable
  <2>3. /\ req'["switch"].st = "sent" /\ req'["switch"].body = r /\ req["switch"].st = "idle"
        /\ \A x \in Kinds \ {"switch"} : req'[x] = req[x]
        /\ ReqTypes' /\ ops' \in 0..MaxOps
        /\ UNCHANGED <<record, view, fetch, behind>> /\ ViewKept'
    BY <1>1, <1>4, <2>1, <2>2, SendEffect
  <2>4. Typed'
    <3>1. StoreTypes'
      BY <1>1, <2>1, <2>3 DEF StoreTypes
    <3> QED BY <1>3, <2>1, <2>3, <3>1, TypePartsNext
  <2>5. BindingsAgree'
    BY <2>2, <2>3 DEF Kept, BindingsAgree, Kinds, Sourced
  <2>6. UserKept' /\ LinksKept'
    BY <1>1, <2>1, <2>3, AboutOthers
  <2> QED BY <2>3, <2>4, <2>5, <2>6 DEF Kept
<1>8. CASE HandleConfirm
  <2> DEFINE r == <<add.provider, add.picked>>
  <2>1. /\ Send("add", r)
        /\ said' = [said EXCEPT !.vouched = ~Pending("edit") /\ ~Carries("remove", r)]
    BY <1>8 DEF HandleConfirm
  <2>2. r \in Refs
    BY <1>1, <1>8 DEF HandleConfirm, PageTypes, Adds, Refs
  <2> HIDE DEF r
  <2>3. /\ req'["add"].st = "sent" /\ req'["add"].body = r /\ req["add"].st = "idle"
        /\ \A x \in Kinds \ {"add"} : req'[x] = req[x]
        /\ ReqTypes' /\ ops' \in 0..MaxOps
        /\ UNCHANGED <<record, view, fetch, behind>> /\ ViewKept'
    BY <1>1, <1>4, <2>1, <2>2, SendEffect
  <2>4. /\ said' \in Sayings /\ said'.linked = said.linked
        /\ said'.vouched => ~Pending("edit") /\ ~Carries("remove", r)
        /\ said'.status = said.status /\ said'.notes = said.notes
    BY <1>1, <2>1 DEF StoreTypes, Sayings
  <2>5. Typed'
    <3>1. StoreTypes'
      BY <1>1, <2>3, <2>4 DEF StoreTypes
    <3> QED BY <1>3, <2>3, <2>4, <3>1, TypePartsNext
  <2>6. BindingsAgree' /\ UserKept'
    BY <1>1, <2>3, <2>4, AboutOthers
  <2>7. LinksKept'
    <3>1. said'.vouched => /\ req["edit"].st = "idle"
                           /\ req["remove"].st # "idle" => req["remove"].body # r
      <4>1. /\ req["remove"].st # "idle" => Pending("remove")
            /\ req["edit"].st # "idle" => Pending("edit")
        BY DEF Pending, Idle
      <4> QED BY <2>4, <4>1 DEF Carries
    <3>2. req'["remove"] = req["remove"] /\ req'["edit"] = req["edit"]
      BY <2>3 DEF Kinds
    <3> QED BY <2>3, <2>4, <3>1, <3>2 DEF Kept, LinksKept
  <2> QED BY <2>3, <2>5, <2>6, <2>7 DEF Kept
<1> QED BY <1>6, <1>7, <1>8

-----------------------------------------------------------------------------
(***************************************************************************)
(* Steps of the server                                                     *)
(***************************************************************************)
LEMMA ReqEffect ==
    ASSUME ReqTypes, NEW k \in Kinds, NEW r \in Requests(k), req' = [req EXCEPT ![k] = r]
    PROVE  req'[k] = r /\ (\A x \in Kinds \ {k} : req'[x] = req[x]) /\ ReqTypes'
BY DEF ReqTypes

LEMMA PatchShape ==
    ASSUME NEW b \in Patches
    PROVE  /\ "status" \in DOMAIN b => b.status \in Statuses
           /\ "notes" \in DOMAIN b => b.notes \in Notes
           /\ {"last", "linked", "vouched"} \cap DOMAIN b = {}
           /\ "none" \in DOMAIN b => "status" \notin DOMAIN b /\ "notes" \notin DOMAIN b
BY DEF Patches

LEMMA UserPatchReadsKept ==
    ASSUME Kept, UserPatchReads
    PROVE  Kept'
<1>1. /\ PageTypes /\ StoreTypes /\ ReqTypes /\ ops \in 0..MaxOps /\ "user" \in Kinds
      /\ req["user"].st = "sent"
  BY TypeParts DEF Kept, Kinds, UserPatchReads
<1> DEFINE r == [st |-> "read", body |-> req["user"].body, base |-> record.user]
<1>2. req["user"].body \in Patches /\ record.user \in Users
  BY <1>1, RequestShape DEF ReqTypes, Bodies, StoreTypes, Records
<1>3. r \in Requests("user") /\ r.st = "read" /\ r.base = record.user
  BY <1>2 DEF Requests
<1>4. req' = [req EXCEPT !["user"] = r] /\ UNCHANGED <<record, view, fetch, said, behind, ops>>
      /\ UNCHANGED <<form, notes, add, searches, awaited>>
  BY <1>1 DEF UserPatchReads, viewVars, pageVars, addVars, ReqTypes
<1> HIDE DEF r
<1>5. req'["user"] = r /\ (\A x \in Kinds \ {"user"} : req'[x] = req[x]) /\ ReqTypes'
  BY <1>1, <1>3, <1>4, ReqEffect
<1>6. Typed'
  <2>1. PageTypes' /\ StoreTypes'
    BY <1>1, <1>4 DEF PageTypes, StoreTypes
  <2> QED BY <1>1, <1>4, <1>5, <2>1, TypePartsNext
<1>7. BindingsAgree' /\ LinksKept'
  BY <1>1, <1>4, <1>5, AboutOthers
<1>8. UserKept'
  BY <1>1, <1>3, <1>4, <1>5 DEF Kept, UserKept
<1>9. ViewKept'
  <2>1. Unheard => Unheard'
    BY <1>1, <1>5 DEF Unheard
  <2> QED BY <1>4, <2>1 DEF Kept, ViewKept
<1> QED BY <1>6, <1>7, <1>8, <1>9 DEF Kept

LEMMA EditSavesMetadataKept ==
    ASSUME Kept, EditSavesMetadata
    PROVE  Kept'
<1>1. /\ PageTypes /\ StoreTypes /\ ReqTypes /\ ops \in 0..MaxOps /\ "edit" \in Kinds
      /\ req["edit"].st = "sent"
  BY TypeParts DEF Kept, Kinds, EditSavesMetadata
<1> DEFINE r == [st |-> "half", body |-> req["edit"].body]
<1>2. req["edit"].body \in Edits /\ req["edit"] = [st |-> "sent", body |-> req["edit"].body]
  <2>1. req["edit"] \in Requests("edit")
    BY <1>1 DEF ReqTypes
  <2> QED BY <1>1, <2>1 DEF Requests, InFlight, Idle
<1>3. r \in Requests("edit") /\ r.st = "half" /\ r.body = req["edit"].body
  BY <1>2 DEF Requests
<1>4. /\ UNCHANGED <<view, fetch, said, behind, ops, form, notes, add, searches, awaited>>
      /\ record' = [record EXCEPT !.title = req["edit"].body.title, !.cover = ""]
  BY <1>1 DEF EditSavesMetadata, viewVars, pageVars, addVars
<1>5. req' = [req EXCEPT !["edit"] = r]
  <2>1. [req["edit"] EXCEPT !.st = "half"] = r
    BY <1>2
  <2>2. req' = [req EXCEPT !["edit"] = [req["edit"] EXCEPT !.st = "half"]]
    BY DEF EditSavesMetadata
  <2> QED BY <2>1, <2>2
<1>6. /\ record' \in Records /\ record'.user = record.user
      /\ record'.providers = record.providers /\ record'.content = record.content
  BY <1>1, <1>2, <1>4 DEF StoreTypes, Records, Edits
<1> HIDE DEF r
<1>7. req'["edit"] = r /\ (\A x \in Kinds \ {"edit"} : req'[x] = req[x]) /\ ReqTypes'
  BY <1>1, <1>3, <1>5, ReqEffect
<1>8. /\ req'["user"] = req["user"] /\ req'["remove"] = req["remove"]
      /\ req'["switch"] = req["switch"] /\ req'["add"] = req["add"]
  BY <1>7 DEF Kinds
<1>9. Typed'
  <2>1. PageTypes' /\ StoreTypes'
    BY <1>1, <1>4, <1>6 DEF PageTypes, StoreTypes
  <2> QED BY <1>1, <1>4, <1>7, <2>1, TypePartsNext
<1>10. BindingsAgree'
  BY <1>1, <1>3, <1>4, <1>6, <1>7, <1>8 DEF Kept, BindingsAgree, Sourced
<1>11. UserKept'
  BY <1>4, <1>6, <1>8 DEF Kept, UserKept
<1>12. LinksKept'
  BY <1>1, <1>3, <1>4, <1>6, <1>7, <1>8 DEF Kept, LinksKept
<1>13. ViewKept'
  BY <1>1, <1>3, <1>7 DEF ViewKept, Unheard
<1> QED BY <1>9, <1>10, <1>11, <1>12, <1>13 DEF Kept

\* What handling a request does to the requests, whatever it writes.
LEMMA HandledEffect ==
    ASSUME Kept, NEW k \in Kinds, Handled(k)
    PROVE  /\ PageTypes' /\ ReqTypes' /\ ViewKept' /\ ops' \in 0..MaxOps
           /\ req[k].st # "idle" /\ req[k].body \in Bodies(k)
           /\ req'[k].st = "done" /\ req'[k].body = req[k].body
           /\ \A x \in Kinds \ {k} : req'[x] = req[x]
           /\ UNCHANGED <<view, fetch, behind>> /\ (k # "add" => said' = said)
           /\ said' \in Sayings /\ said'.linked = said.linked
           /\ said'.status = said.status /\ said'.notes = said.notes
           /\ said'.vouched => said.vouched
<1>1. PageTypes /\ StoreTypes /\ ReqTypes /\ ops \in 0..MaxOps
  BY TypeParts DEF Kept
<1>2. req[k].st # "idle"
  BY DEF Handled, Ready
<1>3. req[k].body \in Bodies(k)
  BY <1>1, <1>2, RequestShape DEF ReqTypes
<1> DEFINE r == [st |-> "done", body |-> req[k].body]
<1>4. r \in Requests(k) /\ r.st = "done" /\ r.body = req[k].body
  BY <1>3, RequestMade
<1>5. /\ req' = [req EXCEPT ![k] = r]
      /\ UNCHANGED <<view, fetch, behind, ops, form, notes, add, searches, awaited>>
  BY <1>1 DEF Handled, viewVars, pageVars, addVars, ReqTypes
<1> HIDE DEF r
<1>6. req'[k] = r /\ (\A x \in Kinds \ {k} : req'[x] = req[x]) /\ ReqTypes'
  BY <1>1, <1>4, <1>5, ReqEffect
<1>7. PageTypes'
  BY <1>1, <1>5 DEF PageTypes
<1>8. ViewKept'
  BY <1>4, <1>6 DEF ViewKept, Unheard
<1>9. /\ k # "add" => said' = said
      /\ said' \in Sayings /\ said'.linked = said.linked
      /\ said'.status = said.status /\ said'.notes = said.notes
      /\ said'.vouched => said.vouched
  <2>1. CASE k # "add"
    BY <1>1, <2>1 DEF Handled, StoreTypes
  <2>2. CASE k = "add"
    <3>1. PICK e \in BOOLEAN : e = ~Endangered(req[k].body)
      BY DEF Endangered
    <3>2. said' = [said EXCEPT !.vouched = @ /\ e]
      BY <2>2, <3>1 DEF Handled
    <3> QED BY <1>1, <2>2, <3>2 DEF StoreTypes, Sayings
  <2> QED BY <2>1, <2>2
<1> QED BY <1>1, <1>2, <1>3, <1>4, <1>5, <1>6, <1>7, <1>8, <1>9

\* The record that handling a request writes keeps the rest of the invariant.
LEMMA EditHandled ==
    ASSUME Kept, Handled("edit")
    PROVE  Kept'
<1> DEFINE b == req["edit"].body
<1>1. StoreTypes /\ "edit" \in Kinds
  BY TypeParts DEF Kept, Kinds
<1>2. /\ PageTypes' /\ ReqTypes' /\ ViewKept' /\ ops' \in 0..MaxOps
      /\ req["edit"].st # "idle" /\ req["edit"].body \in Edits
      /\ req'["edit"].st = "done" /\ req'["edit"].body = req["edit"].body
      /\ \A x \in Kinds \ {"edit"} : req'[x] = req[x]
      /\ UNCHANGED <<view, fetch, said, behind>>
  BY <1>1, HandledEffect DEF Bodies
<1>3. record' = [record EXCEPT !.providers = req["edit"].body.providers,
                               !.content = req["edit"].body.content]
  BY DEF Handled, Written
<1>4. /\ record' \in Records /\ record'.user = record.user
      /\ record'.providers = req["edit"].body.providers
      /\ record'.content = req["edit"].body.content
  BY <1>1, <1>2, <1>3 DEF StoreTypes, Records, Edits
<1>5. /\ req'["user"] = req["user"] /\ req'["remove"] = req["remove"]
      /\ req'["switch"] = req["switch"] /\ req'["add"] = req["add"]
  BY <1>2 DEF Kinds
<1>6. Typed'
  <2>1. StoreTypes'
    BY <1>1, <1>2, <1>4 DEF StoreTypes
  <2> QED BY <1>2, <2>1, TypePartsNext
<1>7. BindingsAgree'
  BY <1>2, <1>4, <1>5 DEF Kept, BindingsAgree, Sourced
<1>8. UserKept'
  BY <1>2, <1>4, <1>5 DEF Kept, UserKept
<1>9. LinksKept'
  BY <1>2, <1>4, <1>5 DEF Kept, LinksKept
<1> QED BY <1>2, <1>6, <1>7, <1>8, <1>9 DEF Kept

LEMMA UserHandled ==
    ASSUME Kept, Handled("user")
    PROVE  Kept'
<1>1. StoreTypes /\ "user" \in Kinds /\ req["user"].st = "read" /\ req["user"].base \in Users
  <2>1. StoreTypes /\ ReqTypes /\ "user" \in Kinds
    BY TypeParts DEF Kept, Kinds
  <2>2. req["user"].st = "read"
    BY DEF Handled, Ready
  <2> QED BY <2>1, <2>2, RequestShape DEF ReqTypes
<1>2. /\ PageTypes' /\ ReqTypes' /\ ViewKept' /\ ops' \in 0..MaxOps
      /\ req["user"].body \in Patches
      /\ req'["user"].st = "done" /\ req'["user"].body = req["user"].body
      /\ \A x \in Kinds \ {"user"} : req'[x] = req[x]
      /\ UNCHANGED <<view, fetch, said, behind>>
  BY <1>1, HandledEffect DEF Bodies
<1>3. PICK b \in Patches : b = req["user"].body
  BY <1>2
<1>4. PICK u \in Users : u = req["user"].base
  BY <1>1
<1>5. record' = IF "none" \in DOMAIN b THEN record
                ELSE [record EXCEPT !.user = PatchedUser(u, b)]
  BY <1>3, <1>4 DEF Handled, Written
<1>6. /\ "status" \in DOMAIN b => b.status \in Statuses
      /\ "notes" \in DOMAIN b => b.notes \in Notes
      /\ "last" \notin DOMAIN b
      /\ "none" \in DOMAIN b => "status" \notin DOMAIN b /\ "notes" \notin DOMAIN b
  BY PatchShape
<1>7. /\ PatchedUser(u, b) \in Users
      /\ \A f \in {"status", "notes"} :
            PatchedUser(u, b)[f] = IF f \in DOMAIN b THEN b[f] ELSE u[f]
  <2>1. DOMAIN u = {"status", "notes", "last"} /\ u.status \in Statuses /\ u.notes \in Notes
        /\ u.last \in {"c1", "c2"}
    BY DEF Users
  <2>2. PatchedUser(u, b) =
          [f \in {"status", "notes", "last"} |-> IF f \in DOMAIN b THEN b[f] ELSE u[f]]
    BY <2>1 DEF PatchedUser
  <2> QED BY <1>6, <2>1, <2>2 DEF Users
<1>8. /\ record' \in Records
      /\ record'.providers = record.providers /\ record'.content = record.content
      /\ record'.user = IF "none" \in DOMAIN b THEN record.user ELSE PatchedUser(u, b)
  BY <1>1, <1>5, <1>7 DEF StoreTypes, Records
<1>9. /\ req'["edit"] = req["edit"] /\ req'["remove"] = req["remove"]
      /\ req'["switch"] = req["switch"] /\ req'["add"] = req["add"]
  BY <1>2 DEF Kinds
<1>10. Typed'
  <2>1. StoreTypes'
    BY <1>1, <1>2, <1>8 DEF StoreTypes
  <2> QED BY <1>2, <2>1, TypePartsNext
<1>11. BindingsAgree'
  BY <1>2, <1>8, <1>9 DEF Kept, BindingsAgree, Sourced
<1>12. UserKept'
  <2>1. ASSUME NEW f \in {"status", "notes"}
        PROVE  record'.user[f] = IF f \in DOMAIN b THEN b[f] ELSE record.user[f]
    <3>1. u[f] = record.user[f]
      BY <1>1, <1>4 DEF Kept, UserKept
    <3> QED BY <1>6, <1>7, <1>8, <3>1
  <2>2. ASSUME NEW f \in {"status", "notes"}
        PROVE  said[f] # "?" => record.user[f] = said[f]
    BY <1>1 DEF Kept, UserKept
  <2> QED BY <1>2, <1>3, <2>1, <2>2 DEF UserKept
<1>13. LinksKept'
  BY <1>2, <1>8, <1>9 DEF Kept, LinksKept
<1> QED BY <1>2, <1>10, <1>11, <1>12, <1>13 DEF Kept

LEMMA RefHandled ==
    ASSUME Kept, NEW k \in {"remove", "switch", "add"}, Handled(k)
    PROVE  Kept'
<1>1. StoreTypes /\ k \in Kinds /\ Bodies(k) = Refs
  BY TypeParts DEF Kept, Kinds, Bodies
<1>2. /\ PageTypes' /\ ReqTypes' /\ ViewKept' /\ ops' \in 0..MaxOps
      /\ req[k].st # "idle" /\ req[k].body \in Refs
      /\ req'[k].st = "done" /\ req'[k].body = req[k].body
      /\ \A x \in Kinds \ {k} : req'[x] = req[x]
      /\ UNCHANGED <<view, fetch, behind>>
      /\ said' \in Sayings /\ said'.linked = said.linked
      /\ said'.status = said.status /\ said'.notes = said.notes
      /\ said'.vouched => said.vouched
  BY <1>1, HandledEffect
<1>3. PICK r \in Refs : r = req[k].body
  BY <1>2
<1>4. req'["user"] = req["user"] /\ req'["edit"] = req["edit"]
  BY <1>2 DEF Kinds
<1>5. /\ record' \in Records /\ record'.user = record.user
      /\ Sourced(record')
      /\ k = "remove" => record'.providers = record.providers \ {r}
      /\ k # "remove" => record'.providers = record.providers \cup {r}
  <2>1. /\ record \in Records /\ Sourced(record) /\ NoRef \notin Refs
        /\ k = "switch" => r[1] \in Readable
    BY <1>1, <1>2, <1>3 DEF Kept, BindingsAgree, StoreTypes, NoRef, Refs
  <2>2. CASE k = "remove"
    <3>1. record' = [record EXCEPT !.providers = @ \ {r},
                     !.content = IF @.ref = r THEN [ref |-> NoRef, mode |-> ""] ELSE @]
      BY <1>3, <2>2 DEF Handled, Written, AfterRemove
    <3>2. /\ record' \in Records /\ record'.user = record.user
          /\ record'.providers = record.providers \ {r}
          /\ record'.content = IF record.content.ref = r THEN [ref |-> NoRef, mode |-> ""]
                               ELSE record.content
      BY <2>1, <3>1 DEF Records, Content
    <3>3. CASE record.content.ref = r
      <4>1. record'.content.ref = NoRef
        <5>1. record'.content = [ref |-> NoRef, mode |-> ""]
          BY <3>2, <3>3
        <5>2. [ref |-> NoRef, mode |-> ""].ref = NoRef
          BY Zenon
        <5> QED BY <5>1, <5>2, Zenon
      <4>2. Sourced(record')
        BY <4>1 DEF Sourced
      <4> QED BY <2>2, <3>2, <4>2
    <3>4. CASE record.content.ref # r
      <4>1. record'.content = record.content
        BY <3>2, <3>4
      <4>2. Sourced(record')
        BY <2>1, <3>2, <3>4, <4>1 DEF Sourced, Capable
      <4> QED BY <2>2, <3>2, <4>2
    <3> QED BY <3>3, <3>4
  <2>3. CASE k = "switch"
    <3>1. record' = [record EXCEPT !.providers = @ \cup {r}, !.content.ref = r]
      BY <1>3, <2>3 DEF Handled, Written
    <3>2. /\ record' \in Records /\ record'.user = record.user
          /\ record'.providers = record.providers \cup {r}
          /\ record'.content.ref = r
      BY <2>1, <3>1 DEF Records, Content
    <3> QED BY <2>1, <2>3, <3>2 DEF Sourced, Capable
  <2>4. CASE k = "add"
    <3>1. record' = [record EXCEPT !.providers = @ \cup {r}]
      BY <1>3, <2>4 DEF Handled, Written
    <3>2. /\ record' \in Records /\ record'.user = record.user
          /\ record'.providers = record.providers \cup {r}
          /\ record'.content = record.content
      BY <2>1, <3>1 DEF Records, Content
    <3> QED BY <2>1, <2>4, <3>2 DEF Sourced, Capable
  <2> QED BY <2>2, <2>3, <2>4
<1>6. Typed'
  <2>1. StoreTypes'
    BY <1>1, <1>2, <1>5 DEF StoreTypes
  <2> QED BY <1>2, <2>1, TypePartsNext
<1>7. BindingsAgree'
  <2>1. req'["switch"].st # "idle" => req'["switch"].body[1] \in Readable
    BY <1>2 DEF Kept, BindingsAgree, Kinds
  <2> QED BY <1>2, <1>4, <1>5, <2>1 DEF Kept, BindingsAgree, Sourced
<1>8. UserKept'
  <2>1. \A f \in {"status", "notes"} : said'[f] = said[f]
    BY <1>2
  <2> QED BY <1>4, <1>5, <2>1 DEF Kept, UserKept
<1>9. LinksKept'
  <2>1. CASE k = "remove"
    <3>1. req'["add"] = req["add"]
      BY <1>2, <2>1 DEF Kinds
    <3> QED BY <1>2, <1>3, <1>4, <1>5, <2>1, <3>1 DEF Kept, LinksKept
  <2>2. CASE k = "switch"
    <3>1. req'["add"] = req["add"] /\ req'["remove"] = req["remove"]
      BY <1>2, <2>2 DEF Kinds
    <3> QED BY <1>2, <1>4, <1>5, <2>2, <3>1 DEF Kept, LinksKept
  <2>3. CASE k = "add"
    <3>1. req'["remove"] = req["remove"]
      BY <1>2, <2>3 DEF Kinds
    <3> QED BY <1>2, <1>3, <1>4, <1>5, <2>3, <3>1 DEF Kept, LinksKept
  <2> QED BY <2>1, <2>2, <2>3
<1> QED BY <1>2, <1>6, <1>7, <1>8, <1>9 DEF Kept

LEMMA ProgressSavedKept ==
    ASSUME Kept, ProgressSaved
    PROVE  Kept'
<1>1. PageTypes /\ StoreTypes /\ ReqTypes /\ ops \in 0..MaxOps
  BY TypeParts DEF Kept
<1>2. /\ UNCHANGED <<view, fetch, said, req, form, notes, add, searches, awaited>>
      /\ Counted /\ behind' = TRUE /\ record' = [record EXCEPT !.user.last = "c2"]
  BY DEF ProgressSaved, viewVars, pageVars, addVars
<1>3. /\ record' \in Records
      /\ record'.user.status = record.user.status /\ record'.user.notes = record.user.notes
      /\ record'.providers = record.providers /\ record'.content = record.content
  BY <1>1, <1>2 DEF StoreTypes, Records, Users
<1>4. Typed'
  <2>1. PageTypes' /\ StoreTypes' /\ ReqTypes'
    BY <1>1, <1>2, <1>3 DEF PageTypes, StoreTypes, ReqTypes
  <2>2. ops' \in 0..MaxOps
    BY <1>1, <1>2, CountedTyped
  <2> QED BY <2>1, <2>2, TypePartsNext
<1>5. BindingsAgree' /\ LinksKept' /\ ViewKept'
  BY <1>2, <1>3 DEF Kept, BindingsAgree, LinksKept, ViewKept, Sourced
<1>6. UserKept'
  <2>1. \A f \in {"status", "notes"} : record'.user[f] = record.user[f]
    BY <1>3
  <2> QED BY <1>2, <2>1 DEF Kept, UserKept
<1> QED BY <1>4, <1>5, <1>6 DEF Kept

-----------------------------------------------------------------------------
(***************************************************************************)
(* Answers, and steps of the cache                                         *)
(***************************************************************************)
\* A request that comes to its end.
LEMMA Ended ==
    ASSUME Kept, NEW k \in Kinds, req' = [req EXCEPT ![k] = Idle]
    PROVE  /\ req'[k].st = "idle" /\ (\A x \in Kinds \ {k} : req'[x] = req[x]) /\ ReqTypes'
<1>1. ReqTypes /\ Idle \in Requests(k) /\ Idle.st = "idle"
  BY TypeParts DEF Kept, Requests, InFlight, Idle
<1> QED BY <1>1, ReqEffect

\* One whose end leaves the store and what was said alone.
LEMMA DroppedKept ==
    ASSUME Kept, NEW k \in Kinds, Dropped(k), UNCHANGED said,
           \/ req[k].st = "sent" /\ behind' = behind
           \/ k # "user" /\ behind' = TRUE
    PROVE  Kept'
<1>1. PageTypes /\ StoreTypes /\ ops \in 0..MaxOps
  BY TypeParts DEF Kept
<1>2. UNCHANGED <<record, view, fetch, form, notes, add, searches, awaited, ops>>
  BY DEF Dropped, viewVars, pageVars, addVars
<1>3. req'[k].st = "idle" /\ (\A x \in Kinds \ {k} : req'[x] = req[x]) /\ ReqTypes'
  BY Ended DEF Dropped
<1>4. Typed'
  <2>1. PageTypes' /\ StoreTypes'
    BY <1>1, <1>2 DEF PageTypes, StoreTypes
  <2> QED BY <1>1, <1>2, <1>3, <2>1, TypePartsNext
<1>5. \A x \in Kinds : req'[x] = req[x] \/ req'[x].st = "idle"
  BY <1>3
<1>6. {"edit", "user", "remove", "switch", "add"} \subseteq Kinds
  BY DEF Kinds
<1>7. BindingsAgree'
  BY <1>2, <1>5, <1>6 DEF Kept, BindingsAgree, Sourced
<1>8. UserKept'
  <2>1. req'["user"].st = "idle" => req["user"].st # "done"
    BY <1>3, <1>6, RequestShape DEF Kept, Typed, ReqTypes
  <2> QED BY <1>2, <1>5, <1>6, <2>1 DEF Kept, UserKept
<1>9. LinksKept'
  BY <1>2, <1>5, <1>6 DEF Kept, LinksKept
<1>10. ViewKept'
  <2>1. ~behind' => ~behind /\ (Unheard => Unheard')
    BY <1>3 DEF Unheard
  <2> QED BY <1>2, <2>1 DEF Kept, ViewKept
<1> QED BY <1>4, <1>7, <1>8, <1>9, <1>10 DEF Kept

\* The user's fields after a report, or after a doubt: those of the request, and the rest
\* as it was.
LEMMA SaidOfPatch ==
    ASSUME Kept, req["user"].st = "done"
    PROVE  /\ Reported("user", req["user"].body) \in Sayings
           /\ InDoubt("user", req["user"].body) \in Sayings
           /\ \A f \in {"status", "notes"} :
                 /\ Reported("user", req["user"].body)[f] =
                       IF f \in DOMAIN req["user"].body THEN req["user"].body[f] ELSE said[f]
                 /\ InDoubt("user", req["user"].body)[f] =
                       IF f \in DOMAIN req["user"].body THEN "?" ELSE said[f]
           /\ \A f \in {"linked", "vouched"} :
                 /\ Reported("user", req["user"].body)[f] = said[f]
                 /\ InDoubt("user", req["user"].body)[f] = said[f]
<1>1. StoreTypes /\ ReqTypes /\ "user" \in Kinds
  BY TypeParts DEF Kept, Kinds
<1>2. PICK b \in Patches : b = req["user"].body
  BY <1>1, RequestShape DEF ReqTypes, Bodies
<1>3. /\ "status" \in DOMAIN b => b.status \in Statuses
      /\ "notes" \in DOMAIN b => b.notes \in Notes
      /\ {"last", "linked", "vouched"} \cap DOMAIN b = {}
  BY PatchShape
<1>4. PICK s \in Sayings : s = said
  BY <1>1 DEF StoreTypes
<1>5. /\ DOMAIN s = {"status", "notes", "linked", "vouched"}
      /\ s.status \in Statuses \cup {"?"} /\ s.notes \in Notes \cup {"?"}
      /\ s.linked \in SUBSET Refs /\ s.vouched \in BOOLEAN
  BY DEF Sayings
<1>6. /\ Reported("user", b) = [f \in {"status", "notes", "linked", "vouched"} |->
                                    IF f \in DOMAIN b THEN b[f] ELSE s[f]]
      /\ InDoubt("user", b) = [f \in {"status", "notes", "linked", "vouched"} |->
                                    IF f \in DOMAIN b THEN "?" ELSE s[f]]
  BY <1>4, <1>5 DEF Reported, InDoubt
<1>7. Reported("user", b) \in Sayings
  BY <1>3, <1>5, <1>6 DEF Sayings
<1>8. InDoubt("user", b) \in Sayings
  BY <1>3, <1>5, <1>6 DEF Sayings
<1>9. ASSUME NEW f \in {"status", "notes"}
      PROVE  /\ Reported("user", b)[f] = IF f \in DOMAIN b THEN b[f] ELSE s[f]
             /\ InDoubt("user", b)[f] = IF f \in DOMAIN b THEN "?" ELSE s[f]
  BY <1>6
<1>10. ASSUME NEW f \in {"linked", "vouched"}
       PROVE  Reported("user", b)[f] = s[f] /\ InDoubt("user", b)[f] = s[f]
  BY <1>3, <1>6
<1> QED BY <1>2, <1>4, <1>7, <1>8, <1>9, <1>10

LEMMA UserAnswerKept ==
    ASSUME Kept, Answered("user") \/ AnswerLost("user")
    PROVE  Kept'
<1>1. PageTypes /\ StoreTypes /\ ops \in 0..MaxOps /\ "user" \in Kinds
      /\ req["user"].st = "done"
  BY TypeParts DEF Kept, Kinds, Answered, AnswerLost
<1>2. req'["user"].st = "idle" /\ (\A x \in Kinds \ {"user"} : req'[x] = req[x]) /\ ReqTypes'
  BY <1>1, Ended DEF Answered, AnswerLost, Dropped
<1>3. /\ UNCHANGED <<record, view, form, notes, add, searches, awaited, ops>>
      /\ \/ fetch' = Asked /\ UNCHANGED behind
         \/ UNCHANGED fetch /\ behind' = TRUE
      /\ \/ said' = Reported("user", req["user"].body)
         \/ said' = InDoubt("user", req["user"].body)
  BY DEF Answered, OnSuccess, AnswerLost, Dropped, viewVars, pageVars, addVars
<1>4. /\ said' \in Sayings /\ said'.linked = said.linked /\ said'.vouched = said.vouched
      /\ \A f \in {"status", "notes"} :
            said'[f] # "?" =>
               said'[f] = IF f \in DOMAIN req["user"].body THEN req["user"].body[f] ELSE said[f]
  BY <1>1, <1>3, SaidOfPatch
<1>5. Typed'
  <2>1. PageTypes'
    BY <1>1, <1>3 DEF PageTypes
  <2>2. StoreTypes'
    BY <1>1, <1>3, <1>4 DEF StoreTypes, Fetches
  <2> QED BY <1>1, <1>2, <1>3, <2>1, <2>2, TypePartsNext
<1>6. /\ req'["edit"] = req["edit"] /\ req'["remove"] = req["remove"]
      /\ req'["switch"] = req["switch"] /\ req'["add"] = req["add"]
  BY <1>2 DEF Kinds
<1>7. BindingsAgree'
  <2>1. fetch'.st = "served" => fetch.st = "served" /\ fetch' = fetch
    BY <1>3 DEF Asked
  <2> QED BY <1>3, <1>6, <2>1 DEF Kept, BindingsAgree, Sourced
<1>8. UserKept'
  BY <1>1, <1>2, <1>3, <1>4 DEF Kept, UserKept
<1>9. LinksKept'
  BY <1>3, <1>4, <1>6 DEF Kept, LinksKept
<1>10. ViewKept'
  BY <1>3 DEF ViewKept, Asked, Idle
<1> QED BY <1>5, <1>7, <1>8, <1>9, <1>10 DEF Kept

LEMMA AnsweredKept ==
    ASSUME Kept, NEW k \in Kinds \ {"user"}, Answered(k)
    PROVE  Kept'
<1>1. PageTypes /\ StoreTypes /\ ReqTypes /\ ops \in 0..MaxOps /\ req[k].st = "done"
  BY TypeParts DEF Kept, Answered
<1>2. req'[k].st = "idle" /\ (\A x \in Kinds \ {k} : req'[x] = req[x]) /\ ReqTypes'
  BY Ended DEF Answered
<1>3. /\ UNCHANGED <<record, view, notes, searches, awaited, ops, behind>>
      /\ fetch' = Asked /\ form' \in {form, FormClosed} /\ add' \in {add, AddClosed(view)}
      /\ said' = Reported(k, req[k].body)
  BY DEF Answered, OnSuccess
<1>4. /\ said' \in Sayings /\ said'.status = said.status /\ said'.notes = said.notes
      /\ k = "add" => ~said'.vouched /\ (said'.linked = said.linked \/
            (said.vouched /\ said'.linked = said.linked \cup {req["add"].body}))
      /\ k # "add" => said' = said
  <2>1. CASE k = "add"
    <3>1. PICK b \in Refs : b = req["add"].body
      BY <1>1, <2>1, RequestShape DEF ReqTypes, Bodies
    <3>2. said' = [said EXCEPT !.linked = IF said.vouched THEN @ \cup {b} ELSE @,
                               !.vouched = FALSE]
      BY <1>3, <2>1, <3>1 DEF Reported
    <3> QED BY <1>1, <2>1, <3>1, <3>2 DEF StoreTypes, Sayings
  <2>2. CASE k # "add"
    BY <1>1, <1>3, <2>2 DEF Reported, StoreTypes
  <2> QED BY <2>1, <2>2
<1>5. Typed'
  <2>1. PageTypes'
    <3>1. /\ AddClosed(view) \in Adds /\ AddClosed(view).step = "pick"
          /\ ~AddClosed(view).timer
      BY Provider
    <3>2. form' \in Forms
      BY <1>1, <1>3 DEF PageTypes, Forms
    <3> QED BY <1>1, <1>3, <3>1, <3>2 DEF PageTypes
  <2>2. StoreTypes'
    BY <1>1, <1>3, <1>4 DEF StoreTypes, Fetches
  <2> QED BY <1>1, <1>2, <1>3, <2>1, <2>2, TypePartsNext
<1>6. /\ \A x \in Kinds : req'[x] = req[x] \/ req'[x].st = "idle"
      /\ {"edit", "user", "remove", "switch", "add"} \subseteq Kinds
      /\ req'["user"] = req["user"]
  BY <1>2 DEF Kinds
<1>7. BindingsAgree'
  <2>1. fetch'.st # "served"
    BY <1>3 DEF Asked
  <2> QED BY <1>3, <1>6, <2>1 DEF Kept, BindingsAgree, Sourced
<1>8. UserKept'
  <2>1. \A f \in {"status", "notes"} : said'[f] = said[f]
    BY <1>4
  <2> QED BY <1>3, <1>6, <2>1 DEF Kept, UserKept
<1>9. LinksKept'
  <2>1. CASE k = "add"
    <3>1. req'["edit"] = req["edit"] /\ req'["remove"] = req["remove"]
      BY <1>2, <2>1 DEF Kinds
    <3> QED BY <1>1, <1>3, <1>4, <2>1, <3>1 DEF Kept, LinksKept
  <2>2. CASE k # "add"
    BY <1>3, <1>4, <1>6, <2>2 DEF Kept, LinksKept
  <2> QED BY <2>1, <2>2
<1>10. ViewKept'
  BY <1>3 DEF ViewKept, Asked, Idle
<1> QED BY <1>5, <1>7, <1>8, <1>9, <1>10 DEF Kept

LEMMA AnswerStepKept ==
    ASSUME Kept, AnswerStep \/ Refused
    PROVE  Kept'
<1>1. CASE Refused
  <2>1. "remove" \in Kinds
    BY DEF Kinds
  <2>2. Dropped("remove") /\ UNCHANGED said /\ behind' = behind /\ req["remove"].st = "sent"
    BY <1>1 DEF Refused
  <2> QED BY <2>1, <2>2, DroppedKept
<1>2. CASE AnswerStep
  <2>1. PICK k \in Kinds : Answered(k) \/ RequestLost(k) \/ AnswerLost(k)
    BY <1>2 DEF AnswerStep
  <2>2. CASE RequestLost(k)
    <3>1. Dropped(k) /\ UNCHANGED said /\ behind' = behind /\ req[k].st = "sent"
      BY <2>2 DEF RequestLost
    <3> QED BY <3>1, DroppedKept
  <2>3. CASE k = "user" /\ (Answered(k) \/ AnswerLost(k))
    BY <2>3, UserAnswerKept
  <2>4. CASE k # "user" /\ Answered(k)
    BY <2>4, AnsweredKept
  <2>5. CASE k # "user" /\ AnswerLost(k)
    <3>1. UNCHANGED said /\ Dropped(k) /\ behind' = TRUE
      BY <2>5 DEF AnswerLost, InDoubt
    <3> QED BY <2>5, <3>1, DroppedKept
  <2> QED BY <2>1, <2>2, <2>3, <2>4, <2>5
<1> QED BY <1>1, <1>2

\* What the cache has no part in.
LEMMA CacheLeaves ==
    ASSUME Kept, UNCHANGED <<record, req, said>>
    PROVE  UserKept' /\ LinksKept'
BY DEF Kept, UserKept, LinksKept

LEMMA CacheStepKept ==
    ASSUME Kept, CacheStep
    PROVE  Kept'
<1>1. PageTypes /\ StoreTypes /\ ReqTypes /\ ops \in 0..MaxOps
  BY TypeParts DEF Kept
<1>2. UNCHANGED <<record, req, said, ops, notes, add, searches, awaited>>
  BY DEF CacheStep, Refetch, ViewServed, ViewArrives, FetchFails, pageVars, addVars
<1>3. UserKept' /\ LinksKept' /\ ReqTypes' /\ ops' \in 0..MaxOps
  BY <1>1, <1>2, CacheLeaves DEF ReqTypes
<1>4. Unheard' = Unheard
  BY <1>2 DEF Unheard
<1>5. /\ fetch.st \in {"idle", "asked", "served"}
      /\ fetch.st = "idle" <=> fetch = Idle
      /\ fetch.st = "asked" <=> fetch = Asked
      /\ fetch.st = "served" => fetch.data \in Records
  BY <1>1, FetchShape
<1>6. SUFFICES StoreTypes' /\ form' \in Forms /\ BindingsAgree' /\ ViewKept'
  <2>1. form' \in Forms => PageTypes'
    BY <1>1, <1>2 DEF PageTypes
  <2> QED BY <1>3, <2>1, TypePartsNext DEF Kept
<1>7. CASE Refetch \/ FetchFails
  <2>1. /\ UNCHANGED <<view, form>> /\ fetch' \in {Idle, Asked}
        /\ fetch' = Asked \/ behind' = TRUE
        /\ behind' \in {behind, TRUE}
    BY <1>7 DEF Refetch, FetchFails, pageVars
  <2>2. fetch'.st # "served" /\ (fetch' = Asked => fetch' # Idle)
    BY <2>1 DEF Idle, Asked
  <2>3. StoreTypes' /\ form' \in Forms
    BY <1>1, <1>2, <2>1 DEF StoreTypes, Fetches, PageTypes
  <2>4. BindingsAgree'
    BY <1>2, <2>1, <2>2 DEF Kept, BindingsAgree, Sourced
  <2>5. ViewKept'
    BY <2>1, <2>2 DEF ViewKept
  <2> QED BY <2>3, <2>4, <2>5
<1>8. CASE ViewServed
  <2>1. fetch' = Served(record) /\ behind' = FALSE /\ UNCHANGED <<view, form>>
    BY <1>8 DEF ViewServed, pageVars
  <2>2. /\ fetch' = [st |-> "served", data |-> record]
        /\ fetch'.st = "served" /\ fetch'.data = record /\ fetch' # Idle
    BY <2>1 DEF Served, Idle
  <2>3. StoreTypes' /\ form' \in Forms
    BY <1>1, <1>2, <2>1, <2>2 DEF StoreTypes, Fetches, PageTypes
  <2>4. BindingsAgree'
    BY <1>2, <2>1, <2>2 DEF Kept, BindingsAgree, Sourced
  <2>5. ViewKept'
    BY <1>2, <2>2 DEF ViewKept
  <2> QED BY <2>3, <2>4, <2>5
<1>9. CASE ViewArrives
  <2>1. /\ fetch.st = "served" /\ view' = fetch.data /\ fetch' = Idle /\ UNCHANGED behind
        /\ form' = IF form.open /\ fetch.data # view THEN FormOf(fetch.data) ELSE form
    BY <1>9 DEF ViewArrives
  <2>2. fetch'.st # "served"
    BY <2>1 DEF Idle
  <2>3. StoreTypes' /\ form' \in Forms
    <3>1. FormOf(fetch.data) \in Forms
      BY <1>5, <2>1, FormTyped
    <3> QED BY <1>1, <1>2, <1>5, <2>1, <3>1 DEF StoreTypes, Fetches, PageTypes
  <2>4. BindingsAgree'
    BY <1>2, <2>1, <2>2 DEF Kept, BindingsAgree, Sourced
  <2>5. ViewKept'
    BY <1>2, <1>4, <2>1, <2>2 DEF Kept, ViewKept
  <2> QED BY <2>3, <2>4, <2>5
<1> QED BY <1>7, <1>8, <1>9 DEF CacheStep

-----------------------------------------------------------------------------
(***************************************************************************)
(* The invariant, and what follows from it                                 *)
(***************************************************************************)
LEMMA InitKept ==
    ASSUME Init
    PROVE  Kept
<1> DEFINE u == [status |-> "reading", notes |-> "", last |-> "c1"]
           c == [ref |-> Active, mode |-> "rtl"]
           s == [status |-> "reading", notes |-> "", linked |-> {}, vouched |-> FALSE]
<1>1. /\ Bound \subseteq Refs /\ Active \in Capable(Bound) /\ Active \in Refs
      /\ "t0" \in Titles /\ "" \in Notes /\ "reading" \in Statuses
  BY RecordAssumption DEF Capable
<1>2. 0 \in 0..MaxOps
  <2>1. MaxOps \in Nat
    BY RecordAssumption
  <2> QED BY <2>1
<1>3. u \in Users /\ c \in Content /\ s \in Sayings
  BY <1>1 DEF Users, Content, Sayings, Modes
<1>4. record = [title |-> "t0", cover |-> "c0", user |-> u, providers |-> Bound, content |-> c]
      /\ said = s
  BY DEF Init
<1>5. record \in Records /\ Sourced(record) /\ view = record /\ fetch = Idle
  <2>1. record \in Records
    <3> HIDE DEF u, c
    <3> QED BY <1>1, <1>3, <1>4 DEF Records
  <2>2. record.content.ref = Active /\ record.providers = Bound
    BY <1>4
  <2> QED BY <1>1, <2>1, <2>2 DEF Sourced, Init
<1>6. DOMAIN req = Kinds /\ \A k \in Kinds : req[k] = Idle /\ req[k].st = "idle"
  BY DEF Init, Idle
<1>7. {"edit", "user", "remove", "switch", "add"} \subseteq Kinds
  BY DEF Kinds
<1>8. Typed
  <2>1. PageTypes
    BY Provider DEF PageTypes, Init, Forms, Drafts
  <2>2. StoreTypes
    BY <1>3, <1>4, <1>5 DEF StoreTypes, Fetches, Init
  <2>3. ReqTypes
    BY <1>6 DEF ReqTypes, Requests, InFlight
  <2> QED BY <1>2, <2>1, <2>2, <2>3, TypeParts DEF Init
<1>9. BindingsAgree
  BY <1>5, <1>6, <1>7 DEF BindingsAgree, Idle
<1>10. UserKept
  <2>1. record.user = u
    BY <1>4
  <2>2. record.user.status = said.status /\ record.user.notes = said.notes
    BY <1>4, <2>1
  <2>3. \A f \in {"status", "notes"} : record.user[f] = said[f]
    BY <2>2
  <2> QED BY <1>6, <1>7, <2>3 DEF UserKept
<1>11. LinksKept
  <2>1. said.linked = {} /\ ~said.vouched
    BY <1>4
  <2> QED BY <1>6, <1>7, <2>1 DEF LinksKept
<1>12. ViewKept
  BY <1>5 DEF ViewKept, Idle
<1> QED BY <1>8, <1>9, <1>10, <1>11, <1>12 DEF Kept

\* A sync writes back a copy that has all that it may not take away.
LEMMA SyncStepKept ==
    ASSUME Kept, HeldKept, SyncStep
    PROVE  Kept' /\ HeldKept'
<1>1. PageTypes /\ StoreTypes /\ ReqTypes /\ ops \in 0..MaxOps
  BY TypeParts DEF Kept
<1>2. PICK y \in Syncs : SyncReads(y) \/ SyncSaves(y) \/ SyncFails(y)
  BY DEF SyncStep
<1>3. /\ UNCHANGED <<view, fetch, req, said, form, notes, add, searches, awaited>>
      /\ Counted \/ ops' = ops
  BY <1>2 DEF SyncReads, SyncSaves, SyncFails, viewVars, pageVars, addVars
<1>4. PageTypes' /\ ReqTypes' /\ ops' \in 0..MaxOps
  BY <1>1, <1>3, CountedTyped DEF PageTypes, ReqTypes
<1>5. Idle.st # "copy" /\ held[y] \in Copies \cup {Idle}
  BY DEF Idle, HeldKept
<1>6. CASE SyncReads(y)
  <2> DEFINE c == [st |-> "copy", providers |-> record.providers, content |-> record.content]
  <2>1. held' = [held EXCEPT ![y] = c] /\ UNCHANGED <<record, behind>>
    BY <1>6 DEF SyncReads
  <2>2. /\ c \in Copies /\ c.providers = record.providers /\ c.content = record.content
        /\ c.st = "copy"
    BY <1>1 DEF StoreTypes, Records, Copies
  <2>3. Kept'
    BY <1>3, <1>4, <2>1, UntouchedKept
  <2> HIDE DEF c
  <2>4. Sourced(c)
    BY <2>2 DEF Kept, BindingsAgree, Sourced
  <2>5. /\ said.linked \subseteq c.providers
        /\ said.vouched /\ req["add"].st = "done" => req["add"].body \in c.providers
    BY <2>2 DEF Kept, LinksKept
  <2>6. /\ held' \in [Syncs -> Copies \cup {Idle}] /\ held'[y] = c
        /\ \A x \in Syncs \ {y} : held'[x] = held[x]
    BY <2>1, <2>2 DEF HeldKept
  <2>7. HeldKept'
    BY <1>3, <2>4, <2>5, <2>6 DEF HeldKept, Sourced
  <2> QED BY <2>3, <2>7
<1>7. CASE SyncSaves(y) \/ SyncFails(y)
  <2>1. held[y].st = "copy" /\ held' = [held EXCEPT ![y] = Idle]
    BY <1>7 DEF SyncSaves, SyncFails
  <2>2. /\ held' \in [Syncs -> Copies \cup {Idle}] /\ held'[y] = Idle
        /\ \A x \in Syncs \ {y} : held'[x] = held[x]
    BY <2>1 DEF HeldKept
  <2>3. HeldKept'
    BY <1>3, <1>5, <2>2 DEF HeldKept, Sourced
  <2>4. CASE SyncFails(y)
    <3>1. UNCHANGED <<record, behind>>
      BY <2>4 DEF SyncFails
    <3> QED BY <1>3, <1>4, <2>3, <3>1, UntouchedKept
  <2>5. CASE SyncSaves(y)
    <3>1. PICK c \in Copies : c = held[y]
      BY <1>5, <2>1
    <3>2. /\ record' = [record EXCEPT !.providers = c.providers, !.content = c.content]
          /\ behind' = (behind \/ record' # record)
      BY <2>5, <3>1 DEF SyncSaves
    <3>3. /\ record' \in Records /\ record'.user = record.user
          /\ record'.providers = c.providers /\ record'.content = c.content
      BY <1>1, <3>2 DEF StoreTypes, Records, Copies
    <3>4. /\ Sourced(c) /\ said.linked \subseteq c.providers
          /\ said.vouched /\ req["add"].st = "done" => req["add"].body \in c.providers
      BY <2>1, <3>1 DEF HeldKept
    <3>5. behind' \in BOOLEAN /\ (~behind' => ~behind /\ record' = record)
      BY <1>1, <3>2 DEF StoreTypes
    <3>6. Typed'
      <4>1. StoreTypes'
        BY <1>1, <1>3, <3>3, <3>5 DEF StoreTypes
      <4> QED BY <1>4, <4>1, TypePartsNext
    <3>7. BindingsAgree'
      BY <1>3, <3>3, <3>4 DEF Kept, BindingsAgree, Sourced
    <3>8. UserKept'
      BY <1>3, <3>3 DEF Kept, UserKept
    <3>9. LinksKept'
      BY <1>3, <3>3, <3>4 DEF Kept, LinksKept
    <3>10. ViewKept'
      <4>1. Unheard' = Unheard
        BY <1>3 DEF Unheard
      <4> QED BY <1>3, <3>5, <4>1 DEF Kept, ViewKept
    <3> QED BY <2>3, <3>6, <3>7, <3>8, <3>9, <3>10 DEF Kept
  <2> QED BY <1>7, <2>4, <2>5
<1> QED BY <1>2, <1>6, <1>7

\* The copies keep what is reported: an add that one of them lacks is not vouched for.
LEMMA OthersKeepHeld ==
    ASSUME Kept, HeldKept, Next, ~SyncStep
    PROVE  HeldKept'
<1>1. StoreTypes /\ ReqTypes /\ {"edit", "user", "remove", "switch", "add"} = Kinds
  BY TypeParts DEF Kept, Kinds
<1>2. said \in Sayings
  BY <1>1 DEF StoreTypes
<1>3. ASSUME held' = held, said'.linked \subseteq said.linked,
             said'.vouched => said.vouched,
             req'["add"].st = "done" => req'["add"] = req["add"]
      PROVE  HeldKept'
  BY <1>3 DEF HeldKept, Sourced
<1>4. ASSUME NEW k \in Kinds, NEW b, Send(k, b)
      PROVE  held' = held /\ (req'["add"].st = "done" => req'["add"] = req["add"])
  <2>1. held' = held /\ req' = [req EXCEPT ![k] = [st |-> "sent", body |-> b]]
    BY <1>4 DEF Send
  <2> QED BY <1>1, <2>1 DEF ReqTypes
<1>5. ASSUME NEW k \in Kinds, req' = [req EXCEPT ![k] = Idle]
      PROVE  req'["add"].st = "done" => req'["add"] = req["add"]
  BY <1>1, <1>5 DEF ReqTypes, Idle
<1>6. CASE PageStep \/ CacheStep
  <2>1. UNCHANGED <<held, said, req>>
    BY <1>6 DEF PageStep, OpenEdit, TypeTitle, ChooseMode, CancelEdit, FillForm, EditNotes,
         TypeNotes, CancelNotes, LeaveNotes, OpenAdd, CloseAdd, SelectProvider, TimerFires,
         SearchAnswers, HandleResultSelect, BackToPick, SetAdd,
         CacheStep, Refetch, ViewServed, ViewArrives, FetchFails
  <2> QED BY <1>3, <2>1
<1>7. CASE HandleSubmit
  <2>1. /\ \E b : Send("edit", b)
        /\ said' = [said EXCEPT !.linked = {}, !.vouched = FALSE]
    BY <1>7 DEF HandleSubmit
  <2>2. said'.linked = {} /\ ~said'.vouched
    BY <1>2, <2>1 DEF Sayings
  <2> QED BY <1>1, <1>3, <1>4, <2>1, <2>2
<1>8. CASE SetStatus \/ SaveNotes \/ SwitchTo
  <2>1. (\E b : Send("user", b) \/ Send("switch", b)) /\ UNCHANGED said
    BY <1>8 DEF SetStatus, SaveNotes, SwitchTo
  <2> QED BY <1>1, <1>3, <1>4, <2>1
<1>9. CASE Remove
  <2>1. PICK q \in view.providers :
           /\ Send("remove", q)
           /\ said' = [said EXCEPT !.linked = @ \ {q}, !.vouched = @ /\ ~Carries("add", q)]
    BY <1>9 DEF Remove
  <2>2. said'.linked \subseteq said.linked /\ (said'.vouched => said.vouched)
    BY <1>2, <2>1 DEF Sayings
  <2> QED BY <1>1, <1>3, <1>4, <2>1, <2>2
<1>10. CASE HandleConfirm
  <2>1. PICK q : /\ Send("add", q)
                 /\ said' = [said EXCEPT !.vouched = ~Pending("edit") /\ ~Carries("remove", q)]
    BY <1>10 DEF HandleConfirm
  <2>2. held' = held /\ req'["add"].st = "sent" /\ said'.linked = said.linked
    BY <1>1, <1>2, <2>1 DEF Send, ReqTypes, Sayings
  <2> QED BY <2>2 DEF HeldKept, Sourced
<1>11. CASE UserPatchReads \/ EditSavesMetadata \/ ProgressSaved
  <2>1. UNCHANGED <<held, said>> /\ req'["add"] = req["add"]
    BY <1>1, <1>11 DEF UserPatchReads, EditSavesMetadata, ProgressSaved, ReqTypes
  <2> QED BY <1>3, <2>1
<1>12. CASE \E k \in Kinds : Handled(k)
  <2>1. PICK k \in Kinds : Handled(k)
    BY <1>12
  <2>2. /\ req'[k].body = req[k].body /\ \A x \in Kinds \ {k} : req'[x] = req[x]
        /\ said'.linked = said.linked /\ (said'.vouched => said.vouched) /\ held' = held
    BY <2>1, HandledEffect DEF Handled
  <2>3. CASE k # "add"
    BY <1>1, <1>3, <2>2, <2>3
  <2>4. CASE k = "add"
    <3>1. said'.vouched => ~Endangered(req["add"].body)
      BY <1>2, <2>1, <2>4 DEF Handled, Sayings
    <3> QED BY <2>2, <2>4, <3>1 DEF HeldKept, Endangered, Sourced
  <2> QED BY <2>3, <2>4
<1>13. CASE \E k \in Kinds : Answered(k)
  <2>1. PICK k \in Kinds : Answered(k)
    BY <1>13
  <2>2. /\ held' = held /\ req' = [req EXCEPT ![k] = Idle] /\ req[k].st = "done"
        /\ said' = Reported(k, req[k].body)
    BY <2>1 DEF Answered, OnSuccess
  <2>3. CASE k = "add"
    <3>1. PICK b : b = req["add"].body
      OBVIOUS
    <3>2. said' = [said EXCEPT !.linked = IF said.vouched THEN @ \cup {b} ELSE @,
                               !.vouched = FALSE]
      BY <2>2, <2>3, <3>1 DEF Reported
    <3>3. /\ ~said'.vouched
          /\ said'.linked \subseteq said.linked \cup (IF said.vouched THEN {b} ELSE {})
      BY <1>2, <3>2 DEF Sayings
    <3> QED BY <2>2, <2>3, <3>1, <3>3 DEF HeldKept, Sourced
  <2>4. CASE k = "user"
    <3>1. said'.linked = said.linked /\ said'.vouched = said.vouched
      BY <2>2, <2>4, SaidOfPatch
    <3> QED BY <1>3, <1>5, <2>2, <3>1
  <2>5. CASE k \notin {"add", "user"}
    <3>1. said' = said
      BY <2>2, <2>5 DEF Reported
    <3> QED BY <1>3, <1>5, <2>2, <3>1
  <2> QED BY <2>3, <2>4, <2>5
<1>14. CASE Refused \/ \E k \in Kinds : RequestLost(k) \/ AnswerLost(k)
  <2>1. PICK k \in Kinds :
           /\ Dropped(k)
           /\ \/ said' = said
              \/ k = "user" /\ req["user"].st = "done" /\ said' = InDoubt(k, req[k].body)
    BY <1>1, <1>14 DEF Refused, RequestLost, AnswerLost, InDoubt
  <2>2. held' = held /\ req' = [req EXCEPT ![k] = Idle]
    BY <2>1 DEF Dropped
  <2>3. said'.linked = said.linked /\ said'.vouched = said.vouched
    BY <2>1, SaidOfPatch
  <2> QED BY <1>3, <1>5, <2>2, <2>3
<1> QED BY <1>6, <1>7, <1>8, <1>9, <1>10, <1>11, <1>12, <1>13, <1>14
        DEF Next, EditStep, PanelStep, ListStep, AddStep, ServerStep, AnswerStep, PageStep

LEMMA OthersKept ==
    ASSUME Kept, Next, ~SyncStep
    PROVE  Kept'
<1>1. CASE EditStep
  BY <1>1, PageStepKept, SubmitKept DEF EditStep, PageStep
<1>2. CASE PanelStep
  BY <1>2, PageStepKept, SendUserKept DEF PanelStep, PageStep
<1>3. CASE ListStep
  BY <1>3, SendRefKept DEF ListStep
<1>4. CASE AddStep
  BY <1>4, PageStepKept, SendRefKept DEF AddStep, PageStep
<1>5. CASE ServerStep
  <2>1. CASE \E k \in Kinds : Handled(k)
    BY <2>1, EditHandled, UserHandled, RefHandled DEF Kinds
  <2> QED BY <1>5, <2>1, UserPatchReadsKept, EditSavesMetadataKept, ProgressSavedKept,
             AnswerStepKept DEF ServerStep
<1>6. CASE AnswerStep
  BY <1>6, AnswerStepKept
<1>7. CASE CacheStep
  BY <1>7, CacheStepKept
<1> QED BY <1>1, <1>2, <1>3, <1>4, <1>5, <1>6, <1>7 DEF Next

LEMMA NextKept ==
    ASSUME Kept, HeldKept, [Next]_vars
    PROVE  Kept' /\ HeldKept'
<1>1. CASE Next /\ ~SyncStep
  BY <1>1, OthersKept, OthersKeepHeld
<1>2. CASE SyncStep
  BY <1>2, SyncStepKept
<1>3. CASE UNCHANGED vars
  <2>1. /\ UNCHANGED <<record, view, fetch, req, said, behind, ops>>
        /\ UNCHANGED <<form, notes, add, searches, awaited>>
    BY <1>3 DEF vars, viewVars, pageVars, addVars
  <2>2. PageTypes' /\ ops' \in 0..MaxOps
    BY <2>1, TypeParts DEF Kept, PageTypes
  <2>3. HeldKept'
    BY <1>3 DEF vars, HeldKept, Sourced
  <2> QED BY <2>1, <2>2, <2>3, UntouchedKept
<1> QED BY <1>1, <1>2, <1>3

\* What the requests under way carry keeps what was stored and reported, in every step of
\* the page, the server and the cache: the inductive invariant.
THEOREM RecordInvariant == Spec => [](Kept /\ HeldKept)
<1>1. Init => Kept /\ HeldKept
  <2>1. ASSUME Init PROVE HeldKept
    <3>1. held = [y \in Syncs |-> Idle] /\ Idle.st # "copy"
      BY <2>1 DEF Init, Idle
    <3> QED BY <3>1 DEF HeldKept
  <2> QED BY <2>1, InitKept
<1>2. Kept /\ HeldKept /\ [Next]_vars => Kept' /\ HeldKept'
  BY NextKept
<1> QED BY <1>1, <1>2, PTL DEF Spec

\* Types: each part of the page, its request and the record stay what they are declared to
\* be; a dialog that asks for a confirmation is open and has a result.
THEOREM TypeCorrect == Spec => []TypeOK
<1>1. Kept /\ HeldKept => TypeOK
  BY DEF Kept, HeldKept, Typed, TypeOK, PageTypes, StoreTypes, ReqTypes, Fetches
<1> QED BY <1>1, RecordInvariant, PTL

\* A manga is read from a provider that it is bound to and that serves chapters, whatever
\* edits, removals, switches and syncs are interleaved (library.go: RemoveProvider,
\* SwitchContentProvider; useEditMetadataForm: handleSubmit; refreshChaptersFromContent).
THEOREM ContentStaysBound == Spec => []ContentIsBound
<1>1. Kept => ContentIsBound
  BY DEF Kept, BindingsAgree, Sourced, ContentIsBound
<1> QED BY <1>1, RecordInvariant, PTL

\* With no update under way, the status and the notes that were reported as saved are the
\* stored ones (patchLibraryManga, DetailsUserMetadata: isUpdating).
THEOREM ReportedUserFieldsStayStored == Spec => []ReportedUserFieldsAreStored
<1>1. Kept => ReportedUserFieldsAreStored
  <2>1. ~Pending("user") => req["user"].st = "idle"
    BY DEF Pending, Idle
  <2> QED BY <2>1 DEF Kept, UserKept, ReportedUserFieldsAreStored
<1> QED BY <1>1, RecordInvariant, PTL

\* A provider that was reported as added stays bound until the user removes it or saves
\* the edit dialog, for any number of syncs at work, unless one of them held a copy without
\* it when it was added (library.go: AddProvider under the lock; refreshChaptersFromContent,
\* HandlePullManga).
THEOREM ReportedProvidersStayBound == Spec => []ReportedProviderStaysBound
<1>1. Kept => ReportedProviderStaysBound
  BY DEF Kept, LinksKept, ReportedProviderStaysBound
<1> QED BY <1>1, RecordInvariant, PTL

\* With nothing under way, lost or written elsewhere, the page shows what is stored: each
\* write is followed by a fetch that starts after it (invalidateQueries in every onSuccess).
THEOREM QuietViewIsAlwaysFresh == Spec => []QuietViewIsFresh
<1>1. Kept => QuietViewIsFresh
  <2>1. (\A k \in Kinds : ~Pending(k)) => ~Unheard
    BY DEF Pending, Idle, Unheard
  <2> QED BY <2>1 DEF Kept, ViewKept, QuietViewIsFresh
<1> QED BY <1>1, RecordInvariant, PTL
=============================================================================
