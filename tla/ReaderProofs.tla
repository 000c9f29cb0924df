---------------------------- MODULE ReaderProofs ----------------------------
(***************************************************************************)
(* Proofs about the reader page, for any chapters, pages, devices, modes   *)
(* and stored progress, and any number of inputs, openings and losses.     *)
(*                                                                         *)
(* Every event ends with Settle, so the facts about the tracker are first  *)
(* proved about its three effects, then about Settle, and only then about  *)
(* the actions, which differ in the tracker and the view they commit.  The *)
(* gesture state has an invariant of its own.                              *)
(***************************************************************************)
EXTENDS Reader, SequenceTheorems, TLAPS

TrackerFields == {"page", "active", "marked", "resumed", "dismissed", "timer", "dialog", "reported"}
ViewFields == {"ch", "search", "list", "pages", "cached", "mode", "status"}
UiFields == {"anim", "slides", "offset", "held", "didDrag", "undrag", "pointer", "overlays",
             "hint", "hintMode"}

Tracker(t) ==
    /\ DOMAIN t = TrackerFields /\ t.page \in Int
    /\ {t.marked, t.resumed, t.dismissed, t.dialog} \subseteq BOOLEAN

Progress == [Chapters -> [read : BOOLEAN, page : Int]]

View(v) ==
    /\ DOMAIN v = ViewFields /\ v.ch \in Chapters \cup {Closed} /\ v.search \in Int
    /\ v.list \in BOOLEAN /\ v.pages \subseteq Chapters /\ v.cached \in Progress

Patches == [ch : Chapters, read : BOOLEAN, page : Int, seen : {"nothing", "read", "unread"}]

\* Where a tracker at chapter v.ch is: at one of its pages, or astray.
Placed(t, v, astray) ==
    v.ch # Closed /\ t.active = v.ch /\ t.resumed =>
        /\ Count(v) > 0
        /\ IndexBase = 0 => t.page \in 1 .. Count(v) \/ <<v.ch, t.page>> \in astray

\* A mounted reader tracks the chapter in the address, and has noted its prompt.
TrackerKept ==
    /\ Tracker(tr) /\ View(view) /\ server \in Progress
    /\ wire \subseteq Patches
    /\ IndexBase = 0 => SavesAreShown
    /\ Placed(tr, view, strayed)
    /\ tr.timer # NoTimer => tr.timer.ch \in Chapters /\ tr.timer.page \in Int
    /\ tr.active = view.ch
    /\ view.ch # Closed /\ prompts # 0 => tr.dismissed
    /\ prompts \in {0, 1}

\* The slides there can be: a page turn started inside its chapter, and the
\* chapter a slide goes to exists.
Slides ==
    {s \in [kind : {"turn", "back", "spring", "next", "prev"}, ch : Chapters \cup {Closed},
            page : Int, pages : Int] :
        /\ s.kind = "turn" => s.page < s.pages /\ s.ch \in Chapters /\ s.pages <= PageCount[s.ch]
        /\ s.kind = "back" => s.page > 1
        /\ s.kind = "next" => s.ch \in Chapters /\ s.ch + 1 \in Chapters
        /\ s.kind = "prev" => s.ch \in Chapters /\ s.ch - 1 \in Chapters}

\* Input is only swallowed while a timer is there to end it.
Gesture(u) == DOMAIN u = UiFields /\ u.slides \in Seq(Slides) /\ (u.anim => u.slides # <<>>)

-----------------------------------------------------------------------------
(***************************************************************************)
(* The effects of the tracker                                              *)
(***************************************************************************)
LEMMA ResetFacts ==
    ASSUME NEW t, NEW v, Tracker(t)
    PROVE  /\ Tracker(ResetEffect(t, v)) /\ ResetEffect(t, v).active = v.ch
           /\ t.active = v.ch => ResetEffect(t, v) = t
           /\ t.timer = NoTimer => ResetEffect(t, v).timer = NoTimer
           /\ ResetEffect(t, v).dialog = t.dialog /\ ResetEffect(t, v).page = t.page
           /\ ResetEffect(t, v).resumed => t.active = v.ch /\ t.resumed
<1>1. CASE t.active = v.ch
  BY <1>1 DEF ResetEffect
<1>2. CASE t.active # v.ch
  <2> DEFINE r == [t EXCEPT !.active = v.ch, !.marked = IsChapterRead(v), !.resumed = FALSE,
                            !.dismissed = FALSE, !.timer = NoTimer]
  <2>1. ResetEffect(t, v) = r
    BY <1>2 DEF ResetEffect
  <2>2. IsChapterRead(v) \in BOOLEAN
    BY DEF IsChapterRead
  <2>3. /\ DOMAIN r = TrackerFields /\ r.active = v.ch /\ r.marked = IsChapterRead(v)
        /\ r.resumed = FALSE /\ r.dismissed = FALSE /\ r.timer = NoTimer
        /\ r.dialog = t.dialog /\ r.page = t.page
    BY DEF Tracker, TrackerFields
  <2> HIDE DEF r
  <2> QED BY <1>2, <2>1, <2>2, <2>3 DEF Tracker
<1> QED BY <1>1, <1>2

\* Counts are those of the chapters, and a chapter is resumed at one of its pages.
LEMMA CountFacts ==
    ASSUME NEW v, View(v)
    PROVE  /\ Count(v) \in Nat /\ (v.ch \in Chapters => Count(v) <= PageCount[v.ch])
           /\ Count(v) > 0 => v.ch \in Chapters /\ v.ch # Closed /\ Count(v) = PageCount[v.ch]
BY ReaderAssumption DEF Count, View, Chapters, Closed

LEMMA TargetFacts ==
    ASSUME NEW v, View(v), Count(v) > 0
    PROVE  ResumeTarget(v) \in 1 .. Count(v)
<1>1. Count(v) \in Nat \ {0} /\ v.ch \in Chapters /\ v.search \in Int
  BY CountFacts DEF View
<1>2. ChapterLastReadPage(v) \in Int
  BY <1>1 DEF View, Progress, ChapterLastReadPage
<1>3. \A x \in Int : Clamp(x, Count(v)) \in 1 .. Count(v)
  BY <1>1 DEF Clamp
<1> QED BY <1>1, <1>2, <1>3 DEF ResumeTarget

LEMMA ResumeFacts ==
    ASSUME NEW t, NEW v, Tracker(t), View(v)
    PROVE  /\ Tracker(ResumeEffect(t, v).tr)
           /\ ResumeEffect(t, v).tr.active = t.active /\ ResumeEffect(t, v).tr.timer = t.timer
           /\ ResumeEffect(t, v).tr.dialog = t.dialog
           /\ ResumeEffect(t, v).tr.dismissed = t.dismissed
           /\ ResumeEffect(t, v).tr.page = t.page
           /\ t.resumed => ResumeEffect(t, v).tr = t /\ ResumeEffect(t, v).goto = t.page
           /\ ResumeEffect(t, v).goto \in Int
           /\ ~t.resumed /\ ResumeEffect(t, v).tr.resumed =>
                 Count(v) > 0 /\ ResumeEffect(t, v).goto \in 1 .. Count(v)
<1>1. CASE ~Resumes(t, v)
  <2>1. ResumeEffect(t, v) = [tr |-> t, goto |-> t.page]
    BY <1>1 DEF ResumeEffect
  <2> QED BY <2>1 DEF Tracker
<1>2. CASE Resumes(t, v)
  <2> DEFINE x == IF ~IsPaged(v) /\ ResumeTarget(v) > 1 THEN ResumeTarget(v) ELSE t.reported
             r == [t EXCEPT !.resumed = TRUE, !.reported = x]
  <2>1. ResumeEffect(t, v) = [tr |-> r, goto |-> ResumeTarget(v)]
    BY <1>2 DEF ResumeEffect
  <2> HIDE DEF x
  <2>2. /\ DOMAIN r = TrackerFields /\ r.resumed = TRUE /\ r.marked = t.marked
        /\ r.active = t.active /\ r.timer = t.timer /\ r.dialog = t.dialog
        /\ r.dismissed = t.dismissed /\ r.page = t.page
    BY DEF Tracker, TrackerFields
  <2>3. ~t.resumed /\ Count(v) > 0
    BY <1>2 DEF Resumes
  <2>4. ResumeEffect(t, v).tr = r /\ ResumeEffect(t, v).goto = ResumeTarget(v)
    BY <2>1
  <2>5. ResumeTarget(v) \in 1 .. Count(v) /\ ResumeTarget(v) \in Int
    BY <2>3, TargetFacts, CountFacts
  <2> HIDE DEF r
  <2> QED BY <2>2, <2>3, <2>4, <2>5 DEF Tracker
<1> QED BY <1>1, <1>2

LEMMA SaveFacts ==
    ASSUME NEW t, NEW v, Tracker(t), View(v), t.timer = NoTimer
    PROVE  /\ Tracker(SaveEffect(t, v).tr)
           /\ SaveEffect(t, v).tr.active = t.active /\ SaveEffect(t, v).tr.page = t.page
           /\ SaveEffect(t, v).tr.resumed = t.resumed
           /\ \/ SaveEffect(t, v).tr.timer = NoTimer
              \/ t.resumed /\ SaveEffect(t, v).tr.timer = [ch |-> v.ch, page |-> t.page]
           /\ t.dismissed => /\ SaveEffect(t, v).tr.dismissed
                             /\ SaveEffect(t, v).tr.dialog = t.dialog
           /\ SaveEffect(t, v).tr.dialog /\ ~t.dialog => SaveEffect(t, v).tr.dismissed
           /\ t.dialog => SaveEffect(t, v).tr.dialog
           /\ \A m \in SaveEffect(t, v).sent : m.read /\ m \in Patches
<1> DEFINE prompt == PromptDue(t, v)
           e == SaveEffect(t, v)
           p == Patch(v.ch, TRUE, t.page)
<1>1. prompt \in BOOLEAN /\ (t.dismissed => ~prompt)
  BY DEF PromptDue
<1>2. Count(v) # 0 => p.read /\ p \in Patches
  BY CountFacts DEF Patch, Patches, Tracker
<1>3. CASE Count(v) = 0 \/ ~t.resumed
  <2>1. e = [tr |-> t, sent |-> {}]
    BY <1>3 DEF SaveEffect
  <2> QED BY <2>1
<1>4. CASE Count(v) # 0 /\ t.resumed /\ t.page = Count(v)
  <2> DEFINE r == [t EXCEPT !.timer = NoTimer, !.marked = TRUE,
                            !.dismissed = @ \/ prompt, !.dialog = @ \/ prompt]
  <2>1. e = [tr |-> r, sent |-> IF t.marked THEN {} ELSE {p}]
    BY <1>4 DEF SaveEffect
  <2> HIDE DEF prompt, p
  <2>2. /\ DOMAIN r = TrackerFields /\ r.timer = NoTimer /\ r.marked = TRUE
        /\ r.dismissed = (t.dismissed \/ prompt) /\ r.dialog = (t.dialog \/ prompt)
        /\ r.active = t.active /\ r.page = t.page /\ r.resumed = t.resumed
    BY DEF Tracker, TrackerFields
  <2>3. e.tr = r /\ e.sent \subseteq {p}
    BY <2>1
  <2> HIDE DEF r
  <2>4. Tracker(r)
    BY <1>1, <2>2 DEF Tracker
  <2>5. \A m \in e.sent : m.read /\ m \in Patches
    BY <1>2, <1>4, <2>3
  <2>6. /\ t.dismissed => r.dismissed /\ r.dialog = t.dialog
        /\ r.dialog /\ ~t.dialog => r.dismissed
        /\ t.dialog => r.dialog
    BY <1>1, <2>2 DEF Tracker
  <2> QED BY <2>2, <2>3, <2>4, <2>5, <2>6
<1>5. CASE ~(Count(v) = 0 \/ ~t.resumed) /\ ~(Count(v) # 0 /\ t.resumed /\ t.page = Count(v))
  <2> DEFINE r == [t EXCEPT !.timer = [ch |-> v.ch, page |-> t.page]]
  <2>1. e = [tr |-> r, sent |-> {}]
    BY <1>5 DEF SaveEffect, SavedPage
  <2>2. /\ DOMAIN r = TrackerFields /\ r.timer = [ch |-> v.ch, page |-> t.page]
        /\ r.marked = t.marked /\ r.dismissed = t.dismissed /\ r.dialog = t.dialog
        /\ r.active = t.active /\ r.page = t.page /\ r.resumed = t.resumed
    BY DEF Tracker, TrackerFields
  <2>3. e.tr = r /\ e.sent = {}
    BY <2>1
  <2> HIDE DEF r
  <2>4. Tracker(r)
    BY <2>2 DEF Tracker
  <2> QED BY <1>5, <2>2, <2>3, <2>4
<1> QED BY <1>3, <1>4, <1>5

\* All the effects of an event together.
LEMMA Settled ==
    ASSUME NEW t, NEW v, Tracker(t), View(v)
    PROVE  /\ Tracker(Settle(t, v).tr)
           /\ v.ch = Closed => Settle(t, v).tr.dialog = t.dialog /\ Settle(t, v).tr.active = t.active
           /\ v.ch # Closed => Settle(t, v).tr.active = v.ch
           /\ \/ Settle(t, v).tr.timer = NoTimer
              \/ /\ v.ch # Closed /\ Settle(t, v).tr.resumed
                 /\ Settle(t, v).tr.timer = [ch |-> v.ch, page |-> Settle(t, v).tr.page]
           /\ v.ch # Closed /\ t.active = v.ch /\ t.dismissed =>
                 Settle(t, v).tr.dismissed /\ Settle(t, v).tr.dialog = t.dialog
           /\ v.ch # Closed /\ Settle(t, v).tr.dialog /\ ~t.dialog => Settle(t, v).tr.dismissed
           /\ t.active = v.ch /\ t.resumed => Settle(t, v).tr.page = t.page
           /\ v.ch # Closed /\ Settle(t, v).tr.resumed =>
                 \/ t.active = v.ch /\ t.resumed
                 \/ Count(v) > 0 /\ Settle(t, v).tr.page \in 1 .. Count(v)
           /\ \A m \in Settle(t, v).sent : m.read /\ m \in Patches
<1> DEFINE c == Cleanup(t)
<1>1. /\ Tracker(c) /\ c.timer = NoTimer /\ c.dialog = t.dialog /\ c.active = t.active
      /\ c.dismissed = t.dismissed /\ c.page = t.page /\ c.resumed = t.resumed
  BY DEF Cleanup, Tracker, TrackerFields
<1>2. CASE v.ch = Closed
  <2>1. Settle(t, v) = [tr |-> c, sent |-> {}]
    BY <1>2 DEF Settle
  <2> HIDE DEF c
  <2> QED BY <1>1, <1>2, <2>1
<1>3. CASE v.ch # Closed
  <2> DEFINE a == ResetEffect(c, v)
             r == ResumeEffect(a, v)
             one == SaveEffect(r.tr, v)
             d == [Cleanup(one.tr) EXCEPT !.page = r.goto]
             two == SaveEffect(d, v)
  <2>1. Settle(t, v) = IF r.goto = r.tr.page THEN one
                       ELSE [tr |-> two.tr, sent |-> one.sent \cup two.sent]
    BY <1>3 DEF Settle
  <2> HIDE DEF c
  <2>2. /\ Tracker(a) /\ a.active = v.ch /\ a.timer = NoTimer /\ a.dialog = t.dialog
        /\ a.page = t.page
        /\ t.active = v.ch => a.dismissed = t.dismissed /\ a.resumed = t.resumed
        /\ a.resumed => t.active = v.ch /\ t.resumed
    BY <1>1, ResetFacts
  <2> HIDE DEF a
  <2>3. /\ Tracker(r.tr) /\ r.tr.active = v.ch /\ r.tr.timer = NoTimer
        /\ r.tr.dialog = t.dialog /\ r.tr.page = t.page /\ r.goto \in Int
        /\ t.active = v.ch => r.tr.dismissed = t.dismissed
        /\ t.active = v.ch /\ t.resumed => r.goto = t.page
        /\ r.tr.resumed => \/ t.active = v.ch /\ t.resumed
                           \/ Count(v) > 0 /\ r.goto \in 1 .. Count(v)
    <3>1. /\ Tracker(r.tr) /\ r.tr.active = a.active /\ r.tr.timer = a.timer
          /\ r.tr.dialog = a.dialog /\ r.tr.dismissed = a.dismissed /\ r.tr.page = a.page
          /\ a.resumed => r.tr = a /\ r.goto = a.page
          /\ r.goto \in Int
          /\ ~a.resumed /\ r.tr.resumed => Count(v) > 0 /\ r.goto \in 1 .. Count(v)
      BY <2>2, ResumeFacts
    <3> HIDE DEF r
    <3> QED BY <2>2, <3>1
  <2> HIDE DEF r
  <2>4. /\ Tracker(one.tr) /\ one.tr.active = v.ch /\ one.tr.page = t.page
        /\ one.tr.resumed = r.tr.resumed
        /\ \/ one.tr.timer = NoTimer
           \/ one.tr.resumed /\ one.tr.timer = [ch |-> v.ch, page |-> one.tr.page]
        /\ t.active = v.ch /\ t.dismissed => one.tr.dismissed /\ one.tr.dialog = t.dialog
        /\ one.tr.dialog /\ ~t.dialog => one.tr.dismissed
        /\ t.dialog => one.tr.dialog
        /\ \A m \in one.sent : m.read /\ m \in Patches
    <3>1. /\ Tracker(one.tr) /\ one.tr.active = r.tr.active /\ one.tr.page = r.tr.page
          /\ one.tr.resumed = r.tr.resumed
          /\ \/ one.tr.timer = NoTimer
             \/ r.tr.resumed /\ one.tr.timer = [ch |-> v.ch, page |-> r.tr.page]
          /\ r.tr.dismissed => one.tr.dismissed /\ one.tr.dialog = r.tr.dialog
          /\ one.tr.dialog /\ ~r.tr.dialog => one.tr.dismissed
          /\ r.tr.dialog => one.tr.dialog
          /\ \A m \in one.sent : m.read /\ m \in Patches
      BY <2>3, SaveFacts
    <3> HIDE DEF one
    <3> QED BY <2>3, <3>1
  <2> HIDE DEF one
  <2>5. CASE r.goto = r.tr.page
    <3>1. Settle(t, v) = one
      BY <2>1, <2>5
    <3>2. one.tr.resumed => \/ t.active = v.ch /\ t.resumed
                            \/ Count(v) > 0 /\ one.tr.page \in 1 .. Count(v)
      BY <2>3, <2>4, <2>5
    <3> QED BY <1>3, <2>4, <3>1, <3>2
  <2>6. CASE r.goto # r.tr.page
    <3>1. /\ Tracker(d) /\ d.timer = NoTimer /\ d.active = v.ch /\ d.page = r.goto
          /\ d.dismissed = one.tr.dismissed /\ d.dialog = one.tr.dialog
          /\ d.resumed = r.tr.resumed
      BY <2>3, <2>4 DEF Cleanup, Tracker, TrackerFields
    <3> HIDE DEF d
    <3>2. /\ Tracker(two.tr) /\ two.tr.active = v.ch
          /\ two.tr.page = d.page /\ two.tr.resumed = d.resumed
          /\ \/ two.tr.timer = NoTimer
             \/ d.resumed /\ two.tr.timer = [ch |-> v.ch, page |-> d.page]
          /\ d.dismissed => two.tr.dismissed /\ two.tr.dialog = d.dialog
          /\ two.tr.dialog /\ ~d.dialog => two.tr.dismissed
          /\ \A m \in two.sent : m.read /\ m \in Patches
      BY <3>1, SaveFacts
    <3> HIDE DEF two
    <3>3. Settle(t, v).tr = two.tr /\ Settle(t, v).sent = one.sent \cup two.sent
      BY <2>1, <2>6
    <3>4. ~(t.active = v.ch /\ t.resumed)
      BY <2>3, <2>6
    <3>5. t.active = v.ch /\ t.dismissed => two.tr.dismissed /\ two.tr.dialog = t.dialog
      BY <2>4, <3>1, <3>2
    <3>6. two.tr.dialog /\ ~t.dialog => two.tr.dismissed
      BY <2>4, <3>1, <3>2
    <3>7. \A m \in one.sent \cup two.sent : m.read /\ m \in Patches
      BY <2>4, <3>2
    <3>8. \/ two.tr.timer = NoTimer
          \/ two.tr.resumed /\ two.tr.timer = [ch |-> v.ch, page |-> two.tr.page]
      BY <3>2
    <3>9. two.tr.resumed => \/ t.active = v.ch /\ t.resumed
                            \/ Count(v) > 0 /\ two.tr.page \in 1 .. Count(v)
      BY <2>3, <3>1, <3>2
    <3> QED BY <1>3, <3>2, <3>3, <3>4, <3>5, <3>6, <3>7, <3>8, <3>9
  <2> QED BY <2>5, <2>6
<1> QED BY <1>2, <1>3

\* A tracker that a handler changed without touching what the prompt depends on.
FromTracker(t) ==
    Tracker(t) /\ t.active = tr.active /\ t.dismissed = tr.dismissed /\ t.resumed = tr.resumed

\* The requests that a handler sends itself: marks, and pages that were on screen.
Extra(x) ==
    /\ x \subseteq Patches
    /\ IndexBase = 0 => \A m \in x : ~m.read => <<m.ch, m.page>> \in shown \cup strayed

\* A page of the chapter is on screen unless a slide turned to it in a strip.
LEMMA PageOnScreen ==
    ASSUME NEW v, NEW p \in 1 .. Count(v), NEW astray, IndexBase = 0, Count(v) \in Nat
    PROVE  p \in OnScreen(v, p, astray) \/ <<v.ch, p>> \in astray
BY DEF OnScreen

LEMMA RenderKeeps ==
    ASSUME TrackerKept, NEW t, NEW v, NEW x, Render(t, v, x), Tracker(t), View(v),
           Extra(x), view.ch = Closed \/ v.ch # view.ch \/ FromTracker(t),
           strayed \subseteq strayed', Placed(t, v, strayed'), server' = server,
           v.ch = Closed => t.active = Closed
    PROVE  TrackerKept'
<1> DEFINE s == Settle(t, v)
<1>1. /\ Tracker(s.tr)
      /\ v.ch = Closed => s.tr.dialog = t.dialog /\ s.tr.active = t.active
      /\ v.ch # Closed => s.tr.active = v.ch
      /\ \/ s.tr.timer = NoTimer
         \/ /\ v.ch # Closed /\ s.tr.resumed
            /\ s.tr.timer = [ch |-> v.ch, page |-> s.tr.page]
      /\ v.ch # Closed /\ t.active = v.ch /\ t.dismissed =>
            s.tr.dismissed /\ s.tr.dialog = t.dialog
      /\ v.ch # Closed /\ s.tr.dialog /\ ~t.dialog => s.tr.dismissed
      /\ t.active = v.ch /\ t.resumed => s.tr.page = t.page
      /\ v.ch # Closed /\ s.tr.resumed =>
            \/ t.active = v.ch /\ t.resumed
            \/ Count(v) > 0 /\ s.tr.page \in 1 .. Count(v)
      /\ \A m \in s.sent : m.read /\ m \in Patches
  BY Settled
<1>2. /\ view' = v /\ tr' = s.tr /\ wire' = wire \cup s.sent \cup x
      /\ shown' = shown \cup {<<v.ch, q>> : q \in IF v.ch # Closed /\ s.tr.resumed
                                                  THEN OnScreen(v, s.tr.page, strayed') ELSE {}}
      /\ prompts' = (IF v.ch # view.ch THEN 0 ELSE prompts)
                     + (IF s.tr.dialog /\ ~t.dialog THEN 1 ELSE 0)
  BY DEF Render
<1> HIDE DEF s
<1>3. v.ch # Closed /\ s.tr.resumed =>
        /\ Count(v) > 0
        /\ IndexBase = 0 => s.tr.page \in 1 .. Count(v) \/ <<v.ch, s.tr.page>> \in strayed'
  BY <1>1 DEF Placed
<1>4. Placed(tr, view, strayed)'
  <2>1. Placed(s.tr, v, strayed')
    BY <1>3 DEF Placed
  <2> QED BY <1>2, <2>1 DEF Placed, Count
<1>5. IndexBase = 0 => SavesAreShown'
  <2> SUFFICES ASSUME IndexBase = 0 PROVE SavesAreShown'
    OBVIOUS
  <2>1. shown \cup strayed \subseteq shown' \cup strayed'
    BY <1>2
  <2>2. v.ch # Closed /\ s.tr.resumed => <<v.ch, s.tr.page>> \in shown' \cup strayed'
    <3> SUFFICES ASSUME v.ch # Closed, s.tr.resumed, <<v.ch, s.tr.page>> \notin strayed'
                 PROVE  <<v.ch, s.tr.page>> \in shown'
      OBVIOUS
    <3>1. s.tr.page \in 1 .. Count(v) /\ Count(v) \in Nat
      BY <1>3, CountFacts
    <3>2. s.tr.page \in OnScreen(v, s.tr.page, strayed')
      BY <3>1, PageOnScreen
    <3> QED BY <1>2, <3>2
  <2>3. tr'.timer # NoTimer => <<tr'.timer.ch, tr'.timer.page>> \in shown' \cup strayed'
    BY <1>1, <1>2, <2>2
  <2>4. \A m \in wire' : ~m.read => <<m.ch, m.page>> \in shown' \cup strayed'
    BY <1>1, <1>2, <2>1 DEF TrackerKept, SavesAreShown, Extra
  <2> QED BY <2>3, <2>4 DEF SavesAreShown
<1>6. wire' \subseteq Patches
  BY <1>1, <1>2 DEF TrackerKept, Extra
<1>7. /\ tr'.active = view'.ch
      /\ view'.ch # Closed /\ prompts' # 0 => tr'.dismissed
      /\ prompts' \in {0, 1}
  <2>1. CASE v.ch = Closed
    BY <1>1, <1>2, <2>1 DEF TrackerKept
  <2>2. CASE v.ch # Closed /\ v.ch # view.ch
    BY <1>1, <1>2, <2>2
  <2>3. CASE v.ch # Closed /\ v.ch = view.ch
    <3>1. t.active = v.ch /\ (prompts # 0 => t.dismissed) /\ prompts \in {0, 1}
      BY <2>3 DEF TrackerKept, FromTracker
    <3>2. prompts # 0 => s.tr.dismissed /\ ~(s.tr.dialog /\ ~t.dialog)
      BY <1>1, <2>3, <3>1
    <3> QED BY <1>1, <1>2, <2>3, <3>1, <3>2
  <2> QED BY <2>1, <2>2, <2>3
<1>8. /\ Tracker(tr') /\ View(view') /\ server' \in Progress
      /\ tr'.timer # NoTimer => tr'.timer.ch \in Chapters /\ tr'.timer.page \in Int
  BY <1>1, <1>2 DEF TrackerKept, Tracker, View
<1> QED BY <1>4, <1>5, <1>6, <1>7, <1>8 DEF TrackerKept, Tracker, View

LEMMA UnchangedKept ==
    ASSUME TrackerKept, UNCHANGED <<view, tr, wire, shown, strayed, prompts, server>>
    PROVE  TrackerKept'
BY DEF TrackerKept, Tracker, View, Placed, Count, SavesAreShown

\* Every event but the end of a slide strays nowhere.
LEMMA CommitKept ==
    ASSUME TrackerKept, NEW t, NEW v, NEW x, Commit(t, v, x), Tracker(t), View(v),
           Extra(x), view.ch = Closed \/ v.ch # view.ch \/ FromTracker(t),
           Placed(t, v, strayed), server' = server, v.ch = Closed => t.active = Closed
    PROVE  TrackerKept'
<1>1. Render(t, v, x) /\ strayed' = strayed
  BY DEF Commit
<1>2. Placed(t, v, strayed')
  BY <1>1 DEF Placed
<1> QED BY <1>1, <1>2, RenderKeeps

LEMMA FreshTyped == Tracker(FreshTracker) /\ FreshTracker.active = Closed
BY DEF FreshTracker, Tracker, TrackerFields

\* The trackers that the handlers commit.
LEMMA Trackers ==
    ASSUME Tracker(tr)
    PROVE  /\ FromTracker(tr) /\ FromTracker(MarkChapterRead(tr))
           /\ MarkChapterRead(tr).page = tr.page
           /\ \A p \in Int : FromTracker([tr EXCEPT !.page = p]) /\ [tr EXCEPT !.page = p].page = p
           /\ \A p \in Int : \A q : /\ FromTracker([tr EXCEPT !.page = p, !.reported = q])
                                    /\ [tr EXCEPT !.page = p, !.reported = q].page = p
           /\ FromTracker([tr EXCEPT !.dialog = FALSE]) /\ [tr EXCEPT !.dialog = FALSE].page = tr.page
BY DEF FromTracker, Tracker, TrackerFields, MarkChapterRead

LEMMA Marks ==
    ASSUME NEW c \in Chapters, NEW p \in Int
    PROVE  Extra({Patch(c, TRUE, p)})
<1>1. PICK m : m = Patch(c, TRUE, p)
  OBVIOUS
<1>2. m.read /\ m \in Patches
  BY <1>1 DEF Patch, Patches
<1> QED BY <1>1, <1>2 DEF Extra

LEMMA NoExtra == Extra({})
BY DEF Extra

\* A reader whose page a handler leaves alone stays where it is.
LEMMA StillPlaced ==
    ASSUME TrackerKept, NEW t, FromTracker(t), t.page = tr.page,
           NEW v, View(v), view.pages \subseteq v.pages
    PROVE  Placed(t, v, strayed)
<1> SUFFICES ASSUME v.ch # Closed, t.active = v.ch, t.resumed
             PROVE  /\ Count(v) > 0
                    /\ IndexBase = 0 => t.page \in 1 .. Count(v) \/ <<v.ch, t.page>> \in strayed
  BY DEF Placed
<1>1. tr.active = view.ch /\ v.ch = view.ch /\ tr.resumed
  BY DEF TrackerKept, FromTracker
<1>2. /\ Count(view) > 0
      /\ IndexBase = 0 => tr.page \in 1 .. Count(view) \/ <<view.ch, tr.page>> \in strayed
  BY <1>1 DEF TrackerKept, Placed
<1>3. Count(v) = Count(view)
  BY <1>1, <1>2 DEF Count
<1> QED BY <1>1, <1>2, <1>3

\* A commit that leaves the page alone, and one of a reader that was just mounted.
LEMMA CommitHere ==
    ASSUME TrackerKept, NEW t, NEW v, NEW x, Commit(t, v, x), FromTracker(t), t.page = tr.page,
           View(v), view.pages \subseteq v.pages, Extra(x), server' = server,
           v.ch = Closed => view.ch = Closed
    PROVE  TrackerKept'
<1>1. Tracker(t) /\ Placed(t, v, strayed) /\ t.active = view.ch
  BY StillPlaced DEF FromTracker, TrackerKept
<1> QED BY <1>1, CommitKept

LEMMA CommitFresh ==
    ASSUME TrackerKept, NEW v, NEW x, Commit(FreshTracker, v, x), View(v), Extra(x),
           view.ch = Closed \/ v.ch # view.ch, server' = server
    PROVE  TrackerKept'
<1>1. Placed(FreshTracker, v, strayed)
  BY FreshTyped DEF Placed
<1> QED BY <1>1, FreshTyped, CommitKept

\* A commit that moves the reader to a page of the chapter it is in.
LEMMA CommitMoved ==
    ASSUME TrackerKept, NEW t, NEW v, Commit(t, v, {}), FromTracker(t), View(v), v.ch = view.ch,
           view.pages \subseteq v.pages, view.ch # Closed, server' = server,
           tr.resumed /\ IndexBase = 0 => t.page \in 1 .. Count(view)
    PROVE  TrackerKept'
<1>1. Placed(t, v, strayed)
  <2> SUFFICES ASSUME t.active = v.ch, t.resumed
               PROVE  /\ Count(v) > 0
                      /\ IndexBase = 0 => t.page \in 1 .. Count(v)
    BY DEF Placed
  <2>1. tr.active = view.ch /\ tr.resumed /\ Count(view) > 0
    BY DEF TrackerKept, FromTracker, Placed
  <2>2. Count(v) = Count(view)
    BY <2>1 DEF Count
  <2> QED BY <2>1, <2>2
<1> QED BY <1>1, NoExtra, CommitKept DEF FromTracker

LEMMA MarkingCommit ==
    ASSUME TrackerKept, NEW mark \in BOOLEAN, view.ch # Closed, server' = server,
           Commit(IF mark THEN MarkChapterRead(tr) ELSE tr, view,
                  IF mark THEN {Patch(view.ch, TRUE, Count(view))} ELSE {})
    PROVE  TrackerKept'
<1>1. /\ FromTracker(tr) /\ FromTracker(MarkChapterRead(tr)) /\ View(view)
      /\ MarkChapterRead(tr).page = tr.page /\ view.ch \in Chapters
  BY Trackers DEF TrackerKept, View
<1>2. Extra({Patch(view.ch, TRUE, Count(view))})
  <2>1. Count(view) \in Int
    BY <1>1, CountFacts
  <2> QED BY <1>1, <2>1, Marks
<1>3. CASE mark
  <2>1. Commit(MarkChapterRead(tr), view, {Patch(view.ch, TRUE, Count(view))})
    BY <1>3
  <2> QED BY <1>1, <1>2, <2>1, CommitHere
<1>4. CASE ~mark
  <2>1. Commit(tr, view, {})
    BY <1>4
  <2> QED BY <1>1, <2>1, NoExtra, CommitHere
<1> QED BY <1>3, <1>4

-----------------------------------------------------------------------------
(***************************************************************************)
(* The gesture state                                                       *)
(***************************************************************************)
LEMMA FreshGesture == Gesture(FreshUi)
<1>1. <<>> \in Seq(Slides)
  OBVIOUS
<1> QED BY <1>1 DEF FreshUi, Gesture, UiFields

LEMMA StartSlideKept ==
    ASSUME NEW u, Gesture(u), NEW s \in Slides, NEW off
    PROVE  Gesture(StartSlide(u, s, off))
<1> DEFINE q == Append(u.slides, s)
<1>1. q \in Seq(Slides) /\ q # <<>>
  BY AppendProperties DEF Gesture
<1>2. StartSlide(u, s, off) = [u EXCEPT !.anim = TRUE, !.offset = off, !.slides = q]
  BY DEF StartSlide
<1> HIDE DEF q
<1> QED BY <1>1, <1>2 DEF Gesture, UiFields

\* The slides that the handlers of a mounted reader start.
LEMMA SlidesStarted ==
    ASSUME TrackerKept, view.ch # Closed
    PROVE  /\ tr.page < Count(view) => Slide("turn") \in Slides
           /\ tr.page > 1 => Slide("back") \in Slides
           /\ HasNext(view) => Slide("next") \in Slides
           /\ HasPrev(view) => Slide("prev") \in Slides
<1>1. tr.page \in Int /\ view.ch \in Chapters /\ Count(view) \in Nat /\ Count(view) <= PageCount[view.ch]
  BY CountFacts DEF TrackerKept, Tracker, View
<1>2. HasNext(view) => view.ch + 1 \in Chapters
  BY <1>1, ReaderAssumption DEF HasNext, Chapters
<1>3. HasPrev(view) => view.ch - 1 \in Chapters
  BY <1>1, ReaderAssumption DEF HasPrev, Chapters
<1> QED BY <1>1, <1>2, <1>3 DEF Slide, Slides

LEMMA InputKept ==
    ASSUME NEW u, Gesture(u), NEW k, TrackerKept, view.ch # Closed
    PROVE  Gesture(InputUi(k, u)) /\ Gesture(SpringBack(u))
<1>1. Gesture(NextPageUi(u))
  <2>1. /\ tr.page < Count(view) => Gesture(StartSlide(u, Slide("turn"), Forward))
        /\ HasNext(view) => Gesture(StartSlide(u, Slide("next"), Forward))
    BY StartSlideKept, SlidesStarted
  <2> QED BY <2>1 DEF NextPageUi
<1>2. Gesture(PrevPageUi(u))
  <2>1. /\ tr.page > 1 => Gesture(StartSlide(u, Slide("back"), -Forward))
        /\ HasPrev(view) => Gesture(StartSlide(u, Slide("prev"), -Forward))
    BY StartSlideKept, SlidesStarted
  <2> QED BY <2>1 DEF PrevPageUi
<1>3. Gesture([u EXCEPT !.overlays = ~@])
  BY DEF Gesture, UiFields
<1>4. Gesture(SpringBack(u))
  <2> DEFINE s == [kind |-> "spring", ch |-> Closed, page |-> NoPage, pages |-> 0]
  <2>2. s \in Slides
    BY DEF Slides, NoPage
  <2> HIDE DEF s
  <2>3. Gesture(StartSlide(u, s, 0))
    BY <2>2, StartSlideKept
  <2> QED BY <2>3 DEF SpringBack, s
<1> QED BY <1>1, <1>2, <1>3, <1>4 DEF InputUi

LEMMA HintKept ==
    ASSUME NEW u, Gesture(u), NEW v
    PROVE  Gesture(ShowHint(u, v))
BY DEF Gesture, UiFields, ShowHint

LEMMA PointerKept ==
    ASSUME NEW u, Gesture(u)
    PROVE  /\ Gesture(Up(u)) /\ Gesture(ZeroOffset(u))
           /\ Gesture([u EXCEPT !.offset = 0, !.anim = FALSE])
           /\ Gesture([u EXCEPT !.hint = FALSE])
           /\ Gesture([u EXCEPT !.held = FALSE])
           /\ Gesture([u EXCEPT !.held = FALSE, !.offset = 0])
           /\ \A n : Gesture([u EXCEPT !.held = FALSE, !.offset = 0, !.undrag = n])
           /\ \A n : Gesture([u EXCEPT !.undrag = n, !.didDrag = FALSE])
           /\ \A d : Gesture([u EXCEPT !.pointer = d])
           /\ \A d : Gesture([u EXCEPT !.pointer = d, !.held = TRUE, !.didDrag = FALSE, !.offset = 0])
           /\ \A o : Gesture([u EXCEPT !.didDrag = TRUE, !.offset = o])
BY DEF Gesture, UiFields, Up, ZeroOffset

-----------------------------------------------------------------------------
(***************************************************************************)
(* The actions                                                             *)
(***************************************************************************)
Kept == TrackerKept /\ Gesture(ui) /\ ghosts \in Seq(Slides)

\* What an event leaves alone that neither writes the server's record nor closes the reader.
Still == server' = server /\ ghosts' = ghosts

LEMMA GotoKept ==
    ASSUME Kept, NEW c \in Chapters, NEW a \in Int, NEW x, NEW t, NEW u, Goto(c, a, x, t, u),
           FromTracker(t), t.page = tr.page, Gesture(u), Extra(x), server' = server
    PROVE  TrackerKept' /\ Gesture(ui)'
<1> DEFINE v == [view EXCEPT !.ch = c, !.search = a]
<1>1. View(v) /\ v.ch = c /\ v.pages = view.pages /\ c # Closed
  BY ReaderAssumption DEF Kept, TrackerKept, View, ViewFields, Closed, Chapters
<1>2. /\ ui' = IF view.ch = Closed THEN ShowHint(FreshUi, v) ELSE u
      /\ Commit(IF view.ch = Closed THEN FreshTracker ELSE t, v, x)
  BY DEF Goto
<1> HIDE DEF v
<1>3. Gesture(ShowHint(FreshUi, v))
  BY FreshGesture, HintKept
<1>4. Gesture(ui)'
  BY <1>2, <1>3
<1>5. CASE view.ch = Closed
  <2>1. Commit(FreshTracker, v, x) /\ TrackerKept
    BY <1>2, <1>5 DEF Kept
  <2> QED BY <1>1, <1>4, <1>5, <2>1, CommitFresh
<1>6. CASE view.ch # Closed
  <2>1. Commit(t, v, x) /\ TrackerKept
    BY <1>2, <1>6 DEF Kept
  <2> QED BY <1>1, <1>4, <1>6, <2>1, CommitHere
<1> QED BY <1>5, <1>6

LEMMA Here ==
    ASSUME Kept
    PROVE  /\ FromTracker(tr) /\ FromTracker(MarkChapterRead(tr)) /\ Gesture(ui)
           /\ MarkChapterRead(tr).page = tr.page /\ Tracker(tr)
           /\ View(view) /\ TrackerKept /\ Count(view) \in Int
           /\ view.ch # Closed => view.ch \in Chapters
           /\ \A x \in Int : /\ View([view EXCEPT !.search = x])
                             /\ [view EXCEPT !.search = x].ch = view.ch
                             /\ [view EXCEPT !.search = x].pages = view.pages
<1>1. Tracker(tr) /\ View(view) /\ TrackerKept
  BY DEF Kept, TrackerKept
<1>2. Count(view) \in Int
  BY <1>1, CountFacts
<1>3. \A x \in Int : /\ View([view EXCEPT !.search = x])
                     /\ [view EXCEPT !.search = x].ch = view.ch
                     /\ [view EXCEPT !.search = x].pages = view.pages
  BY <1>1 DEF View, ViewFields
<1> QED BY <1>1, <1>2, <1>3, Trackers DEF Kept, View

LEMMA ChapterStepKept ==
    ASSUME Kept,
           \/ \E c \in Chapters : Open(c)
           \/ Close \/ HandleNextChapter \/ HandlePrevChapter
           \/ \E c \in Chapters : HandleSelectChapter(c)
    PROVE  Kept'
<1>1. NoPage \in Int /\ LastPage \in Int
  BY DEF NoPage, LastPage
<1>2. CASE \E c \in Chapters : Open(c)
  <2>1. PICK c \in Chapters : Goto(c, NoPage, {}, tr, ui) /\ Still
    BY <1>2 DEF Open, Still
  <2>2. TrackerKept' /\ Gesture(ui)'
    BY <1>1, <2>1, Here, NoExtra, GotoKept DEF Still
  <2> QED BY <2>1, <2>2 DEF Kept, Still
<1>3. CASE Close
  <2> DEFINE v == [view EXCEPT !.ch = Closed, !.search = NoPage]
  <2>1. /\ ui' = FreshUi /\ Commit(FreshTracker, v, {}) /\ view.ch # Closed /\ server' = server
        /\ ghosts' = ghosts \o ui.slides
    BY <1>3 DEF Close, Pointer, Input
  <2>2. View(v) /\ v.ch = Closed
    BY <1>1, Here DEF View, ViewFields
  <2> HIDE DEF v
  <2>3. TrackerKept'
    BY <2>1, <2>2, Here, NoExtra, CommitFresh
  <2>4. ghosts' \in Seq(Slides)
    BY <2>1, ConcatProperties DEF Kept, Gesture
  <2> QED BY <2>1, <2>3, <2>4, FreshGesture DEF Kept
<1>4. CASE HandleNextChapter
  <2>1. /\ Goto(view.ch + 1, NoPage, {Patch(view.ch, TRUE, Count(view))}, MarkChapterRead(tr), ui)
        /\ Still /\ view.ch # Closed /\ HasNext(view)
    BY <1>4 DEF HandleNextChapter, Pointer, Input, Idle, Still
  <2>2. view.ch + 1 \in Chapters /\ view.ch \in Chapters
    BY <2>1, Here, ReaderAssumption DEF HasNext, Chapters
  <2>3. Extra({Patch(view.ch, TRUE, Count(view))})
    BY <2>2, Here, Marks
  <2>4. TrackerKept' /\ Gesture(ui)'
    BY <1>1, <2>1, <2>2, <2>3, Here, GotoKept DEF Still
  <2> QED BY <2>1, <2>4 DEF Kept, Still
<1>5. CASE HandlePrevChapter
  <2>1. Goto(view.ch - 1, LastPage, {}, tr, ui) /\ Still /\ view.ch # Closed /\ HasPrev(view)
    BY <1>5 DEF HandlePrevChapter, Pointer, Input, Idle, Still
  <2>2. view.ch - 1 \in Chapters
    BY <2>1, Here, ReaderAssumption DEF HasPrev, Chapters
  <2>3. TrackerKept' /\ Gesture(ui)'
    BY <1>1, <2>1, <2>2, Here, NoExtra, GotoKept DEF Still
  <2> QED BY <2>1, <2>3 DEF Kept, Still
<1>6. CASE \E c \in Chapters : HandleSelectChapter(c)
  <2>1. PICK c \in Chapters : Goto(c, NoPage, {}, tr, ui) /\ Still
    BY <1>6 DEF HandleSelectChapter, Idle, Still
  <2>2. TrackerKept' /\ Gesture(ui)'
    BY <1>1, <2>1, Here, NoExtra, GotoKept DEF Still
  <2> QED BY <2>1, <2>2 DEF Kept, Still
<1> QED BY <1>2, <1>3, <1>4, <1>5, <1>6

LEMMA PageChangeKept ==
    ASSUME Kept, Still, view.ch # Closed, NEW p \in Int, HandlePageChange(p),
           Count(view) > 0 => p \in 1 .. Count(view)
    PROVE  Kept'
<1> DEFINE t == [tr EXCEPT !.page = p]
           v == [view EXCEPT !.search = p]
<1>1. FromTracker(t) /\ t.page = p /\ View(v) /\ v.ch = view.ch /\ v.pages = view.pages
  BY Here, Trackers
<1>2. Commit(t, v, {}) /\ ui' = IF p = tr.page THEN ui ELSE [ui EXCEPT !.offset = 0, !.anim = FALSE]
  BY DEF HandlePageChange
<1> HIDE DEF t, v
<1>3. tr.resumed => p \in 1 .. Count(view)
  BY DEF Kept, TrackerKept, Placed
<1>4. TrackerKept'
  BY <1>1, <1>2, <1>3, Here, CommitMoved DEF Still
<1>5. Gesture(ui)'
  BY <1>2, Here, PointerKept
<1> QED BY <1>4, <1>5 DEF Kept, Still

\* A handler that leaves the tracker to the effects.
LEMMA RenderKept ==
    ASSUME Kept, Still, Commit(tr, view, {}), Gesture(ui')
    PROVE  Kept'
<1>1. TrackerKept'
  BY Here, NoExtra, CommitHere DEF Still
<1> QED BY <1>1 DEF Kept, Still

LEMMA FooterStepKept ==
    ASSUME Kept,
           \/ \E p \in AnyPage : Slider(p)
           \/ HandleScrollTop
           \/ \E m \in Modes : HandleReadingModeChange(m)
           \/ \E p \in AnyPage : Scroll(p)
    PROVE  Kept'
<1>1. CASE \E p \in AnyPage : Slider(p)
  <2>1. PICK val \in 1 .. Count(view) :
           HandlePageChange(IF ReadingMode(view) = "rtl" THEN Count(view) - val + 1 ELSE val)
    BY <1>1 DEF Slider
  <2>2. PICK p : p = IF ReadingMode(view) = "rtl" THEN Count(view) - val + 1 ELSE val
    OBVIOUS
  <2>3. p \in Int /\ p \in 1 .. Count(view)
    BY <2>1, <2>2, Here
  <2>4. Still /\ view.ch # Closed /\ HandlePageChange(p)
    BY <1>1, <2>1, <2>2 DEF Slider, Footer, Pointer, Input, Idle, Still
  <2> QED BY <2>3, <2>4, PageChangeKept
<1>2. CASE HandleScrollTop
  <2>1. /\ Commit([tr EXCEPT !.page = 1], view, {})
        /\ ui' = [ui EXCEPT !.offset = 0, !.anim = FALSE]
        /\ Still /\ view.ch # Closed /\ Count(view) > 0
    BY <1>2 DEF HandleScrollTop, Footer, Pointer, Input, Idle, Still
  <2>2. PICK one \in Int : one = 1
    OBVIOUS
  <2>3. PICK t : t = [tr EXCEPT !.page = one]
    OBVIOUS
  <2>4. FromTracker(t) /\ t.page \in 1 .. Count(view)
    <3>1. FromTracker(t) /\ t.page = one
      BY <2>3, Here, Trackers
    <3>2. one \in 1 .. Count(view)
      BY <2>1, <2>2, Here
    <3> QED BY <3>1, <3>2
  <2>5. Commit(t, view, {})
    BY <2>1, <2>2, <2>3
  <2>6. TrackerKept'
    BY <2>1, <2>4, <2>5, Here, CommitMoved DEF Still
  <2>7. Gesture(ui)'
    BY <2>1, Here, PointerKept
  <2> QED BY <2>1, <2>7, <2>6 DEF Kept, Still
<1>3. CASE \E m \in Modes : HandleReadingModeChange(m)
  <2>1. /\ Commit(tr, view, {}) /\ ui' = [ui EXCEPT !.hint = FALSE]
        /\ Still /\ view.ch # Closed
    BY <1>3 DEF HandleReadingModeChange, Footer, Pointer, Input, Still
  <2>2. Gesture(ui')
    BY <2>1, Here, PointerKept
  <2> QED BY <2>1, <2>2, RenderKept
<1>4. CASE \E p \in AnyPage : Scroll(p)
  <2>1. PICK p \in 1 .. Count(view) :
           Commit([tr EXCEPT !.page = p + IndexBase, !.reported = p + IndexBase], view, {})
    BY <1>4 DEF Scroll
  <2>2. Still /\ view.ch # Closed /\ ui' = ui
    BY <1>4 DEF Scroll, Pointer, Input, Idle, Still
  <2>3. PICK q : q = p + IndexBase
    OBVIOUS
  <2>4. q \in Int /\ (IndexBase = 0 => q \in 1 .. Count(view))
    BY <2>1, <2>3, Here, ReaderAssumption
  <2>5. /\ FromTracker([tr EXCEPT !.page = q, !.reported = q])
        /\ [tr EXCEPT !.page = q, !.reported = q].page = q
    BY <2>4, Here, Trackers
  <2>6. TrackerKept'
    BY <2>1, <2>2, <2>3, <2>4, <2>5, Here, CommitMoved DEF Still
  <2> QED BY <2>2, <2>6, Here DEF Kept, Still
<1> QED BY <1>1, <1>2, <1>3, <1>4

\* A handler that may turn the page, and marks the chapter read at its end.
LEMMA DoKept ==
    ASSUME Kept, Still, view.ch # Closed, NEW k, NEW u, NEW w, Gesture(w), ui' = w,
           Commit(IF k = "next" /\ MarksAtEnd(u) THEN MarkChapterRead(tr) ELSE tr, view,
                  IF k = "next" /\ MarksAtEnd(u) THEN {Patch(view.ch, TRUE, Count(view))} ELSE {})
    PROVE  Kept'
<1>1. PICK mark \in BOOLEAN : mark = (k = "next" /\ MarksAtEnd(u))
  OBVIOUS
<1>2. Commit(IF mark THEN MarkChapterRead(tr) ELSE tr, view,
             IF mark THEN {Patch(view.ch, TRUE, Count(view))} ELSE {})
  BY <1>1
<1>3. TrackerKept'
  BY <1>2, Here, MarkingCommit DEF Still
<1> QED BY <1>3 DEF Kept, Still

LEMMA KeyKept ==
    ASSUME Kept, NEW k, HandleKeyDown(k)
    PROVE  Kept'
<1> Still /\ view.ch # Closed
  BY DEF HandleKeyDown, Input, Idle, Still
<1>1. ASSUME NEW d, Do(d, ui, Same)
      PROVE  Kept'
  <2>1. Gesture(InputUi(d, ui))
    BY Here, InputKept
  <2> QED BY <1>1, <2>1, DoKept DEF Do, Same
<1>2. \/ \E d : Do(d, ui, Same)
      \/ HandlePageChange(1) \/ HandlePageChange(Count(view))
  BY DEF HandleKeyDown
<1>3. Count(view) > 0 => 1 \in 1 .. Count(view) /\ Count(view) \in 1 .. Count(view)
  BY Here
<1>4. HandlePageChange(1) => Kept'
  BY <1>3, PageChangeKept
<1>5. HandlePageChange(Count(view)) => Kept'
  BY <1>3, Here, PageChangeKept
<1> QED BY <1>1, <1>2, <1>4, <1>5

LEMMA PressKept ==
    ASSUME Kept,
           \/ \E d \in {"touch", "mouse"} : HandleStart(d)
           \/ \E off \in {-2, 1, 2} : HandleMove(off)
           \/ TouchCancel
    PROVE  Kept'
<1>1. Commit(tr, view, {}) /\ Still /\ view.ch # Closed
  BY DEF HandleStart, HandleMove, TouchCancel, OnPage, Idle, Still
<1>2. Gesture(ui')
  <2>1. CASE \E d \in {"touch", "mouse"} : HandleStart(d)
    <3>1. PICK d : \/ ui' = [ui EXCEPT !.pointer = d]
                   \/ ui' = [ui EXCEPT !.pointer = d, !.held = TRUE, !.didDrag = FALSE, !.offset = 0]
      BY <2>1 DEF HandleStart
    <3>2. CASE ui' = [ui EXCEPT !.pointer = d]
      BY <3>2, Here, PointerKept
    <3>3. CASE ui' = [ui EXCEPT !.pointer = d, !.held = TRUE, !.didDrag = FALSE, !.offset = 0]
      BY <3>3, Here, PointerKept
    <3> QED BY <3>1, <3>2, <3>3
  <2>2. CASE \E off \in {-2, 1, 2} : HandleMove(off)
    <3>1. PICK off : ui' = [ui EXCEPT !.didDrag = TRUE, !.offset = off]
      BY <2>2 DEF HandleMove
    <3> QED BY <3>1, Here, PointerKept
  <2>3. CASE TouchCancel
    <3>1. Gesture(Up(ui))
      BY Here, PointerKept
    <3>2. PICK n : ui' = [Up(ui) EXCEPT !.held = FALSE, !.offset = 0, !.undrag = n]
      BY <2>3 DEF TouchCancel
    <3> QED BY <3>1, <3>2, PointerKept
  <2> QED BY <2>1, <2>2, <2>3
<1> QED BY <1>1, <1>2, RenderKept

LEMMA TouchEndKept ==
    ASSUME Kept, NEW z, TouchEnd(z)
    PROVE  Kept'
<1> Still /\ view.ch # Closed
  BY DEF TouchEnd, OnPage, Idle, Still
<1>1. PICK k : k = ZoneKind(z, ui)
  OBVIOUS
<1>2. PICK u : u = InputUi(k, Up(ui))
  OBVIOUS
<1>3. Gesture(u)
  BY <1>2, Here, PointerKept, InputKept
<1>4. ui' \in {u, [u EXCEPT !.held = FALSE, !.offset = 0]}
  BY <1>1, <1>2 DEF TouchEnd, Do
<1>5. Gesture(ui')
  BY <1>3, <1>4, PointerKept
<1>6. Commit(IF k = "next" /\ MarksAtEnd(Up(ui)) THEN MarkChapterRead(tr) ELSE tr, view,
             IF k = "next" /\ MarksAtEnd(Up(ui)) THEN {Patch(view.ch, TRUE, Count(view))} ELSE {})
  BY <1>1 DEF TouchEnd, Do
<1> QED BY <1>5, <1>6, DoKept

LEMMA EndKept ==
    ASSUME Kept, Still, view.ch # Closed, NEW u, Gesture(u), HandleEnd(u)
    PROVE  Kept'
<1>1. ASSUME NEW k, Do(k, u, Same) PROVE Kept'
  <2>1. Gesture(InputUi(k, u))
    BY Here, InputKept
  <2> QED BY <1>1, <2>1, DoKept DEF Do, Same
<1>2. ASSUME NEW k, Do(k, u, SpringBack) PROVE Kept'
  <2>1. Gesture(SpringBack(InputUi(k, u)))
    BY Here, InputKept
  <2> QED BY <1>2, <2>1, DoKept DEF Do
<1>3. Do("next", u, Same) \/ Do("prev", u, Same) \/ Do("none", u, SpringBack)
  BY DEF HandleEnd
<1> QED BY <1>1, <1>2, <1>3

LEMMA MouseKept ==
    ASSUME Kept, MouseLeave \/ \E z \in {"left", "centre", "right"} : MouseUp(z)
    PROVE  Kept'
<1> DEFINE u == [Up(ui) EXCEPT !.held = FALSE]
<1> Still /\ view.ch # Closed
  BY DEF MouseLeave, MouseUp, OnPage, Idle, Still
<1>1. Gesture(u)
  BY Here, PointerKept
<1>2. Gesture(ZeroOffset(u))
  BY <1>1, PointerKept
<1>3. ASSUME NEW k, NEW w, Gesture(w), Do(k, w, Same) PROVE Kept'
  <2>1. Gesture(InputUi(k, w))
    BY <1>3, Here, InputKept
  <2> QED BY <1>3, <2>1, DoKept DEF Do, Same
<1>4. ASSUME NEW k, Do(k, u, ZeroOffset) PROVE Kept'
  <2> HIDE DEF u
  <2>1. Gesture(ZeroOffset(InputUi(k, u)))
    BY <1>1, Here, InputKept, PointerKept
  <2> QED BY <1>4, <2>1, DoKept DEF Do
<1>5. \/ HandleEnd(u)
      \/ \E k : Do(k, u, Same) \/ Do(k, ZeroOffset(u), Same) \/ Do(k, u, ZeroOffset)
  BY DEF MouseUp, MouseLeave
<1> HIDE DEF u
<1> QED BY <1>1, <1>2, <1>3, <1>4, <1>5, EndKept

\* A slide that turns a page: where it ends on time, the page before it was one of the
\* chapter and so is the next; else the page is on screen, or noted as astray.
LEMMA TurnKept ==
    ASSUME Kept, NEW s \in Slides, NEW d, (d = 1 /\ s.kind = "turn") \/ (d = -1 /\ s.kind = "back"),
           Turn(s, d), server' = server
    PROVE  TrackerKept'
<1> DEFINE p == tr.page + d
           late == view.ch # s.ch \/ tr.page # s.page \/ <<view.ch, tr.page>> \in strayed
           off == ~IsPaged(view) \/ (late /\ p \notin 1 .. Count(view))
<1>1. /\ strayed' = IF off THEN strayed \cup {<<view.ch, p>>} ELSE strayed
      /\ Render([tr EXCEPT !.page = p], view, {})
  BY DEF Turn
<1>2. p \in Int /\ tr.page \in Int /\ Count(view) \in Nat
  BY Here, CountFacts DEF Tracker
<1>3. strayed \subseteq strayed' /\ (off => <<view.ch, p>> \in strayed')
  BY <1>1
<1>4. FromTracker([tr EXCEPT !.page = p]) /\ [tr EXCEPT !.page = p].page = p
  BY <1>2, Here, Trackers
<1>5. view.ch # Closed /\ tr.resumed => Count(view) > 0
                 /\ (IndexBase = 0 => p \in 1 .. Count(view) \/ <<view.ch, p>> \in strayed')
  <2> SUFFICES ASSUME view.ch # Closed, tr.resumed
               PROVE  Count(view) > 0
                   /\ (IndexBase = 0 => p \in 1 .. Count(view) \/ <<view.ch, p>> \in strayed')
    OBVIOUS
  <2>1. /\ Count(view) > 0
        /\ IndexBase = 0 => tr.page \in 1 .. Count(view) \/ <<view.ch, tr.page>> \in strayed
    BY DEF Kept, TrackerKept, Placed
  <2>2. ASSUME IndexBase = 0, ~off PROVE p \in 1 .. Count(view)
    <3>1. CASE late
      BY <2>2, <3>1
    <3>2. CASE ~late
      <4>1. view.ch = s.ch /\ tr.page = s.page /\ tr.page \in 1 .. Count(view)
        BY <2>1, <2>2, <3>2
      <4>2. Count(view) = PageCount[view.ch]
        BY <2>1, Here, CountFacts
      <4>3. s.kind = "turn" => s.page < s.pages /\ s.pages <= PageCount[s.ch] /\ s.pages \in Int
        BY DEF Slides
      <4>4. s.kind = "back" => s.page > 1
        BY DEF Slides
      <4> QED BY <1>2, <4>1, <4>2, <4>3, <4>4
    <3> QED BY <3>1, <3>2
  <2> QED BY <1>3, <2>1, <2>2
<1> HIDE DEF p, late, off
<1>6. Placed([tr EXCEPT !.page = p], view, strayed')
  BY <1>4, <1>5 DEF Placed, FromTracker
<1>7. PICK t : t = [tr EXCEPT !.page = p]
  OBVIOUS
<1>8. /\ Render(t, view, {}) /\ FromTracker(t) /\ Tracker(t) /\ Placed(t, view, strayed')
      /\ t.active = view.ch
  BY <1>1, <1>4, <1>6, <1>7 DEF FromTracker, Kept, TrackerKept
<1> QED BY <1>3, <1>8, Here, NoExtra, RenderKeeps

LEMMA SlideEndKept ==
    ASSUME Kept, SlideEnd
    PROVE  Kept'
<1> DEFINE s == Head(ui.slides)
           q == Tail(ui.slides)
           rest == [ui EXCEPT !.slides = q, !.anim = FALSE]
           done == [rest EXCEPT !.offset = 0, !.undrag = @ + 1]
<1>1. q \in Seq(Slides) /\ s \in Slides
  BY Here DEF SlideEnd, Gesture
<1>2. Still
  BY DEF SlideEnd, Still
<1>3. \/ ui' = done /\ s.kind = "turn" /\ Turn(s, 1)
      \/ ui' = done /\ s.kind = "back" /\ Turn(s, -1)
      \/ ui' = [rest EXCEPT !.didDrag = FALSE] /\ Commit(tr, view, {})
      \/ s.kind = "next" /\ Goto(s.ch + 1, NoPage, {Patch(s.ch, TRUE, s.pages)}, MarkChapterRead(tr), done)
      \/ s.kind = "prev" /\ Goto(s.ch - 1, LastPage, {}, tr, done)
  BY DEF SlideEnd
<1> HIDE DEF q
<1>4. Gesture(rest)
  BY <1>1, Here DEF Gesture, UiFields
<1>5. Gesture(done) /\ Gesture([rest EXCEPT !.didDrag = FALSE])
  <2> HIDE DEF rest
  <2> QED BY <1>4 DEF Gesture, UiFields
<1>6. /\ s.kind = "next" => s.ch \in Chapters /\ s.ch + 1 \in Chapters /\ s.pages \in Int
      /\ s.kind = "prev" => s.ch - 1 \in Chapters
  BY <1>1 DEF Slides
<1>7. NoPage \in Int /\ LastPage \in Int
  BY DEF NoPage, LastPage
<1> HIDE DEF rest, done, s
<1>8. ASSUME ui' = done, (s.kind = "turn" /\ Turn(s, 1)) \/ (s.kind = "back" /\ Turn(s, -1))
      PROVE  Kept'
  <2>1. ASSUME s.kind = "turn", Turn(s, 1) PROVE TrackerKept'
    <3>1. PICK d : d = 1
      OBVIOUS
    <3>2. Turn(s, d)
      BY <2>1, <3>1
    <3> QED BY <1>1, <1>2, <2>1, <3>1, <3>2, TurnKept DEF Still
  <2>2. ASSUME s.kind = "back", Turn(s, -1) PROVE TrackerKept'
    <3>1. PICK d : d = -1
      OBVIOUS
    <3>2. Turn(s, d)
      BY <2>2, <3>1
    <3> QED BY <1>1, <1>2, <2>2, <3>1, <3>2, TurnKept DEF Still
  <2>3. TrackerKept'
    BY <1>8, <2>1, <2>2
  <2> QED BY <1>2, <1>5, <1>8, <2>3 DEF Kept, Still
<1>9. ASSUME ui' = [rest EXCEPT !.didDrag = FALSE], Commit(tr, view, {}) PROVE Kept'
  BY <1>2, <1>5, <1>9, RenderKept
<1>10. ASSUME s.kind = "next",
              Goto(s.ch + 1, NoPage, {Patch(s.ch, TRUE, s.pages)}, MarkChapterRead(tr), done)
       PROVE  Kept'
  <2>1. TrackerKept' /\ Gesture(ui)'
    BY <1>2, <1>5, <1>6, <1>7, <1>10, Here, Marks, GotoKept DEF Still
  <2> QED BY <1>2, <2>1 DEF Kept, Still
<1>11. ASSUME s.kind = "prev", Goto(s.ch - 1, LastPage, {}, tr, done) PROVE Kept'
  <2>1. TrackerKept' /\ Gesture(ui)'
    BY <1>2, <1>5, <1>6, <1>7, <1>11, Here, NoExtra, GotoKept DEF Still
  <2> QED BY <1>2, <2>1 DEF Kept, Still
<1> QED BY <1>3, <1>8, <1>9, <1>10, <1>11

LEMMA GhostKept ==
    ASSUME Kept, GhostSlideEnd
    PROVE  Kept'
<1> DEFINE s == Head(ghosts)
<1>1. s \in Slides /\ ghosts' \in Seq(Slides) /\ server' = server
  BY DEF GhostSlideEnd, Kept
<1>2. \/ s.kind = "next" /\ Goto(s.ch + 1, NoPage, {Patch(s.ch, TRUE, s.pages)}, tr, ui)
      \/ s.kind = "prev" /\ Goto(s.ch - 1, LastPage, {}, tr, ui)
      \/ UNCHANGED <<view, tr, ui, wire, shown, strayed, prompts>>
  BY DEF GhostSlideEnd
<1>3. /\ s.kind = "next" => s.ch \in Chapters /\ s.ch + 1 \in Chapters /\ s.pages \in Int
      /\ s.kind = "prev" => s.ch - 1 \in Chapters
  BY <1>1 DEF Slides
<1>4. NoPage \in Int /\ LastPage \in Int
  BY DEF NoPage, LastPage
<1> HIDE DEF s
<1>5. ASSUME s.kind = "next", Goto(s.ch + 1, NoPage, {Patch(s.ch, TRUE, s.pages)}, tr, ui)
      PROVE  Kept'
  <2>1. TrackerKept' /\ Gesture(ui)'
    BY <1>1, <1>3, <1>4, <1>5, Here, Marks, GotoKept
  <2> QED BY <1>1, <2>1 DEF Kept
<1>6. ASSUME s.kind = "prev", Goto(s.ch - 1, LastPage, {}, tr, ui) PROVE Kept'
  <2>1. TrackerKept' /\ Gesture(ui)'
    BY <1>1, <1>3, <1>4, <1>6, Here, NoExtra, GotoKept
  <2> QED BY <1>1, <2>1 DEF Kept
<1>7. ASSUME UNCHANGED <<view, tr, ui, wire, shown, strayed, prompts>> PROVE Kept'
  BY <1>1, <1>7, UnchangedKept DEF Kept
<1> QED BY <1>2, <1>5, <1>6, <1>7

LEMMA TimerKept ==
    ASSUME Kept, UndragTimer \/ SaveTimer \/ DismissHint
    PROVE  Kept'
<1> Still
  BY DEF UndragTimer, SaveTimer, DismissHint, Still
<1>1. CASE UndragTimer
  <2>1. UNCHANGED <<view, tr, wire, shown, strayed, prompts>>
    BY <1>1 DEF UndragTimer
  <2>2. TrackerKept'
    BY <2>1, UnchangedKept DEF Kept, Still
  <2>3. PICK n : ui' = [ui EXCEPT !.undrag = n, !.didDrag = FALSE]
    BY <1>1 DEF UndragTimer
  <2>4. Gesture(ui')
    BY <2>3, Here, PointerKept
  <2> QED BY <2>2, <2>4 DEF Kept, Still
<1>2. CASE SaveTimer
  <2>1. PICK m : m = Patch(tr.timer.ch, FALSE, tr.timer.page)
    OBVIOUS
  <2>2. ui' = ui /\ Commit(tr, view, {m}) /\ tr.timer # NoTimer
    BY <1>2, <2>1 DEF SaveTimer
  <2>3. m \in Patches /\ m.ch = tr.timer.ch /\ m.page = tr.timer.page
    BY <2>1, <2>2 DEF Patch, Patches, Kept, TrackerKept
  <2>4. Extra({m})
    BY <2>2, <2>3 DEF Kept, TrackerKept, SavesAreShown, Extra
  <2>5. TrackerKept'
    BY <2>2, <2>4, Here, CommitHere DEF Still
  <2> QED BY <2>2, <2>5 DEF Kept, Still
<1>3. CASE DismissHint
  <2>1. Commit(tr, view, {}) /\ ui' = [ui EXCEPT !.hint = FALSE]
    BY <1>3 DEF DismissHint
  <2>2. Gesture(ui')
    BY <2>1, Here, PointerKept
  <2> QED BY <2>1, <2>2, RenderKept
<1> QED BY <1>1, <1>2, <1>3

LEMMA PromptKept ==
    ASSUME Kept, MarkCompleted \/ NotNow
    PROVE  Kept'
<1>1. ui' = ui /\ Commit([tr EXCEPT !.dialog = FALSE], view, {}) /\ Still
  BY DEF MarkCompleted, NotNow, Still
<1>2. FromTracker([tr EXCEPT !.dialog = FALSE]) /\ [tr EXCEPT !.dialog = FALSE].page = tr.page
  BY Here, Trackers
<1>3. TrackerKept'
  BY <1>1, <1>2, Here, NoExtra, CommitHere DEF Still
<1> QED BY <1>1, <1>3 DEF Kept, Still

\* What an answer to a query commits: the tracker as it is, and the same chapter.
LEMMA QueryCommits ==
    ASSUME Kept, PagesAnswer \/ ListAnswer \/ DetailsAnswer
    PROVE  \E v : /\ Commit(tr, v, {}) /\ View(v) /\ v.ch = view.ch /\ view.ch # Closed
                  /\ view.pages \subseteq v.pages
<1>1. View(view) /\ server \in Progress
  BY DEF Kept, TrackerKept
<1>2. CASE PagesAnswer
  <2> DEFINE v == [view EXCEPT !.pages = @ \cup {view.ch}]
  <2>1. Commit(tr, v, {}) /\ view.ch # Closed
    BY <1>2 DEF PagesAnswer
  <2>2. View(v) /\ v.ch = view.ch /\ v.pages = view.pages \cup {view.ch}
    BY <1>1, <2>1 DEF View, ViewFields
  <2> HIDE DEF v
  <2> QED BY <2>1, <2>2
<1>3. CASE ListAnswer
  <2> DEFINE v == [view EXCEPT !.list = TRUE, !.cached = server]
  <2>1. Commit(tr, v, {}) /\ view.ch # Closed
    BY <1>3 DEF ListAnswer
  <2>2. View(v) /\ v.ch = view.ch /\ v.pages = view.pages
    BY <1>1 DEF View, ViewFields
  <2> HIDE DEF v
  <2> QED BY <2>1, <2>2
<1>4. CASE DetailsAnswer
  <2> DEFINE v == [view EXCEPT !.mode = manga.mode, !.status = manga.status]
  <2>1. Commit(tr, v, {}) /\ view.ch # Closed
    BY <1>4 DEF DetailsAnswer
  <2>2. View(v) /\ v.ch = view.ch /\ v.pages = view.pages
    BY <1>1 DEF View, ViewFields
  <2> HIDE DEF v
  <2> QED BY <2>1, <2>2
<1> QED BY <1>2, <1>3, <1>4

LEMMA AnswersKept ==
    ASSUME Kept, Answers
    PROVE  Kept'
<1>1. CASE PagesAnswer \/ ListAnswer \/ DetailsAnswer
  <2>1. Still
    BY <1>1 DEF PagesAnswer, ListAnswer, DetailsAnswer, Still
  <2>2. TrackerKept'
    BY <1>1, <2>1, QueryCommits, Here, NoExtra, CommitHere DEF Still
  <2>3. Gesture(ui')
    <3>1. ui' = ui \/ \E v : ui' = ShowHint(ui, v)
      BY <1>1 DEF PagesAnswer, ListAnswer, DetailsAnswer
    <3> QED BY <3>1, Here, HintKept
  <2> QED BY <2>1, <2>2, <2>3 DEF Kept, Still
<1>2. CASE \E m \in wire : PatchReads(m) \/ PatchWrites(m) \/ PatchFails(m)
  <2>1. PICK m \in wire : PatchReads(m) \/ PatchWrites(m) \/ PatchFails(m)
    BY <1>2
  <2>2. UNCHANGED <<view, tr, ui, ghosts, shown, strayed, prompts>>
    BY <2>1 DEF PatchReads, PatchWrites, PatchFails
  <2>3. m \in Patches
    BY DEF Kept, TrackerKept
  <2>4. server' \in Progress
    <3>1. CASE PatchWrites(m)
      <4>1. server' = [server EXCEPT ![m.ch] = [read |-> m.read \/ m.seen = "read", page |-> m.page]]
        BY <3>1 DEF PatchWrites
      <4>2. [read |-> m.read \/ m.seen = "read", page |-> m.page] \in [read : BOOLEAN, page : Int]
        BY <2>3 DEF Patches
      <4> QED BY <4>1, <4>2 DEF Kept, TrackerKept, Progress
    <3>2. CASE PatchReads(m) \/ PatchFails(m)
      BY <3>2 DEF PatchReads, PatchFails, Kept, TrackerKept
    <3> QED BY <2>1, <3>1, <3>2
  <2>5. PICK x \in Patches : wire' \subseteq wire \cup {x} /\ x.ch = m.ch
                             /\ x.read = m.read /\ x.page = m.page
    <3>1. CASE PatchReads(m)
      <4>1. PICK n \in {"read", "unread"} : wire' = (wire \ {m}) \cup {[m EXCEPT !.seen = n]}
        BY <3>1 DEF PatchReads
      <4>2. PICK x : x = [m EXCEPT !.seen = n]
        OBVIOUS
      <4>3. x \in Patches /\ x.ch = m.ch /\ x.read = m.read /\ x.page = m.page
        BY <2>3, <4>2 DEF Patches
      <4> QED BY <4>1, <4>2, <4>3
    <3>2. CASE PatchWrites(m) \/ PatchFails(m)
      BY <2>3, <3>2 DEF PatchWrites, PatchFails
    <3> QED BY <2>1, <3>1, <3>2
  <2>6. wire' \subseteq Patches
    BY <2>5 DEF Kept, TrackerKept
  <2>7. IndexBase = 0 => \A y \in wire' : ~y.read => <<y.ch, y.page>> \in shown \cup strayed
    BY <2>5 DEF Kept, TrackerKept, SavesAreShown
  <2>8. TrackerKept'
    BY <2>2, <2>4, <2>6, <2>7 DEF Kept, TrackerKept, SavesAreShown, Tracker, View, Placed, Count
  <2> QED BY <2>2, <2>8 DEF Kept
<1> QED BY <1>1, <1>2 DEF Answers

-----------------------------------------------------------------------------
(***************************************************************************)
(* The invariant, and what follows from it                                 *)
(***************************************************************************)
LEMMA InitKept ==
    ASSUME Init
    PROVE  Kept
<1>1. StartServer \in Progress /\ [c \in Chapters |-> [read |-> FALSE, page |-> 0]] \in Progress
  BY ReaderAssumption DEF Progress
<1>2. View(view) /\ view.ch = Closed
  <2>1. View(EmptyCache) /\ EmptyCache.ch = Closed
    BY <1>1 DEF EmptyCache, View, ViewFields, NoPage
  <2>2. View(WarmCache) /\ WarmCache.ch = Closed
    BY <1>1, <2>1 DEF WarmCache, View, ViewFields
  <2> QED BY <2>1, <2>2 DEF Init
<1>3. /\ tr = FreshTracker /\ ui = FreshUi /\ wire = {} /\ prompts = 0
      /\ server = StartServer /\ ghosts = <<>>
  BY DEF Init
<1>4. tr.timer = NoTimer
  BY <1>3 DEF FreshTracker
<1>5. TrackerKept
  BY <1>1, <1>2, <1>3, <1>4, FreshTyped DEF TrackerKept, SavesAreShown, Placed
<1>6. ghosts \in Seq(Slides)
  BY <1>3
<1> QED BY <1>3, <1>5, <1>6, FreshGesture DEF Kept

LEMMA UserKept ==
    ASSUME Kept, User
    PROVE  Kept'
<1>1. CASE \/ \E c \in Chapters : Open(c)
           \/ Close \/ HandleNextChapter \/ HandlePrevChapter
           \/ \E c \in Chapters : HandleSelectChapter(c)
  BY <1>1, ChapterStepKept
<1>2. CASE \/ \E p \in AnyPage : Slider(p)
           \/ HandleScrollTop
           \/ \E m \in Modes : HandleReadingModeChange(m)
           \/ \E p \in AnyPage : Scroll(p)
  BY <1>2, FooterStepKept
<1>3. CASE \E k \in {"Left", "Right", "PageDown", "PageUp", "Home", "End", "m"} : HandleKeyDown(k)
  BY <1>3, KeyKept
<1>4. CASE \/ \E d \in {"touch", "mouse"} : HandleStart(d)
           \/ \E off \in {-2, 1, 2} : HandleMove(off)
           \/ TouchCancel
  BY <1>4, PressKept
<1>5. CASE \E z \in {"left", "centre", "right"} : TouchEnd(z)
  BY <1>5, TouchEndKept
<1>6. CASE MouseLeave \/ \E z \in {"left", "centre", "right"} : MouseUp(z)
  BY <1>6, MouseKept
<1>7. CASE MarkCompleted \/ NotNow
  BY <1>7, PromptKept
<1> QED BY <1>1, <1>2, <1>3, <1>4, <1>5, <1>6, <1>7 DEF User

LEMMA NextKept ==
    ASSUME Kept, [Next]_vars
    PROVE  Kept'
<1>1. CASE User
  BY <1>1, UserKept
<1>2. CASE Timers
  BY <1>2, SlideEndKept, GhostKept, TimerKept DEF Timers
<1>3. CASE Answers
  BY <1>3, AnswersKept
<1>4. CASE UNCHANGED vars
  <2>1. UNCHANGED <<view, tr, ui, ghosts, wire, shown, strayed, prompts, server>>
    BY <1>4 DEF vars
  <2> QED BY <2>1, UnchangedKept DEF Kept
<1> QED BY <1>1, <1>2, <1>3, <1>4 DEF Next

\* The tracker and the gesture state after every event: the inductive invariant.
THEOREM ReaderInvariant == Spec => []Kept
<1>1. Init => Kept
  BY InitKept
<1>2. Kept /\ [Next]_vars => Kept'
  BY NextKept
<1> QED BY <1>1, <1>2, PTL DEF Spec

\* A page is only saved for a chapter in which its image was on screen, whatever timers and
\* effects run when the chapter changes (useReaderProgressTracker: the three effects), but
\* for a page to which a late slide or a key in a strip moved the tracker.  The provider
\* numbers its pages from 0: from 1, the strip reports the page after the one on screen.
THEOREM SavesAreAlwaysShown ==
    ASSUME IndexBase = 0
    PROVE  Spec => []SavesAreShown
<1>1. Kept => SavesAreShown
  BY DEF Kept, TrackerKept
<1> QED BY <1>1, ReaderInvariant, PTL

\* While an animation swallows input a timer is there to end it, for every mixture of
\* touch, mouse, keys and footer (useReaderGesture).
THEOREM AnimationsEnd == Spec => []AnimationEnds
<1>1. Kept => AnimationEnds
  BY DEF Kept, Gesture, AnimationEnds
<1> QED BY <1>1, ReaderInvariant, PTL

\* The prompt to complete the manga comes at most once in a visit of a chapter
\* (useReaderProgressTracker: hasDismissedCompletion).
THEOREM PromptsOncePerVisit == Spec => []PromptOncePerVisit
<1>1. Kept => PromptOncePerVisit
  BY DEF Kept, TrackerKept, PromptOncePerVisit
<1> QED BY <1>1, ReaderInvariant, PTL

\* An action property: once a chapter is resumed no answer, of a query or to a save, moves
\* the reader (useReaderProgressTracker: hasResumed).
THEOREM AnswersNeverMovePage == Spec => AnswersKeepPage
<1>1. Kept /\ [Next]_vars => [tr.resumed /\ tr'.page # tr.page => ~Answers]_vars
  <2>1. SUFFICES ASSUME Kept, Answers, tr.resumed PROVE tr'.page = tr.page
    OBVIOUS
  <2>2. CASE PagesAnswer \/ ListAnswer \/ DetailsAnswer
    <3>1. PICK v : Commit(tr, v, {}) /\ View(v) /\ v.ch = view.ch /\ view.ch # Closed
      BY <2>1, <2>2, QueryCommits
    <3>2. tr' = Settle(tr, v).tr
      BY <3>1 DEF Commit, Render
    <3>3. Tracker(tr) /\ View(v) /\ tr.active = v.ch
      BY <2>1, <3>1 DEF Kept, TrackerKept
    <3> QED BY <2>1, <3>2, <3>3, Settled
  <2>3. CASE \E m \in wire : PatchReads(m) \/ PatchWrites(m) \/ PatchFails(m)
    BY <2>3 DEF PatchReads, PatchWrites, PatchFails
  <2> QED BY <2>1, <2>2, <2>3 DEF Answers
<1> QED BY <1>1, ReaderInvariant, PTL DEF Spec, AnswersKeepPage
=============================================================================
