------------------------------- MODULE Reader -------------------------------
(***************************************************************************)
(* The reader page of the web client: ReaderPage and the hooks it is made  *)
(* of (progress tracker, gesture tracker, keyboard, scroll tracker, hint), *)
(* with the queries it reads, the progress requests it sends and the       *)
(* server's handler of those requests.                                     *)
(*                                                                         *)
(* One action is one browser event: a user's input, a timer, an answer.    *)
(* React renders and runs the effects of all hooks before the next event,  *)
(* so an action ends with Settle, which runs the tracker's three effects   *)
(* in their order, and again when they changed the page.                   *)
(*                                                                         *)
(* The manga is in the library, its chapters are 1..NumChapters in list    *)
(* order.  An offset of 2 is a drag beyond the swipe threshold, 1 one      *)
(* below it (its direction does not matter); positive is to the right.     *)
(***************************************************************************)
EXTENDS Integers, Sequences, FiniteSets

CONSTANTS
    NumChapters,   \* chapters of the manga
    PageCount,     \* pages of each chapter
    IndexBase,     \* number a provider gives the first page: 0 or 1
    Devices,       \* the input devices the user has
    StartServer,   \* progress stored for each chapter at first
    StartMode,     \* reading mode stored for the manga at first
    Modes,         \* reading modes the user may choose
    MaxInputs,     \* bound: inputs of the user in a behaviour
    MaxOpens,      \* bound: times the user opens the reader
    MaxWire,       \* bound: requests under way when a save is sent
    Lossy          \* whether requests may fail

Chapters == 1 .. NumChapters
AnyPage == UNION {1 .. PageCount[c] : c \in Chapters}
Closed == 0        \* view.ch when the reader is not mounted
NoPage == 0        \* no page in the address
LastPage == -1     \* page=last in the address
NoTimer == [ch |-> 0, page |-> 0]

ASSUME ReaderAssumption ==
    /\ NumChapters \in Nat \ {0}
    /\ PageCount \in [Chapters -> Nat \ {0}]
    /\ IndexBase \in {0, 1}
    /\ Devices \subseteq {"touch", "mouse", "key", "footer", "topbar", "scroll", "mode"}
    /\ StartServer \in [Chapters -> [read : BOOLEAN, page : Nat]]
    /\ Modes \subseteq {"rtl", "ltr", "vertical", "longstrip"}
    /\ StartMode \in Modes
    /\ MaxInputs \in Nat /\ MaxOpens \in Nat /\ MaxWire \in Nat
    /\ Lossy \in BOOLEAN

VARIABLES
    view,     \* address and query cache: what a render of ReaderPage reads
    tr,       \* state and refs of useReaderProgressTracker (and the scroll tracker's)
    ui,       \* state and refs of useReaderGesture, overlays, hint, pointer
    ghosts,   \* slide timers that outlived the reader that started them
    server,   \* chapter progress stored by the server
    manga,    \* reading mode and user status stored by the server
    wire,     \* progress requests under way
    stale,    \* queries invalidated and not yet refetched
    inputs, opens,
    shown,    \* history: <<chapter, page>> whose image was on screen
    strayed,  \* history: <<chapter, page>> where the end of a slide left the tracker,
              \* with no image of that page on screen
    finished, \* history: chapters the user ended or left for the next one
    prompts   \* history: completion prompts of this visit of a chapter

vars == <<view, tr, ui, ghosts, server, manga, wire, stale, inputs, opens,
          shown, strayed, finished, prompts>>

-----------------------------------------------------------------------------
(* What a render derives from the queries.                                 *)

Count(v) == IF v.ch \in v.pages THEN PageCount[v.ch] ELSE 0

\* Both are FALSE while the chapter list is not there: findIndex gives -1.
HasNext(v) == v.list /\ v.ch # Closed /\ v.ch < NumChapters
HasPrev(v) == v.list /\ v.ch > 1

IsChapterRead(v) == v.list /\ v.cached[v.ch].read
ChapterLastReadPage(v) == IF v.list THEN v.cached[v.ch].page ELSE 0

\* The mode of a manga whose details are not there yet is rtl.
ReadingMode(v) == IF v.mode = "none" THEN "rtl" ELSE v.mode
IsPaged(v) == ReadingMode(v) \in {"rtl", "ltr"}

\* The image on screen when the tracker is at page p: none beyond the chapter
\* in a paged mode.  In a continuous mode the strip is scrolled to element
\* p - 1 of pageRefs, which holds image p - IndexBase, or to the top; where a
\* slide moved the tracker the strip was not scrolled.
OnScreen(v, p, astray) ==
    LET image == IF IsPaged(v) \/ p = 1 THEN p ELSE p - IndexBase
    IN  {q \in 1 .. Count(v) : q = image /\ (IsPaged(v) \/ <<v.ch, p>> \notin astray)}

Clamp(p, n) == IF p < 1 THEN 1 ELSE IF p > n THEN n ELSE p

-----------------------------------------------------------------------------
(* useReaderProgressTracker.                                               *)

FreshTracker == [page |-> 1, active |-> Closed, marked |-> FALSE, resumed |-> FALSE,
                 dismissed |-> FALSE, timer |-> NoTimer, dialog |-> FALSE, reported |-> 1]

\* A progress request: is_read is TRUE or left out, last_read_page is always
\* there.  "seen" is what the server's handler found in place of is_read.
Patch(c, read, p) == [ch |-> c, read |-> read, page |-> p, seen |-> "nothing"]

\* The page in the address, else the stored page of an unread chapter, else 1.
ResumeTarget(v) ==
    CASE v.search = LastPage -> Count(v)
      [] v.search \notin {LastPage, NoPage} -> Clamp(v.search, Count(v))
      [] v.search = NoPage /\ ~IsChapterRead(v) /\ ChapterLastReadPage(v) > 1
           -> Clamp(ChapterLastReadPage(v), Count(v))
      [] OTHER -> 1

\* First effect: a new chapter resets the refs, never the page.
ResetEffect(t, v) ==
    IF t.active = v.ch THEN t
    ELSE [t EXCEPT !.active = v.ch, !.marked = IsChapterRead(v), !.resumed = FALSE,
                   !.dismissed = FALSE, !.timer = NoTimer]

PromptDueAlways(t, v) == ~HasNext(v) /\ v.status = "reading"

\* The prompt of the third effect, for a chapter with no next one in the list.
PromptDue(t, v) == ~t.marked /\ ~HasNext(v) /\ ~t.dismissed /\ v.status = "reading"

SavedPageIndex(t) == t.page - 1

\* last_read_page counts from 1, as the state does.
SavedPage(t) == t.page

\* Third effect, for the page t.page of the render it belongs to.
SaveEffect(t, v) ==
    LET prompt == PromptDue(t, v) IN
    CASE Count(v) = 0 \/ ~t.resumed -> [tr |-> t, sent |-> {}]
      [] Count(v) # 0 /\ t.resumed /\ t.page = Count(v) ->
           [tr |-> [t EXCEPT !.timer = NoTimer, !.marked = TRUE,
                             !.dismissed = @ \/ prompt, !.dialog = @ \/ prompt],
            sent |-> IF t.marked THEN {} ELSE {Patch(v.ch, TRUE, t.page)}]
      [] OTHER -> [tr |-> [t EXCEPT !.timer = [ch |-> v.ch, page |-> SavedPage(t)]], sent |-> {}]

\* The effect's cleanup before it runs again, and at unmount.
Cleanup(t) == [t EXCEPT !.timer = NoTimer]

ResumesAgain(t, v) == Count(v) > 0

\* A chapter is resumed once, when its pages are there.
Resumes(t, v) == Count(v) > 0 /\ ~t.resumed

\* Second effect: where a chapter whose pages just arrived is resumed.  The
\* third effect runs in the same commit, still with the page of before.
ResumeEffect(t, v) ==
    IF ~Resumes(t, v) THEN [tr |-> t, goto |-> t.page]
    ELSE [tr |-> [t EXCEPT !.resumed = TRUE,
                           !.reported = IF ~IsPaged(v) /\ ResumeTarget(v) > 1
                                        THEN ResumeTarget(v) ELSE @],
          goto |-> ResumeTarget(v)]

\* All effects of one event: the commit with the old page and, when the
\* resume effect moved it, the commit with the new one.
Settle(t, v) ==
    IF v.ch = Closed THEN [tr |-> Cleanup(t), sent |-> {}]
    ELSE LET r == ResumeEffect(ResetEffect(Cleanup(t), v), v)
             one == SaveEffect(r.tr, v)
             two == SaveEffect([Cleanup(one.tr) EXCEPT !.page = r.goto], v)
         IN  IF r.goto = r.tr.page THEN one
             ELSE [tr |-> two.tr, sent |-> one.sent \cup two.sent]

\* The event ends: the tracker is t, the render reads v, and the requests in
\* extra were sent by the handler itself.
Render(t, v, extra) ==
    \E s \in {Settle(t, v)} :
    /\ view' = v
    /\ tr' = s.tr
    /\ wire' = wire \cup s.sent \cup extra
    /\ shown' = shown \cup
                {<<v.ch, q>> : q \in IF v.ch # Closed /\ s.tr.resumed
                                    THEN OnScreen(v, s.tr.page, strayed') ELSE {}}
    /\ finished' = finished
         \cup {c \in {v.ch} \ {Closed} : s.tr.resumed /\ s.tr.page = Count(v)}
         \cup {m.ch : m \in {x \in extra : v.ch # view.ch}}
    /\ prompts' = LET opened == s.tr.dialog /\ ~t.dialog IN
                  (IF v.ch # view.ch THEN 0 ELSE prompts) + (IF opened THEN 1 ELSE 0)

\* As above, for every event but the end of a slide that turns a page.
Commit(t, v, extra) == strayed' = strayed /\ Render(t, v, extra)

\* markChapterRead: the ref is set whatever chapter it is called for.
MarkChapterRead(t) == [t EXCEPT !.marked = TRUE]

-----------------------------------------------------------------------------
(* The gesture tracker.                                                    *)

FreshUi == [anim |-> FALSE, slides |-> <<>>, offset |-> 0, held |-> FALSE,
            didDrag |-> FALSE, undrag |-> 0, pointer |-> "up", overlays |-> TRUE,
            hint |-> FALSE, hintMode |-> "none"]

\* What the timer's callback closes over: the render that started it.
Slide(kind) == [kind |-> kind, ch |-> view.ch, page |-> tr.page, pages |-> Count(view)]

\* A 220 ms timer; they end in the order they were started in.
StartSlide(u, s, off) ==
    [u EXCEPT !.anim = TRUE, !.offset = off, !.slides = Append(@, s)]

SpringBackAtOnce(u) == [u EXCEPT !.anim = TRUE, !.offset = 0]

SpringBack(u) == StartSlide(u, [kind |-> "spring", ch |-> Closed, page |-> NoPage, pages |-> 0], 0)

Forward == IF ReadingMode(view) = "rtl" THEN 2 ELSE -2

\* goToNextPage: the gesture state it leaves, the tracker, the requests.
NextPageUi(u) ==
    CASE u.anim -> u
      [] ~u.anim /\ tr.page < Count(view) -> StartSlide(u, Slide("turn"), Forward)
      [] ~u.anim /\ tr.page >= Count(view) /\ HasNext(view)
           -> StartSlide(u, Slide("next"), Forward)
      [] OTHER -> u

MarksAtEnd(u) == ~u.anim /\ tr.page >= Count(view)

\* goToPrevPage.
PrevPageUi(u) ==
    CASE u.anim -> u
      [] ~u.anim /\ tr.page > 1 -> StartSlide(u, Slide("back"), -Forward)
      [] ~u.anim /\ tr.page <= 1 /\ HasPrev(view)
           -> StartSlide(u, Slide("prev"), -Forward)
      [] OTHER -> u

\* What an input asks for, and the gesture state its handler leaves.
InputUi(kind, u) ==
    CASE kind = "next" -> NextPageUi(u)
      [] kind = "prev" -> PrevPageUi(u)
      [] kind = "overlays" -> [u EXCEPT !.overlays = ~@]
      [] OTHER -> u

\* The handler as a whole; at the end of a chapter "next" marks it read.
Do(kind, u, after(_)) ==
    LET mark == kind = "next" /\ MarksAtEnd(u) IN
    /\ ui' = after(InputUi(kind, u))
    /\ Commit(IF mark THEN MarkChapterRead(tr) ELSE tr, view,
              IF mark THEN {Patch(view.ch, TRUE, Count(view))} ELSE {})

Same(u) == u
ZeroOffset(u) == [u EXCEPT !.offset = 0]

\* The hint is shown when the reader mounts and when the mode changes.
ShowHint(u, v) ==
    IF u.hintMode = ReadingMode(v) THEN u
    ELSE [u EXCEPT !.hint = TRUE, !.hintMode = ReadingMode(v)]

\* Navigation to a chapter; it mounts the reader when it is closed.
Goto(c, s, extra, t, u) ==
    LET v == [view EXCEPT !.ch = c, !.search = s] IN
    /\ ui' = IF view.ch = Closed THEN ShowHint(FreshUi, v) ELSE u
    /\ Commit(IF view.ch = Closed THEN FreshTracker ELSE t, v, extra)

-----------------------------------------------------------------------------
\* A link or a reload finds nothing in the query cache; the details page
\* leaves the chapter list and the details there.
EmptyCache == [ch |-> Closed, search |-> NoPage, list |-> FALSE, pages |-> {},
               cached |-> [c \in Chapters |-> [read |-> FALSE, page |-> 0]],
               mode |-> "none", status |-> "none"]
WarmCache == [EmptyCache EXCEPT !.list = TRUE, !.cached = StartServer,
                                !.mode = StartMode, !.status = "reading"]

Init ==
    /\ view \in {EmptyCache, WarmCache}
    /\ tr = FreshTracker
    /\ ui = FreshUi
    /\ ghosts = <<>>
    /\ server = StartServer
    /\ manga = [mode |-> StartMode, status |-> "reading"]
    /\ wire = {}
    /\ stale = {}
    /\ inputs = 0 /\ opens = 0
    /\ shown = {} /\ strayed = {} /\ finished = {} /\ prompts = 0

\* The user may act: the completion prompt is modal.
Input(device) ==
    /\ device \in Devices
    /\ view.ch # Closed /\ ~tr.dialog
    /\ inputs < MaxInputs
    /\ inputs' = inputs + 1

\* Pointer input reaches the page, not the hint that covers it.
Pointer(device) == Input(device) /\ ~ui.hint

Idle == UNCHANGED <<ghosts, server, manga, stale, opens>>

-----------------------------------------------------------------------------
(* Opening and closing.                                                    *)

Open(c) ==
    /\ view.ch = Closed
    /\ opens < MaxOpens
    /\ opens' = opens + 1
    /\ Goto(c, NoPage, {}, tr, ui)
    /\ UNCHANGED <<ghosts, server, manga, stale, inputs>>

\* Unmounting clears the save timer; the slide timers run on.
Close ==
    /\ Pointer("topbar") /\ ui.overlays
    /\ ghosts' = ghosts \o ui.slides
    /\ ui' = FreshUi
    /\ Commit(FreshTracker, [view EXCEPT !.ch = Closed, !.search = NoPage], {})
    /\ UNCHANGED <<server, manga, stale, opens>>

(* The top bar's buttons, the boundary cards and the chapter drawer.       *)

HandleNextChapter ==
    /\ Pointer("topbar") /\ ui.overlays /\ HasNext(view)
    /\ LET t == MarkChapterRead(tr) IN
       Goto(view.ch + 1, NoPage, {Patch(view.ch, TRUE, Count(view))}, t, ui)
    /\ Idle

HandlePrevChapter ==
    /\ Pointer("topbar") /\ ui.overlays /\ HasPrev(view)
    /\ Goto(view.ch - 1, LastPage, {}, tr, ui)
    /\ Idle

HandleSelectChapter(c) ==
    /\ Pointer("topbar") /\ ui.overlays /\ view.list
    /\ Goto(c, NoPage, {}, tr, ui)
    /\ Idle

-----------------------------------------------------------------------------
(* The footer.                                                             *)

\* handlePageChange ends an animation but not its timer.
HandlePageChange(p) ==
    /\ ui' = IF p = tr.page THEN ui ELSE [ui EXCEPT !.offset = 0, !.anim = FALSE]
    /\ Commit([tr EXCEPT !.page = p], [view EXCEPT !.search = p], {})

Footer == Pointer("footer") /\ ui.overlays /\ Count(view) > 0

\* The slider's value is inverted in a right-to-left manga.
Slider(val) ==
    /\ Footer /\ val \in 1 .. Count(view)
    /\ HandlePageChange(IF ReadingMode(view) = "rtl" THEN Count(view) - val + 1 ELSE val)
    /\ Idle

\* In a continuous mode it only scrolls, which is an event of its own.
HandleScrollTop ==
    /\ Footer /\ IsPaged(view) /\ tr.page # 1
    /\ ui' = [ui EXCEPT !.offset = 0, !.anim = FALSE]
    /\ Commit([tr EXCEPT !.page = 1], view, {})
    /\ Idle

HandleReadingModeChange(m) ==
    /\ "mode" \in Devices /\ Footer
    /\ ui' = [ui EXCEPT !.hint = FALSE]
    /\ manga' = [manga EXCEPT !.mode = m]
    /\ stale' = stale \cup {"details"}
    /\ Commit(tr, view, {})
    /\ UNCHANGED <<ghosts, server, opens>>

-----------------------------------------------------------------------------
(* Keyboard.                                                               *)

NextKeys == {"PageDown", "Space"} \cup IF ReadingMode(view) = "rtl" THEN {"Left"} ELSE {"Right"}
PrevKeys == {"PageUp", "ShiftSpace"} \cup IF ReadingMode(view) = "rtl" THEN {"Right"} ELSE {"Left"}

\* The handler is there while the pages load, too.
HandleKeyDown(k) ==
    /\ Input("key")
    /\ \/ k \in NextKeys /\ Do("next", ui, Same)
       \/ k \in PrevKeys /\ Do("prev", ui, Same)
       \/ k = "Home" /\ HandlePageChange(1)
       \/ k = "End" /\ HandlePageChange(Count(view))
       \/ k = "m" /\ Do("overlays", ui, Same)
    /\ Idle

-----------------------------------------------------------------------------
(* Touch and mouse on the paged view, whose three zones cover it.          *)

OnPage(device) ==
    /\ device \in Devices
    /\ view.ch # Closed /\ ~tr.dialog /\ ~ui.hint
    /\ IsPaged(view) /\ Count(view) > 0

\* handleStart: while an animation runs the press is not tracked.
HandleStart(device) ==
    /\ Pointer(device) /\ OnPage(device) /\ ui.pointer = "up"
    /\ ui' = IF ui.anim THEN [ui EXCEPT !.pointer = device]
             ELSE [ui EXCEPT !.pointer = device, !.held = TRUE, !.didDrag = FALSE, !.offset = 0]
    /\ Commit(tr, view, {})
    /\ Idle

HandleMove(off) ==
    /\ ui.pointer # "up" /\ OnPage(ui.pointer)
    /\ ui.held /\ ~ui.anim /\ off # ui.offset
    /\ ui' = [ui EXCEPT !.didDrag = TRUE, !.offset = off]
    /\ Commit(tr, view, {})
    /\ UNCHANGED inputs /\ Idle

Up(u) == [u EXCEPT !.pointer = "up"]

\* What a tap in a zone asks for; a drag or an animation swallows it.
ZoneKind(z, u) ==
    CASE u.didDrag \/ u.anim -> "none"
      [] ~(u.didDrag \/ u.anim) /\ z = "centre" -> "overlays"
      [] ~(u.didDrag \/ u.anim) /\ z = (IF ReadingMode(view) = "rtl" THEN "left" ELSE "right")
           -> "next"
      [] OTHER -> "prev"

\* A zone's onTouchEnd stops the event, so the container's handleEnd does not
\* see it.  After a tap at a side the browser replays it as a mouse click,
\* whose mouse-up runs handleEnd; after a drag or in the centre it does not.
TouchEnd(z) ==
    /\ ui.pointer = "touch" /\ OnPage("touch")
    /\ LET replayed == z # "centre" /\ ~ui.didDrag IN
       Do(ZoneKind(z, ui), Up(ui),
          LAMBDA u : IF replayed /\ u.held THEN [u EXCEPT !.held = FALSE, !.offset = 0] ELSE u)
    /\ UNCHANGED inputs /\ Idle

\* handleCancel.
TouchCancel ==
    /\ ui.pointer = "touch" /\ OnPage("touch")
    /\ ui' = [Up(ui) EXCEPT !.held = FALSE, !.offset = 0, !.undrag = @ + 1]
    /\ Commit(tr, view, {})
    /\ UNCHANGED inputs /\ Idle

\* handleEnd of a drag: a turn in the direction of the drag, or back.
HandleEnd(u) ==
    LET isNext == IF ReadingMode(view) = "rtl" THEN u.offset > 0 ELSE u.offset < 0
        far == u.offset \in {-2, 2}
        can == IF isNext THEN tr.page < Count(view) \/ HasNext(view)
                         ELSE tr.page > 1 \/ HasPrev(view)
    IN  CASE far /\ can /\ isNext -> Do("next", u, Same)
          [] far /\ can /\ ~isNext -> Do("prev", u, Same)
          [] OTHER -> Do("none", u, SpringBack)

\* The mouse button goes up: handleEnd, then the click on the zone, which a
\* drag or an animation swallows.
MouseUp(z) ==
    /\ ui.pointer = "mouse" /\ OnPage("mouse")
    /\ LET u == [Up(ui) EXCEPT !.held = FALSE] IN
       IF ui.held /\ ui.didDrag /\ ~ui.anim THEN HandleEnd(u)
       ELSE Do(ZoneKind(z, ui), IF ui.held THEN ZeroOffset(u) ELSE u, Same)
    /\ UNCHANGED inputs /\ Idle

\* onMouseLeave: handleEnd without a click.
MouseLeave ==
    /\ ui.pointer = "mouse" /\ OnPage("mouse") /\ ui.held
    /\ LET u == [Up(ui) EXCEPT !.held = FALSE] IN
       IF ui.didDrag /\ ~ui.anim THEN HandleEnd(u)
       ELSE Do("none", u, ZeroOffset)
    /\ UNCHANGED inputs /\ Idle

-----------------------------------------------------------------------------
(* Continuous modes: the page at the middle of the screen.                 *)

\* Image p is element p - 1 + IndexBase of pageRefs; the tracker reports the
\* element's position plus one when it differs from the last report.
Scroll(p) ==
    /\ Pointer("scroll") /\ ~IsPaged(view) /\ p \in 1 .. Count(view)
    /\ p + IndexBase # tr.reported
    /\ ui' = ui
    /\ Commit([tr EXCEPT !.page = p + IndexBase, !.reported = p + IndexBase], view, {})
    /\ Idle

-----------------------------------------------------------------------------
(* Timers.                                                                 *)

\* setCurrentPage(prev => prev + d) at the end of slide s, whatever moved the
\* reader since.  In a paged mode a slide that ends late may leave the tracker
\* at a page the chapter does not have; in a continuous one, where keys turn
\* pages too, nothing scrolls.
Turn(s, d) ==
    LET p == tr.page + d
        late == view.ch # s.ch \/ tr.page # s.page \/ <<view.ch, tr.page>> \in strayed
        off == ~IsPaged(view) \/ (late /\ p \notin 1 .. Count(view))
    IN  /\ strayed' = IF off THEN strayed \cup {<<view.ch, p>>} ELSE strayed
        /\ Render([tr EXCEPT !.page = p], view, {})

\* The end of a slide or of a spring-back.
SlideEnd ==
    /\ ui.slides # <<>>
    /\ LET s == Head(ui.slides)
           rest == [ui EXCEPT !.slides = Tail(@), !.anim = FALSE]
           done == [rest EXCEPT !.offset = 0, !.undrag = @ + 1]
       IN  \/ /\ s.kind = "turn"
              /\ ui' = done
              /\ Turn(s, 1)
           \/ /\ s.kind = "back"
              /\ ui' = done
              /\ Turn(s, -1)
           \/ /\ s.kind = "spring"
              /\ ui' = [rest EXCEPT !.didDrag = FALSE]
              /\ Commit(tr, view, {})
           \/ /\ s.kind = "next"
              /\ Goto(s.ch + 1, NoPage, {Patch(s.ch, TRUE, s.pages)}, MarkChapterRead(tr), done)
           \/ /\ s.kind = "prev"
              /\ Goto(s.ch - 1, LastPage, {}, tr, done)
    /\ UNCHANGED <<ghosts, server, manga, stale, inputs, opens>>

\* A slide whose reader was closed: its state is gone, its navigation is not.
GhostSlideEnd ==
    /\ ghosts # <<>>
    /\ ghosts' = Tail(ghosts)
    /\ LET s == Head(ghosts) IN
       \/ /\ s.kind = "next"
          /\ Goto(s.ch + 1, NoPage, {Patch(s.ch, TRUE, s.pages)}, tr, ui)
       \/ /\ s.kind = "prev"
          /\ Goto(s.ch - 1, LastPage, {}, tr, ui)
       \/ /\ s.kind \notin {"next", "prev"}
          /\ UNCHANGED <<view, tr, ui, wire, shown, strayed, finished, prompts>>
    /\ UNCHANGED <<server, manga, stale, inputs, opens>>

UndragTimerRepeats ==
    /\ ui' = [ui EXCEPT !.undrag = @ - 1, !.didDrag = FALSE]
    /\ UNCHANGED <<view, tr, ghosts, server, manga, wire, stale, inputs, opens,
                   shown, strayed, finished, prompts>>

\* 50 ms after a slide, 100 ms after a cancelled touch.
UndragTimer ==
    /\ ui.undrag > 0
    /\ ui' = [ui EXCEPT !.undrag = @ - 1, !.didDrag = FALSE]
    /\ UNCHANGED <<view, tr, ghosts, server, manga, wire, stale, inputs, opens,
                   shown, strayed, finished, prompts>>

SaveTimerOnce ==
    /\ tr.timer # NoTimer
    /\ Cardinality(wire) < MaxWire
    /\ tr' = Cleanup(tr)
    /\ wire' = wire \cup {Patch(tr.timer.ch, FALSE, tr.timer.page)}
    /\ UNCHANGED <<view, ui, ghosts, server, manga, stale, inputs, opens,
                   shown, strayed, finished, prompts>>

\* 1.5 s without a render.  The request renders the page again, and the
\* effect depends on a callback made anew by each render: the timer is back.
SaveTimer ==
    /\ tr.timer # NoTimer
    /\ Cardinality(wire) < MaxWire
    /\ ui' = ui
    /\ Commit(tr, view, {Patch(tr.timer.ch, FALSE, tr.timer.page)})
    /\ UNCHANGED <<ghosts, server, manga, stale, inputs, opens>>

\* Two seconds, or a click on the hint.
DismissHint ==
    /\ ui.hint
    /\ ui' = [ui EXCEPT !.hint = FALSE]
    /\ Commit(tr, view, {})
    /\ UNCHANGED <<ghosts, server, manga, stale, inputs, opens>>

-----------------------------------------------------------------------------
(* The completion prompt.                                                  *)

MarkCompleted ==
    /\ tr.dialog
    /\ manga' = [manga EXCEPT !.status = "completed"]
    /\ stale' = stale \cup {"details"}
    /\ ui' = ui
    /\ Commit([tr EXCEPT !.dialog = FALSE], view, {})
    /\ UNCHANGED <<ghosts, server, inputs, opens>>

NotNow ==
    /\ tr.dialog
    /\ ui' = ui
    /\ Commit([tr EXCEPT !.dialog = FALSE], view, {})
    /\ UNCHANGED <<ghosts, server, manga, stale, inputs, opens>>

-----------------------------------------------------------------------------
(* Answers, in any order.                                                  *)

PagesAnswer ==
    /\ view.ch # Closed /\ view.ch \notin view.pages
    /\ ui' = ui
    /\ Commit(tr, [view EXCEPT !.pages = @ \cup {view.ch}], {})
    /\ UNCHANGED <<ghosts, server, manga, stale, inputs, opens>>

ListAnswer ==
    /\ view.ch # Closed
    /\ ~view.list \/ "list" \in stale
    /\ stale' = stale \ {"list"}
    /\ ui' = ui
    /\ Commit(tr, [view EXCEPT !.list = TRUE, !.cached = server], {})
    /\ UNCHANGED <<ghosts, server, manga, inputs, opens>>

DetailsAnswer ==
    /\ view.ch # Closed
    /\ view.mode = "none" \/ "details" \in stale
    /\ stale' = stale \ {"details"}
    /\ LET v == [view EXCEPT !.mode = manga.mode, !.status = manga.status] IN
       /\ ui' = ShowHint(ui, v)
       /\ Commit(tr, v, {})
    /\ UNCHANGED <<ghosts, server, manga, inputs, opens>>

(* The server's handler of a progress request: it reads the chapter, fills *)
(* in the fields the request leaves out, and writes both fields back.      *)

PatchReads(m) ==
    /\ ~m.read /\ m.seen = "nothing"
    /\ wire' = (wire \ {m}) \cup
               {[m EXCEPT !.seen = IF server[m.ch].read THEN "read" ELSE "unread"]}
    /\ UNCHANGED <<view, tr, ui, ghosts, server, manga, stale, inputs, opens,
                   shown, strayed, finished, prompts>>

\* A request with both fields overwrites whatever was read.
PatchWrites(m) ==
    /\ m.read \/ m.seen # "nothing"
    /\ wire' = wire \ {m}
    /\ server' = [server EXCEPT ![m.ch] = [read |-> m.read \/ m.seen = "read", page |-> m.page]]
    /\ stale' = stale \cup {"list", "details"}
    /\ UNCHANGED <<view, tr, ui, ghosts, manga, inputs, opens,
                   shown, strayed, finished, prompts>>

\* A request that fails is not repeated, and invalidates nothing.
PatchFails(m) ==
    /\ Lossy
    /\ wire' = wire \ {m}
    /\ UNCHANGED <<view, tr, ui, ghosts, server, manga, stale, inputs, opens,
                   shown, strayed, finished, prompts>>

-----------------------------------------------------------------------------
User ==
    \/ \E c \in Chapters : Open(c)
    \/ Close
    \/ HandleNextChapter
    \/ HandlePrevChapter
    \/ \E c \in Chapters : HandleSelectChapter(c)
    \/ \E p \in AnyPage : Slider(p)
    \/ HandleScrollTop
    \/ \E m \in Modes : HandleReadingModeChange(m)
    \/ \E k \in {"Left", "Right", "PageDown", "PageUp", "Home", "End", "m"} : HandleKeyDown(k)
    \/ \E d \in {"touch", "mouse"} : HandleStart(d)
    \/ \E off \in {-2, 1, 2} : HandleMove(off)
    \/ \E z \in {"left", "centre", "right"} : TouchEnd(z) \/ MouseUp(z)
    \/ TouchCancel
    \/ MouseLeave
    \/ \E p \in AnyPage : Scroll(p)
    \/ MarkCompleted
    \/ NotNow

Timers == SlideEnd \/ GhostSlideEnd \/ UndragTimer \/ SaveTimer \/ DismissHint

Answers ==
    \/ PagesAnswer
    \/ ListAnswer
    \/ DetailsAnswer
    \/ \E m \in wire : PatchReads(m) \/ PatchWrites(m) \/ PatchFails(m)

Next == User \/ Timers \/ Answers

Spec == Init /\ [][Next]_vars

\* Timers end and answers come; a request made again and again is served in
\* the end; the user owes nothing.
FairSpec ==
    /\ Spec
    /\ WF_vars(SlideEnd) /\ WF_vars(GhostSlideEnd) /\ WF_vars(UndragTimer)
    /\ WF_vars(SaveTimer) /\ WF_vars(DismissHint)
    /\ WF_vars(PagesAnswer) /\ WF_vars(ListAnswer) /\ WF_vars(DetailsAnswer)
    /\ SF_vars(\E m \in wire : PatchReads(m)) /\ SF_vars(\E m \in wire : PatchWrites(m))

-----------------------------------------------------------------------------
(* Properties.                                                             *)

TypeOK ==
    /\ view.ch \in Chapters \cup {Closed} /\ view.search \in Int
    /\ view.pages \subseteq Chapters
    /\ tr.page \in Int /\ tr.active \in Chapters \cup {Closed}
    /\ tr.timer = NoTimer \/ tr.timer.ch \in Chapters
    /\ ui.offset \in -2 .. 2 /\ ui.undrag \in Nat
    /\ server \in [Chapters -> [read : BOOLEAN, page : Int]]
    /\ wire \subseteq [ch : Chapters, read : BOOLEAN, page : Int,
                      seen : {"nothing", "read", "unread"}]

\* A page is only saved for a chapter in which its image was on screen: the
\* timer of one chapter never stores its page for another, nor the page the
\* tracker had before the resume.  What the code does not promise is left out:
\* a page where a slide left the tracker off the screen, because it ended late
\* (ReaderPage: setTimeout without a cleanup) or in a continuous mode.
SavesAreShown ==
    /\ tr.timer # NoTimer => <<tr.timer.ch, tr.timer.page>> \in shown \cup strayed
    /\ \A m \in wire : ~m.read => <<m.ch, m.page>> \in shown \cup strayed

\* While an animation swallows input, a timer is there to end it.
AnimationEnds == ui.anim => ui.slides # <<>>

\* The prompt to complete the manga comes at most once a visit.
PromptOncePerVisit == prompts <= 1

\* Once a chapter is resumed no answer moves the reader.
AnswersKeepPage == [][tr.resumed /\ tr'.page # tr.page => ~Answers]_vars

\* A chapter is marked read only when its last page was on screen or the user
\* left it for the next one.
ReadOnlyIfFinished ==
    \A c \in Chapters : server[c].read => c \in finished \/ StartServer[c].read

\* A reader left alone on a page short of the last has that page stored, for
\* good, whatever requests were lost on the way.
EventuallySaved ==
    \A c \in Chapters, p \in AnyPage :
        <>[](view.ch = c /\ tr.page = p /\ tr.resumed /\ p < PageCount[c])
            => <>[](server[c].page = p)

=============================================================================
