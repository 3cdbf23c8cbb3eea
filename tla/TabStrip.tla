------------------------------ MODULE TabStrip ------------------------------
(***************************************************************************)
(* The tabs of the browser window (KHtmlLiteWindow, src/host/              *)
(* khtml_browser.cpp).                                                     *)
(*                                                                         *)
(* Three containers are kept in step by hand: m_pages (the TabPage         *)
(* objects), m_tabBar (the tabs the user sees and selects) and m_stack     *)
(* (a QStackedWidget with the widget of every page).  A page's widget      *)
(* changes while it lives: the surface of its renderer, a "recovering"     *)
(* placeholder, a crash page, or a tombstone once the memory budget killed *)
(* its renderer.  Every change is a removal and an insertion at the index  *)
(* of the page, so a single step out of step moves widgets between tabs.   *)
(*                                                                         *)
(* Everything runs on the GUI thread: an action is one event, with the     *)
(* slots it calls from inside (currentChanged, tabMoved) included.         *)
(* Indices are counted from 1, and 0 is Qt's -1.                           *)
(***************************************************************************)
EXTENDS Integers, Sequences, SequencesExt

CONSTANT
  Tab          (* identities a TabPage can have                            *)

ASSUME TabAssumption == Tab # {}

VARIABLES
  pages,       (* m_pages                                                  *)
  strip,       (* m_stack and m_tabBar                                     *)
  page,        (* the TabPage of every open tab                            *)
  autoRetries, (* history: renderers restarted without the user, per tab   *)
  derailed     (* history: a placeholder was deleted while m_stack held it *)

vars == <<pages, strip, page, autoRetries, derailed>>

(* The code tells a first and a second crash from later ones: 3 is 3 or     *)
(* more.                                                                    *)
CrashCount == 0..3

(* "gone" is a process that ended, or never started, without a crash        *)
(* report; "stale" is the surface of a renderer its page has replaced.      *)
Render == {"none", "running", "painted", "gone"}
Cover  == {"none", "recovery", "crash"}      \* recoveryWidget, crashWidget
Widget == [tab : Tab, kind : {"view", "stale", "recovery", "crash", "tombstone"}]

TabPage == [render : Render, cover : Cover, suspended : BOOLEAN,
            jsDisabled : BOOLEAN, crashes : CrashCount, cacheCleared : BOOLEAN]

TypeOK ==
  /\ pages \in Seq(Tab)
  /\ strip \in [stack : Seq(Widget), shown : Nat, tabs : Nat, current : Nat]
  /\ strip.shown <= Len(strip.stack) /\ strip.current <= strip.tabs
  /\ page \in [Tab -> TabPage]
  /\ autoRetries \in [Tab -> Nat]
  /\ derailed \in BOOLEAN

View(t)      == [tab |-> t, kind |-> "view"]
Recovery(t)  == [tab |-> t, kind |-> "recovery"]
Crashed(t)   == [tab |-> t, kind |-> "crash"]
Tombstone(t) == [tab |-> t, kind |-> "tombstone"]

NewPage == [render |-> "running", cover |-> "none", suspended |-> FALSE,
            jsDisabled |-> FALSE, crashes |-> 0, cacheCleared |-> FALSE]

Alive(t) == page[t].render \in {"running", "painted"}     \* isRunning()

-----------------------------------------------------------------------------
(* m_stack and m_tabBar.  Both move their current index along with removals *)
(* and insertions by the same rule; when the current entry itself goes, the *)
(* one to its right takes over.                                             *)

FaultAfterRemoval(cur, i, n) == cur     \* the index is not moved along

AfterRemoval(cur, i, n) ==
  IF i < cur \/ (i = cur /\ i = n) THEN cur - 1 ELSE cur

AfterInsertion(cur, i) == IF i <= cur \/ cur = 0 THEN cur + 1 ELSE cur

AtMost(i, n) == IF i <= n THEN i ELSE n

StackRemoved(s, i) ==
  [s EXCEPT !.stack = RemoveAt(@, i), !.shown = AfterRemoval(@, i, Len(s.stack))]

StackInserted(s, i, w) ==
  LET at == AtMost(i, Len(s.stack) + 1)
  IN [s EXCEPT !.stack = InsertAt(@, at, w), !.shown = AfterInsertion(@, at)]

(* delete of a widget: QStackedWidget drops it at once, m_tabBar does not   *)
(* know of it.                                                              *)
Deleted(s, w) ==
  IF \E i \in DOMAIN s.stack : s.stack[i] = w
  THEN StackRemoved(s, CHOOSE i \in DOMAIN s.stack : s.stack[i] = w)
  ELSE s

CoverDeleted(s, t) ==
  IF page[t].cover = "none" THEN s ELSE Deleted(s, [tab |-> t, kind |-> page[t].cover])

PageTabRemoved(s, i) ==
  IF i > Len(s.stack) THEN s
  ELSE [StackRemoved(s, i) EXCEPT
          !.tabs = @ - 1, !.current = AfterRemoval(@, i, s.tabs)]

PageTabInserted(s, i, w) ==
  [StackInserted(s, i, w) EXCEPT
     !.tabs = @ + 1, !.current = AfterInsertion(@, AtMost(i, s.tabs + 1))]

ShownAt(s, i) == [s EXCEPT !.shown = IF i <= Len(s.stack) THEN i ELSE @]

PageTabSelected(s, i) ==
  ShownAt([s EXCEPT !.current = IF i <= s.tabs THEN i ELSE @], i)

(* The widget at i gives way to w, with the signals of both blocked; what   *)
(* was the selected tab is selected again.                                  *)
FaultReplaced(s, i, w, reselect) == PageTabInserted(PageTabRemoved(s, i), i, w)

Replaced(s, i, w, reselect) ==
  LET r == PageTabInserted(PageTabRemoved(s, i), i, w)
  IN IF reselect THEN PageTabSelected(r, i) ELSE r

-----------------------------------------------------------------------------
(* resumeTab(), and the currentChanged handler that calls it.               *)

Resumed(p) == [p EXCEPT !.suspended = FALSE, !.render = "running", !.cover = "none"]

ResumedStrip(s, t, i) ==
  PageTabSelected(
    PageTabInserted(Deleted(PageTabRemoved(s, i), Tombstone(t)), i, View(t)), i)

Asleep(ps, i) == i \in DOMAIN ps /\ page[ps[i]].suspended

FaultActivated(s, ps, i) == s           \* the handler only looks at m_pages

Activated(s, ps, i) ==
  IF Asleep(ps, i) THEN ResumedStrip(ShownAt(s, i), ps[i], i) ELSE ShownAt(s, i)

FaultPagesActivated(ps, i) == page      \* the tombstone stays

PagesActivated(ps, i) ==
  IF Asleep(ps, i) THEN [page EXCEPT ![ps[i]] = Resumed(@)] ELSE page

IndexOf(t) == CHOOSE i \in DOMAIN pages : pages[i] = t

IsCurrent(t) == strip.current \in DOMAIN pages /\ pages[strip.current] = t

-----------------------------------------------------------------------------
(* What the user does.                                                      *)

FaultTabAppended(s, ps, t) ==           \* selected before m_pages grew
  PageTabSelected(PageTabInserted(s, Len(s.stack) + 1, View(t)), Len(ps))

TabAppended(s, ps, t) ==
  PageTabSelected(PageTabInserted(s, Len(s.stack) + 1, View(t)), Len(ps) + 1)

AddTab ==
  \E t \in Tab \ ToSet(pages) :
    /\ page' = [page EXCEPT ![t] = NewPage]
    /\ strip' = TabAppended(strip, pages, t)
    /\ pages' = Append(pages, t)
    /\ UNCHANGED <<autoRetries, derailed>>

(* closeTab(): removing a tab at or left of the selected one emits          *)
(* currentChanged; the widgets of the page go last.                         *)
Closed(i) ==
  LET t         == pages[i]
      rest      == RemoveAt(pages, i)
      s         == PageTabRemoved(strip, i)
      signalled == i <= strip.current /\ i <= Len(strip.stack)
      r         == IF signalled THEN Activated(s, rest, s.current) ELSE s
  IN /\ strip' = IF page[t].suspended THEN Deleted(r, Tombstone(t)) ELSE CoverDeleted(r, t)
     /\ pages' = rest
     /\ page' = [IF signalled THEN PagesActivated(rest, s.current) ELSE page
                 EXCEPT ![t] = NewPage]

CloseTab(i) ==
  /\ i \in DOMAIN pages /\ Len(pages) > 1
  /\ Closed(i)
  /\ autoRetries' = [autoRetries EXCEPT ![pages[i]] = 0]
  /\ UNCHANGED derailed

(* The window never stays empty: closing its only tab opens another one.    *)
CloseLastTab ==
  /\ Len(pages) = 1
  /\ \E t \in Tab :
       /\ page' = [page EXCEPT ![t] = NewPage]
       /\ strip' = TabAppended(PageTabRemoved(strip, 1), <<>>, t)
       /\ pages' = <<t>>
  /\ autoRetries' = [autoRetries EXCEPT ![pages[1]] = 0]
  /\ UNCHANGED derailed

SelectTab(i) ==
  /\ i \in 1..strip.tabs /\ i # strip.current
  /\ strip' = Activated([strip EXCEPT !.current = i], pages, i)
  /\ page' = PagesActivated(pages, i)
  /\ UNCHANGED <<pages, autoRetries, derailed>>

(* tabMoved, then currentChanged when the move carried the selection along. *)
MoveTab(i, j) ==
  /\ i \in DOMAIN pages /\ j \in DOMAIN pages /\ i # j
  /\ LET ps  == InsertAt(RemoveAt(pages, i), j, pages[i])
         cur == CASE strip.current = i -> j
                  [] i < strip.current /\ strip.current <= j -> strip.current - 1
                  [] j <= strip.current /\ strip.current < i -> strip.current + 1
                  [] OTHER -> strip.current
         s   == IF i > Len(strip.stack) THEN strip
                ELSE StackInserted(StackRemoved(strip, i), j, strip.stack[i])
         r   == [s EXCEPT !.current = cur]
     IN /\ pages' = ps
        /\ strip' = IF cur # strip.current THEN Activated(r, ps, cur) ELSE r
        /\ page' = IF cur # strip.current THEN PagesActivated(ps, cur) ELSE page
  /\ UNCHANGED <<autoRetries, derailed>>

(* navigate() on the selected page when its renderer does not run: a        *)
(* tombstone is resumed, a dead renderer replaced, but what the tab shows   *)
(* is left alone, and an old surface in it is not the new renderer's.       *)
NavigateDead ==
  \E t \in ToSet(pages) :
    /\ IsCurrent(t) /\ ~Alive(t)
    /\ IF page[t].suspended
       THEN /\ page' = [page EXCEPT ![t] = Resumed(@)]
            /\ strip' = ResumedStrip(strip, t, strip.current)
       ELSE /\ page' = [page EXCEPT ![t].render = "running"]
            /\ strip' = [strip EXCEPT !.stack =
                 [i \in DOMAIN @ |-> IF @[i] = View(t) THEN [@[i] EXCEPT !.kind = "stale"]
                                     ELSE @[i]]]
    /\ UNCHANGED <<pages, autoRetries, derailed>>

(* retryCrashedTab(): the button of the crash page.                         *)
Retry ==
  \E t \in ToSet(pages) :
    /\ IsCurrent(t) /\ ~page[t].suspended /\ page[t].cover = "crash" /\ ~Alive(t)
    /\ LET p == page[t]
       IN page' = [page EXCEPT ![t] =
            [p EXCEPT !.cover = "recovery", !.render = "running", !.jsDisabled = FALSE,
                      !.crashes = IF p.crashes < 2 THEN 2 ELSE p.crashes]]
    /\ strip' = Replaced(strip, IndexOf(t), Recovery(t), TRUE)
    /\ UNCHANGED <<pages, autoRetries, derailed>>

-----------------------------------------------------------------------------
(* What the renderer processes do.                                          *)

(* firstFrame, once per renderer: finishRecovery() puts its surface in the  *)
(* place of the placeholder, if the placeholder is where it should be.      *)
Recovering(t) ==
  LET i == IndexOf(t)
  IN page[t].cover = "recovery" /\ i <= Len(strip.stack) /\ strip.stack[i] = Recovery(t)

FirstFrame(t) ==
  /\ t \in ToSet(pages) /\ page[t].render = "running"
  /\ page' = [page EXCEPT ![t] =
       [@ EXCEPT !.render = "painted",
                 !.cover = IF Recovering(t) THEN "none" ELSE page[t].cover]]
  /\ strip' = IF Recovering(t)
              THEN Replaced(strip, IndexOf(t), View(t), IsCurrent(t)) ELSE strip
  /\ UNCHANGED <<pages, autoRetries, derailed>>

(* The process exits with code 0 before it is ready, or cannot be started.  *)
SilentExit(t) ==
  /\ t \in ToSet(pages) /\ page[t].render = "running"
  /\ page' = [page EXCEPT ![t].render = "gone"]
  /\ UNCHANGED <<pages, strip, autoRetries, derailed>>

(* The first crash of a page is retried without JavaScript, the second with *)
(* a cleared cache and JavaScript on; the next one shows the crash page.    *)
FaultRestarts(p) == ~p.jsDisabled \/ ~p.cacheCleared    \* crashes are not counted

Restarts(p) ==
  (p.crashes = 0 /\ ~p.jsDisabled) \/ (p.crashes = 1 /\ ~p.cacheCleared)

Crash(t) ==
  /\ t \in ToSet(pages) /\ Alive(t)
  /\ LET p    == page[t]
         auto == Restarts(p)
     IN /\ page' = [page EXCEPT ![t] =
             [p EXCEPT !.crashes = AtMost(@ + 1, 3),
                       !.render = IF auto THEN "running" ELSE "none",
                       !.cover = IF auto THEN "recovery" ELSE "crash",
                       !.jsDisabled = IF auto THEN p.crashes = 0 ELSE @,
                       !.cacheCleared = @ \/ (auto /\ p.crashes = 1)]]
        /\ strip' = Replaced(strip, IndexOf(t),
                             IF auto THEN Recovery(t) ELSE Crashed(t), IsCurrent(t))
        /\ autoRetries' = IF auto THEN [autoRetries EXCEPT ![t] = @ + 1] ELSE autoRetries
  /\ UNCHANGED <<pages, derailed>>

-----------------------------------------------------------------------------
(* checkMemoryBudget() may pick any background page: all of them under      *)
(* critical pressure, the least recently used one under a warning, one over *)
(* its budget, or one that sat idle.  A placeholder does not protect it.    *)
Evictable(t) == t \in ToSet(pages) /\ ~IsCurrent(t) /\ ~page[t].suspended

(* suspendTab(): the placeholders of the page are deleted first.            *)
Suspend(t) ==
  /\ Evictable(t)
  /\ page' = [page EXCEPT ![t] =
       [@ EXCEPT !.suspended = TRUE, !.render = "none", !.cover = "none"]]
  /\ strip' = Replaced(CoverDeleted(strip, t), IndexOf(t), Tombstone(t), FALSE)
  /\ derailed' = (derailed \/ page[t].cover # "none")
  /\ UNCHANGED <<pages, autoRetries>>

-----------------------------------------------------------------------------
Init ==
  \E t \in Tab :
    /\ pages = <<t>>
    /\ strip = [stack |-> <<View(t)>>, shown |-> 1, tabs |-> 1, current |-> 1]
    /\ page = [u \in Tab |-> NewPage]
    /\ autoRetries = [u \in Tab |-> 0]
    /\ derailed = FALSE

Next ==
  \/ AddTab \/ CloseLastTab \/ NavigateDead \/ Retry
  \/ \E i \in DOMAIN pages : CloseTab(i)
  \/ \E i \in 1..strip.tabs : SelectTab(i)
  \/ \E i, j \in DOMAIN pages : MoveTab(i, j)
  \/ \E t \in Tab : FirstFrame(t)
  \/ \E t \in Tab : SilentExit(t)
  \/ \E t \in Tab : Crash(t)
  \/ \E t \in Tab : Suspend(t)

Spec == Init /\ [][Next]_vars

-----------------------------------------------------------------------------
(* What holds until a placeholder is deleted under m_stack.                 *)

(* The kind of widget a page owns in its present state.                     *)
Owns(t, kind) ==
  IF page[t].suspended THEN kind = "tombstone"
  ELSE IF page[t].cover # "none" THEN kind = page[t].cover
  ELSE kind \in {"view", "stale"}

OneCellPerTab ==
  /\ strip.tabs = Len(pages) /\ Len(strip.stack) = Len(pages)
  /\ \A i \in DOMAIN pages :
       strip.stack[i].tab = pages[i] /\ Owns(pages[i], strip.stack[i].kind)

(* Whatever was crashed, recovered, suspended, resumed, moved or closed,    *)
(* the tab bar, the stack and the page list have the same length, and every *)
(* tab shows the one widget its own page owns.                              *)
Aligned == ~derailed => OneCellPerTab

(* The widget on the screen belongs to the selected tab, and a selected tab *)
(* is never a tombstone: closing or moving tabs wakes what it uncovers.     *)
ForegroundIsLive ==
  ~derailed => /\ strip.current \in DOMAIN pages
               /\ strip.shown = strip.current
               /\ ~page[pages[strip.current]].suspended

(* A crash, a recovery or an eviction of any tab leaves the order of the    *)
(* tabs and the user's selection as they were, although each of them takes  *)
(* a tab out of the bar and puts another one in.                            *)
SelectionKept ==
  [][(\E t \in Tab : Crash(t) \/ FirstFrame(t) \/ Suspend(t)) /\ ~derailed' =>
       /\ UNCHANGED pages
       /\ strip'.current = strip.current /\ strip'.shown = strip.shown]_vars

(* No restart loop: a page is restarted without the user at most twice in   *)
(* its life, whatever it was recovered, suspended or retried in between.    *)
AutoRetriesBounded == \A t \in Tab : autoRetries[t] <= 2

-----------------------------------------------------------------------------
(* What the user sees of m_stack: the tabs whose widgets it holds, the one  *)
(* on the screen, and those that are a tombstone.                           *)
SeenTabs(s)   == [i \in DOMAIN s.stack |-> s.stack[i].tab]
SeenFront(s)  == s.stack[s.shown].tab
SeenAsleep(s) == {t \in Tab : \E i \in DOMAIN s.stack : s.stack[i] = Tombstone(t)}

TL == INSTANCE TabList WITH open   <- SeenTabs(strip),
                            front  <- SeenFront(strip),
                            asleep <- SeenAsleep(strip)

(* What is on the screen obeys the list of tabs the user has in mind: only  *)
(* closing, selecting, moving and opening changes the order and the tab in  *)
(* front, a crash and its recovery are no change at all, and nothing but a  *)
(* tab behind is put to sleep - until a placeholder is deleted under        *)
(* m_stack.                                                                 *)
ImplementsTabList == TL!ListInit /\ [][derailed' \/ TL!ListNext]_(TL!listVars)

-----------------------------------------------------------------------------
(* What the documentation says and the code does not do.                    *)

(* ARCHITECTURE.md:9: no page crash may take the other tabs down.           *)
(* suspendTab() deletes the crash page or the placeholder of a background   *)
(* tab first, m_stack drops it, and removePageTab() then removes the widget *)
(* of the next tab.                                                         *)
CrashStaysInItsCell == OneCellPerTab
=============================================================================
