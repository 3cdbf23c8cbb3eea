-------------------------- MODULE RendererDocument --------------------------
(***************************************************************************)
(* The document in a renderer and the place on it: how RendererHost        *)
(* (src/host/khtml_renderer.cpp) feeds the engine what the page loader     *)
(* delivers, and how the scroll position survives a second feed of the     *)
(* same document and a tab that was put to sleep (RenderTab and TabPage in *)
(* src/host/khtml_browser.cpp).                                            *)
(*                                                                         *)
(* The loader is Navigation, which PageLoader implements: a navigation is  *)
(* fed once and may then be fed again, in its completed form.  Every feed  *)
(* throws the view back to the top; one slot (m_pendingRestore) holds the  *)
(* place that completed() is to scroll to, whoever put it there.           *)
(*                                                                         *)
(* Places are counted from the top, 0.  The zoom factor travels with the   *)
(* place and is left out.  Connecting and accepting is one step; commands  *)
(* before it, which are dropped, and redirects are TabNavigation's.  A     *)
(* crash loses the place and starts over, as a new tab does.               *)
(*                                                                         *)
(* `lost' remembers that a place may have been lost, in one of the ways    *)
(* named where it is set.                                                  *)
(***************************************************************************)
EXTENDS Integers, Sequences, Navigation

CONSTANTS
  Doc,           (* addresses                                              *)
  Blank,         (* the blank page of a pre-warmed renderer                *)
  Short, Long,   (* the last place of a page: without its images and style *)
                 (* sheets, and with them                                  *)
  MaxActs,       (* bound: what the user and the watchdog do               *)
  MaxRefreshes,  (* bound: second feeds of a navigation                    *)
  MaxReports     (* bound: queued reports when the state timer adds one    *)

ASSUME DocumentAssumption ==
  /\ Blank \notin Doc
  /\ Short \in Nat /\ Long \in Nat
  /\ MaxActs \in Nat /\ MaxRefreshes \in Nat /\ MaxReports \in Nat

VARIABLES
  asked,      (* m_pendingUrl                                              *)
  view,       (* the document in the engine                                *)
  feed,       (* whether completed() is still to come for it               *)
  pos,        (* contentsY()                                               *)
  slot,       (* m_pendingRestore, or Nowhere                              *)
  refreshes,  (* second feeds of this navigation                           *)
  link,       (* "none": asleep, "starting": no socket yet, "open"         *)
  owed,       (* adopted and not `ready' yet: the address is still to be sent *)
  down,       (* commands to the renderer                                  *)
  up,         (* reports to the browser                                    *)
  current,    (* the tab's address                                         *)
  saved,      (* the tab's place: scrollX, scrollY                         *)
  restore,    (* RenderTab's place to be sent on connecting, or Nowhere    *)
  acts,       (* history: number of acts                                   *)
  target,     (* history: the document the user asked for last             *)
  wanted,     (* history: and the place on it                              *)
  told,       (* history: the browser was sent this place by completed()   *)
  lost        (* history: a place may have been lost                       *)

loader   == <<nav, phase, fed, refreshes>>
engine   == <<view, feed, pos, slot>>
channel  == <<down, up>>
browser  == <<current, saved, restore, owed>>
wish     == <<target, wanted>>
vars == <<loader, asked, engine, link, channel, browser, acts, wish, told, lost>>

Nowhere == -1
Address == Doc \cup {Blank}
Place   == 0..(IF Short < Long THEN Long ELSE Short)
View    == [of : Address, form : {"empty", "initial", "final", "error"}]
Empty   == [of |-> Blank, form |-> "empty"]

Command == [cmd : {"navigate"}, url : Address] \cup [cmd : {"reload", "stop"}]
           \cup [cmd : {"restore"}, place : Place]
Report  == [type : {"ready"}] \cup [type : {"url"}, url : Address]
           \cup [type : {"state"}, place : Place]

TypeOK ==
  /\ NavTypeOK /\ refreshes \in 0..MaxRefreshes
  /\ asked \in Address /\ view \in View /\ pos \in Place
  /\ feed \in {"loading", "complete", "stopped"}
  /\ slot \in Place \cup {Nowhere} /\ restore \in Place \cup {Nowhere}
  /\ link \in {"none", "starting", "open"} /\ owed \in BOOLEAN
  /\ down \in Seq(Command) /\ up \in Seq(Report)
  /\ current \in Address /\ saved \in Place
  /\ acts \in 0..MaxActs
  /\ target \in Address /\ wanted \in Place
  /\ told \in BOOLEAN /\ lost \in BOOLEAN

-----------------------------------------------------------------------------
(* The last place of a document: a blank page and an error page fit.        *)
End(v) ==
  CASE v.of \in Doc /\ v.form = "initial" -> Short
    [] v.of \in Doc /\ v.form = "final" -> Long
    [] OTHER -> 0

Within(place, v) == IF place > End(v) THEN End(v) ELSE place

(* A navigation was asked for that the loader does not know yet, or that it *)
(* has not delivered.                                                       *)
Ordered == owed \/ \E i \in DOMAIN down : down[i].cmd = "navigate"
Coming  == Ordered \/ phase = "loading"

(* A place is on its way to the view.                                       *)
Underway ==
  slot # Nowhere \/ restore # Nowhere \/ \E i \in DOMAIN down : down[i].cmd = "restore"

Lose(happens) == lost' = (lost \/ happens)

Act == acts < MaxActs /\ acts' = acts + 1

(* sendMessage() is silent without a socket.                                *)
Reported(report) == up' = IF link = "open" THEN Append(up, report) ELSE up

-----------------------------------------------------------------------------
(* The renderer.                                                            *)

(* begin(), write(), end(): the old document is gone, with its place and    *)
(* its completed() signal.                                                  *)
Fed(form) ==
  /\ view' = [of |-> asked, form |-> form]
  /\ feed' = "loading"
  /\ pos' = 0
  /\ told' = FALSE

Unread == UNCHANGED <<view, feed, pos, told>>

(* finished(): the address is reported before the stored copy is opened; a  *)
(* copy that cannot be read leaves the old page under the new address.      *)
Finished ==
  /\ FeedInitial
  /\ refreshes' = 0
  /\ Reported([type |-> "url", url |-> asked])
  /\ \/ Fed("initial") /\ UNCHANGED lost
     \/ Unread /\ Lose(TRUE)
  /\ UNCHANGED <<asked, slot, link, down, browser, acts, wish>>

(* finished() with an error: a page of its own says so.                     *)
Failed ==
  /\ phase = "loading" /\ Error
  /\ \/ Fed("error") /\ UNCHANGED lost
     \/ Unread /\ Lose(TRUE)
  /\ wanted' = IF Ordered THEN wanted ELSE 0
  /\ UNCHANGED <<refreshes, asked, slot, link, channel, browser, acts, target>>

(* refreshed(): the place is put into the slot before the file is opened,   *)
(* and stays there if it cannot be read; closeUrl() takes back the          *)
(* completed() of the first feed, and a place that waited for it is lost.   *)
FaultRefreshed ==                      \* the place is read after begin()
  /\ FeedFinal /\ refreshes < MaxRefreshes
  /\ refreshes' = refreshes + 1
  /\ slot' = 0
  /\ Fed("final")
  /\ Lose(slot # Nowhere)
  /\ UNCHANGED <<asked, link, channel, browser, acts, wish>>

Refreshed ==
  /\ FeedFinal /\ refreshes < MaxRefreshes
  /\ refreshes' = refreshes + 1
  /\ slot' = pos
  /\ \/ Fed("final") /\ Lose(slot # Nowhere)
     \/ Unread /\ Lose(TRUE)
  /\ UNCHANGED <<asked, link, channel, browser, acts, wish>>

(* completed(), at once or after the next repaint.  The place is lost when  *)
(* the blank page of an adopted renderer takes it, or the page is shorter   *)
(* without its images than the place it is to show.                         *)
FaultCompleted ==                      \* reports before it scrolls
  /\ feed = "loading"
  /\ feed' = "complete"
  /\ pos' = IF slot = Nowhere THEN pos ELSE Within(slot, view)
  /\ slot' = Nowhere
  /\ Reported([type |-> "state", place |-> pos])
  /\ told' = (link = "open")
  /\ Lose(slot # Nowhere /\ (view.of = Blank \/ slot > End(view)))
  /\ UNCHANGED <<loader, asked, view, link, down, browser, acts, wish>>

Completed ==
  /\ feed = "loading"
  /\ feed' = "complete"
  /\ pos' = IF slot = Nowhere THEN pos ELSE Within(slot, view)
  /\ slot' = Nowhere
  /\ Reported([type |-> "state", place |-> pos'])
  /\ told' = (link = "open")
  /\ Lose(slot # Nowhere /\ (view.of = Blank \/ slot > End(view)))
  /\ UNCHANGED <<loader, asked, view, link, down, browser, acts, wish>>

(* The state timer.                                                         *)
StateTimer ==
  /\ link = "open" /\ Len(up) < MaxReports
  /\ Reported([type |-> "state", place |-> pos])
  /\ UNCHANGED <<loader, asked, engine, link, down, browser, acts, wish, told, lost>>

(* A link of the page; an address on its way from the browser has the last  *)
(* word.  A place under way is taken for the next document's.               *)
ClickLink(d) ==
  /\ link = "open" /\ view.of \in Doc /\ view.form \in {"initial", "final"}
  /\ Act /\ Start
  /\ asked' = d
  /\ IF Ordered THEN UNCHANGED wish ELSE target' = d /\ wanted' = 0
  /\ Lose(Underway)
  /\ UNCHANGED <<refreshes, engine, link, channel, browser, told>>

(* The user scrolls; a page that is about to go does not count.  A place    *)
(* under way undoes it.                                                     *)
Scroll(place) ==
  /\ link = "open" /\ view.form # "empty"
  /\ place # pos /\ place <= End(view)
  /\ Act
  /\ pos' = place
  /\ wanted' = IF Coming THEN wanted ELSE place
  /\ Lose(Underway)
  /\ told' = FALSE
  /\ UNCHANGED <<loader, asked, view, feed, slot, link, channel, browser, target>>

-----------------------------------------------------------------------------
(* onMessage().                                                             *)

(* A place in the slot is left for the document that comes.                 *)
ObeyNavigate ==
  /\ down # <<>> /\ Head(down).cmd = "navigate"
  /\ down' = Tail(down)
  /\ Start
  /\ asked' = Head(down).url
  /\ Lose(slot # Nowhere /\ asked # Blank)
  /\ UNCHANGED <<refreshes, engine, link, up, browser, acts, wish, told>>

(* The address asked for, which a stopped navigation leaves behind.         *)
ObeyReload ==
  /\ down # <<>> /\ Head(down).cmd = "reload"
  /\ down' = Tail(down)
  /\ Start
  /\ IF owed \/ \E i \in DOMAIN Tail(down) : Tail(down)[i].cmd = "navigate"
     THEN UNCHANGED wish
     ELSE target' = asked /\ wanted' = 0
  /\ Lose(slot # Nowhere)
  /\ UNCHANGED <<refreshes, asked, engine, link, up, browser, acts, told>>

(* closeUrl() keeps completed() from being decided, but not from being      *)
(* emitted once it only waits for a repaint.  A place stays in the slot.    *)
ObeyStop ==
  /\ down # <<>> /\ Head(down).cmd = "stop"
  /\ down' = Tail(down)
  /\ Stop
  /\ feed' \in IF feed = "loading" THEN {"loading", "stopped"} ELSE {feed}
  /\ IF phase = "loading" /\ ~Ordered
     THEN target' = view.of /\ wanted' = pos
     ELSE UNCHANGED wish
  /\ Lose(slot # Nowhere)
  /\ UNCHANGED <<refreshes, asked, view, pos, slot, link, up, browser, acts, told>>

(* The place comes too late when completed() has been.                      *)
ObeyRestore ==
  /\ down # <<>> /\ Head(down).cmd = "restore"
  /\ down' = Tail(down)
  /\ slot' = Head(down).place
  /\ Lose(asked # Blank /\ phase # "loading" /\ feed # "loading")
  /\ UNCHANGED <<loader, asked, view, feed, pos, link, up, browser, acts, wish, told>>

-----------------------------------------------------------------------------
(* The browser.                                                             *)

(* The socket is connected: the place goes first, whatever the renderer did *)
(* in the meantime; it says `ready', which only matters to an adopted one.  *)
FaultConnect ==                        \* m_hasRestore is not looked at
  /\ link = "starting"
  /\ link' = "open"
  /\ up' = IF owed THEN <<[type |-> "ready"]>> ELSE <<>>
  /\ restore' = Nowhere
  /\ down' = <<[cmd |-> "restore", place |-> restore]>>
  /\ UNCHANGED <<loader, asked, engine, current, saved, owed, acts, wish, told, lost>>

Connect ==
  /\ link = "starting"
  /\ link' = "open"
  /\ up' = IF owed THEN <<[type |-> "ready"]>> ELSE <<>>
  /\ restore' = Nowhere
  /\ down' = IF restore = Nowhere THEN <<>> ELSE <<[cmd |-> "restore", place |-> restore]>>
  /\ UNCHANGED <<loader, asked, engine, current, saved, owed, acts, wish, told, lost>>

ReceiveReady ==
  /\ up # <<>> /\ Head(up).type = "ready"
  /\ up' = Tail(up)
  /\ owed' = FALSE
  /\ down' = Append(down, [cmd |-> "navigate", url |-> current])
  /\ UNCHANGED <<loader, asked, engine, link, current, saved, restore, acts, wish, told, lost>>

ReceiveUrl ==
  /\ up # <<>> /\ Head(up).type = "url"
  /\ up' = Tail(up)
  /\ current' = Head(up).url
  /\ UNCHANGED <<loader, asked, engine, link, down, saved, restore, owed, acts, wish, told, lost>>

ReceiveState ==
  /\ up # <<>> /\ Head(up).type = "state"
  /\ up' = Tail(up)
  /\ saved' = Head(up).place
  /\ UNCHANGED <<loader, asked, engine, link, down, current, restore, owed, acts, wish, told, lost>>

(* navigate() of a tab.                                                     *)
EnterAddress(d) ==
  /\ link = "open" /\ Act
  /\ current' = d /\ target' = d /\ wanted' = 0
  /\ down' = Append(down, [cmd |-> "navigate", url |-> d])
  /\ Lose(Underway)
  /\ UNCHANGED <<loader, asked, engine, link, up, saved, restore, owed, told>>

PressStop ==
  /\ link = "open" /\ Act
  /\ down' = Append(down, [cmd |-> "stop"])
  /\ UNCHANGED <<loader, asked, engine, link, up, browser, wish, told, lost>>

PressReload ==
  /\ link = "open" /\ Act
  /\ down' = Append(down, [cmd |-> "reload"])
  /\ UNCHANGED <<loader, asked, engine, link, up, browser, wish, told, lost>>

(* suspendTab(): the renderer is gone, with the socket.  The place is lost  *)
(* when no report told the browser of it, or of the address.                *)
Suspend ==
  /\ link # "none" /\ Act
  /\ link' = "none" /\ down' = <<>> /\ up' = <<>>
  /\ restore' = Nowhere /\ owed' = FALSE
  /\ asked' = Blank /\ nav' = 0 /\ phase' = "idle" /\ fed' = 0 /\ refreshes' = 0
  /\ view' = Empty /\ feed' = "complete" /\ pos' = 0 /\ slot' = Nowhere /\ told' = FALSE
  /\ Lose(saved # wanted \/ current # target)
  /\ UNCHANGED <<current, saved, wish>>

(* resumeTab(): a new renderer, with the address on its command line, or an *)
(* adopted one, which got the blank page to load.                           *)
Resume(adopted) ==
  /\ link = "none"
  /\ link' = "starting"
  /\ Start
  /\ asked' = IF adopted THEN Blank ELSE current
  /\ owed' = adopted
  /\ restore' = IF saved = 0 THEN Nowhere ELSE saved
  /\ UNCHANGED <<refreshes, engine, channel, current, saved, acts, wish, told, lost>>

-----------------------------------------------------------------------------
(* A tab that was just opened.                                              *)
Init ==
  /\ current \in Doc /\ owed \in BOOLEAN
  /\ nav = 1 /\ phase = "loading" /\ fed = 0 /\ refreshes = 0
  /\ asked = IF owed THEN Blank ELSE current
  /\ view = Empty /\ feed = "complete" /\ pos = 0 /\ slot = Nowhere
  /\ link = "starting" /\ down = <<>> /\ up = <<>>
  /\ saved = 0 /\ restore = Nowhere
  /\ acts = 0 /\ target = current /\ wanted = 0
  /\ told = FALSE /\ lost = FALSE

Next ==
  \/ Finished \/ Failed \/ Refreshed \/ Completed \/ StateTimer
  \/ ObeyNavigate \/ ObeyReload \/ ObeyStop \/ ObeyRestore
  \/ Connect \/ ReceiveReady \/ ReceiveUrl \/ ReceiveState
  \/ PressReload \/ PressStop \/ Suspend
  \/ \E d \in Doc : ClickLink(d) \/ EnterAddress(d)
  \/ \E place \in Place : Scroll(place)
  \/ \E adopted \in BOOLEAN : Resume(adopted)

Spec == Init /\ [][Next]_vars

-----------------------------------------------------------------------------
(* Properties.                                                              *)

(* Nothing is under way any more.                                           *)
AtRest ==
  /\ link = "open" /\ ~Coming /\ down = <<>>
  /\ view.form # "empty" /\ feed # "loading"

Kept == view.of = target /\ pos = Within(wanted, view) /\ slot = Nowhere

(* However often the page was fed, and the tab put to sleep and woken: once *)
(* it is at rest it shows what the user asked for last, at the place where  *)
(* the user left it, and no place is left behind for the next page, unless  *)
(* one was lost in the ways named (refreshed(), completed(), the restore    *)
(* command and the tombstone).                                              *)
PlaceKept == AtRest /\ ~lost => Kept

(* From completed() until the page moves again, the browser needs no timer  *)
(* to know its place: a tab put to sleep then wakes up where it was         *)
(* (sendState() at the end of completed(), stateChanged).                   *)
PlaceIsTold ==
  told /\ (\A i \in DOMAIN up : up[i].type # "state") => saved = pos

=============================================================================
