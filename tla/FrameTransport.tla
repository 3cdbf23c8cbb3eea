--------------------------- MODULE FrameTransport ---------------------------
(***************************************************************************)
(* How the picture of a page gets from the renderer to the browser:        *)
(* RendererHost::grabFrame() (src/host/khtml_renderer.cpp) turns damage    *)
(* into tiles of a shared segment, RenderTab (src/host/khtml_browser.cpp)  *)
(* composes them into its canvas, and both sides shift what they hold when *)
(* the page scrolls.                                                       *)
(*                                                                         *)
(* The page and its frame are one tile wide and the viewport keeps its     *)
(* size, so an image is a colour per row and only vertical scrolling is    *)
(* described.  A tile's hash is its content.  The engine reports damage in *)
(* viewport rows and none for a scroll (KHTMLView::scrollContentsBy()).    *)
(*                                                                         *)
(* Some paths of the code lose pixels for good.  The history `faults'      *)
(* records which of them were taken; the properties say what holds when    *)
(* none was, and the runs that expect a violation what happens otherwise.  *)
(***************************************************************************)
EXTENDS Integers, Sequences, FiniteSets

CONSTANTS
  H,          (* rows of the viewport                                      *)
  T,          (* rows of a tile                                            *)
  Length,     (* rows of a page                                            *)
  Fixed,      (* viewport rows covered by a position:fixed element         *)
  Pixel,
  White,
  Documents,  (* the pages that can be loaded                              *)
  None,       (* no image; a tile whose content is unknown                 *)
  MaxActs     (* bound: events from outside this protocol                  *)

ASSUME FrameAssumption ==
  /\ H \in Nat \ {0} /\ T \in Nat \ {0}
  /\ Length \in Nat /\ Length >= H
  /\ Fixed \subseteq 0..(H - 1)
  /\ Documents \subseteq [page : [0..(Length - 1) -> Pixel], pinned : [Fixed -> Pixel]]
  /\ White \in Pixel /\ \A S \in SUBSET (0..(H - 1)) : None \notin [S -> Pixel]
  /\ MaxActs \in Nat

VARIABLES
  page, pinned, scroll,      (* engine: content, fixed element, contentsY  *)
  visible,                   (* renderer: m_visible                        *)
  dirty,                     (* m_dirtyRegion                              *)
  wheel,                     (* m_hasPendingWheel                          *)
  lastScroll,                (* m_lastCY                                   *)
  lastFrame,                 (* m_lastFrame                                *)
  hashes,                    (* m_tileHashes                               *)
  deferred,                  (* the convergence timer of the newest epoch  *)
  segment,                   (* shared memory: the listed tiles            *)
  connected, down, up,       (* the socket, and what is on its way         *)
  canvas, base, preview,     (* browser: m_canvas, m_baseCY, m_previewDY   *)
  acts, faults               (* history                                    *)

engine   == <<page, pinned, scroll>>
renderer == <<visible, dirty, wheel, lastScroll, lastFrame, hashes, deferred>>
channel  == <<connected, down, up>>
browser  == <<canvas, base, preview>>
vars == <<engine, renderer, segment, channel, browser, acts, faults>>

Rows    == 0..(H - 1)
Tiles   == 0..((H - 1) \div T)
Offsets == 0..(Length - H)
Pages   == [0..(Length - 1) -> Pixel]
Images  == [Rows -> Pixel]
Blank   == [r \in Rows |-> White]
RowsOf(t)   == {r \in Rows : r \div T = t}
Crop(img, t) == [r \in RowsOf(t) |-> img[r]]
Crops(t)     == [RowsOf(t) -> Pixel]

Command == {"wheel", "pointer", "show", "hide", "navigate"}
Message == [type : {"scroll", "tiles"}, at : Offsets]
Fault   == {"overrun", "unread", "unsent", "mixed", "astray", "suppressed",
            "unshown", "unanswered", "erased", "rebased"}

TypeOK ==
  /\ page \in Pages /\ pinned \in [Fixed -> Pixel] /\ scroll \in Offsets
  /\ visible \in BOOLEAN /\ dirty \subseteq Rows /\ wheel \in BOOLEAN
  /\ lastScroll \in Offsets /\ lastFrame \in Images \cup {None}
  /\ DOMAIN hashes = Tiles /\ \A t \in Tiles : hashes[t] \in Crops(t) \cup {None}
  /\ deferred \in BOOLEAN
  /\ DOMAIN segment \subseteq Tiles /\ \A t \in DOMAIN segment : segment[t] \in Crops(t)
  /\ connected \in BOOLEAN /\ down \in Seq(Command) /\ up \in Seq(Message)
  /\ canvas \in Images \cup {None} /\ base \in Offsets /\ preview \in BOOLEAN
  /\ acts \in 0..MaxActs /\ faults \subseteq Fault

(* What the viewport of a page shows at a scroll offset.                    *)
View(pg, pn, c) == [r \in Rows |-> IF r \in Fixed THEN pn[r] ELSE pg[c + r]]

(* An image moved up by d rows, white where nothing moves in.               *)
Shifted(img, d) == [r \in Rows |-> IF r + d \in Rows THEN img[r + d] ELSE White]

Init ==
  /\ page = [p \in 0..(Length - 1) |-> White]
  /\ pinned = [r \in Fixed |-> White] /\ scroll = 0
  /\ visible = TRUE /\ dirty = Rows /\ wheel = FALSE
  /\ lastScroll = 0 /\ lastFrame = None
  /\ hashes = [t \in Tiles |-> None] /\ deferred = FALSE
  /\ segment = <<>> /\ connected = FALSE /\ down = <<>> /\ up = <<>>
  /\ canvas = None /\ base = 0 /\ preview = FALSE
  /\ acts = 0 /\ faults = {}

-----------------------------------------------------------------------------
(* The engine.                                                              *)

Act == acts < MaxActs /\ acts' = acts + 1

(* contentsUpdated(): one row of the page or of the fixed element changed,  *)
(* and the rows that show it are damaged, perhaps with others.  What is out *)
(* of sight changes unnoticed.                                              *)
Repaint ==
  /\ Act
  /\ \/ \E p \in DOMAIN page, x \in Pixel :
           page' = [page EXCEPT ![p] = x] /\ pinned' = pinned
     \/ \E r \in Fixed, x \in Pixel :
           pinned' = [pinned EXCEPT ![r] = x] /\ page' = page
  /\ \E rows \in SUBSET Rows \ {{}} :
       /\ \A r \in Rows \ rows :
            View(page', pinned', scroll)[r] = View(page, pinned, scroll)[r]
       /\ dirty' = dirty \cup rows
  /\ faults' = faults \cup {f \in {"astray"} : scroll # lastScroll /\ dirty' # Rows}
  /\ UNCHANGED <<scroll, visible, wheel, lastScroll, lastFrame, hashes, deferred,
                 segment, channel, browser>>

(* A script, an anchor, a key or a restored position scrolls the page; the  *)
(* damaged rows stay where they were.                                       *)
ScriptScroll ==
  /\ Act
  /\ scroll' \in Offsets \ {scroll}
  /\ faults' = faults \cup {f \in {"astray"} : dirty \notin {{}, Rows}}
  /\ UNCHANGED <<page, pinned, renderer, segment, channel, browser>>

(* The document is fed: the whole viewport is damaged.  A new document      *)
(* drops the base of the next frame, the re-feed of the same one keeps it.  *)
NewDocument ==
  /\ Act
  /\ \E d \in Documents : page' = d.page /\ pinned' = d.pinned
  /\ scroll' \in 0..scroll
  /\ dirty' = Rows
  /\ lastFrame' \in {lastFrame, None}
  /\ UNCHANGED <<visible, wheel, lastScroll, hashes, deferred, segment, channel,
                 browser, faults>>

(* onClient(): from now on messages reach the browser.                      *)
Connect ==
  /\ ~connected /\ connected' = TRUE
  /\ UNCHANGED <<engine, renderer, segment, down, up, browser, acts, faults>>

-----------------------------------------------------------------------------
(* The user, at the browser's side of an open socket.                       *)

Writes(c) == connected /\ Act /\ down' = Append(down, c)

(* PageSurface::wheelEvent() moves the picture before anybody has scrolled. *)
UserWheel ==
  /\ Writes("wheel")
  /\ preview' = TRUE
  /\ UNCHANGED <<engine, renderer, segment, connected, up, canvas, base, faults>>

(* A press, a key or a move of the mouse; setVisible().                     *)
UserInput ==
  /\ \E c \in {"pointer", "show", "hide"} : Writes(c)
  /\ UNCHANGED <<engine, renderer, segment, connected, up, browser, faults>>

(* navigate(), reload(): resetScrollPosition() forgets the offset of the    *)
(* canvas without moving its pixels back.                                   *)
UserNavigates ==
  /\ Writes("navigate")
  /\ base' = 0 /\ preview' = FALSE
  /\ faults' = faults \cup {f \in {"rebased"} : canvas # None /\ base # 0}
  /\ UNCHANGED <<engine, renderer, segment, connected, up, canvas>>

-----------------------------------------------------------------------------
(* The renderer's side of the socket and its timers.                        *)

(* onMessage().  A coalesced mouse move invalidates the viewport only when  *)
(* the next frame is grabbed, before anything looks at the damage.          *)
Receive ==
  /\ down # <<>> /\ down' = Tail(down)
  /\ LET c == Head(down) IN
       /\ wheel' = (wheel \/ c = "wheel")
       /\ visible' = IF c \in {"show", "hide"} THEN c = "show" ELSE visible
       /\ dirty' = IF c \in {"pointer", "show"} THEN Rows ELSE dirty
       /\ lastFrame' = IF c = "navigate" THEN None ELSE lastFrame
  /\ UNCHANGED <<engine, lastScroll, hashes, deferred, segment, connected, up,
                 browser, acts, faults>>

(* The convergence frame, 250 ms after the last blit.                       *)
FaultConverge ==   \* nothing is invalidated
  /\ deferred /\ deferred' = FALSE
  /\ UNCHANGED <<engine, visible, dirty, wheel, lastScroll, lastFrame, hashes,
                 segment, channel, browser, acts, faults>>

Converge ==
  /\ deferred /\ deferred' = FALSE
  /\ dirty' = Rows
  /\ UNCHANGED <<engine, visible, wheel, lastScroll, lastFrame, hashes, segment,
                 channel, browser, acts, faults>>

-----------------------------------------------------------------------------
(* grabFrame().                                                             *)

Written(msgs) == IF connected THEN up \o msgs ELSE up

(* The offset after flushPendingInput(): a wheel scrolls by any amount, or  *)
(* not at all at the edge or when the page handles it.                      *)
FlushedOffsets == IF wheel THEN Offsets ELSE {scroll}

(* The rows a scroll by d exposes.                                          *)
Strip(d) == IF d > 0 THEN {r \in Rows : r >= H - d} ELSE {r \in Rows : r < -d}

(* The render pass: a partial frame is painted over the base.               *)
Composed(img, damage) ==
  LET start == IF damage = Rows \/ img = None THEN Blank ELSE img
  IN [r \in Rows |-> IF r \in damage THEN View(page, pinned, scroll')[r] ELSE start[r]]

(* The damaged tiles that differ from what was uploaded last.               *)
Listed(img, damage, known) ==
  {t \in Tiles : RowsOf(t) \cap damage # {} /\ Crop(img, t) # known[t]}

(* The suppression cache after a blit, and after an upload.                 *)
FaultForgotten(known) == known   \* the cache outlives the blit

Forgotten(known) == [t \in Tiles |-> None]
Committed(known, list, img) ==
  [t \in Tiles |-> IF t \in list THEN Crop(img, t) ELSE known[t]]

(* What is lost when a list replaces one that nobody has read yet, and when *)
(* a list is not announced.                                                 *)
Overrun(list) ==
  {f \in {"overrun"} :
     /\ \E i \in DOMAIN up : up[i].type = "tiles"
     /\ \E t \in DOMAIN segment \ list : hashes'[t] # None}
Unsent(list, img) ==
  {f \in {"unsent"} : ~connected /\ \E t \in list : Crop(img, t) # Crop(Blank, t)}

(* The end of a frame.  When the segment cannot be locked the damage stays  *)
(* and nothing is announced; a list that is empty replaces the old one, but *)
(* is not announced either.                                                 *)
Upload(img, list, known, msgs) ==
  /\ segment' = [t \in list |-> Crop(img, t)]
  /\ hashes' = Committed(known, list, img)
  /\ dirty' = {}
  /\ up' = Written(IF list = {} THEN msgs
                   ELSE Append(msgs, [type |-> "tiles", at |-> scroll']))
LockFails(damage, known, msgs) ==
  /\ acts < MaxActs
  /\ hashes' = known
  /\ dirty' = damage
  /\ up' = Written(msgs)
  /\ UNCHANGED segment

(* The scroll fast path: the wheel was the sole cause of this frame.        *)
FaultScrolledBase(img, d) == img   \* the base is not shifted

ScrolledBase(img, d) == IF img = None THEN None ELSE Shifted(img, d)
FaultScrollMessage(d, c) ==   \* relative instead of absolute
  [type |-> "scroll", at |-> d]

ScrollMessage(d, c) == [type |-> "scroll", at |-> c]

Blit ==
  LET d      == scroll' - lastScroll
      msgs   == <<ScrollMessage(d, scroll')>>
      frame  == Composed(ScrolledBase(lastFrame, d), Strip(d))
      known  == Forgotten(hashes)
      list   == Listed(frame, Strip(d), known)
      lossy  == {f \in {"erased"} : lastFrame = None}
  IN /\ wheel /\ dirty = {} /\ d # 0
     /\ deferred' = TRUE
     /\ lastFrame' = frame
     /\ \/ /\ Upload(frame, list, known, msgs) /\ acts' = acts
           /\ faults' = faults \cup lossy \cup Overrun(list) \cup Unsent(list, frame)
        \/ /\ LockFails(Strip(d), known, msgs) /\ acts' = acts + 1
           /\ faults' = faults \cup lossy

(* A wheel that did not scroll: the browser takes its prediction back.      *)
Correct ==
  /\ wheel /\ dirty = {} /\ scroll' = lastScroll
  /\ up' = Written(<<ScrollMessage(0, scroll')>>)
  /\ UNCHANGED <<dirty, lastFrame, hashes, deferred, segment, acts, faults>>

(* Damage, whatever else happened.  What the code risks: a partial frame    *)
(* without a base, a partial frame after a scroll (by the wheel, or one     *)
(* that nobody looked at), a suppressed tile on a canvas that shifts, a     *)
(* wheel that gets no answer.                                               *)
Paint ==
  LET frame == Composed(lastFrame, dirty)
      list  == Listed(frame, dirty, hashes)
      moved == scroll' # lastScroll
      lossy == {f \in {"erased"} : lastFrame = None /\ dirty # Rows}
                 \cup {f \in {IF scroll = lastScroll THEN "mixed" ELSE "astray"} :
                         moved /\ dirty # Rows}
  IN /\ dirty # {}
     /\ lastFrame' = frame
     /\ \/ /\ Upload(frame, list, hashes, <<>>) /\ acts' = acts
           /\ faults' = faults \cup lossy \cup Overrun(list) \cup Unsent(list, frame)
                          \cup {f \in {"suppressed"} : moved /\ list # Tiles}
                          \cup {f \in {"unanswered"} : wheel /\ list = {}}
        \/ /\ LockFails(dirty, hashes, <<>>) /\ acts' = acts + 1
           /\ faults' = faults \cup lossy
                          \cup {f \in {"suppressed"} : moved}
                          \cup {f \in {"unanswered"} : wheel}
     /\ UNCHANGED deferred

(* Nothing to paint: a scroll without damage passes unnoticed.              *)
Skip ==
  /\ ~wheel /\ dirty = {}
  /\ faults' = faults \cup {f \in {"unshown"} : scroll # lastScroll}
  /\ UNCHANGED <<up, dirty, lastFrame, hashes, deferred, segment, acts>>

Grab ==
  /\ visible
  /\ scroll' \in FlushedOffsets
  /\ wheel' = FALSE
  /\ lastScroll' = scroll'
  /\ Blit \/ Correct \/ Paint \/ Skip
  /\ UNCHANGED <<page, pinned, visible, connected, down, browser>>

-----------------------------------------------------------------------------
(* The browser's side of the socket.                                        *)

(* applyScrollAuthority(): the offset rides on every message.               *)
Authority(img, c) == IF img = None THEN None ELSE Shifted(img, c - base)

Pasted(img, list) ==
  [r \in Rows |-> IF r \div T \in DOMAIN list THEN list[r \div T][r]
                  ELSE IF img = None THEN White ELSE img[r]]

FaultMerged(img, c, list) ==   \* tiles first, shift afterwards
  Authority(Pasted(img, list), c)

Merged(img, c, list) == Pasted(Authority(img, c), list)

ReceiveScroll ==
  /\ up # <<>> /\ Head(up).type = "scroll" /\ up' = Tail(up)
  /\ IF canvas = None
     THEN UNCHANGED browser
     ELSE /\ canvas' = Authority(canvas, Head(up).at)
          /\ base' = Head(up).at /\ preview' = FALSE
  /\ UNCHANGED <<engine, renderer, segment, connected, down, acts, faults>>

(* readTiles(): what the segment holds now, whichever message this is.      *)
ReceiveTiles ==
  /\ up # <<>> /\ Head(up).type = "tiles" /\ up' = Tail(up)
  /\ base' = Head(up).at /\ preview' = FALSE
  /\ canvas' = Merged(canvas, Head(up).at, segment)
  /\ UNCHANGED <<engine, renderer, segment, connected, down, acts, faults>>

(* The segment cannot be attached or locked: this frame is skipped.         *)
TilesUnread ==
  /\ up # <<>> /\ Head(up).type = "tiles" /\ up' = Tail(up)
  /\ Act
  /\ base' = Head(up).at /\ preview' = FALSE
  /\ canvas' = Authority(canvas, Head(up).at)
  /\ faults' = faults \cup
       {f \in {"unread"} :
          /\ \A i \in DOMAIN up' : up'[i].type # "tiles"
          /\ \E t \in DOMAIN segment : hashes[t] # None}
  /\ UNCHANGED <<engine, renderer, segment, connected, down>>

-----------------------------------------------------------------------------
Next ==
  \/ Repaint \/ ScriptScroll \/ NewDocument \/ Connect
  \/ UserWheel \/ UserInput \/ UserNavigates
  \/ Receive \/ Converge \/ Grab
  \/ ReceiveScroll \/ ReceiveTiles \/ TilesUnread

Spec == Init /\ [][Next]_vars

(* The frame clock runs, the newest convergence timer fires, both ends of   *)
(* the socket are read.                                                     *)
FairSpec == Spec /\ WF_vars(Receive) /\ WF_vars(Converge) /\ WF_vars(Grab)
                 /\ WF_vars(ReceiveScroll) /\ WF_vars(ReceiveTiles)

-----------------------------------------------------------------------------
(* What the user sees, and what he should see.                              *)
Shown == IF canvas = None THEN Blank ELSE canvas
Now == View(page, pinned, scroll)
Quiet == /\ connected /\ visible /\ down = <<>> /\ up = <<>>
         /\ dirty = {} /\ ~wheel /\ ~deferred

(* Converges: when nothing is in flight, nothing is damaged and no timer    *)
(* runs, the browser shows the page, at the renderer's offset and without a *)
(* leftover of its prediction, unless one of the lossy paths was taken.     *)
(* This is about grabFrame() with its suppression cache, its blit and its   *)
(* convergence frame, and applyScrollAuthority() and readTiles().           *)
Converges ==
  Quiet /\ scroll = lastScroll /\ faults = {}
    => Shown = Now /\ (canvas # None => base = scroll /\ ~preview)

(* CacheIsCanvas: once the messages are read, a tile whose hash the         *)
(* renderer remembers is on the browser's canvas with that content, so      *)
(* suppressing it is right (m_tileHashes in grabFrame()).                   *)
CacheIsCanvas ==
  connected /\ up = <<>> /\ faults = {}
    => \A t \in Tiles : hashes[t] \in {None, Crop(Shown, t)}

(* BaseIsPage: the base of the next partial frame is the page as of the     *)
(* last frame, outside the damage (m_lastFrame in grabFrame()).  While the  *)
(* convergence frame is due, a blit may have left ghosts of the fixed       *)
(* element wherever it can have been on the page.                           *)
Ghosts == {r \in Rows : deferred /\ \E f \in Fixed, c \in Offsets : r + lastScroll = f + c}
BaseIsPage ==
  faults = {} /\ lastFrame # None
    => \A r \in Rows \ (dirty \cup Ghosts) :
         lastFrame[r] = View(page, pinned, lastScroll)[r]

(* MirrorSettles: once the page and the user are quiet, the browser comes   *)
(* to show the page of a visible tab for good.                              *)
MirrorSettles ==
  <>[](faults # {} \/ ~visible \/ ~connected \/ scroll # lastScroll
         \/ (Shown = Now /\ (canvas # None => ~preview)))

-----------------------------------------------------------------------------
(* What the comments of the code say, on the paths they are about.          *)
ShownAfter(f) == Quiet /\ scroll = lastScroll /\ faults \subseteq {f} => Shown = Now

(* ListedTilesArrive: "Only the listed tiles changed; the rest of the       *)
(* canvas stays valid" (readTiles() and the "tiles" message): every list is *)
(* read, or what it named comes again.                                      *)
ListedTilesArrive == ShownAfter("overrun")
=============================================================================
