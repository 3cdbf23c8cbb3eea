----------------------- MODULE FrameConvergenceProofs -----------------------
(* The main theorem about FrameTransport: a picture that comes to rest is   *)
(* the picture of the page.                                                 *)
EXTENDS FrameTransportProofs

(* Why the canvas is the page.  What the renderer remembers of a tile is    *)
(* the page outside the damage and the ghosts of a blit; what a blit made   *)
(* it forget is due for the convergence frame; and a wheel whose picture    *)
(* was moved in advance is still on its way, or its answer is.              *)
HashIsPage ==
  \A t \in Tiles : hashes[t] # None =>
    \A r \in RowsOf(t) \ (dirty \cup Ghosts) :
      hashes[t][r] = View(page, pinned, lastScroll)[r]

NoneForgotten == deferred \/ dirty = Rows \/ \A r \in Rows : hashes[r \div T] # None

Answered ==
  preview /\ canvas # None =>
    connected /\ (wheel \/ up # <<>> \/ \E i \in DOMAIN down : down[i] = "wheel")

BaseInv == BaseIsPage /\ (faults = {} => HashIsPage /\ NoneForgotten /\ Answered)

(* The same without the history, which only grows (FaultsStay).             *)
BaseKept ==
  lastFrame # None =>
    \A r \in Rows \ (dirty \cup Ghosts) : lastFrame[r] = View(page, pinned, lastScroll)[r]
Kept == BaseKept /\ HashIsPage /\ NoneForgotten /\ Answered

LEMMA KeptIsEnough == BaseInv <=> (faults = {} => Kept)
  BY DEF BaseInv, BaseIsPage, Kept, BaseKept

-----------------------------------------------------------------------------
(* grabFrame().                                                             *)

(* What a scroll does not expose moves in from the viewport.                *)
LEMMA StripRest ==
  ASSUME NEW d \in Int, NEW r \in Rows, r \notin Strip(d)
  PROVE  r + d \in Rows
<1>1. H \in Nat /\ r \in Int /\ 0 <= r /\ r <= H - 1
  BY FrameAssumption DEF Rows
<1>2. CASE d > 0
  <2>1. ~(r >= H - d)
    BY <1>2 DEF Strip
  <2> QED BY <1>1, <1>2, <2>1 DEF Rows
<1>3. CASE ~(d > 0)
  <2>1. ~(r < -d)
    BY <1>3 DEF Strip
  <2> QED BY <1>1, <1>3, <2>1 DEF Rows
<1> QED BY <1>2, <1>3

(* A row that neither the old nor the new scroll offset pins shows the same *)
(* row of the page before and after the shift.                              *)
LEMMA BlitFrame ==
  ASSUME TypeOK, BaseKept, lastFrame # None, dirty = {}, scroll' \in Offsets,
         lastScroll' = scroll', deferred',
         NEW r \in Rows \ Ghosts'
  PROVE  Composed(ScrolledBase(lastFrame, scroll' - lastScroll),
                  Strip(scroll' - lastScroll))[r] = View(page, pinned, scroll')[r]
<1> DEFINE d == scroll' - lastScroll
           shifted == Shifted(lastFrame, d)
<1>1. ScrolledBase(lastFrame, d) = shifted /\ shifted # None
  BY ShiftedType, FrameAssumption DEF ScrolledBase, TypeOK, Images, Rows
<1>2. Composed(shifted, Strip(d))[r] =
        IF r \in Strip(d) \/ Strip(d) = Rows THEN View(page, pinned, scroll')[r]
        ELSE shifted[r]
  BY <1>1 DEF Composed
<1>3. CASE r \in Strip(d) \/ Strip(d) = Rows
  BY <1>1, <1>2, <1>3
<1>4. CASE r \notin Strip(d) /\ Strip(d) # Rows
  <2>1. /\ H \in Nat /\ r \in 0..(H - 1) /\ d \in Int
        /\ scroll' \in Nat /\ lastScroll \in Nat /\ d = scroll' - lastScroll
    BY FrameAssumption DEF TypeOK, Offsets, Rows
  <2>2. r + d \in Rows
    <3>1. r \in Rows /\ d \in Int /\ r \notin Strip(d)
      BY <1>4, <2>1
    <3> HIDE DEF d
    <3> QED BY <3>1, StripRest
  <2>3. \A f \in Fixed, c \in Offsets : r + scroll' # f + c
    BY DEF Ghosts
  <2>4. r \notin Fixed
    BY <2>3
  <2>5. r + d + lastScroll = r + scroll' /\ scroll' + r = lastScroll + (r + d)
    BY <2>1
  <2>6. r + d \notin Fixed
    <3>1. r + d \in Fixed => r + scroll' # (r + d) + lastScroll
      BY <2>3 DEF TypeOK
    <3> QED BY <2>5, <3>1
  <2>7. r + d \notin Ghosts
    BY <2>3, <2>5 DEF Ghosts
  <2>8. shifted[r] = lastFrame[r + d]
    BY <2>2 DEF Shifted
  <2>9. lastFrame[r + d] = View(page, pinned, lastScroll)[r + d]
    BY <2>2, <2>7 DEF BaseKept
  <2> HIDE DEF d, shifted
  <2>10. View(page, pinned, lastScroll)[r + d] = page[lastScroll + (r + d)]
    BY <2>2, <2>6 DEF View
  <2>11. View(page, pinned, scroll')[r] = page[scroll' + r]
    BY <2>4 DEF View
  <2> QED BY <1>1, <1>2, <1>4, <2>5, <2>8, <2>9, <2>10, <2>11 DEF d, shifted
<1> QED BY <1>3, <1>4

(* The painted rows are right, and the others are those of the base.        *)
LEMMA PaintFrame ==
  ASSUME TypeOK, BaseKept, dirty = Rows \/ (lastFrame # None /\ scroll' = lastScroll),
         lastScroll' = scroll', deferred' = deferred,
         NEW r \in Rows \ Ghosts'
  PROVE  Composed(lastFrame, dirty)[r] = View(page, pinned, scroll')[r]
<1>1. CASE r \in dirty
  BY <1>1 DEF Composed
<1>2. CASE r \notin dirty
  <2>1. r \notin Ghosts
    BY <1>2 DEF Ghosts
  <2>2. Composed(lastFrame, dirty)[r] = lastFrame[r]
    BY <1>2 DEF Composed
  <2> QED BY <1>2, <2>1, <2>2 DEF BaseKept
<1> QED BY <1>1, <1>2

(* A wheel is answered by every message of the frame that flushes it.       *)
LEMMA MessageAnswers ==
  ASSUME TypeOK, Answered, UNCHANGED <<connected, down, browser>>,
         NEW msgs \in Seq(Message), up' = Written(msgs), wheel => msgs # <<>>
  PROVE  Answered'
<1>1. connected /\ (up # <<>> \/ msgs # <<>>) => up' # <<>>
  BY DEF Written, TypeOK
<1> QED BY <1>1 DEF Answered, browser

LEMMA BlitKeepsBase ==
  ASSUME TypeOK, Kept, Grab, Blit, faults' = {}
  PROVE  Kept'
<1> DEFINE d     == scroll' - lastScroll
           msgs  == <<ScrollMessage(d, scroll')>>
           frame == Composed(ScrolledBase(lastFrame, d), Strip(d))
           known == Forgotten(hashes)
           list  == Listed(frame, Strip(d), known)
           m     == [type |-> "tiles", at |-> scroll']
<1>1. scroll' \in Offsets
  BY DEF Grab, FlushedOffsets, TypeOK
<1>2. /\ UNCHANGED <<page, pinned, connected, down, browser>>
      /\ lastScroll' = scroll' /\ deferred' /\ lastFrame' = frame
      /\ lastFrame # None /\ dirty = {}
  BY DEF Grab, Blit
<1>3. \A r \in Rows \ Ghosts' : frame[r] = View(page, pinned, scroll')[r]
  BY <1>1, <1>2, BlitFrame DEF Kept
<1>4. /\ msgs \in Seq(Message) /\ msgs # <<>>
      /\ Append(msgs, m) \in Seq(Message) /\ Append(msgs, m) # <<>>
  BY <1>1 DEF ScrollMessage, Message
<1>5. list \in SUBSET Tiles /\ \A t \in Tiles : known[t] = None
  BY DEF Listed, Forgotten
<1>6. Upload(frame, list, known, msgs) \/ LockFails(Strip(d), known, msgs)
  BY DEF Blit
<1>7. up' = Written(msgs) \/ up' = Written(Append(msgs, m))
  BY <1>6 DEF Upload, LockFails
<1> HIDE DEF d, msgs, frame, known, list, m
<1>8. \A t \in Tiles : hashes'[t] \in {None, Crop(frame, t)}
  <2>1. CASE Upload(frame, list, known, msgs)
    BY <1>5, <2>1, UploadIsCached
  <2>2. CASE LockFails(Strip(d), known, msgs)
    BY <1>5, <2>2 DEF LockFails
  <2> QED BY <1>6, <2>1, <2>2
<1>9. BaseKept'
  BY <1>2, <1>3 DEF BaseKept
<1>10. HashIsPage'
  BY <1>2, <1>3, <1>8 DEF HashIsPage, Crop, RowsOf
<1>11. NoneForgotten'
  BY <1>2 DEF NoneForgotten
<1>12. Answered'
  BY <1>2, <1>4, <1>7, MessageAnswers DEF Kept
<1> QED BY <1>9, <1>10, <1>11, <1>12 DEF Kept

LEMMA PaintKeepsBase ==
  ASSUME TypeOK, Kept, Grab, Paint, faults' = {}
  PROVE  Kept'
<1> DEFINE frame == Composed(lastFrame, dirty)
           list  == Listed(frame, dirty, hashes)
           moved == scroll' # lastScroll
           m     == [type |-> "tiles", at |-> scroll']
<1>1. scroll' \in Offsets
  BY DEF Grab, FlushedOffsets, TypeOK
<1>2. /\ UNCHANGED <<page, pinned, connected, down, browser>>
      /\ lastScroll' = scroll' /\ deferred' = deferred /\ lastFrame' = frame
  BY DEF Grab, Paint
<1>3. dirty = Rows \/ (lastFrame # None /\ ~moved)
  BY DEF Paint
<1>4. \/ Upload(frame, list, hashes, <<>>) /\ (wheel => list # {})
      \/ LockFails(dirty, hashes, <<>>) /\ ~moved /\ ~wheel
  BY DEF Paint
<1>5. \A r \in Rows \ Ghosts' : frame[r] = View(page, pinned, scroll')[r]
  BY <1>2, <1>3, PaintFrame DEF Kept
<1>6. frame \in Images
  BY <1>1, ComposedType DEF TypeOK
<1>7. list \in SUBSET Tiles
      /\ \A t \in Tiles \ list : RowsOf(t) \cap dirty = {} \/ Crop(frame, t) = hashes[t]
  BY DEF Listed
<1>8. /\ <<>> \in Seq(Message)
      /\ Append(<<>>, m) \in Seq(Message) /\ Append(<<>>, m) # <<>>
  BY <1>1 DEF Message
<1>9. ~moved => Ghosts' = Ghosts
  BY <1>2 DEF Ghosts
<1>10. BaseKept'
  BY <1>2, <1>5 DEF BaseKept
<1>11. Answered'
  <2>1. \/ up' = Written(<<>>) /\ ~wheel
        \/ up' = Written(Append(<<>>, m))
    BY <1>4 DEF Upload, LockFails
  <2> HIDE DEF m
  <2> QED BY <1>2, <1>8, <2>1, MessageAnswers DEF Kept
<1> HIDE DEF frame, list, m
<1>12. CASE LockFails(dirty, hashes, <<>>) /\ ~moved /\ ~wheel
  <2>1. hashes' = hashes /\ dirty' = dirty
    BY <1>12 DEF LockFails
  <2>2. HashIsPage'
    BY <1>2, <1>9, <1>12, <2>1 DEF Kept, HashIsPage
  <2>3. NoneForgotten'
    BY <1>2, <2>1 DEF Kept, NoneForgotten
  <2> QED BY <1>10, <1>11, <2>2, <2>3 DEF Kept
<1>13. CASE Upload(frame, list, hashes, <<>>)
  <2>1. /\ \A t \in Tiles \ list : hashes'[t] = hashes[t]
        /\ \A t \in list : hashes'[t] = Crop(frame, t)
    BY <1>7, <1>13, UploadIsCached
  <2>2. HashIsPage'
    <3> SUFFICES ASSUME NEW t \in Tiles, hashes'[t] # None,
                        NEW r \in RowsOf(t) \ (dirty' \cup Ghosts')
                 PROVE  hashes'[t][r] = View(page, pinned, scroll')[r]
      BY <1>2 DEF HashIsPage
    <3>1. r \in Rows
      BY DEF RowsOf
    <3>2. CASE hashes'[t] = Crop(frame, t)
      BY <1>5, <3>1, <3>2 DEF Crop
    <3>3. CASE hashes'[t] # Crop(frame, t)
      <4>1. hashes'[t] = hashes[t] /\ RowsOf(t) \cap dirty = {}
        BY <1>7, <2>1, <3>3
      <4>2. ~moved /\ r \notin dirty
        BY <1>3, <3>1, <4>1
      <4> QED BY <1>9, <4>1, <4>2 DEF Kept, HashIsPage
    <3> QED BY <3>2, <3>3
  <2>3. NoneForgotten'
    <3>1. ASSUME NEW r \in Rows, dirty = Rows \/ hashes[r \div T] # None
          PROVE  hashes'[r \div T] # None
      <4> DEFINE t == r \div T
      <4>1. t \in Tiles /\ r \in RowsOf(t)
        BY TileOfRow DEF RowsOf
      <4>2. Crop(frame, t) # None
        BY <1>6, CropType, FrameAssumption DEF Crops, RowsOf, Rows
      <4>3. CASE t \in list
        BY <2>1, <4>2, <4>3
      <4>4. CASE t \notin list
        BY <1>7, <2>1, <3>1, <4>1, <4>2, <4>4
      <4> QED BY <4>3, <4>4
    <3> QED BY <1>2, <3>1 DEF Kept, NoneForgotten
  <2> QED BY <1>10, <1>11, <2>2, <2>3 DEF Kept
<1> QED BY <1>4, <1>12, <1>13

LEMMA GrabKeepsBase ==
  ASSUME TypeOK, Kept, Grab, faults' = {}
  PROVE  Kept'
<1>1. CASE Blit
  BY <1>1, BlitKeepsBase
<1>2. CASE Paint
  BY <1>2, PaintKeepsBase
<1>3. CASE Correct \/ Skip
  <2>1. /\ UNCHANGED <<page, pinned, dirty, lastScroll, lastFrame, hashes, deferred>>
        /\ UNCHANGED <<connected, down, browser>>
    BY <1>3 DEF Grab, Correct, Skip, FlushedOffsets
  <2>2. BaseKept' /\ HashIsPage' /\ NoneForgotten'
    BY <2>1 DEF Kept, BaseKept, HashIsPage, NoneForgotten, Ghosts
  <2>3. Answered'
    <3>1. CASE Correct
      <4>1. <<ScrollMessage(0, scroll')>> \in Seq(Message)
        BY <3>1 DEF Correct, ScrollMessage, Message, TypeOK
      <4> QED BY <2>1, <3>1, <4>1, MessageAnswers DEF Kept, Correct
    <3>2. CASE Skip
      BY <2>1, <3>2 DEF Kept, Answered, Skip, browser
    <3> QED BY <1>3, <3>1, <3>2
  <2> QED BY <2>2, <2>3 DEF Kept
<1> QED BY <1>1, <1>2, <1>3 DEF Grab

-----------------------------------------------------------------------------
(* The other steps.                                                         *)

(* What the engine changes is damaged, or out of sight.                     *)
LEMMA RepaintKeepsBase ==
  ASSUME TypeOK, Kept, Repaint, faults' = {}
  PROVE  Kept'
<1>1. /\ dirty \subseteq dirty' /\ (scroll = lastScroll \/ dirty' = Rows)
      /\ \A r \in Rows \ dirty' :
           View(page', pinned', scroll)[r] = View(page, pinned, scroll)[r]
  BY DEF Repaint
<1>2. UNCHANGED <<lastScroll, lastFrame, hashes, deferred, wheel, channel, browser>>
  BY DEF Repaint
<1>3. \A r \in Rows \ dirty' :
        View(page', pinned', lastScroll)[r] = View(page, pinned, lastScroll)[r]
  BY <1>1
<1>4. Ghosts' = Ghosts
  BY <1>2 DEF Ghosts
<1>5. BaseKept'
  BY <1>1, <1>2, <1>3, <1>4 DEF Kept, BaseKept
<1>6. HashIsPage'
  BY <1>1, <1>2, <1>3, <1>4 DEF Kept, HashIsPage, RowsOf
<1>7. NoneForgotten' /\ Answered'
  <2>1. dirty = Rows => dirty' = Rows
    BY <1>1 DEF Repaint, TypeOK
  <2> QED BY <1>2, <2>1 DEF Kept, NoneForgotten, Answered, channel, browser
<1> QED BY <1>5, <1>6, <1>7 DEF Kept

(* When everything is damaged, nothing is claimed of the picture.           *)
LEMMA DamageKeepsBase ==
  ASSUME TypeOK, Kept, NewDocument \/ Converge
  PROVE  Kept'
<1>1. dirty' = Rows /\ UNCHANGED <<wheel, channel, browser>>
  BY DEF NewDocument, Converge
<1>2. BaseKept' /\ HashIsPage' /\ NoneForgotten'
  BY <1>1 DEF BaseKept, HashIsPage, NoneForgotten, RowsOf
<1>3. Answered'
  BY <1>1 DEF Kept, Answered, channel, browser
<1> QED BY <1>2, <1>3 DEF Kept

(* What the renderer is told adds damage or drops the base.                 *)
LEMMA ReceiveKeepsBase ==
  ASSUME TypeOK, Kept, Receive
  PROVE  Kept'
<1>1. /\ UNCHANGED <<page, pinned, lastScroll, hashes, deferred, connected, up, browser>>
      /\ dirty' \in {dirty, Rows} /\ lastFrame' \in {lastFrame, None}
  BY DEF Receive, engine
<1>2. BaseKept' /\ HashIsPage' /\ NoneForgotten'
  BY <1>1 DEF Kept, BaseKept, HashIsPage, NoneForgotten, Ghosts, RowsOf
<1>3. Answered'
  <2>1. /\ down \in Seq(Command) /\ down # <<>> /\ down' = Tail(down)
        /\ wheel' = (wheel \/ Head(down) = "wheel")
    BY DEF Receive, TypeOK
  <2>2. ASSUME NEW i \in DOMAIN down, down[i] = "wheel"
        PROVE  wheel' \/ \E j \in DOMAIN down' : down'[j] = "wheel"
    <3>1. CASE i = 1
      <4>1. Head(down) = "wheel"
        BY <2>1, <2>2, <3>1
      <4> QED BY <2>1, <4>1, Zenon
    <3>2. CASE i # 1
      <4>1. i - 1 \in DOMAIN down' /\ down'[i - 1] = down[i]
        BY <2>1, <3>2
      <4> QED BY <2>2, <4>1
    <3> QED BY <3>1, <3>2
  <2> QED BY <1>1, <2>1, <2>2 DEF Kept, Answered, browser
<1> QED BY <1>2, <1>3 DEF Kept

(* The user's events reach the renderer by the socket only.                 *)
LEMMA UserKeepsBase ==
  ASSUME TypeOK, Kept, UserWheel \/ UserInput \/ UserNavigates
  PROVE  Kept'
<1>1. UNCHANGED <<engine, renderer, connected, up, canvas>>
  BY DEF UserWheel, UserInput, UserNavigates, browser
<1>2. BaseKept' /\ HashIsPage' /\ NoneForgotten'
  BY <1>1 DEF Kept, BaseKept, HashIsPage, NoneForgotten, Ghosts, engine, renderer
<1>3. Answered'
  <2>1. PICK c \in Command : Writes(c) /\ (UserWheel => c = "wheel")
    BY DEF UserWheel, UserInput, UserNavigates, Command
  <2>2. /\ connected /\ down \in Seq(Command) /\ down' = Append(down, c)
    BY <2>1 DEF Writes, TypeOK
  <2>3. /\ \A i \in DOMAIN down : i \in DOMAIN down' /\ down'[i] = down[i]
        /\ Len(down) + 1 \in DOMAIN down' /\ down'[Len(down) + 1] = c
    BY <2>2
  <2>4. CASE UserWheel
    BY <1>1, <2>1, <2>2, <2>3, <2>4 DEF Answered
  <2>5. CASE UserInput
    BY <1>1, <2>2, <2>3, <2>5 DEF Kept, Answered, UserInput, browser, renderer
  <2>6. CASE UserNavigates
    BY <2>6 DEF Answered, UserNavigates
  <2> QED BY <2>4, <2>5, <2>6
<1> QED BY <1>2, <1>3 DEF Kept

(* What the browser reads does not reach the renderer.                      *)
LEMMA BrowserKeepsBase ==
  ASSUME TypeOK, Kept, ReceiveScroll \/ ReceiveTiles \/ TilesUnread
  PROVE  Kept'
<1>1. UNCHANGED <<engine, renderer, connected, down>>
  BY DEF ReceiveScroll, ReceiveTiles, TilesUnread
<1>2. BaseKept' /\ HashIsPage' /\ NoneForgotten'
  BY <1>1 DEF Kept, BaseKept, HashIsPage, NoneForgotten, Ghosts, engine, renderer
<1>3. preview' = FALSE \/ canvas' = None
  BY DEF ReceiveScroll, ReceiveTiles, TilesUnread, browser
<1> QED BY <1>2, <1>3 DEF Kept, Answered

(* A scroll is not noticed before the next frame, a connection not at all.  *)
LEMMA UnnoticedKeepsBase ==
  ASSUME TypeOK, Kept, ScriptScroll \/ Connect \/ UNCHANGED vars
  PROVE  Kept'
<1>1. UNCHANGED <<page, pinned, renderer, up, down, browser>> /\ (connected => connected')
  BY DEF ScriptScroll, Connect, vars, engine, channel
<1>2. BaseKept' /\ HashIsPage' /\ NoneForgotten'
  BY <1>1 DEF Kept, BaseKept, HashIsPage, NoneForgotten, Ghosts, renderer
<1>3. Answered'
  BY <1>1 DEF Kept, Answered, renderer, browser
<1> QED BY <1>2, <1>3 DEF Kept

(* BaseInvariance: every step that takes none of the lossy paths keeps the  *)
(* base, the remembered tiles and the debts of the renderer.                *)
THEOREM BaseInvariance == Spec => []BaseInv
<1>1. Init => BaseInv
  <2> SUFFICES ASSUME Init PROVE Kept
    BY KeptIsEnough
  <2> QED BY DEF Init, Kept, BaseKept, HashIsPage, NoneForgotten, Answered
<1>2. TypeOK /\ BaseInv /\ [Next]_vars => BaseInv'
  <2> SUFFICES ASSUME TypeOK, BaseInv, [Next]_vars, faults' = {}
               PROVE  Kept'
    BY DEF BaseInv, BaseIsPage, Kept, BaseKept
  <2>1. Kept
    BY FaultsStay, KeptIsEnough
  <2>2. CASE Repaint
    BY <2>1, <2>2, RepaintKeepsBase
  <2>3. CASE NewDocument \/ Converge
    BY <2>1, <2>3, DamageKeepsBase
  <2>4. CASE Receive
    BY <2>1, <2>4, ReceiveKeepsBase
  <2>5. CASE UserWheel \/ UserInput \/ UserNavigates
    BY <2>1, <2>5, UserKeepsBase
  <2>6. CASE Grab
    BY <2>1, <2>6, GrabKeepsBase
  <2>7. CASE ReceiveScroll \/ ReceiveTiles \/ TilesUnread
    BY <2>1, <2>7, BrowserKeepsBase
  <2>8. CASE ScriptScroll \/ Connect \/ UNCHANGED vars
    BY <2>1, <2>8, UnnoticedKeepsBase
  <2> QED BY <2>2, <2>3, <2>4, <2>5, <2>6, <2>7, <2>8 DEF Next
<1> QED BY <1>1, <1>2, TypeCorrect, PTL DEF Spec

(* BaseCorrect: a partial frame starts from the page, whatever happened     *)
(* between the frames, unless one of the lossy paths was taken.             *)
THEOREM BaseCorrect == Spec => []BaseIsPage
<1>1. BaseInv => BaseIsPage
  BY DEF BaseInv
<1> QED BY <1>1, BaseInvariance, PTL

(* MirrorCorrect: when everything has come to rest the user sees the page,  *)
(* unless one of the lossy paths was taken.                                 *)
THEOREM MirrorCorrect == Spec => []Converges
<1>1. TypeOK /\ CacheInv /\ BaseInv => Converges
  <2> SUFFICES ASSUME TypeOK, CacheInv, BaseInv, Quiet, scroll = lastScroll, faults = {}
               PROVE  Shown = Now /\ (canvas # None => base = scroll /\ ~preview)
    BY DEF Converges
  <2>1. /\ connected /\ up = <<>> /\ down = <<>> /\ dirty = {} /\ ~wheel /\ ~deferred
        /\ Kept /\ Vouched
    BY KeptIsEnough DEF Quiet, CacheInv, Cache
  <2>2. 0 \in Rows
    BY FrameAssumption DEF Rows
  <2>3. ASSUME NEW r \in Rows
        PROVE  hashes[r \div T] # None /\ OnCanvas(r \div T)
    <3>1. hashes[r \div T] # None
      BY <2>1, <2>2 DEF Kept, NoneForgotten
    <3>2. ~OnItsWay(r \div T)
      BY <2>1 DEF OnItsWay
    <3> QED BY <2>1, <3>1, <3>2, TileOfRow DEF Vouched
  <2>4. ASSUME NEW r \in Rows PROVE Shown[r] = Now[r]
    <3> DEFINE t == r \div T
    <3>1. t \in Tiles /\ r \in RowsOf(t)
      BY TileOfRow DEF RowsOf
    <3>2. hashes[t] # None /\ hashes[t] = Crop(Shown, t)
      BY <2>3 DEF OnCanvas
    <3>3. hashes[t][r] = View(page, pinned, lastScroll)[r]
      BY <2>1, <3>1, <3>2 DEF Kept, HashIsPage, Ghosts
    <3> QED BY <3>1, <3>2, <3>3 DEF Crop, Now
  <2>5. Shown \in Images /\ Now \in Images
    BY BlankType, ViewType DEF Shown, Now, TypeOK
  <2>6. Shown = Now
    BY <2>4, <2>5 DEF Images
  <2>7. canvas # None => base = scroll
    BY <2>2, <2>3 DEF OnCanvas
  <2>8. canvas # None => ~preview
    BY <2>1 DEF Kept, Answered
  <2> QED BY <2>6, <2>7, <2>8
<1> QED BY <1>1, TypeCorrect, CacheInvariance, BaseInvariance, PTL
=============================================================================
