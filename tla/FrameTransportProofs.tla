------------------------ MODULE FrameTransportProofs ------------------------
(* Theorems about FrameTransport: the types, for every size of viewport,    *)
(* tile and page, every set of colours and documents and every bound.       *)
EXTENDS FrameTransport, TLAPS

-----------------------------------------------------------------------------
(* What the operators on images return.                                     *)

(* A tile is a tile of rows of the viewport, and every row is in one.       *)
LEMMA TileOfRow ==
  ASSUME NEW r \in Rows
  PROVE  r \div T \in Tiles
<1>1. H \in Nat \ {0} /\ T \in Nat \ {0} /\ r \in Nat /\ r <= H - 1
  BY FrameAssumption DEF Rows
<1> DEFINE q == (H - 1) \div T
<1>2. q \in Nat /\ r \div T \in Nat /\ r \div T <= q
  BY <1>1
<1> QED BY <1>2 DEF Tiles

(* The viewport of a page is an image.                                      *)
LEMMA ViewType ==
  ASSUME NEW pg \in Pages, NEW pn \in [Fixed -> Pixel], NEW c \in Offsets
  PROVE  View(pg, pn, c) \in Images
<1> SUFFICES ASSUME NEW r \in Rows
             PROVE  (IF r \in Fixed THEN pn[r] ELSE pg[c + r]) \in Pixel
  BY DEF View, Images
<1>1. c + r \in 0..(Length - 1)
  BY FrameAssumption DEF Offsets, Rows
<1> QED BY <1>1 DEF Pages

(* A white image is an image.                                               *)
LEMMA BlankType == Blank \in Images
  BY FrameAssumption DEF Blank, Images

(* A shifted image is an image.                                             *)
LEMMA ShiftedType ==
  ASSUME NEW img \in Images, NEW d
  PROVE  Shifted(img, d) \in Images
  BY FrameAssumption DEF Shifted, Images

(* A crop of an image is the content of its tile.                           *)
LEMMA CropType ==
  ASSUME NEW img \in Images, NEW t
  PROVE  Crop(img, t) \in Crops(t)
  BY DEF Crop, Crops, Images, RowsOf

(* A composed frame is an image.                                            *)
LEMMA ComposedType ==
  ASSUME NEW img \in Images \cup {None}, NEW damage,
         page \in Pages, pinned \in [Fixed -> Pixel], scroll' \in Offsets
  PROVE  Composed(img, damage) \in Images
<1> DEFINE start == IF damage = Rows \/ img = None THEN Blank ELSE img
           now == View(page, pinned, scroll')
<1>1. start \in Images
  BY BlankType
<1>2. now \in Images
  BY ViewType
<1> HIDE DEF start, now
<1>3. [r \in Rows |-> IF r \in damage THEN now[r] ELSE start[r]] \in Images
  BY <1>1, <1>2 DEF Images
<1> QED BY <1>3 DEF Composed, start, now

(* The canvas under a new offset, and with the listed tiles on it.          *)
LEMMA MergedType ==
  ASSUME NEW img \in Images \cup {None}, NEW c, NEW list,
         DOMAIN list \subseteq Tiles,
         \A t \in DOMAIN list : list[t] \in Crops(t)
  PROVE  /\ Authority(img, c) \in Images \cup {None}
         /\ Merged(img, c, list) \in Images
<1>1. Authority(img, c) \in Images \cup {None}
  BY ShiftedType DEF Authority
<1> DEFINE moved == Authority(img, c)
<1> HIDE DEF moved
<1>2. ASSUME NEW r \in Rows
      PROVE  (IF r \div T \in DOMAIN list THEN list[r \div T][r]
              ELSE IF moved = None THEN White ELSE moved[r]) \in Pixel
  <2>1. CASE r \div T \in DOMAIN list
    <3>1. list[r \div T] \in [RowsOf(r \div T) -> Pixel] /\ r \in RowsOf(r \div T)
      BY <2>1 DEF Crops, RowsOf
    <3> QED BY <2>1, <3>1
  <2>2. CASE r \div T \notin DOMAIN list
    BY <2>2, <1>1, FrameAssumption DEF moved, Images
  <2> QED BY <2>1, <2>2
<1>3. Pasted(moved, list) \in Images
  BY <1>2 DEF Pasted, Images
<1> QED BY <1>1, <1>3 DEF Merged, moved

-----------------------------------------------------------------------------
(* Initially the types hold.                                                *)
LEMMA InitType == Init => TypeOK
<1> SUFFICES ASSUME Init PROVE TypeOK
  OBVIOUS
<1>1. page \in Pages /\ pinned \in [Fixed -> Pixel] /\ scroll \in Offsets
  BY FrameAssumption DEF Init, Pages, Offsets
<1>2. DOMAIN segment = {}
  BY DEF Init
<1>3. down \in Seq(Command) /\ up \in Seq(Message)
  BY DEF Init
<1>4. DOMAIN hashes = Tiles /\ \A t \in Tiles : hashes[t] = None
  BY DEF Init
<1>5. lastScroll \in Offsets /\ base \in Offsets /\ acts \in 0..MaxActs
  BY FrameAssumption DEF Init, Offsets
<1> QED BY <1>1, <1>2, <1>3, <1>4, <1>5 DEF Init, TypeOK

(* Every event from outside the protocol keeps the types.                   *)
LEMMA EngineKeepsType ==
  ASSUME TypeOK, Repaint \/ ScriptScroll \/ NewDocument \/ Connect
  PROVE  TypeOK'
<1> USE FrameAssumption DEF engine, renderer, channel, browser, Act
<1>1. CASE Repaint
  <2>1. page' \in Pages /\ pinned' \in [Fixed -> Pixel]
    BY <1>1 DEF Repaint, TypeOK, Pages
  <2>2. dirty' \subseteq Rows /\ acts' \in 0..MaxActs /\ faults' \subseteq Fault
    BY <1>1 DEF Repaint, TypeOK, Fault
  <2> QED BY <1>1, <2>1, <2>2 DEF Repaint, TypeOK
<1>2. CASE ScriptScroll
  <2>1. scroll' \in Offsets /\ acts' \in 0..MaxActs /\ faults' \subseteq Fault
    BY <1>2 DEF ScriptScroll, TypeOK, Fault
  <2> QED BY <1>2, <2>1 DEF ScriptScroll, TypeOK
<1>3. CASE NewDocument
  <2>1. page' \in Pages /\ pinned' \in [Fixed -> Pixel]
    BY <1>3 DEF NewDocument, Pages
  <2>2. scroll' \in Offsets /\ acts' \in 0..MaxActs /\ dirty' \subseteq Rows
    BY <1>3 DEF NewDocument, TypeOK, Offsets
  <2> QED BY <1>3, <2>1, <2>2 DEF NewDocument, TypeOK
<1>4. CASE Connect
  BY <1>4 DEF Connect, TypeOK
<1> QED BY <1>1, <1>2, <1>3, <1>4

(* The user's actions keep the types.                                       *)
LEMMA UserKeepsType ==
  ASSUME TypeOK, UserWheel \/ UserInput \/ UserNavigates
  PROVE  TypeOK'
<1> USE FrameAssumption DEF engine, renderer, browser, Act, Writes
<1>1. acts' \in 0..MaxActs /\ down' \in Seq(Command)
  <2>1. PICK c \in Command : Writes(c)
    BY DEF UserWheel, UserInput, UserNavigates, Command
  <2>2. acts' \in 0..MaxActs
    BY <2>1 DEF TypeOK
  <2>3. down \in Seq(Command) /\ down' = Append(down, c)
    BY <2>1 DEF TypeOK
  <2> QED BY <2>2, <2>3
<1>2. CASE UserWheel
  BY <1>1, <1>2 DEF UserWheel, TypeOK
<1>3. CASE UserInput
  BY <1>1, <1>3 DEF UserInput, TypeOK
<1>4. CASE UserNavigates
  <2>1. base' \in Offsets
    BY <1>4 DEF UserNavigates, Offsets
  <2>2. faults' \subseteq Fault
    BY <1>4 DEF UserNavigates, Fault, TypeOK
  <2> QED BY <1>1, <1>4, <2>1, <2>2 DEF UserNavigates, TypeOK
<1> QED BY <1>2, <1>3, <1>4

(* The renderer's socket and its convergence timer keep the types.          *)
LEMMA ReceiveKeepsType ==
  ASSUME TypeOK, Receive \/ Converge
  PROVE  TypeOK'
<1> USE DEF engine, channel, browser
<1>1. CASE Receive
  <2>1. down' \in Seq(Command)
    BY <1>1 DEF Receive, TypeOK
  <2> QED BY <1>1, <2>1 DEF Receive, TypeOK
<1>2. CASE Converge
  BY <1>2 DEF Converge, TypeOK
<1> QED BY <1>1, <1>2

-----------------------------------------------------------------------------
(* grabFrame().                                                             *)

(* The messages of a frame keep the type of the channel.                    *)
LEMMA WrittenType ==
  ASSUME up \in Seq(Message), NEW msgs \in Seq(Message)
  PROVE  Written(msgs) \in Seq(Message)
  BY DEF Written

(* The end of a frame, whether or not the segment can be locked.            *)
LEMMA UploadType ==
  ASSUME TypeOK, NEW img \in Images, NEW list \in SUBSET Tiles, NEW known,
         DOMAIN known = Tiles,
         \A t \in Tiles : known[t] \in Crops(t) \cup {None},
         NEW msgs \in Seq(Message), scroll' \in Offsets,
         Upload(img, list, known, msgs)
  PROVE  /\ DOMAIN segment' \subseteq Tiles
         /\ \A t \in DOMAIN segment' : segment'[t] \in Crops(t)
         /\ DOMAIN hashes' = Tiles
         /\ \A t \in Tiles : hashes'[t] \in Crops(t) \cup {None}
         /\ dirty' \subseteq Rows
         /\ up' \in Seq(Message)
<1>1. segment' = [t \in list |-> Crop(img, t)]
  BY DEF Upload
<1>2. hashes' = [t \in Tiles |-> IF t \in list THEN Crop(img, t) ELSE known[t]]
  BY DEF Upload, Committed
<1>3. \A t \in Tiles : Crop(img, t) \in Crops(t)
  BY CropType
<1>4. Append(msgs, [type |-> "tiles", at |-> scroll']) \in Seq(Message)
  BY DEF Message
<1>5. up' \in Seq(Message)
  BY <1>4, WrittenType DEF Upload, TypeOK
<1> QED BY <1>1, <1>2, <1>3, <1>5 DEF Upload

LEMMA LockFailsType ==
  ASSUME TypeOK, NEW damage \in SUBSET Rows, NEW known,
         DOMAIN known = Tiles,
         \A t \in Tiles : known[t] \in Crops(t) \cup {None},
         NEW msgs \in Seq(Message),
         LockFails(damage, known, msgs), acts' = acts + 1
  PROVE  /\ DOMAIN segment' \subseteq Tiles
         /\ \A t \in DOMAIN segment' : segment'[t] \in Crops(t)
         /\ DOMAIN hashes' = Tiles
         /\ \A t \in Tiles : hashes'[t] \in Crops(t) \cup {None}
         /\ dirty' \subseteq Rows
         /\ up' \in Seq(Message)
         /\ acts' \in 0..MaxActs
<1>1. up' \in Seq(Message)
  BY WrittenType DEF LockFails, TypeOK
<1>2. acts' \in 0..MaxActs
  BY FrameAssumption DEF LockFails, TypeOK
<1> QED BY <1>1, <1>2 DEF LockFails, TypeOK

(* What a frame may change, whichever way it took.                          *)
FrameType ==
  /\ dirty' \subseteq Rows /\ lastFrame' \in Images \cup {None}
  /\ DOMAIN hashes' = Tiles
  /\ \A t \in Tiles : hashes'[t] \in Crops(t) \cup {None}
  /\ deferred' \in BOOLEAN
  /\ DOMAIN segment' \subseteq Tiles
  /\ \A t \in DOMAIN segment' : segment'[t] \in Crops(t)
  /\ up' \in Seq(Message)
  /\ acts' \in 0..MaxActs /\ faults' \subseteq Fault

LEMMA BlitType ==
  ASSUME TypeOK, scroll' \in Offsets, Blit
  PROVE  FrameType
<1> DEFINE d     == scroll' - lastScroll
           msgs  == <<ScrollMessage(d, scroll')>>
           frame == Composed(ScrolledBase(lastFrame, d), Strip(d))
           known == Forgotten(hashes)
           list  == Listed(frame, Strip(d), known)
           lossy == {f \in {"erased"} : lastFrame = None}
<1>1. msgs \in Seq(Message)
  BY DEF ScrollMessage, Message
<1>2. frame \in Images
  <2>1. ScrolledBase(lastFrame, d) \in Images \cup {None}
    BY ShiftedType DEF ScrolledBase, TypeOK
  <2> QED BY <2>1, ComposedType DEF TypeOK
<1>3. DOMAIN known = Tiles /\ \A t \in Tiles : known[t] \in Crops(t) \cup {None}
  BY DEF Forgotten
<1>4. list \in SUBSET Tiles /\ Strip(d) \in SUBSET Rows
  BY DEF Listed, Strip
<1>5. lossy \subseteq Fault /\ Overrun(list) \subseteq Fault
        /\ Unsent(list, frame) \subseteq Fault
  BY DEF Fault, Overrun, Unsent
<1>6. /\ deferred' = TRUE /\ lastFrame' = frame
      /\ \/ /\ Upload(frame, list, known, msgs) /\ acts' = acts
            /\ faults' = faults \cup lossy \cup Overrun(list) \cup Unsent(list, frame)
         \/ /\ LockFails(Strip(d), known, msgs) /\ acts' = acts + 1
            /\ faults' = faults \cup lossy
  BY DEF Blit
<1> HIDE DEF d, msgs, frame, known, list, lossy
<1>7. faults' \subseteq Fault
  BY <1>5, <1>6 DEF TypeOK
<1>8. CASE Upload(frame, list, known, msgs) /\ acts' = acts
  BY <1>1, <1>2, <1>3, <1>4, <1>6, <1>7, <1>8, UploadType DEF FrameType, TypeOK
<1>9. CASE LockFails(Strip(d), known, msgs) /\ acts' = acts + 1
  BY <1>1, <1>2, <1>3, <1>4, <1>6, <1>7, <1>9, LockFailsType DEF FrameType
<1> QED BY <1>6, <1>8, <1>9

LEMMA PaintType ==
  ASSUME TypeOK, scroll' \in Offsets, Paint
  PROVE  FrameType
<1> DEFINE frame == Composed(lastFrame, dirty)
           list  == Listed(frame, dirty, hashes)
<1>1. frame \in Images
  BY ComposedType DEF TypeOK
<1>2. list \in SUBSET Tiles /\ dirty \in SUBSET Rows
  BY DEF Listed, TypeOK
<1>3. Overrun(list) \subseteq Fault /\ Unsent(list, frame) \subseteq Fault
  BY DEF Fault, Overrun, Unsent
<1>4. faults' \subseteq Fault
  <2>1. faults' \subseteq faults \cup Overrun(list) \cup Unsent(list, frame)
                     \cup {"erased", "mixed", "astray", "suppressed", "unanswered"}
    BY DEF Paint
  <2> QED BY <2>1, <1>3 DEF Fault, TypeOK
<1>5. /\ deferred' = deferred /\ lastFrame' = frame
      /\ \/ Upload(frame, list, hashes, <<>>) /\ acts' = acts
         \/ LockFails(dirty, hashes, <<>>) /\ acts' = acts + 1
  BY DEF Paint
<1>6. <<>> \in Seq(Message) /\ DOMAIN hashes = Tiles
        /\ \A t \in Tiles : hashes[t] \in Crops(t) \cup {None}
  BY DEF TypeOK
<1> HIDE DEF frame, list
<1>7. CASE Upload(frame, list, hashes, <<>>) /\ acts' = acts
  BY <1>1, <1>2, <1>4, <1>5, <1>6, <1>7, UploadType DEF FrameType, TypeOK
<1>8. CASE LockFails(dirty, hashes, <<>>) /\ acts' = acts + 1
  BY <1>1, <1>2, <1>4, <1>5, <1>6, <1>8, LockFailsType DEF FrameType, TypeOK
<1> QED BY <1>5, <1>7, <1>8

(* The frame clock keeps the types.                                         *)
LEMMA GrabKeepsType ==
  ASSUME TypeOK, Grab
  PROVE  TypeOK'
<1>1. scroll' \in Offsets
  BY DEF Grab, FlushedOffsets, TypeOK
<1>2. FrameType
  <2>1. CASE Blit
    BY <1>1, <2>1, BlitType
  <2>2. CASE Correct
    <3>1. <<ScrollMessage(0, scroll')>> \in Seq(Message)
      BY <1>1 DEF ScrollMessage, Message
    <3>2. up' \in Seq(Message)
      BY <2>2, <3>1, WrittenType DEF Correct, TypeOK
    <3> QED BY <2>2, <3>2 DEF Correct, FrameType, TypeOK
  <2>3. CASE Paint
    BY <1>1, <2>3, PaintType
  <2>4. CASE Skip
    <3>1. faults' \subseteq Fault
      BY <2>4 DEF Skip, Fault, TypeOK
    <3> QED BY <2>4, <3>1 DEF Skip, FrameType, TypeOK
  <2> QED BY <2>1, <2>2, <2>3, <2>4 DEF Grab
<1> QED BY <1>1, <1>2 DEF Grab, FrameType, TypeOK, browser

-----------------------------------------------------------------------------
(* The browser's side of the socket keeps the types.                        *)
LEMMA BrowserKeepsType ==
  ASSUME TypeOK, ReceiveScroll \/ ReceiveTiles \/ TilesUnread
  PROVE  TypeOK'
<1> USE DEF engine, renderer
<1>1. up # <<>> /\ up' = Tail(up) /\ up \in Seq(Message)
  BY DEF ReceiveScroll, ReceiveTiles, TilesUnread, TypeOK
<1>2. up' \in Seq(Message) /\ Head(up) \in Message
  BY <1>1
<1>3. Head(up).at \in Offsets
  BY <1>2 DEF Message
<1>4. /\ Authority(canvas, Head(up).at) \in Images \cup {None}
      /\ Merged(canvas, Head(up).at, segment) \in Images
  BY MergedType DEF TypeOK
<1>5. CASE ReceiveScroll
  BY <1>2, <1>3, <1>4, <1>5 DEF ReceiveScroll, browser, TypeOK
<1>6. CASE ReceiveTiles
  BY <1>2, <1>3, <1>4, <1>6 DEF ReceiveTiles, TypeOK
<1>7. CASE TilesUnread
  <2>1. acts' \in 0..MaxActs
    BY <1>7, FrameAssumption DEF TilesUnread, Act, TypeOK
  <2>2. faults' \subseteq Fault
    BY <1>7 DEF TilesUnread, Fault, TypeOK
  <2> QED BY <1>2, <1>3, <1>4, <1>7, <2>1, <2>2 DEF TilesUnread, TypeOK
<1> QED BY <1>5, <1>6, <1>7

(* TypeCorrect: every variable of the renderer, the segment, the socket and *)
(* the browser keeps its type; in particular the canvas, the base and every *)
(* tile stay images of the viewport whatever is shifted or pasted, and no   *)
(* offset leaves the page.                                                  *)
THEOREM TypeCorrect == Spec => []TypeOK
<1>1. TypeOK /\ [Next]_vars => TypeOK'
  <2> SUFFICES ASSUME TypeOK, [Next]_vars PROVE TypeOK'
    OBVIOUS
  <2>1. CASE Repaint \/ ScriptScroll \/ NewDocument \/ Connect
    BY <2>1, EngineKeepsType
  <2>2. CASE UserWheel \/ UserInput \/ UserNavigates
    BY <2>2, UserKeepsType
  <2>3. CASE Receive \/ Converge
    BY <2>3, ReceiveKeepsType
  <2>4. CASE Grab
    BY <2>4, GrabKeepsType
  <2>5. CASE ReceiveScroll \/ ReceiveTiles \/ TilesUnread
    BY <2>5, BrowserKeepsType
  <2>6. CASE UNCHANGED vars
    BY <2>6 DEF vars, engine, renderer, channel, browser, TypeOK
  <2> QED BY <2>1, <2>2, <2>3, <2>4, <2>5, <2>6 DEF Next
<1> QED BY <1>1, InitType, PTL DEF Spec
-----------------------------------------------------------------------------
(* Why suppressing a tile is right.  The canvas is behind the renderer by   *)
(* the messages that are still on their way, and each of them may shift it  *)
(* and pastes whatever the segment then holds.  A remembered tile is either *)
(* in the segment, with a message that will fetch it and nothing behind     *)
(* that message that displaces it, or it is on the canvas already and no    *)
(* message displaces it.                                                    *)
OnItsWay(t) ==
  /\ t \in DOMAIN segment
  /\ \E i \in DOMAIN up :
       /\ up[i].type = "tiles"
       /\ \A j \in DOMAIN up : j >= i => up[j].at = lastScroll

OnCanvas(t) ==
  /\ hashes[t] = Crop(Shown, t)
  /\ canvas # None => base = lastScroll
  /\ \A j \in DOMAIN up : up[j].at = lastScroll

Vouched == \A t \in Tiles : hashes[t] # None => OnItsWay(t) \/ OnCanvas(t)

(* A remembered tile that is listed was remembered as it is listed.         *)
SegmentIsCache == \A t \in DOMAIN segment : hashes[t] \in {None, segment[t]}

(* Before the browser is connected only white tiles are remembered.         *)
Unconnected ==
  /\ up = <<>> /\ canvas = None
  /\ \A t \in Tiles : hashes[t] \in {None, Crop(Blank, t)}

Cache == SegmentIsCache /\ (IF connected THEN Vouched ELSE Unconnected)
CacheInv == TypeOK /\ (faults = {} => Cache)

(* Faults are never forgotten.                                              *)
LEMMA FaultsStay ==
  ASSUME [Next]_vars, faults' = {}
  PROVE  faults = {}
<1>1. faults \subseteq faults'
  <2>1. CASE Repaint \/ ScriptScroll \/ NewDocument \/ Connect
    BY <2>1 DEF Repaint, ScriptScroll, NewDocument, Connect
  <2>2. CASE UserWheel \/ UserInput \/ UserNavigates
    BY <2>2 DEF UserWheel, UserInput, UserNavigates
  <2>3. CASE Receive \/ Converge
    BY <2>3 DEF Receive, Converge
  <2>4. CASE Grab
    BY <2>4 DEF Grab, Blit, Correct, Paint, Skip
  <2>5. CASE ReceiveScroll \/ ReceiveTiles \/ TilesUnread
    BY <2>5 DEF ReceiveScroll, ReceiveTiles, TilesUnread
  <2>6. CASE UNCHANGED vars
    BY <2>6 DEF vars
  <2> QED BY <2>1, <2>2, <2>3, <2>4, <2>5, <2>6 DEF Next
<1> QED BY <1>1

(* The argument is about the tiles, the messages and the canvas only.       *)
LEMMA CacheIsKept ==
  ASSUME Cache, UNCHANGED <<hashes, segment, up, lastScroll, browser, connected>>
  PROVE  Cache'
<1> USE DEF browser
<1>1. SegmentIsCache'
  BY DEF Cache, SegmentIsCache
<1>2. Vouched => Vouched'
  BY DEF Vouched, OnItsWay, OnCanvas, Shown
<1>3. Unconnected => Unconnected'
  BY DEF Unconnected
<1> QED BY <1>1, <1>2, <1>3 DEF Cache

(* A message with the offset of the last frame displaces nothing.           *)
LEMMA AppendKeepsVouching ==
  ASSUME up \in Seq(Message), NEW m \in Message, m.at = lastScroll,
         up' \in {up, Append(up, m)}, lastScroll' = lastScroll, UNCHANGED browser,
         NEW t, hashes'[t] = hashes[t]
  PROVE  /\ OnCanvas(t) => OnCanvas(t)'
         /\ segment' = segment /\ OnItsWay(t) => OnItsWay(t)'
<1>1. ASSUME NEW j \in DOMAIN up'
      PROVE  (j \in DOMAIN up /\ up'[j] = up[j]) \/ up'[j].at = lastScroll
  BY <1>1
<1>2. DOMAIN up \subseteq DOMAIN up' /\ \A j \in DOMAIN up : up'[j] = up[j]
  OBVIOUS
<1>3. OnCanvas(t) => OnCanvas(t)'
  BY <1>1 DEF OnCanvas, Shown, browser
<1>4. segment' = segment /\ OnItsWay(t) => OnItsWay(t)'
  BY <1>1, <1>2 DEF OnItsWay
<1> QED BY <1>3, <1>4

(* What is listed and announced is on its way, whatever was sent before.    *)
LEMMA UploadVouches ==
  ASSUME TypeOK, connected, NEW img, NEW list, NEW known, NEW msgs \in Seq(Message),
         scroll' \in Offsets, lastScroll' = scroll',
         Upload(img, list, known, msgs), NEW t \in list
  PROVE  OnItsWay(t)'
<1> DEFINE m == [type |-> "tiles", at |-> scroll']
<1>1. up' = up \o Append(msgs, m)
  BY DEF Upload, Written
<1>2. m \in Message /\ m.type = "tiles" /\ m.at = lastScroll'
  BY DEF Message
<1> HIDE DEF m
<1>3. /\ up' \in Seq(Message) /\ Len(up') = Len(up) + Len(msgs) + 1
      /\ up'[Len(up) + Len(msgs) + 1] = m
  BY <1>1, <1>2 DEF TypeOK
<1>4. Len(up') \in DOMAIN up' /\ up'[Len(up')] = m
  BY <1>3 DEF TypeOK
<1>5. ASSUME NEW j \in DOMAIN up', j >= Len(up') PROVE j = Len(up')
  BY <1>3, <1>5
<1>6. t \in DOMAIN segment'
  BY DEF Upload
<1> QED BY <1>2, <1>4, <1>5, <1>6 DEF OnItsWay

(* The end of a frame leaves the segment in step with the cache.            *)
LEMMA UploadIsCached ==
  ASSUME NEW img, NEW list \in SUBSET Tiles, NEW known, NEW msgs,
         Upload(img, list, known, msgs)
  PROVE  /\ SegmentIsCache'
         /\ \A t \in Tiles \ list : hashes'[t] = known[t]
         /\ \A t \in list : hashes'[t] = Crop(img, t)
<1>1. /\ segment' = [t \in list |-> Crop(img, t)]
      /\ hashes' = [t \in Tiles |-> IF t \in list THEN Crop(img, t) ELSE known[t]]
  BY DEF Upload, Committed
<1> QED BY <1>1 DEF SegmentIsCache

(* A tile that is left out of the list stays on the canvas: if it was still *)
(* on its way, its list is overrun.                                         *)
LEMMA OverrunIsFault ==
  ASSUME NEW list, Overrun(list) = {},
         NEW t \in Tiles \ list, hashes'[t] # None, OnItsWay(t)
  PROVE  FALSE
  BY DEF Overrun, OnItsWay

(* A blit forgets everything but the strip it lists.                        *)
LEMMA BlitKeepsCache ==
  ASSUME TypeOK, Cache, Grab, Blit, faults' = {}
  PROVE  Cache'
<1> DEFINE d     == scroll' - lastScroll
           msgs  == <<ScrollMessage(d, scroll')>>
           frame == Composed(ScrolledBase(lastFrame, d), Strip(d))
           known == Forgotten(hashes)
           list  == Listed(frame, Strip(d), known)
<1>1. scroll' \in Offsets
  BY DEF Grab, FlushedOffsets, TypeOK
<1>2. msgs \in Seq(Message)
  BY <1>1 DEF ScrollMessage, Message
<1>3. \A t \in Tiles : known[t] = None
  BY DEF Forgotten
<1>4. list \in SUBSET Tiles
  BY DEF Listed
<1>5. connected' = connected /\ lastScroll' = scroll' /\ UNCHANGED browser
  BY DEF Grab
<1>6. \/ Upload(frame, list, known, msgs) /\ Unsent(list, frame) = {}
      \/ LockFails(Strip(d), known, msgs)
  BY DEF Blit
<1>7. ~connected => up' = up /\ canvas' = None
  BY <1>5, <1>6 DEF Upload, LockFails, Written, Cache, Unconnected, browser
<1> HIDE DEF d, msgs, frame, known, list
<1>8. CASE Upload(frame, list, known, msgs) /\ Unsent(list, frame) = {}
  <2>1. SegmentIsCache' /\ \A t \in Tiles \ list : hashes'[t] = None
    BY <1>3, <1>4, <1>8, UploadIsCached
  <2>2. CASE connected
    BY <1>1, <1>2, <1>5, <1>8, <2>1, <2>2, UploadVouches DEF Cache, Vouched
  <2>3. CASE ~connected
    <3>1. \A t \in list : hashes'[t] = Crop(Blank, t)
      BY <1>4, <1>8, <2>3, UploadIsCached DEF Unsent
    <3> QED BY <1>5, <1>7, <2>1, <2>3, <3>1 DEF Cache, Unconnected
  <2> QED BY <2>2, <2>3
<1>9. CASE LockFails(Strip(d), known, msgs)
  <2>1. hashes' = known /\ segment' = segment
    BY <1>9 DEF LockFails
  <2>2. \A t \in Tiles : hashes'[t] = None
    BY <1>3, <2>1
  <2> QED BY <1>5, <1>7, <2>1, <2>2
        DEF Cache, SegmentIsCache, Vouched, Unconnected, TypeOK
<1> QED BY <1>6, <1>8, <1>9

(* A painted frame that did not move lists what changed and leaves out what *)
(* the canvas shows; one that moved lists everything.                       *)
LEMMA PaintKeepsCache ==
  ASSUME TypeOK, Cache, Grab, Paint, faults' = {}
  PROVE  Cache'
<1> DEFINE frame == Composed(lastFrame, dirty)
           list  == Listed(frame, dirty, hashes)
           moved == scroll' # lastScroll
<1>1. scroll' \in Offsets
  BY DEF Grab, FlushedOffsets, TypeOK
<1>2. list \in SUBSET Tiles
  BY DEF Listed
<1>3. connected' = connected /\ lastScroll' = scroll' /\ UNCHANGED browser
  BY DEF Grab
<1>4. \/ /\ Upload(frame, list, hashes, <<>>)
         /\ Overrun(list) = {} /\ Unsent(list, frame) = {} /\ (moved => list = Tiles)
      \/ LockFails(dirty, hashes, <<>>) /\ ~moved
  BY DEF Paint
<1> HIDE DEF frame, list
<1>5. CASE /\ Upload(frame, list, hashes, <<>>)
           /\ Overrun(list) = {} /\ Unsent(list, frame) = {} /\ (moved => list = Tiles)
  <2>1. SegmentIsCache' /\ \A t \in Tiles \ list : hashes'[t] = hashes[t]
    BY <1>2, <1>5, UploadIsCached
  <2>2. CASE connected
    <3> SUFFICES ASSUME NEW t \in Tiles, hashes'[t] # None
                 PROVE  OnItsWay(t)' \/ OnCanvas(t)'
      BY <1>3, <2>1, <2>2 DEF Cache, Vouched
    <3>1. CASE t \in list
      <4>1. <<>> \in Seq(Message)
        OBVIOUS
      <4> QED BY <1>1, <1>3, <1>5, <2>2, <3>1, <4>1, UploadVouches
    <3>2. CASE t \notin list
      <4>1. ~moved /\ hashes'[t] = hashes[t]
        BY <1>5, <2>1, <3>2
      <4>2. OnCanvas(t)
        BY <1>5, <2>2, <3>2, <4>1, OverrunIsFault DEF Cache, Vouched
      <4>3. up' \in {up, Append(up, [type |-> "tiles", at |-> scroll'])}
        BY <1>5, <2>2 DEF Upload, Written, TypeOK
      <4>4. [type |-> "tiles", at |-> scroll'] \in Message
        BY <1>1 DEF Message
      <4> QED BY <1>3, <4>1, <4>2, <4>3, <4>4, AppendKeepsVouching DEF TypeOK
    <3> QED BY <3>1, <3>2
  <2>3. CASE ~connected
    <3>1. \A t \in list : hashes'[t] = Crop(Blank, t)
      BY <1>2, <1>5, <2>3, UploadIsCached DEF Unsent
    <3>2. up' = up
      BY <1>5, <2>3 DEF Upload, Written
    <3> QED BY <1>3, <2>1, <2>3, <3>1, <3>2 DEF Cache, Unconnected, browser
  <2> QED BY <2>2, <2>3
<1>6. CASE LockFails(dirty, hashes, <<>>) /\ ~moved
  <2>1. UNCHANGED <<hashes, segment, up, lastScroll, browser, connected>>
    BY <1>3, <1>6 DEF LockFails, Written, TypeOK
  <2> QED BY <2>1, CacheIsKept
<1> QED BY <1>4, <1>5, <1>6

(* Whatever the frame clock finds, it keeps its promise.                    *)
LEMMA GrabKeepsCache ==
  ASSUME TypeOK, Cache, Grab, faults' = {}
  PROVE  Cache'
<1>1. CASE Blit
  BY <1>1, BlitKeepsCache
<1>2. CASE Paint
  BY <1>2, PaintKeepsCache
<1>3. CASE Correct
  <2> DEFINE m == ScrollMessage(0, scroll')
  <2>1. m \in Message /\ m.at = lastScroll /\ lastScroll' = lastScroll
    BY <1>3 DEF Correct, Grab, ScrollMessage, Message, TypeOK
  <2>2. UNCHANGED <<hashes, segment, browser, connected>>
    BY <1>3 DEF Correct, Grab
  <2>3. up' = IF connected THEN Append(up, m) ELSE up
    <3>1. up' = IF connected THEN up \o <<m>> ELSE up
      BY <1>3 DEF Correct, Written
    <3>2. up \o <<m>> = Append(up, m)
      BY <2>1 DEF TypeOK
    <3> QED BY <3>1, <3>2
  <2> HIDE DEF m
  <2>4. SegmentIsCache'
    BY <2>2 DEF Cache, SegmentIsCache
  <2>5. CASE connected
    <3>1. \A t : /\ OnCanvas(t) => OnCanvas(t)'
                 /\ OnItsWay(t) => OnItsWay(t)'
      BY <2>1, <2>2, <2>3, AppendKeepsVouching DEF TypeOK
    <3> QED BY <2>2, <2>4, <2>5, <3>1 DEF Cache, Vouched
  <2>6. CASE ~connected
    BY <2>2, <2>3, <2>4, <2>6 DEF Cache, Unconnected, browser
  <2> QED BY <2>5, <2>6
<1>4. CASE Skip
  <2>1. scroll = lastScroll /\ ~wheel
    BY <1>4 DEF Skip
  <2>2. UNCHANGED <<hashes, segment, up, lastScroll, browser, connected>>
    BY <1>4, <2>1 DEF Skip, Grab, FlushedOffsets
  <2> QED BY <2>2, CacheIsKept
<1> QED BY <1>1, <1>2, <1>3, <1>4 DEF Grab

-----------------------------------------------------------------------------
(* The browser reads.                                                       *)

(* What is on its way stays so when a message is read, unless that message  *)
(* was the last that fetches it.                                            *)
LEMMA ReadKeepsOnItsWay ==
  ASSUME up \in Seq(Message), up # <<>>, up' = Tail(up),
         UNCHANGED <<segment, lastScroll>>, NEW t, OnItsWay(t),
         Head(up).type # "tiles" \/ \E i \in DOMAIN up' : up'[i].type = "tiles"
  PROVE  OnItsWay(t)'
<1>1. PICK i \in DOMAIN up : /\ up[i].type = "tiles"
                             /\ \A j \in DOMAIN up : j >= i => up[j].at = lastScroll
  BY DEF OnItsWay
<1>2. \A j \in DOMAIN up' : j + 1 \in DOMAIN up /\ up'[j] = up[j + 1]
  OBVIOUS
<1>3. CASE i = 1
  <2>1. PICK k \in DOMAIN up' : up'[k].type = "tiles"
    BY <1>1, <1>3
  <2>2. \A j \in DOMAIN up' : up'[j].at = lastScroll
    BY <1>1, <1>2, <1>3
  <2> QED BY <2>1, <2>2 DEF OnItsWay
<1>4. CASE i # 1
  <2>1. i - 1 \in DOMAIN up' /\ up'[i - 1] = up[i]
    BY <1>1, <1>4
  <2>2. \A j \in DOMAIN up' : j >= i - 1 => up'[j].at = lastScroll
    BY <1>1, <1>2, <1>4
  <2> QED BY <1>1, <2>1, <2>2 DEF OnItsWay
<1> QED BY <1>3, <1>4

(* A canvas that is told the offset it has does not move.                   *)
LEMMA StaysPut ==
  ASSUME TypeOK
  PROVE  Authority(canvas, base) = canvas
<1>1. ASSUME canvas \in Images PROVE Shifted(canvas, base - base) = canvas
  <2>1. base - base = 0 /\ \A r \in Rows : r + (base - base) = r
    BY DEF TypeOK, Offsets, Rows
  <2> QED BY <1>1, <2>1 DEF Shifted, Images
<1> QED BY <1>1 DEF Authority, TypeOK

(* The canvas at the offset of the next message, for a tile that is on it.  *)
LEMMA OnCanvasAtHead ==
  ASSUME TypeOK, up # <<>>, NEW t, OnCanvas(t)
  PROVE  /\ Head(up).at = lastScroll
         /\ Authority(canvas, Head(up).at) = canvas
         /\ \A j \in DOMAIN Tail(up) : Tail(up)[j].at = lastScroll
<1>1. 1 \in DOMAIN up /\ Head(up) = up[1]
        /\ \A j \in DOMAIN Tail(up) : j + 1 \in DOMAIN up /\ Tail(up)[j] = up[j + 1]
  BY DEF TypeOK
<1>2. CASE canvas = None
  BY <1>1, <1>2 DEF OnCanvas, Authority
<1>3. CASE canvas # None
  BY <1>1, <1>3, StaysPut DEF OnCanvas
<1> QED BY <1>2, <1>3

(* A list on the canvas shows its tiles, and leaves the others alone.       *)
LEMMA PastedTiles ==
  ASSUME NEW img \in Images \cup {None}, NEW list, NEW t \in Tiles,
         t \in DOMAIN list => list[t] \in Crops(t)
  PROVE  Crop(Pasted(img, list), t) =
           IF t \in DOMAIN list THEN list[t]
           ELSE Crop(IF img = None THEN Blank ELSE img, t)
<1>1. ASSUME NEW r \in RowsOf(t) PROVE r \in Rows /\ r \div T = t
  BY <1>1 DEF RowsOf
<1>2. CASE t \in DOMAIN list
  <2>1. \A r \in RowsOf(t) : Pasted(img, list)[r] = list[t][r]
    BY <1>1, <1>2 DEF Pasted
  <2>2. list[t] = [r \in RowsOf(t) |-> list[t][r]]
    BY <1>2 DEF Crops
  <2> QED BY <1>2, <2>1, <2>2 DEF Crop
<1>3. CASE t \notin DOMAIN list
  <2>1. \A r \in RowsOf(t) : Pasted(img, list)[r] = (IF img = None THEN Blank ELSE img)[r]
    BY <1>1, <1>3 DEF Pasted, Blank
  <2> QED BY <1>3, <2>1 DEF Crop
<1> QED BY <1>2, <1>3

(* Reading keeps the cache's promise.                                       *)
LEMMA BrowserKeepsCache ==
  ASSUME TypeOK, Cache, ReceiveScroll \/ ReceiveTiles \/ TilesUnread, faults' = {}
  PROVE  Cache'
<1>1. /\ up \in Seq(Message) /\ up # <<>> /\ up' = Tail(up)
      /\ UNCHANGED <<hashes, segment, lastScroll, connected>>
  BY DEF ReceiveScroll, ReceiveTiles, TilesUnread, renderer, TypeOK
<1>2. connected /\ SegmentIsCache'
  BY <1>1 DEF Cache, SegmentIsCache, Unconnected
<1> SUFFICES ASSUME NEW t \in Tiles, hashes[t] # None
             PROVE  OnItsWay(t)' \/ OnCanvas(t)'
  BY <1>1, <1>2 DEF Cache, Vouched
<1>3. OnItsWay(t) \/ OnCanvas(t)
  BY <1>2 DEF Cache, Vouched
<1>4. CASE ReceiveScroll
  <2>1. CASE OnItsWay(t)
    BY <1>1, <1>4, <2>1, ReadKeepsOnItsWay DEF ReceiveScroll
  <2>2. CASE OnCanvas(t)
    <3>1. canvas' = canvas /\ (canvas # None => base' = lastScroll)
      BY <1>1, <1>4, <2>2, OnCanvasAtHead DEF ReceiveScroll, browser
    <3>2. \A j \in DOMAIN up' : up'[j].at = lastScroll'
      BY <1>1, <2>2, OnCanvasAtHead
    <3> QED BY <1>1, <2>2, <3>1, <3>2 DEF OnCanvas, Shown
  <2> QED BY <1>3, <2>1, <2>2
<1>5. CASE ReceiveTiles
  <2> DEFINE moved == Authority(canvas, Head(up).at)
  <2>1. canvas' = Pasted(moved, segment) /\ base' = Head(up).at
    BY <1>5 DEF ReceiveTiles, Merged
  <2>2. /\ moved \in Images \cup {None} /\ canvas' \in Images
    BY <2>1, MergedType DEF TypeOK, Merged
  <2>3. Crop(canvas', t) = IF t \in DOMAIN segment THEN segment[t]
                           ELSE Crop(IF moved = None THEN Blank ELSE moved, t)
    BY <2>1, <2>2, PastedTiles DEF TypeOK
  <2>4. Crop(Shown', t) = Crop(canvas', t)
    BY <2>2, FrameAssumption DEF Shown, Images, Rows
  <2> HIDE DEF moved
  <2>5. t \in DOMAIN segment => segment[t] = hashes[t]
    BY DEF Cache, SegmentIsCache
  <2>6. CASE OnItsWay(t) /\ \E i \in DOMAIN up' : up'[i].type = "tiles"
    BY <1>1, <2>6, ReadKeepsOnItsWay
  <2>7. CASE OnItsWay(t) /\ ~ \E i \in DOMAIN up' : up'[i].type = "tiles"
    <3>1. PICK i \in DOMAIN up : /\ up[i].type = "tiles"
                                 /\ \A j \in DOMAIN up : j >= i => up[j].at = lastScroll
      BY <2>7 DEF OnItsWay
    <3>2. i = 1
      <4>1. i # 1 => i - 1 \in DOMAIN up' /\ up'[i - 1] = up[i]
        BY <1>1, <3>1
      <4> QED BY <2>7, <3>1, <4>1
    <3>3. Head(up).at = lastScroll
      BY <1>1, <3>1, <3>2
    <3>4. \A j \in DOMAIN up' : j + 1 \in DOMAIN up /\ up'[j] = up[j + 1]
      BY <1>1
    <3>5. \A j \in DOMAIN up' : up'[j].at = lastScroll'
      BY <1>1, <3>1, <3>2, <3>4
    <3>6. hashes'[t] = Crop(Shown', t)
      BY <1>1, <2>3, <2>4, <2>5, <2>7 DEF OnItsWay
    <3> QED BY <1>1, <2>1, <3>3, <3>5, <3>6 DEF OnCanvas
  <2>8. CASE OnCanvas(t)
    <3>1. moved = canvas /\ base' = lastScroll
      BY <1>1, <2>1, <2>8, OnCanvasAtHead DEF moved
    <3>2. \A j \in DOMAIN up' : up'[j].at = lastScroll'
      BY <1>1, <2>8, OnCanvasAtHead
    <3>3. hashes'[t] = Crop(Shown', t)
      BY <1>1, <2>3, <2>4, <2>5, <2>8, <3>1 DEF OnCanvas, Shown
    <3> QED BY <1>1, <3>1, <3>2, <3>3 DEF OnCanvas
  <2> QED BY <1>3, <2>6, <2>7, <2>8
<1>6. CASE TilesUnread
  <2>1. CASE OnItsWay(t)
    <3>1. \E i \in DOMAIN up' : up'[i].type = "tiles"
      BY <1>6, <2>1 DEF TilesUnread, OnItsWay
    <3> QED BY <1>1, <2>1, <3>1, ReadKeepsOnItsWay
  <2>2. CASE OnCanvas(t)
    <3>1. canvas' = canvas /\ base' = lastScroll
      BY <1>1, <1>6, <2>2, OnCanvasAtHead DEF TilesUnread
    <3>2. \A j \in DOMAIN up' : up'[j].at = lastScroll'
      BY <1>1, <2>2, OnCanvasAtHead
    <3> QED BY <1>1, <2>2, <3>1, <3>2 DEF OnCanvas, Shown
  <2> QED BY <1>3, <2>1, <2>2
<1> QED BY <1>4, <1>5, <1>6

-----------------------------------------------------------------------------
(* The other steps touch neither the canvas nor the cache, or only when     *)
(* there is nothing to displace.                                            *)
LEMMA OthersKeepCache ==
  ASSUME TypeOK, Cache, faults' = {},
         \/ Repaint \/ ScriptScroll \/ NewDocument
         \/ UserWheel \/ UserInput \/ Receive \/ Converge
  PROVE  Cache'
<1> USE DEF engine, renderer, channel, browser
<1>1. UNCHANGED <<hashes, segment, up, lastScroll, canvas, base, connected>>
  BY DEF Repaint, ScriptScroll, NewDocument, UserWheel, UserInput, Writes, Receive,
         Converge
<1>2. SegmentIsCache'
  BY <1>1 DEF Cache, SegmentIsCache
<1>3. Vouched => Vouched'
  BY <1>1 DEF Vouched, OnItsWay, OnCanvas, Shown
<1>4. Unconnected => Unconnected'
  BY <1>1 DEF Unconnected
<1> QED BY <1>1, <1>2, <1>3, <1>4 DEF Cache

LEMMA NavigateKeepsCache ==
  ASSUME TypeOK, Cache, faults' = {}, UserNavigates
  PROVE  Cache'
<1>1. /\ UNCHANGED <<hashes, segment, up, lastScroll, canvas, connected>>
      /\ connected /\ (canvas # None => base = 0) /\ base' = 0
  BY DEF UserNavigates, Writes, renderer
<1>2. SegmentIsCache'
  BY <1>1 DEF Cache, SegmentIsCache
<1>3. Vouched'
  BY <1>1 DEF Cache, Vouched, OnItsWay, OnCanvas, Shown
<1> QED BY <1>1, <1>2, <1>3 DEF Cache

LEMMA ConnectKeepsCache ==
  ASSUME TypeOK, Cache, faults' = {}, Connect
  PROVE  Cache'
<1>1. /\ UNCHANGED <<hashes, segment, up, canvas>> /\ ~connected /\ connected'
      /\ up' = <<>>
  BY DEF Connect, renderer, browser, Cache, Unconnected
<1>2. SegmentIsCache'
  BY <1>1 DEF Cache, SegmentIsCache
<1>3. Vouched'
  BY <1>1 DEF Cache, Unconnected, Vouched, OnCanvas, Shown
<1> QED BY <1>1, <1>2, <1>3 DEF Cache

(* CacheInvariance: the promise of the suppression cache is kept by every   *)
(* step that takes none of the lossy paths.                                 *)
THEOREM CacheInvariance == Spec => []CacheInv
<1>1. Init => CacheInv
  <2> SUFFICES ASSUME Init PROVE Cache
    BY InitType DEF CacheInv
  <2> QED BY DEF Init, Cache, SegmentIsCache, Unconnected
<1>2. TypeOK /\ CacheInv /\ TypeOK' /\ [Next]_vars => CacheInv'
  <2> SUFFICES ASSUME TypeOK, CacheInv, TypeOK', [Next]_vars, faults' = {}
               PROVE  Cache'
    BY DEF CacheInv
  <2>1. Cache
    BY FaultsStay DEF CacheInv
  <2>2. CASE \/ Repaint \/ ScriptScroll \/ NewDocument
             \/ UserWheel \/ UserInput \/ Receive \/ Converge
    BY <2>1, <2>2, OthersKeepCache
  <2>3. CASE UserNavigates
    BY <2>1, <2>3, NavigateKeepsCache
  <2>4. CASE Connect
    BY <2>1, <2>4, ConnectKeepsCache
  <2>5. CASE Grab
    BY <2>1, <2>5, GrabKeepsCache
  <2>6. CASE ReceiveScroll \/ ReceiveTiles \/ TilesUnread
    BY <2>1, <2>6, BrowserKeepsCache
  <2>7. CASE UNCHANGED vars
    BY <2>1, <2>7, CacheIsKept DEF vars, renderer, channel, browser
  <2> QED BY <2>2, <2>3, <2>4, <2>5, <2>6, <2>7 DEF Next
<1> QED BY <1>1, <1>2, TypeCorrect, PTL DEF Spec

(* CacheCorrect: once the messages are read, a tile that grabFrame() leaves *)
(* out because its hash is known is on the browser's canvas as it should    *)
(* be, unless one of the lossy paths was taken.                             *)
THEOREM CacheCorrect == Spec => []CacheIsCanvas
<1>1. CacheInv => CacheIsCanvas
  <2> SUFFICES ASSUME CacheInv, connected, up = <<>>, faults = {}, NEW t \in Tiles
               PROVE  hashes[t] \in {None, Crop(Shown, t)}
    BY DEF CacheIsCanvas
  <2>1. ~OnItsWay(t)
    BY DEF OnItsWay
  <2> QED BY <2>1 DEF CacheInv, Cache, Vouched, OnCanvas
<1> QED BY <1>1, CacheInvariance, PTL
=============================================================================
