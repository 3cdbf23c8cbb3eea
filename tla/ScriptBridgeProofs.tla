------------------------- MODULE ScriptBridgeProofs -------------------------
(***************************************************************************)
(* Which scripts can run at all, for any number of frames, documents,      *)
(* nodes, timers and listeners.  The tables of the bridge know nothing of  *)
(* frames; that no callback of a dead world is ever called follows from    *)
(* the addresses of nodes: the invariant says that a node which can hear   *)
(* events has no callbacks but those of its own frame's world.             *)
(***************************************************************************)
EXTENDS ScriptBridge, SequenceTheorems, TLAPS

-----------------------------------------------------------------------------
(* The inductive invariant.                                                 *)

(* No document is newer than the newest.                                    *)
Numbered ==
  /\ \A f \in Frame : page[f] <= docs /\ world[f] <= docs
  /\ \A a \in Addr : node[a] <= docs

(* Two frames share neither documents nor worlds.                           *)
Apart ==
  \A f, g \in Frame : f # g =>
    /\ page[f] # 0 => page[f] # page[g] /\ page[f] # world[g]
    /\ world[f] # 0 => world[f] # world[g]

Noted ==
  \A a \in Addr : /\ node[a] = 0 => shims[a] = 0
                  /\ listeners[a] # <<>> => a \in shimmed

(* What a node of a page with a shim hears, its own frame's world hears.    *)
Homed ==
  \A f \in Frame, a \in Addr :
    page[f] # 0 /\ node[a] = page[f] /\ shims[a] > 0 =>
      /\ world[f] # 0
      /\ \A i \in DOMAIN listeners[a] : listeners[a][i] = world[f]

(* Where a script that runs is at home.                                     *)
AtFrame ==
  /\ run.kind = "script" => \E f \in Frame : page[f] = run.page /\ world[f] = run.world
  /\ run.kind = "timer" => run.world \in Alive
  /\ run.kind = "event" =>
       \E f \in Frame : /\ page[f] # 0 /\ node[run.addr] = page[f]
                        /\ shims[run.addr] > 0 /\ world[f] = run.world

IInv ==
  /\ TypeOK /\ Numbered /\ Apart /\ Noted /\ Homed
  /\ TimersAreAlive /\ AtFrame

-----------------------------------------------------------------------------
(* Lists of callbacks.                                                      *)

LEMMA AppendElements ==
  ASSUME NEW S, NEW s \in Seq(S), NEW e \in S
  PROVE  /\ Append(s, e) \in Seq(S) /\ Len(s) \in Nat /\ Len(Append(s, e)) = Len(s) + 1
         /\ \A i \in DOMAIN Append(s, e) : Append(s, e)[i] \in {e} \cup Range(s)
         /\ \A i \in DOMAIN s : s[i] \in Range(s)
<1>1. /\ Append(s, e) \in Seq(S) /\ Len(s) \in Nat /\ Len(Append(s, e)) = Len(s) + 1
      /\ DOMAIN s = 1..Len(s) /\ DOMAIN Append(s, e) = 1..(Len(s) + 1)
      /\ Append(s, e)[Len(s) + 1] = e
      /\ \A i \in 1..Len(s) : Append(s, e)[i] = s[i]
  BY AppendProperties, LenProperties
<1>2. \A i \in DOMAIN s : s[i] \in Range(s) BY DEF Range
<1>3. ASSUME NEW i \in DOMAIN Append(s, e)
      PROVE  Append(s, e)[i] \in {e} \cup Range(s)
  <2>1. i = Len(s) + 1 \/ i \in DOMAIN s BY <1>1
  <2> QED BY <1>1, <1>2, <2>1
<1> QED BY <1>1, <1>2, <1>3

LEMMA RemoveElements ==
  ASSUME NEW S, NEW s \in Seq(S), NEW i \in DOMAIN s
  PROVE  /\ RemoveAt(s, i) \in Seq(S) /\ Len(RemoveAt(s, i)) = Len(s) - 1
         /\ \A j \in DOMAIN RemoveAt(s, i) : RemoveAt(s, i)[j] \in Range(s)
<1>1. Len(s) \in Nat /\ DOMAIN s = 1..Len(s) BY LenProperties
<1> DEFINE s1 == SubSeq(s, 1, i - 1)
           s2 == SubSeq(s, i + 1, Len(s))
<1>2. s1 \in Seq(S) /\ Len(s1) = i - 1 /\ \A j \in 1..(i - 1) : s1[j] = s[j]
  BY <1>1, SubSeqProperties
<1>3. /\ s2 \in Seq(S) /\ Len(s2) = Len(s) - i
      /\ \A j \in 1..(Len(s) - i) : s2[j] = s[i + j]
  <2>1. i + 1 \in Int /\ Len(s) \in Int BY <1>1
  <2>2. \A k \in (i + 1)..Len(s) : s[k] \in S BY <1>1
  <2>3. /\ s2 \in Seq(S)
        /\ Len(s2) = IF i + 1 <= Len(s) THEN Len(s) - (i + 1) + 1 ELSE 0
        /\ \A j \in 1..(Len(s) - (i + 1) + 1) : s2[j] = s[(i + 1) + j - 1]
    BY <2>1, <2>2, SubSeqProperties
  <2>4. i \in 1..Len(s) /\ Len(s) \in Nat BY <1>1
  <2> HIDE DEF s2
  <2>5. Len(s2) = Len(s) - i BY <2>3, <2>4
  <2>6. ASSUME NEW j \in 1..(Len(s) - i) PROVE s2[j] = s[i + j]
    <3>1. j \in 1..(Len(s) - (i + 1) + 1) /\ (i + 1) + j - 1 = i + j BY <2>4
    <3> QED BY <2>3, <3>1
  <2> QED BY <2>3, <2>5, <2>6
<1> HIDE DEF s1, s2
<1>0. i \in Int /\ (i - 1) + (Len(s) - i) = Len(s) - 1 BY <1>1
<1>4. /\ s1 \o s2 \in Seq(S) /\ Len(s1 \o s2) = Len(s) - 1
      /\ \A j \in 1..(Len(s) - 1) :
           (s1 \o s2)[j] = IF j <= i - 1 THEN s1[j] ELSE s2[j - (i - 1)]
  <2>1. /\ s1 \o s2 \in Seq(S) /\ Len(s1 \o s2) = Len(s1) + Len(s2)
        /\ \A j \in 1..(Len(s1) + Len(s2)) :
             (s1 \o s2)[j] = IF j <= Len(s1) THEN s1[j] ELSE s2[j - Len(s1)]
    BY <1>2, <1>3, ConcatProperties
  <2>2. Len(s1) + Len(s2) = Len(s) - 1 BY <1>0, <1>2, <1>3
  <2> QED BY <1>2, <2>1, <2>2
<1>5. DOMAIN (s1 \o s2) = 1..(Len(s) - 1) BY <1>4, LenProperties
<1>6. ASSUME NEW j \in 1..(Len(s) - 1) PROVE (s1 \o s2)[j] \in Range(s)
  <2>1. CASE j <= i - 1
    <3>1. j \in DOMAIN s /\ (s1 \o s2)[j] = s[j] BY <1>1, <1>2, <1>4, <2>1
    <3> QED BY <3>1 DEF Range
  <2>2. CASE j > i - 1
    <3>1. j - (i - 1) \in 1..(Len(s) - i) BY <1>1, <2>2
    <3>2. j + 1 \in DOMAIN s /\ (s1 \o s2)[j] = s[i + (j - (i - 1))]
      BY <1>1, <1>3, <1>4, <2>2, <3>1
    <3>3. i + (j - (i - 1)) = j + 1 BY <1>1
    <3> QED BY <3>2, <3>3 DEF Range
  <2>3. j <= i - 1 \/ j > i - 1 BY <1>0, <1>1
  <2> QED BY <2>1, <2>2, <2>3
<1>7. RemoveAt(s, i) = s1 \o s2 BY DEF RemoveAt, s1, s2
<1> QED BY <1>4, <1>5, <1>6, <1>7

-----------------------------------------------------------------------------
(* What the end of documents leaves alone.                                  *)
LEMMA SettleKeeps ==
  ASSUME TypeOK, NEW pages, NEW worlds, NEW leaked, Settle(pages, worlds, leaked)
  PROVE  /\ page' = pages /\ world' = worlds
         /\ node' \in [Addr -> 0..MaxDocs] /\ shims' \in [Addr -> 0..MaxEntries]
         /\ \A a \in Addr : \/ node'[a] = 0 /\ shims'[a] = 0
                            \/ node'[a] = node[a] /\ shims'[a] = shims[a]
         /\ \A f \in Frame, a \in Addr :
              node[a] \in {pages[f], worlds[f]} =>
                node'[a] = node[a] /\ shims'[a] = shims[a]
<1> DEFINE ended == Lasting(page, world) \ (Lasting(pages, worlds) \cup leaked)
<1> DEFINE gone == {a \in Addr : node[a] \in ended}
<1>1. /\ page' = pages /\ world' = worlds
      /\ node' = [a \in Addr |-> IF a \in gone THEN 0 ELSE node[a]]
      /\ shims' = [a \in Addr |-> IF a \in gone THEN 0 ELSE shims[a]]
  BY DEF Settle
<1>2. \A f \in Frame, a \in Addr : node[a] \in {pages[f], worlds[f]} => a \notin gone
  BY DEF Lasting
<1> HIDE DEF gone
<1>3. /\ node' \in [Addr -> 0..MaxDocs] /\ shims' \in [Addr -> 0..MaxEntries]
  BY <1>1, BridgeAssumption DEF TypeOK
<1>4. \A a \in Addr : \/ node'[a] = 0 /\ shims'[a] = 0
                      \/ node'[a] = node[a] /\ shims'[a] = shims[a]
  BY <1>1
<1> QED BY <1>1, <1>2, <1>3, <1>4

(* Closing frames leaves alive what the others have.                        *)
LEMMA CloseKeeps ==
  ASSUME TypeOK, TimersAreAlive, NEW pages, NEW frames \in SUBSET Frame,
         Close(pages, frames)
  PROVE  /\ page' = pages
         /\ world' = [f \in Frame |-> IF f \in frames THEN 0 ELSE world[f]]
         /\ node' \in [Addr -> 0..MaxDocs] /\ shims' \in [Addr -> 0..MaxEntries]
         /\ \A a \in Addr : \/ node'[a] = 0 /\ shims'[a] = 0
                            \/ node'[a] = node[a] /\ shims'[a] = shims[a]
         /\ \A f \in Frame, a \in Addr :
              node[a] = pages[f] => node'[a] = node[a] /\ shims'[a] = shims[a]
         /\ timers' \subseteq Timer /\ timerCtx' \in 0..MaxDocs
         /\ TimersAreAlive'
<1> DEFINE worlds == [f \in Frame |-> IF f \in frames THEN 0 ELSE world[f]]
           leaked == UNION {Range(listeners[a]) : a \in Addr}
<1>1. Settle(pages, worlds, leaked) BY DEF Close
<1> HIDE DEF leaked
<1>2. /\ page' = pages /\ world' = worlds
      /\ node' \in [Addr -> 0..MaxDocs] /\ shims' \in [Addr -> 0..MaxEntries]
      /\ \A a \in Addr : \/ node'[a] = 0 /\ shims'[a] = 0
                         \/ node'[a] = node[a] /\ shims'[a] = shims[a]
      /\ \A f \in Frame, a \in Addr :
           node[a] = pages[f] => node'[a] = node[a] /\ shims'[a] = shims[a]
  BY <1>1, SettleKeeps
<1>3. /\ timers' \subseteq Timer /\ timerCtx' \in 0..MaxDocs
      /\ TimersAreAlive'
  <2>1. CASE \E f \in frames : world[f] # 0
    <3>1. timers' = {} /\ timerCtx' = 0 BY <2>1 DEF Close
    <3> QED BY <3>1, BridgeAssumption DEF TimersAreAlive
  <2>2. CASE ~ \E f \in frames : world[f] # 0
    <3>1. UNCHANGED <<timers, timerCtx>> BY <2>2 DEF Close, clock
    <3>2. world' = world BY <1>2, <2>2 DEF TypeOK
    <3> QED BY <3>1, <3>2 DEF TimersAreAlive, Alive, TypeOK
  <2> QED BY <2>1, <2>2
<1> QED BY <1>2, <1>3

(* A new world takes the place of its frame's last one.                     *)
LEMMA SetDocumentKeeps ==
  ASSUME TypeOK, TimersAreAlive, NEW f \in Frame, page[f] # 0, SetDocument(f)
  PROVE  /\ page' = page /\ world' = [world EXCEPT ![f] = page[f]]
         /\ node' \in [Addr -> 0..MaxDocs] /\ shims' \in [Addr -> 0..MaxEntries]
         /\ \A a \in Addr : \/ node'[a] = 0 /\ shims'[a] = 0
                            \/ node'[a] = node[a] /\ shims'[a] = shims[a]
         /\ \/ UNCHANGED <<listeners, shimmed>> /\ world[f] \in {0, page[f]}
            \/ listeners' = [a \in Addr |-> <<>>] /\ shimmed' = {}
         /\ world[f] = page[f] => UNCHANGED <<node, shims>>
         /\ timers' \subseteq Timer /\ timerCtx' \in 0..MaxDocs
         /\ framed' \in BOOLEAN /\ TimersAreAlive'
<1>1. CASE world[f] = page[f]
  <2>1. UNCHANGED <<page, node, world, shims, shimmed, listeners, timers, timerCtx, framed>>
    BY <1>1 DEF SetDocument, events, clock
  <2>2. world = [world EXCEPT ![f] = page[f]] BY <1>1 DEF TypeOK
  <2> QED BY <1>1, <2>1, <2>2 DEF TypeOK, TimersAreAlive, Alive
<1>2. CASE world[f] # page[f]
  <2> DEFINE worlds == [world EXCEPT ![f] = page[f]]
  <2>1. Settle(page, worlds, {}) BY <1>2 DEF SetDocument
  <2>2. /\ page' = page /\ world' = worlds
        /\ node' \in [Addr -> 0..MaxDocs] /\ shims' \in [Addr -> 0..MaxEntries]
        /\ \A a \in Addr : \/ node'[a] = 0 /\ shims'[a] = 0
                           \/ node'[a] = node[a] /\ shims'[a] = shims[a]
    BY <2>1, SettleKeeps
  <2>3. timerCtx' = page[f] /\ framed' \in BOOLEAN BY <1>2 DEF SetDocument, TypeOK
  <2>4. timerCtx' \in Alive' \ {0} BY <2>2, <2>3 DEF Alive, TypeOK
  <2>5. timerCtx' \in 0..MaxDocs BY <2>3 DEF TypeOK
  <2>6. CASE world[f] = 0
    <3>1. UNCHANGED <<timers, listeners, shimmed>> BY <1>2, <2>6 DEF SetDocument
    <3>2. Alive \subseteq Alive' BY <2>2, <2>6 DEF Alive, TypeOK
    <3>3. TimersAreAlive' BY <2>4, <3>1, <3>2 DEF TimersAreAlive
    <3> QED BY <1>2, <2>2, <2>3, <2>5, <2>6, <3>1, <3>3 DEF TypeOK
  <2>7. CASE world[f] # 0
    <3>1. timers' = {} /\ listeners' = [a \in Addr |-> <<>>] /\ shimmed' = {}
      BY <1>2, <2>7 DEF SetDocument
    <3>2. TimersAreAlive' BY <2>4, <3>1 DEF TimersAreAlive
    <3> QED BY <1>2, <2>2, <2>3, <2>5, <3>1, <3>2
  <2> QED BY <2>6, <2>7
<1> QED BY <1>1, <1>2

-----------------------------------------------------------------------------
(* The script that runs.                                                    *)

LEMMA RunningWorld ==
  ASSUME TypeOK, AtFrame, run # Idle
  PROVE  run.world \in Document /\ run.world \in Alive
<1>1. CASE run \in [kind : {"script"}, world : Document, page : Document]
  BY <1>1 DEF AtFrame, Alive, Document
<1>2. CASE run \in [kind : {"timer"}, world : Document, timer : Timer]
  BY <1>2 DEF AtFrame
<1>3. CASE run \in [kind : {"event"}, world : Document, addr : Addr, left : 1..MaxEntries,
                    at : 0..MaxEntries, torn : BOOLEAN]
  BY <1>3 DEF AtFrame, Alive, Document
<1> QED BY <1>1, <1>2, <1>3 DEF TypeOK, Running

LEMMA EventRecord ==
  ASSUME TypeOK, run.kind = "event"
  PROVE  run \in [kind : {"event"}, world : Document, addr : Addr, left : 1..MaxEntries,
                  at : 0..MaxEntries, torn : BOOLEAN]
BY DEF TypeOK, Running, Idle

(* The nodes of a page are reached from the world of its own frame only.    *)
LEMMA ReachIsHome ==
  ASSUME IInv, Calling, NEW a \in Addr, node[a] \in Reach,
         NEW g \in Frame, page[g] # 0, node[a] = page[g]
  PROVE  run.world = world[g] /\ world[g] # 0
<1>1. run # Idle BY DEF Calling, Idle
<1>2. run.world \in Document /\ run.world \in Alive
  BY <1>1, RunningWorld DEF IInv
<1>3. run.world # 0 BY <1>2 DEF Document
<1>4. PICK f \in Frame : world[f] = run.world BY <1>2 DEF Alive
<1>5. CASE node[a] = run.world
  BY <1>3, <1>4, <1>5 DEF IInv, Apart
<1>6. CASE node[a] # run.world
  <2>1. run.kind = "script" /\ node[a] = run.page BY <1>6 DEF Reach
  <2>2. PICK h \in Frame : page[h] = run.page /\ world[h] = run.world
    BY <2>1 DEF IInv, AtFrame
  <2> QED BY <1>3, <2>1, <2>2 DEF IInv, Apart
<1> QED BY <1>5, <1>6

(* A step that leaves documents, nodes and tables alone.                    *)
LEMMA TablesKept ==
  ASSUME IInv, UNCHANGED <<dom, world, events>>
  PROVE  Numbered' /\ Apart' /\ Noted' /\ Homed'
BY DEF IInv, dom, events, Numbered, Apart, Noted, Homed

-----------------------------------------------------------------------------
LEMMA InitInv == Init => IInv
<1> SUFFICES ASSUME Init PROVE IInv OBVIOUS
<1>1. TypeOK
  <2>1. listeners \in [Addr -> Seq(Document)] /\ \A a \in Addr : Len(listeners[a]) <= MaxEntries
    BY BridgeAssumption, EmptySeq DEF Init
  <2>2. run \in Running BY DEF Init, Running
  <2>3. /\ docs \in 0..MaxDocs /\ page \in [Frame -> 0..MaxDocs]
        /\ world \in [Frame -> 0..MaxDocs] /\ node \in [Addr -> 0..MaxDocs]
        /\ shims \in [Addr -> 0..MaxEntries] /\ timerCtx \in 0..MaxDocs
    <3>1. 0 \in 0..MaxDocs /\ 0 \in 0..MaxEntries BY BridgeAssumption
    <3> QED BY <3>1 DEF Init
  <2>4. nextId \in 1..(MaxTimers + 1) BY BridgeAssumption DEF Init
  <2>5. shimmed \subseteq Addr /\ timers \subseteq Timer /\ framed \in BOOLEAN /\ strayed \in BOOLEAN
    BY DEF Init
  <2> QED BY <2>1, <2>2, <2>3, <2>4, <2>5 DEF TypeOK
<1>2. Numbered /\ Apart /\ Noted /\ Homed /\ TimersAreAlive
  BY DEF Init, Numbered, Apart, Noted, Homed, TimersAreAlive, Alive
<1>3. AtFrame BY DEF Init, AtFrame, Idle
<1> QED BY <1>1, <1>2, <1>3 DEF IInv

(* A new page, and the end of the frames of the old one.                    *)
LEMMA BeginStep == ASSUME IInv, NEW f \in Frame, Begin(f) PROVE IInv'
<1> DEFINE pages == [g \in Frame |-> IF g = f THEN docs + 1
                                     ELSE IF f = Main THEN 0 ELSE page[g]]
           frames == IF f = Main THEN Frame \ {Main} ELSE {}
<1>1. Close(pages, frames) /\ frames \in SUBSET Frame BY DEF Begin
<1>2. /\ page' = pages
      /\ world' = [g \in Frame |-> IF g \in frames THEN 0 ELSE world[g]]
      /\ node' \in [Addr -> 0..MaxDocs] /\ shims' \in [Addr -> 0..MaxEntries]
      /\ \A a \in Addr : \/ node'[a] = 0 /\ shims'[a] = 0
                         \/ node'[a] = node[a] /\ shims'[a] = shims[a]
      /\ timers' \subseteq Timer /\ timerCtx' \in 0..MaxDocs
      /\ TimersAreAlive'
  <2> HIDE DEF pages, frames
  <2> QED BY <1>1, CloseKeeps DEF IInv
<1>3. /\ docs \in Nat /\ docs' = docs + 1 /\ docs' \in 0..MaxDocs
      /\ run = Idle /\ UNCHANGED <<shimmed, listeners, nextId, run, history>>
  BY BridgeAssumption DEF Begin, IInv, TypeOK
<1>4. ASSUME NEW g \in Frame
      PROVE  /\ world'[g] \in {0, world[g]} /\ world[g] <= docs /\ page[g] <= docs
             /\ page'[g] = docs + 1 \/ page'[g] = 0 \/ page'[g] = page[g]
             /\ page[g] \in 0..MaxDocs /\ world[g] \in 0..MaxDocs
  BY <1>2 DEF IInv, TypeOK, Numbered
<1>5. TypeOK'
  <2>1. 0 \in 0..MaxDocs /\ docs + 1 \in 0..MaxDocs BY <1>3, BridgeAssumption
  <2>2. pages \in [Frame -> 0..MaxDocs] BY <2>1, <1>4
  <2>3. page' \in [Frame -> 0..MaxDocs] BY <1>2, <2>2
  <2>4. world' \in [Frame -> 0..MaxDocs] BY <1>2, <1>4, <2>1
  <2> QED BY <1>2, <1>3, <2>3, <2>4 DEF IInv, TypeOK, history
<1>6. Numbered'
  <2>1. ASSUME NEW g \in Frame PROVE page'[g] <= docs' /\ world'[g] <= docs'
    BY <1>3, <1>4
  <2>2. ASSUME NEW a \in Addr PROVE node'[a] <= docs'
    <3>1. node[a] <= docs /\ node[a] \in 0..MaxDocs /\ node'[a] \in {0, node[a]}
      BY <1>2 DEF IInv, TypeOK, Numbered
    <3> QED BY <1>3, <3>1
  <2> QED BY <2>1, <2>2 DEF Numbered
<1>7. Apart'
  <2> SUFFICES ASSUME NEW g \in Frame, NEW h \in Frame, g # h
               PROVE  /\ page'[g] # 0 => page'[g] # page'[h] /\ page'[g] # world'[h]
                      /\ world'[g] # 0 => world'[g] # world'[h]
    BY DEF Apart
  <2>1. page[g] # 0 => page[g] # page[h] /\ page[g] # world[h]
    BY DEF IInv, Apart
  <2>2. world[g] # 0 => world[g] # world[h] BY DEF IInv, Apart
  <2>3. g = f => page'[g] = docs + 1 /\ page'[h] \in {0, page[h]} BY <1>2
  <2>4. g # f => page'[g] \in {0, page[g]} BY <1>2
  <2>5. g # f => page'[h] \in {0, page[h], docs + 1} BY <1>2
  <2> QED BY <1>3, <1>4, <2>1, <2>2, <2>3, <2>4, <2>5
<1>8. Noted' BY <1>2, <1>3 DEF IInv, Noted
<1>9. Homed'
  <2> SUFFICES ASSUME NEW g \in Frame, NEW a \in Addr, page'[g] # 0,
                      node'[a] = page'[g], shims'[a] > 0
               PROVE  /\ world'[g] # 0
                      /\ \A i \in DOMAIN listeners'[a] : listeners'[a][i] = world'[g]
    BY DEF Homed
  <2>1. node[a] = page'[g] /\ shims[a] > 0 BY <1>2
  <2>2. node[a] <= docs BY DEF IInv, Numbered
  <2>3. g # f /\ f # Main /\ page'[g] = page[g] BY <1>2, <1>3, <2>1, <2>2
  <2>4. world'[g] = world[g] BY <1>2, <2>3 DEF IInv, TypeOK
  <2> QED BY <1>3, <2>1, <2>3, <2>4 DEF IInv, Homed
<1>10. AtFrame' BY <1>3 DEF AtFrame, Idle
<1> QED BY <1>2, <1>5, <1>6, <1>7, <1>8, <1>9, <1>10 DEF IInv

(* A script of a page: the world before it dies, or there was none.         *)
LEMMA NewWorld ==
  ASSUME IInv, NEW f \in Frame, page[f] # 0, SetDocument(f),
         run' = [kind |-> "script", world |-> page[f], page |-> page[f]],
         UNCHANGED <<docs, nextId, strayed>>
  PROVE  IInv'
<1>1. /\ page' = page /\ world' = [world EXCEPT ![f] = page[f]]
      /\ node' \in [Addr -> 0..MaxDocs] /\ shims' \in [Addr -> 0..MaxEntries]
      /\ \A a \in Addr : \/ node'[a] = 0 /\ shims'[a] = 0
                         \/ node'[a] = node[a] /\ shims'[a] = shims[a]
      /\ \/ UNCHANGED <<listeners, shimmed>> /\ world[f] \in {0, page[f]}
         \/ listeners' = [a \in Addr |-> <<>>] /\ shimmed' = {}
      /\ timers' \subseteq Timer /\ timerCtx' \in 0..MaxDocs
      /\ framed' \in BOOLEAN /\ TimersAreAlive'
  BY SetDocumentKeeps DEF IInv
<1>2. page[f] \in Document /\ page[f] <= docs
  BY BridgeAssumption DEF IInv, TypeOK, Document, Numbered
<1>3. \A g \in Frame : world'[g] = IF g = f THEN page[f] ELSE world[g]
  BY <1>1 DEF IInv, TypeOK
<1>4. TypeOK'
  <2>1. world' \in [Frame -> 0..MaxDocs] BY <1>1 DEF IInv, TypeOK
  <2>2. /\ listeners' \in [Addr -> Seq(Document)] /\ shimmed' \subseteq Addr
        /\ \A a \in Addr : Len(listeners'[a]) <= MaxEntries
    <3>1. CASE UNCHANGED <<listeners, shimmed>> BY <3>1 DEF IInv, TypeOK
    <3>2. CASE listeners' = [a \in Addr |-> <<>>] /\ shimmed' = {}
      <4>1. <<>> \in Seq(Document) /\ Len(<<>>) = 0 BY EmptySeq
      <4> HIDE DEF Document
      <4>2. \A a \in Addr : listeners'[a] = <<>> BY <3>2
      <4>3. listeners' \in [Addr -> Seq(Document)] BY <3>2, <4>1
      <4> QED BY <3>2, <4>1, <4>2, <4>3, BridgeAssumption
    <3> QED BY <1>1, <3>1, <3>2
  <2>3. run' \in Running
    <3>1. run' \in [kind : {"script"}, world : Document, page : Document] BY <1>2
    <3> QED BY <3>1 DEF Running
  <2>4. /\ docs' \in 0..MaxDocs /\ page' \in [Frame -> 0..MaxDocs]
        /\ nextId' \in 1..(MaxTimers + 1) /\ strayed' \in BOOLEAN
    BY <1>1 DEF IInv, TypeOK
  <2>5. /\ node' \in [Addr -> 0..MaxDocs] /\ shims' \in [Addr -> 0..MaxEntries]
        /\ timers' \subseteq Timer /\ timerCtx' \in 0..MaxDocs /\ framed' \in BOOLEAN
    BY <1>1
  <2> QED BY <2>1, <2>2, <2>3, <2>4, <2>5 DEF TypeOK
<1>5. Numbered'
  <2>1. docs' = docs /\ docs \in Nat BY BridgeAssumption DEF IInv, TypeOK
  <2>2. \A g \in Frame : page'[g] <= docs /\ world'[g] <= docs
    BY <1>1, <1>2, <1>3 DEF IInv, Numbered
  <2>3. \A a \in Addr : node'[a] <= docs
    <3>1. \A a \in Addr : node[a] <= docs BY DEF IInv, Numbered
    <3>2. \A a \in Addr : node'[a] \in {0, node[a]} BY <1>1
    <3> QED BY <2>1, <3>1, <3>2
  <2> QED BY <2>1, <2>2, <2>3 DEF Numbered
<1>6. Apart' BY <1>1, <1>3 DEF IInv, Apart
<1>7. Noted' BY <1>1 DEF IInv, Noted
<1>8. Homed'
  <2> SUFFICES ASSUME NEW g \in Frame, NEW a \in Addr, page'[g] # 0,
                      node'[a] = page'[g], shims'[a] > 0
               PROVE  /\ world'[g] # 0
                      /\ \A i \in DOMAIN listeners'[a] : listeners'[a][i] = world'[g]
    BY DEF Homed
  <2>1. page[g] # 0 /\ node[a] = page[g] /\ shims[a] > 0 BY <1>1
  <2>2. /\ world[g] # 0 /\ \A i \in DOMAIN listeners[a] : listeners[a][i] = world[g]
    BY <2>1 DEF IInv, Homed
  <2>3. world'[g] # 0 BY <1>3, <2>2
  <2>4. CASE UNCHANGED <<listeners, shimmed>> /\ world[f] \in {0, page[f]}
    <3>1. world'[g] = world[g] BY <1>3, <2>2, <2>4
    <3> QED BY <2>2, <2>4, <3>1
  <2>5. CASE listeners' = [b \in Addr |-> <<>>]
    <3>1. listeners'[a] = <<>> BY <2>5
    <3>2. DOMAIN <<>> = {} OBVIOUS
    <3> QED BY <2>3, <3>1, <3>2
  <2> QED BY <1>1, <2>4, <2>5
<1>9. AtFrame' BY <1>1, <1>3 DEF AtFrame
<1> QED BY <1>1, <1>4, <1>5, <1>6, <1>7, <1>8, <1>9 DEF IInv

LEMMA ScriptStep ==
  ASSUME IInv, NEW f \in Frame, Script(f) \/ InlineHandler(f) PROVE IInv'
<1>1. page[f] # 0 /\ page[f] \in Document /\ UNCHANGED <<docs, nextId, strayed>>
  BY BridgeAssumption DEF Script, InlineHandler, IInv, TypeOK, Document
<1>2. CASE Script(f) \/ world[f] = 0
  <2>1. /\ SetDocument(f)
        /\ run' = [kind |-> "script", world |-> page[f], page |-> page[f]]
    BY <1>2 DEF Script, InlineHandler
  <2> QED BY <1>1, <2>1, NewWorld
<1>3. CASE InlineHandler(f) /\ world[f] # 0
  <2>1. /\ run' = [kind |-> "script", page |-> page[f], world |-> world[f]]
        /\ UNCHANGED <<page, node, world, events, clock, framed>>
    BY <1>3 DEF InlineHandler
  <2>2. Numbered' /\ Apart' /\ Noted' /\ Homed' BY <1>1, <2>1, TablesKept DEF dom
  <2>3. run' \in Running
    <3>1. world[f] \in Document BY <1>3, BridgeAssumption DEF IInv, TypeOK, Document
    <3> QED BY <1>1, <2>1, <3>1 DEF Running
  <2>4. TypeOK' BY <1>1, <2>1, <2>3 DEF IInv, TypeOK, events, clock
  <2>5. TimersAreAlive' BY <2>1 DEF IInv, TimersAreAlive, Alive, clock
  <2>6. AtFrame' BY <2>1 DEF AtFrame
  <2> QED BY <2>2, <2>4, <2>5, <2>6 DEF IInv
<1> QED BY <1>2, <1>3

(* A frame goes while a script that gets at the page runs: the world of the *)
(* page is the one that runs, and stays.                                    *)
LEMMA RemoveFrameStep == ASSUME IInv, NEW f \in Frame, RemoveFrame(f) PROVE IInv'
<1> DEFINE pages == [page EXCEPT ![f] = 0]
<1>1. Close(pages, {f}) /\ {f} \in SUBSET Frame BY DEF RemoveFrame
<1>2. /\ page' = pages
      /\ world' = [g \in Frame |-> IF g \in {f} THEN 0 ELSE world[g]]
      /\ node' \in [Addr -> 0..MaxDocs] /\ shims' \in [Addr -> 0..MaxEntries]
      /\ \A a \in Addr : \/ node'[a] = 0 /\ shims'[a] = 0
                         \/ node'[a] = node[a] /\ shims'[a] = shims[a]
      /\ \A g \in Frame, a \in Addr :
           node[a] = pages[g] => node'[a] = node[a] /\ shims'[a] = shims[a]
      /\ timers' \subseteq Timer /\ timerCtx' \in 0..MaxDocs
      /\ TimersAreAlive'
  <2> HIDE DEF pages
  <2> QED BY <1>1, CloseKeeps DEF IInv
<1>3. /\ UNCHANGED <<docs, shimmed, listeners, nextId, run, history>>
      /\ f # Main /\ Calling
      /\ run.world = page[Main] \/ (run.kind = "script" /\ run.page = page[Main])
  BY DEF RemoveFrame, Reach
<1>4. \A g \in Frame : /\ page'[g] = IF g = f THEN 0 ELSE page[g]
                       /\ world'[g] = IF g = f THEN 0 ELSE world[g]
  BY <1>2 DEF IInv, TypeOK
<1>5. TypeOK'
  <2>1. 0 \in 0..MaxDocs BY BridgeAssumption
  <2>2. page' \in [Frame -> 0..MaxDocs] /\ world' \in [Frame -> 0..MaxDocs]
    BY <1>2, <2>1 DEF IInv, TypeOK
  <2> QED BY <1>2, <1>3, <2>2 DEF IInv, TypeOK, history
<1>6. Numbered'
  <2>1. docs \in Nat BY BridgeAssumption DEF IInv, TypeOK
  <2> QED BY <1>2, <1>3, <1>4, <2>1 DEF IInv, Numbered
<1>7. Apart' BY <1>4 DEF IInv, Apart
<1>8. Noted' BY <1>2, <1>3 DEF IInv, Noted
<1>9. Homed'
  <2> SUFFICES ASSUME NEW g \in Frame, NEW a \in Addr, page'[g] # 0,
                      node'[a] = page'[g], shims'[a] > 0
               PROVE  /\ world'[g] # 0
                      /\ \A i \in DOMAIN listeners'[a] : listeners'[a][i] = world'[g]
    BY DEF Homed
  <2>1. g # f /\ page[g] # 0 /\ node[a] = page[g] /\ shims[a] > 0 BY <1>2, <1>4
  <2> QED BY <1>3, <1>4, <2>1 DEF IInv, Homed
<1>10. AtFrame'
  <2>1. run # Idle /\ Main \in Frame BY <1>3, BridgeAssumption DEF Calling, Idle
  <2>2. run.world \in Alive /\ run.world # 0
    BY <2>1, RunningWorld DEF IInv, Document
  <2>3. \A h \in Frame : world[h] = run.world => h = Main
    <3>1. CASE run.world = page[Main]
      BY <2>1, <2>2, <3>1 DEF IInv, Apart
    <3>2. CASE run.kind = "script" /\ run.page = page[Main]
      <4>1. run.page # 0 BY <3>2 DEF IInv, TypeOK, Running, Idle, Document
      <4>2. PICK g \in Frame : page[g] = run.page /\ world[g] = run.world
        BY <3>2 DEF IInv, AtFrame
      <4>3. g = Main BY <2>1, <3>2, <4>1, <4>2 DEF IInv, Apart
      <4> QED BY <2>1, <2>2, <4>2, <4>3 DEF IInv, Apart
    <3> QED BY <1>3, <3>1, <3>2
  <2>4. world[Main] = run.world BY <2>2, <2>3 DEF Alive
  <2>5. page'[Main] = page[Main] /\ world'[Main] = world[Main] /\ pages[Main] = page[Main]
    BY <1>2, <1>3, <1>4, <2>1
  <2>6. CASE run.kind = "script"
    BY <1>3, <2>1, <2>3, <2>5, <2>6 DEF IInv, AtFrame
  <2>7. CASE run.kind = "timer"
    <3>1. run.world \in Alive' BY <2>1, <2>2, <2>4, <2>5 DEF Alive
    <3> QED BY <1>3, <2>7, <3>1 DEF AtFrame
  <2>8. CASE run.kind = "event"
    <3>1. run.addr \in Addr BY <2>8, EventRecord DEF IInv
    <3>2. node[run.addr] = page[Main] /\ page[Main] # 0 /\ shims[run.addr] > 0
      BY <2>3, <2>8 DEF IInv, AtFrame
    <3>3. node'[run.addr] = node[run.addr] /\ shims'[run.addr] = shims[run.addr]
      BY <1>2, <2>1, <2>5, <3>1, <3>2
    <3> QED BY <1>3, <2>1, <2>4, <2>5, <2>8, <3>2, <3>3 DEF AtFrame
  <2> QED BY <1>3, <2>6, <2>7, <2>8 DEF AtFrame
<1> QED BY <1>2, <1>5, <1>6, <1>7, <1>8, <1>9, <1>10 DEF IInv

(* Nodes come and go: only a node without a shim takes a place.             *)
LEMMA NodeStep ==
  ASSUME IInv, NEW a \in Addr,
         \/ \E f \in Frame : Parse(f, a)
         \/ CreateNode(a) \/ DropNode(a)
  PROVE  IInv'
<1>1. /\ UNCHANGED <<docs, page, world, shimmed, listeners, clock, nextId, run, framed>>
      /\ strayed' \in BOOLEAN
      /\ \/ \E d \in 1..docs : /\ node' = [node EXCEPT ![a] = d]
                               /\ node[a] = 0 /\ shims' = shims
         \/ /\ node' = [node EXCEPT ![a] = 0] /\ shims' = [shims EXCEPT ![a] = 0]
            /\ run.kind = "event" => run.addr # a
  <2>1. CASE \E f \in Frame : Parse(f, a)
    <3>1. PICK f \in Frame : Parse(f, a) BY <2>1
    <3>2. page[f] \in 1..docs
      BY <3>1, BridgeAssumption DEF Parse, IInv, TypeOK, Numbered
    <3> QED BY <3>1, <3>2 DEF Parse, events, history, IInv, TypeOK
  <2>2. CASE CreateNode(a)
    <3>1. run # Idle BY <2>2 DEF CreateNode, Calling, Idle
    <3>2. run.world \in Document /\ run.world \in Alive
      BY <3>1, RunningWorld DEF IInv
    <3>3. docs \in Nat BY BridgeAssumption DEF IInv, TypeOK
    <3>4. run.world \in 1..docs BY <3>2, <3>3 DEF Alive, Document, IInv, Numbered
    <3>5. run.kind = "script" => run.page \in 1..docs
      <4>1. run.kind = "script" => run.page \in Document
        BY DEF IInv, TypeOK, Running, Idle
      <4> QED BY <3>3, <4>1 DEF IInv, AtFrame, Document, Numbered
    <3>6. \A d \in Reach : d \in 1..docs BY <3>4, <3>5 DEF Reach
    <3> QED BY <2>2, <3>6 DEF CreateNode, events, history, IInv, TypeOK
  <2>3. CASE DropNode(a) BY <2>3 DEF DropNode, IInv, TypeOK
  <2> QED BY <2>1, <2>2, <2>3
<1>2. docs \in 0..MaxDocs /\ docs \in Nat /\ MaxDocs \in Nat /\ MaxEntries \in Nat
  BY BridgeAssumption DEF IInv, TypeOK
<1>3. shims[a] = 0 \/ shims'[a] = 0
  BY <1>1 DEF IInv, TypeOK, Noted
<1>4. ASSUME NEW b \in Addr
      PROVE  /\ node'[b] \in 0..MaxDocs /\ node'[b] <= docs /\ shims'[b] \in 0..MaxEntries
             /\ b # a => node'[b] = node[b] /\ shims'[b] = shims[b]
             /\ b = a => shims'[b] = 0
             /\ node'[b] = 0 => shims'[b] = 0
  <2>1. /\ node[b] \in 0..MaxDocs /\ node[b] <= docs /\ shims[b] \in 0..MaxEntries
        /\ node[b] = 0 => shims[b] = 0
    BY DEF IInv, TypeOK, Numbered, Noted
  <2>2. CASE b # a
    BY <1>1, <2>1, <2>2 DEF IInv, TypeOK
  <2>3. CASE b = a
    BY <1>1, <1>2, <2>1, <2>3 DEF IInv, TypeOK
  <2> QED BY <2>2, <2>3
<1>5. TypeOK'
  <2>1. node' \in [Addr -> 0..MaxDocs] /\ shims' \in [Addr -> 0..MaxEntries]
    <3>1. node' = [b \in Addr |-> node'[b]] /\ shims' = [b \in Addr |-> shims'[b]]
      BY <1>1 DEF IInv, TypeOK
    <3> QED BY <1>4, <3>1
  <2> QED BY <1>1, <2>1 DEF IInv, TypeOK, clock
<1>6. Numbered' BY <1>1, <1>4 DEF IInv, Numbered
<1>7. Apart' BY <1>1 DEF IInv, Apart
<1>8. Noted' BY <1>1, <1>4 DEF IInv, Noted
<1>9. Homed' BY <1>1, <1>4 DEF IInv, Homed
<1>10. TimersAreAlive' BY <1>1 DEF IInv, TimersAreAlive, Alive, clock
<1>11. AtFrame'
  <2>1. run.kind = "event" => run.addr \in Addr /\ run.addr # a
    <3>1. ASSUME run.kind = "event" PROVE run.addr \in Addr
      BY <3>1, EventRecord DEF IInv
    <3>2. ASSUME run.kind = "event" PROVE node[run.addr] # 0
      BY <3>2 DEF IInv, AtFrame
    <3>3. ASSUME run.kind = "event", run.addr = a PROVE FALSE
      <4>1. node[a] = 0 \/ run.addr # a BY <1>1, <3>3
      <4> QED BY <3>2, <3>3, <4>1
    <3> QED BY <3>1, <3>3
  <2> QED BY <1>1, <1>4, <2>1 DEF IInv, AtFrame, Alive
<1> QED BY <1>5, <1>6, <1>7, <1>8, <1>9, <1>10, <1>11 DEF IInv

(* addEventListener() reaches nodes of its own page only, or such as do not *)
(* hear events (ReachIsHome); and it does not give a shim to a node whose   *)
(* place has callbacks already.                                             *)
LEMMA ListenerStep ==
  ASSUME IInv, NEW a \in Addr,
         AddListener(a) \/ \E i \in DOMAIN listeners[a] : RemoveListener(a, i)
  PROVE  IInv'
<1>1. /\ Calling /\ node[a] \in Reach
      /\ UNCHANGED <<dom, world, clock, nextId, framed>> /\ strayed' \in BOOLEAN
      /\ Tear(a)
  BY DEF AddListener, RemoveListener, history, IInv, TypeOK
<1>2. /\ listeners[a] \in Seq(Document) /\ Len(listeners[a]) <= MaxEntries
      /\ Len(listeners[a]) \in Nat /\ shims[a] \in 0..MaxEntries /\ MaxEntries \in Nat
  BY LenProperties, BridgeAssumption DEF IInv, TypeOK
<1>3. run.world \in Document
  <2>1. run # Idle BY <1>1 DEF Calling, Idle
  <2> QED BY <2>1, RunningWorld DEF IInv
<1>4. PICK l \in Seq(Document) :
        /\ listeners' = [listeners EXCEPT ![a] = l] /\ Len(l) <= MaxEntries
        /\ \A i \in DOMAIN l : l[i] \in {run.world} \cup Range(listeners[a])
  <2>1. CASE AddListener(a)
    <3>1. /\ listeners' = [listeners EXCEPT ![a] = Append(listeners[a], run.world)]
          /\ Len(listeners[a]) < MaxEntries
      BY <2>1 DEF AddListener
    <3>2. /\ Append(listeners[a], run.world) \in Seq(Document)
          /\ Len(Append(listeners[a], run.world)) = Len(listeners[a]) + 1
          /\ \A i \in DOMAIN Append(listeners[a], run.world) :
               Append(listeners[a], run.world)[i] \in {run.world} \cup Range(listeners[a])
      BY <1>2, <1>3, AppendElements
    <3>3. Len(Append(listeners[a], run.world)) <= MaxEntries BY <1>2, <3>1, <3>2
    <3> QED BY <3>1, <3>2, <3>3
  <2>2. CASE \E i \in DOMAIN listeners[a] : RemoveListener(a, i)
    <3>1. PICK i \in DOMAIN listeners[a] : RemoveListener(a, i) BY <2>2
    <3>2. listeners' = [listeners EXCEPT ![a] = RemoveAt(listeners[a], i)]
      BY <3>1 DEF RemoveListener
    <3>3. /\ RemoveAt(listeners[a], i) \in Seq(Document)
          /\ Len(RemoveAt(listeners[a], i)) = Len(listeners[a]) - 1
          /\ \A j \in DOMAIN RemoveAt(listeners[a], i) :
               RemoveAt(listeners[a], i)[j] \in Range(listeners[a])
      BY <1>2, RemoveElements
    <3>4. Len(RemoveAt(listeners[a], i)) <= MaxEntries BY <1>2, <3>3
    <3> QED BY <3>2, <3>3, <3>4
  <2> QED BY <2>1, <2>2
<1>5. /\ shimmed' \subseteq Addr /\ shimmed \subseteq shimmed'
      /\ listeners[a] # <<>> \/ AddListener(a) => a \in shimmed'
      /\ shims' \in [Addr -> 0..MaxEntries]
      /\ \A b \in Addr : b # a => shims'[b] = shims[b]
      /\ shims'[a] = shims[a] \/ (listeners[a] = <<>> /\ shims'[a] = shims[a] + 1)
      /\ node[a] # 0
  <2>1. node[a] # 0
    <3>1. run.kind = "script" => run.page # 0
      BY DEF IInv, TypeOK, Running, Idle, Document
    <3> QED BY <1>1, <1>3, <3>1 DEF Reach, Document
  <2>2. CASE AddListener(a)
    BY <1>2, <2>1, <2>2 DEF AddListener, IInv, TypeOK, Noted
  <2>3. CASE (\E i \in DOMAIN listeners[a] : RemoveListener(a, i)) /\ ~AddListener(a)
    BY <2>1, <2>3 DEF RemoveListener, IInv, TypeOK, Noted
  <2> QED BY <2>2, <2>3
<1>6. /\ run' \in Running /\ run'.kind = run.kind /\ run'.world = run.world
      /\ run.kind = "script" => run'.page = run.page
      /\ run.kind = "event" => run'.addr = run.addr
  <2>1. CASE run.kind = "event" /\ run.addr = a
    <3>1. run' = [run EXCEPT !.torn = TRUE] BY <1>1, <2>1 DEF Tear
    <3>2. run \in [kind : {"event"}, world : Document, addr : Addr, left : 1..MaxEntries,
                   at : 0..MaxEntries, torn : BOOLEAN]
      BY <2>1, EventRecord DEF IInv
    <3> QED BY <2>1, <3>1, <3>2 DEF Running
  <2>2. CASE ~(run.kind = "event" /\ run.addr = a)
    BY <1>1, <2>2 DEF Tear, IInv, TypeOK
  <2> QED BY <2>1, <2>2
<1>7. TypeOK'
  <2>1. listeners' \in [Addr -> Seq(Document)] /\ \A b \in Addr : Len(listeners'[b]) <= MaxEntries
    BY <1>4 DEF IInv, TypeOK
  <2>2. /\ docs' \in 0..MaxDocs /\ page' \in [Frame -> 0..MaxDocs]
        /\ world' \in [Frame -> 0..MaxDocs] /\ node' \in [Addr -> 0..MaxDocs]
        /\ timers' \subseteq Timer /\ timerCtx' \in 0..MaxDocs
        /\ nextId' \in 1..(MaxTimers + 1) /\ framed' \in BOOLEAN /\ strayed' \in BOOLEAN
    BY <1>1 DEF IInv, TypeOK, dom, clock
  <2> QED BY <1>5, <1>6, <2>1, <2>2 DEF TypeOK
<1>8. Numbered' /\ Apart' BY <1>1 DEF IInv, Numbered, Apart, dom
<1>9. Noted'
  <2> SUFFICES ASSUME NEW b \in Addr
               PROVE  /\ node'[b] = 0 => shims'[b] = 0
                      /\ listeners'[b] # <<>> => b \in shimmed'
    BY DEF Noted
  <2>1. /\ node[b] = 0 => shims[b] = 0
        /\ listeners[b] # <<>> => b \in shimmed
    BY DEF IInv, Noted
  <2>2. CASE b # a
    BY <1>1, <1>4, <1>5, <2>1, <2>2 DEF IInv, TypeOK, dom
  <2>3. CASE b = a
    <3>1. a \in shimmed'
      <4>1. listeners[a] # <<>> \/ AddListener(a) BY EmptySeq, LenProperties DEF IInv, TypeOK
      <4> QED BY <1>5, <4>1
    <3> QED BY <1>1, <1>5, <2>3, <3>1 DEF dom
  <2> QED BY <2>2, <2>3
<1>10. Homed'
  <2> SUFFICES ASSUME NEW g \in Frame, NEW b \in Addr, page[g] # 0,
                      node[b] = page[g], shims'[b] > 0
               PROVE  /\ world[g] # 0
                      /\ \A i \in DOMAIN listeners'[b] : listeners'[b][i] = world[g]
    BY <1>1 DEF Homed, dom
  <2>1. CASE b # a
    BY <1>4, <1>5, <2>1 DEF IInv, TypeOK, Homed
  <2>2. CASE b = a
    <3>1. run.world = world[g] /\ world[g] # 0 BY <1>1, <2>2, ReachIsHome
    <3>2. listeners'[a] = l BY <1>4 DEF IInv, TypeOK
    <3>3. ASSUME NEW w \in Range(listeners[a]) PROVE w = world[g]
      <4>1. PICK j \in DOMAIN listeners[a] : listeners[a][j] = w BY DEF Range
      <4>2. listeners[a] # <<>> BY <4>1
      <4>3. shims[a] > 0 BY <1>5, <2>2, <4>2
      <4> QED BY <2>2, <4>1, <4>3 DEF IInv, Homed
    <3> QED BY <1>4, <2>2, <3>1, <3>2, <3>3
  <2> QED BY <2>1, <2>2
<1>11. TimersAreAlive' BY <1>1 DEF IInv, TimersAreAlive, Alive, clock
<1>12. AtFrame'
  <2>1. /\ UNCHANGED <<page, world, node>> /\ Alive' = Alive
    BY <1>1 DEF dom, Alive
  <2>2. CASE run.kind = "script" BY <1>6, <2>1, <2>2 DEF IInv, AtFrame
  <2>3. CASE run.kind = "timer" BY <1>6, <2>1, <2>3 DEF IInv, AtFrame
  <2>4. CASE run.kind = "event"
    <3>1. run.addr \in Addr BY <2>4, EventRecord DEF IInv
    <3>2. shims[run.addr] > 0 /\ shims[run.addr] \in Nat => shims'[run.addr] > 0
      BY <1>5, <3>1
    <3>3. shims[run.addr] \in Nat BY <3>1, BridgeAssumption DEF IInv, TypeOK
    <3> QED BY <1>6, <2>1, <2>4, <3>2, <3>3 DEF IInv, AtFrame
  <2> QED BY <1>6, <2>2, <2>3, <2>4 DEF AtFrame
<1> QED BY <1>7, <1>8, <1>9, <1>10, <1>11, <1>12 DEF IInv

(* An event finds its callbacks by the address of its node, which is a node *)
(* of a page.                                                               *)
LEMMA RunStep ==
  ASSUME IInv,
         \/ \E t \in timers : Fire(t)
         \/ \E f \in Frame, a \in Addr : Event(f, a)
         \/ Callback \/ Walked \/ Return
  PROVE  IInv'
<1>1. /\ UNCHANGED <<dom, world, events, timerCtx, nextId, history>>
      /\ timers' \subseteq timers
  BY DEF Fire, Event, Callback, Walked, Return, clock
<1>2. Numbered' /\ Apart' /\ Noted' /\ Homed' BY <1>1, TablesKept
<1>3. TimersAreAlive' BY <1>1 DEF IInv, TimersAreAlive, Alive
<1>4. run' \in Running /\ AtFrame'
  <2>1. ASSUME NEW t \in timers, Fire(t) PROVE run' \in Running /\ AtFrame'
    <3>1. PICK w \in {t.world, timerCtx} :
            run' = [kind |-> "timer", world |-> w, timer |-> t]
      BY <2>1 DEF Fire
    <3>2. t \in Timer /\ w \in Document /\ w \in Alive
      <4>1. t \in Timer /\ t.world \in Document /\ t.world \in Alive
        BY DEF IInv, TypeOK, TimersAreAlive, Timer
      <4>2. timerCtx \in Alive /\ timerCtx \in Document
        BY <2>1, BridgeAssumption DEF Fire, IInv, TypeOK, TimersAreAlive, Document
      <4> QED BY <4>1, <4>2
    <3>3. Alive' = Alive BY <1>1 DEF Alive
    <3>4. run' \in [kind : {"timer"}, world : Document, timer : Timer]
      BY <3>1, <3>2
    <3> QED BY <3>1, <3>2, <3>3, <3>4 DEF AtFrame, Running
  <2>2. ASSUME NEW f \in Frame, NEW a \in Addr, Event(f, a)
        PROVE  run' \in Running /\ AtFrame'
    <3>1. /\ run' = [kind |-> "event", world |-> world[f], addr |-> a, left |-> shims[a],
                     at |-> 0, torn |-> FALSE]
          /\ page[f] # 0 /\ node[a] = page[f] /\ shims[a] > 0
      BY <2>2 DEF Event
    <3>2. world[f] # 0 BY <3>1 DEF IInv, Homed
    <3>3. /\ world[f] \in Document /\ shims[a] \in 1..MaxEntries /\ 0 \in 0..MaxEntries
      BY <3>1, <3>2, BridgeAssumption DEF IInv, TypeOK, Document
    <3>4. run' \in [kind : {"event"}, world : Document, addr : Addr, left : 1..MaxEntries,
                    at : 0..MaxEntries, torn : BOOLEAN]
      BY <3>1, <3>3
    <3>5. AtFrame' BY <1>1, <3>1 DEF AtFrame, dom, events
    <3> QED BY <3>4, <3>5 DEF Running
  <2>3. CASE Callback
    <3> DEFINE a == run.addr
               w == listeners[a][run.at + 1]
    <3>1. /\ run.kind = "event" /\ run.at < Len(listeners[a])
          /\ run' = [run EXCEPT !.at = run.at + 1, !.world = w]
      BY <2>3 DEF Callback
    <3>2. run \in [kind : {"event"}, world : Document, addr : Addr, left : 1..MaxEntries,
                   at : 0..MaxEntries, torn : BOOLEAN]
      BY <3>1, EventRecord DEF IInv
    <3>3. /\ listeners[a] \in Seq(Document) /\ Len(listeners[a]) <= MaxEntries
          /\ Len(listeners[a]) \in Nat /\ DOMAIN listeners[a] = 1..Len(listeners[a])
      BY <3>2, LenProperties DEF IInv, TypeOK
    <3>4. /\ run.at + 1 \in DOMAIN listeners[a] /\ run.at + 1 \in 0..MaxEntries
      BY <3>1, <3>2, <3>3, BridgeAssumption
    <3>5. w \in Document BY <3>3, <3>4, ElementOfSeq
    <3>6. PICK f \in Frame : /\ page[f] # 0 /\ node[a] = page[f] /\ shims[a] > 0
      BY <3>1 DEF IInv, AtFrame
    <3>7. w = world[f] BY <3>2, <3>4, <3>6 DEF IInv, Homed
    <3> HIDE DEF w
    <3>8. /\ run' \in [kind : {"event"}, world : Document, addr : Addr, left : 1..MaxEntries,
                       at : 0..MaxEntries, torn : BOOLEAN]
          /\ run'.kind = "event" /\ run'.addr = a /\ run'.world = w
      BY <3>1, <3>2, <3>4, <3>5
    <3>9. AtFrame' BY <1>1, <3>6, <3>7, <3>8 DEF AtFrame, dom, events
    <3> QED BY <3>8, <3>9 DEF Running
  <2>4. CASE Walked
    <3>1. run \in [kind : {"event"}, world : Document, addr : Addr, left : 1..MaxEntries,
                   at : 0..MaxEntries, torn : BOOLEAN]
      BY <2>4, EventRecord DEF IInv, Walked
    <3>2. CASE run' = Idle BY <3>2 DEF Running, AtFrame, Idle
    <3>3. CASE run.left # 1 /\ run' = [run EXCEPT !.left = run.left - 1, !.at = 0, !.torn = FALSE]
      <4>1. run.left - 1 \in 1..MaxEntries /\ 0 \in 0..MaxEntries
        BY <3>1, <3>3, BridgeAssumption
      <4>2. /\ run' \in [kind : {"event"}, world : Document, addr : Addr, left : 1..MaxEntries,
                         at : 0..MaxEntries, torn : BOOLEAN]
            /\ run'.addr = run.addr /\ run'.world = run.world
            /\ run.kind = "event" /\ run'.kind = "event"
        BY <3>1, <3>3, <4>1
      <4>3. AtFrame' BY <1>1, <4>2 DEF IInv, AtFrame, dom, events
      <4> QED BY <4>2, <4>3 DEF Running
    <3> QED BY <2>4, <3>2, <3>3 DEF Walked
  <2>5. CASE Return BY <2>5 DEF Return, Running, AtFrame, Idle
  <2> QED BY <2>1, <2>2, <2>3, <2>4, <2>5
<1>5. TypeOK' BY <1>1, <1>4 DEF IInv, TypeOK, dom, events, history
<1> QED BY <1>2, <1>3, <1>4, <1>5 DEF IInv

(* A timer belongs to the world that sets it, and that is alive.            *)
LEMMA TimerStep ==
  ASSUME IInv,
         (\E repeat \in BOOLEAN : SetTimer(repeat)) \/ \E t \in timers : ClearTimer(t)
  PROVE  IInv'
<1>1. UNCHANGED <<dom, world, events, timerCtx, run, history>> /\ Calling
  BY DEF SetTimer, ClearTimer
<1>2. Numbered' /\ Apart' /\ Noted' /\ Homed' BY <1>1, TablesKept
<1>3. AtFrame' BY <1>1 DEF IInv, AtFrame, Alive, dom, events
<1>4. run.world \in Document /\ run.world \in Alive
  <2>1. run # Idle BY <1>1 DEF Calling, Idle
  <2> QED BY <2>1, RunningWorld DEF IInv
<1>5. /\ timers' \subseteq Timer /\ nextId' \in 1..(MaxTimers + 1)
      /\ TimersAreAlive'
  <2>1. ASSUME NEW repeat \in BOOLEAN, SetTimer(repeat)
        PROVE  /\ timers' \subseteq Timer /\ nextId' \in 1..(MaxTimers + 1)
               /\ TimersAreAlive'
    <3> DEFINE t == [id |-> nextId, world |-> run.world, repeat |-> repeat]
    <3>1. /\ timers' = timers \cup {t} /\ timerCtx = run.world
          /\ nextId \in 1..MaxTimers /\ nextId' = nextId + 1
      BY <2>1, BridgeAssumption DEF SetTimer, IInv, TypeOK
    <3>2. t \in Timer /\ t.world = run.world BY <1>4, <3>1 DEF Timer
    <3> HIDE DEF t
    <3>3. nextId' \in 1..(MaxTimers + 1) BY <3>1, BridgeAssumption
    <3>4. TimersAreAlive'
      BY <1>1, <1>4, <3>1, <3>2 DEF IInv, TimersAreAlive, Alive, Document
    <3> QED BY <3>1, <3>2, <3>3, <3>4 DEF IInv, TypeOK
  <2>2. ASSUME NEW t \in timers, ClearTimer(t)
        PROVE  /\ timers' \subseteq Timer /\ nextId' \in 1..(MaxTimers + 1)
               /\ TimersAreAlive'
    BY <2>2 DEF ClearTimer, IInv, TypeOK, TimersAreAlive, Alive
  <2> QED BY <2>1, <2>2
<1>6. TypeOK' BY <1>1, <1>5 DEF IInv, TypeOK, dom, events, history
<1> QED BY <1>2, <1>3, <1>5, <1>6 DEF IInv

LEMMA Stutter == ASSUME IInv, UNCHANGED vars PROVE IInv'
<1>1. UNCHANGED <<dom, world, events, clock, nextId, run, history>> BY DEF vars
<1>2. Numbered' /\ Apart' /\ Noted' /\ Homed' BY <1>1, TablesKept
<1> QED
  BY <1>1, <1>2
  DEF IInv, TypeOK, TimersAreAlive, AtFrame, Alive, dom, events, clock, history

-----------------------------------------------------------------------------
(* The invariant holds in every reachable state.                            *)
THEOREM Invariance == Spec => []IInv
<1>1. Init => IInv BY InitInv
<1>2. IInv /\ [Next]_vars => IInv'
  <2> SUFFICES ASSUME IInv, [Next]_vars PROVE IInv' OBVIOUS
  <2>1. CASE \E f \in Frame : Begin(f) \/ Script(f) \/ InlineHandler(f) \/ RemoveFrame(f)
    BY <2>1, BeginStep, ScriptStep, RemoveFrameStep
  <2>2. CASE \E f \in Frame, a \in Addr : Parse(f, a) \/ Event(f, a)
    BY <2>2, NodeStep, RunStep
  <2>3. CASE \E t \in timers : Fire(t) \/ ClearTimer(t)
    BY <2>3, RunStep, TimerStep
  <2>4. CASE Callback \/ Walked \/ Return BY <2>4, RunStep
  <2>5. CASE \E repeat \in BOOLEAN : SetTimer(repeat) BY <2>5, TimerStep
  <2>6. CASE \E a \in Addr : AddListener(a) \/ CreateNode(a) \/ DropNode(a)
    BY <2>6, ListenerStep, NodeStep
  <2>7. CASE \E a \in Addr : \E i \in DOMAIN listeners[a] : RemoveListener(a, i)
    BY <2>7, ListenerStep
  <2>8. CASE UNCHANGED vars BY <2>8, Stutter
  <2> QED BY <2>1, <2>2, <2>3, <2>4, <2>5, <2>6, <2>7, <2>8 DEF Next
<1> QED BY <1>1, <1>2, PTL DEF Spec

(* Records and tables keep their shape.                                     *)
THEOREM TypeCorrect == Spec => []TypeOK
<1>1. IInv => TypeOK BY DEF IInv
<1> QED BY <1>1, Invariance, PTL

(* A timer never calls into a world that is gone.                           *)
THEOREM TimersCorrect == Spec => []TimersAreAlive
<1>1. IInv => TimersAreAlive BY DEF IInv
<1> QED BY <1>1, Invariance, PTL

(* No script of a world that is gone ever runs, whichever frames go and     *)
(* whichever places nodes take.                                             *)
THEOREM LivingRun == Spec => []OnlyTheLivingRun
<1>1. IInv => OnlyTheLivingRun BY RunningWorld DEF IInv, OnlyTheLivingRun
<1> QED BY <1>1, Invariance, PTL

-----------------------------------------------------------------------------
(* A page without frames that run scripts.                                  *)

(* Everything belongs to the world of the page.                             *)
OneWorld ==
  ~framed =>
    /\ \A f \in Frame : f # Main => world[f] = 0
    /\ timerCtx = world[Main]
    /\ \A t \in timers : t.world = world[Main]
    /\ \A a \in Addr : \A i \in DOMAIN listeners[a] : listeners[a][i] = world[Main]

(* And what the tables say of the places of nodes is true.                  *)
OneShim ==
  ~framed /\ ~strayed =>
    \A a \in Addr : /\ a \in shimmed => shims[a] = 1
                    /\ shims[a] > 0 => a \in shimmed /\ node[a] = world[Main]

LEMMA CloseOthers ==
  ASSUME IInv, OneWorld, ~framed, NEW pages, NEW frames \in SUBSET Frame,
         Main \notin frames, Close(pages, frames)
  PROVE  /\ UNCHANGED <<world, timers, timerCtx>>
         /\ \A a \in Addr : /\ shims'[a] \in {0, shims[a]}
                            /\ shims'[a] # 0 => node'[a] = node[a]
                            /\ node[a] = world[Main] =>
                                 node'[a] = node[a] /\ shims'[a] = shims[a]
<1> DEFINE worlds == [f \in Frame |-> IF f \in frames THEN 0 ELSE world[f]]
<1>1. Settle(pages, worlds, UNION {Range(listeners[a]) : a \in Addr}) BY DEF Close
<1>2. \A f \in frames : world[f] = 0 BY DEF OneWorld
<1>3. worlds = world BY <1>2 DEF IInv, TypeOK
<1>4. UNCHANGED <<timers, timerCtx>> BY <1>2 DEF Close, clock
<1> HIDE DEF worlds
<1>5. /\ world' = worlds
      /\ \A a \in Addr : \/ node'[a] = 0 /\ shims'[a] = 0
                         \/ node'[a] = node[a] /\ shims'[a] = shims[a]
      /\ \A f \in Frame, a \in Addr :
           node[a] = worlds[f] => node'[a] = node[a] /\ shims'[a] = shims[a]
  BY <1>1, SettleKeeps DEF IInv
<1> QED BY <1>3, <1>4, <1>5, BridgeAssumption

LEMMA SetMain ==
  ASSUME IInv, OneWorld, OneShim, NEW f \in Frame, page[f] # 0, SetDocument(f),
         strayed' = strayed
  PROVE  OneWorld' /\ OneShim'
<1>1. CASE world[f] = page[f]
  <2>1. UNCHANGED <<node, world, shims, shimmed, listeners, timers, timerCtx, framed>>
    BY <1>1 DEF SetDocument, events, clock
  <2> QED BY <2>1 DEF OneWorld, OneShim
<1>2. CASE world[f] # page[f] /\ f # Main
  <2>1. framed' BY <1>2 DEF SetDocument
  <2> QED BY <2>1 DEF OneWorld, OneShim
<1>3. CASE world[f] # page[f] /\ f = Main
  <2> SUFFICES ASSUME ~framed PROVE OneWorld' /\ OneShim'
    <3>1. framed' = framed BY <1>3 DEF SetDocument, IInv, TypeOK
    <3> QED BY <3>1 DEF OneWorld, OneShim
  <2> DEFINE worlds == [world EXCEPT ![Main] = page[Main]]
  <2>1. Settle(page, worlds, {}) BY <1>3 DEF SetDocument
  <2>2. /\ world' = worlds
        /\ \A a \in Addr : \/ node'[a] = 0 /\ shims'[a] = 0
                           \/ node'[a] = node[a] /\ shims'[a] = shims[a]
    BY <2>1, SettleKeeps DEF IInv
  <2>3. \A g \in Frame : worlds[g] = IF g = Main THEN page[Main] ELSE 0
    BY <1>3 DEF IInv, TypeOK, OneWorld
  <2>4. timerCtx' = world'[Main] BY <1>3, <2>2, <2>3 DEF SetDocument
  <2>5. CASE world[Main] = 0
    <3>1. UNCHANGED <<timers, listeners, shimmed>> BY <1>3, <2>5 DEF SetDocument
    <3>2. timers = {} BY <2>5 DEF IInv, TypeOK, OneWorld, Timer, Document
    <3>3. ASSUME NEW a \in Addr, NEW i \in DOMAIN listeners[a] PROVE FALSE
      <4>1. listeners[a][i] \in Document
        BY ElementOfSeq, LenProperties DEF IInv, TypeOK
      <4> QED BY <2>5, <4>1 DEF OneWorld, Document
    <3>4. OneWorld' BY <2>2, <2>3, <2>4, <3>1, <3>2, <3>3 DEF OneWorld
    <3>5. ASSUME ~strayed, NEW a \in Addr
          PROVE  a \notin shimmed /\ shims[a] = 0 /\ shims'[a] = 0
      <4>1. node[a] = 0 => shims[a] = 0 BY DEF IInv, Noted
      <4>2. shims[a] \in Nat BY BridgeAssumption DEF IInv, TypeOK
      <4> QED BY <2>2, <2>5, <3>5, <4>1, <4>2 DEF OneShim
    <3> QED BY <3>1, <3>4, <3>5 DEF OneShim
  <2>6. CASE world[Main] # 0
    <3>1. timers' = {} /\ listeners' = [a \in Addr |-> <<>>] /\ shimmed' = {}
      BY <1>3, <2>6 DEF SetDocument
    <3>2. \A a \in Addr : listeners'[a] = <<>> BY <3>1
    <3>3. DOMAIN <<>> = {} OBVIOUS
    <3>4. OneWorld' BY <2>2, <2>3, <2>4, <3>1, <3>2, <3>3 DEF OneWorld
    <3>5. world[Main] \in Lasting(page, world) \ (Lasting(page, worlds) \cup {})
      <4>1. \A g \in Frame : page[g] # world[Main]
        BY <1>3, <2>6 DEF IInv, Apart
      <4>2. \A g \in Frame : worlds[g] # world[Main] BY <1>3, <2>3, <2>6
      <4>3. world[Main] \in {world[g] : g \in Frame} BY BridgeAssumption
      <4> HIDE DEF worlds
      <4> QED BY <4>1, <4>2, <4>3 DEF Lasting
    <3>6. ASSUME ~strayed, NEW a \in Addr PROVE shims'[a] = 0
      <4> HIDE DEF worlds
      <4>1. CASE shims[a] > 0
        <5>1. node[a] = world[Main] BY <3>6, <4>1 DEF OneShim
        <5> QED BY <2>1, <3>5, <5>1 DEF Settle
      <4>2. CASE ~(shims[a] > 0)
        <5>1. shims[a] = 0 BY <4>2, BridgeAssumption DEF IInv, TypeOK
        <5> QED BY <2>2, <5>1
      <4> QED BY <4>1, <4>2
    <3> QED BY <3>1, <3>4, <3>6 DEF OneShim
  <2> QED BY <2>5, <2>6
<1> QED BY <1>1, <1>2, <1>3

LEMMA HomeStep ==
  ASSUME IInv, OneWorld, OneShim, [Next]_vars PROVE OneWorld' /\ OneShim'
<1>1. ASSUME NEW pages, NEW frames \in SUBSET Frame, Main \notin frames, Close(pages, frames),
             UNCHANGED <<shimmed, listeners, history>>
      PROVE  OneWorld' /\ OneShim'
  <2>1. ASSUME framed PROVE OneWorld' /\ OneShim'
    BY <1>1, <2>1 DEF OneWorld, OneShim, history
  <2>2. ASSUME ~framed PROVE OneWorld' /\ OneShim'
    <3>1. /\ UNCHANGED <<world, timers, timerCtx>>
          /\ \A a \in Addr : /\ shims'[a] \in {0, shims[a]}
                             /\ shims'[a] # 0 => node'[a] = node[a]
                             /\ node[a] = world[Main] =>
                                  node'[a] = node[a] /\ shims'[a] = shims[a]
      BY <1>1, <2>2, CloseOthers
    <3>2. OneWorld' BY <1>1, <2>2, <3>1 DEF OneWorld, history
    <3>3. OneShim'
      <4> SUFFICES ASSUME ~strayed, NEW a \in Addr
                   PROVE  /\ a \in shimmed => shims'[a] = 1
                          /\ shims'[a] > 0 => a \in shimmed /\ node'[a] = world[Main]
        BY <1>1, <2>2, <3>1 DEF OneShim, history
      <4>1. /\ a \in shimmed => shims[a] = 1
            /\ shims[a] > 0 => a \in shimmed /\ node[a] = world[Main]
        BY <2>2 DEF OneShim
      <4> QED BY <3>1, <4>1
    <3> QED BY <3>2, <3>3
  <2> QED BY <2>1, <2>2
<1>2. ASSUME NEW f \in Frame, Begin(f) PROVE OneWorld' /\ OneShim'
  <2> DEFINE pages == [g \in Frame |-> IF g = f THEN docs + 1
                                       ELSE IF f = Main THEN 0 ELSE page[g]]
             frames == IF f = Main THEN Frame \ {Main} ELSE {}
  <2>1. /\ Close(pages, frames) /\ UNCHANGED <<shimmed, listeners, history>>
        /\ frames \in SUBSET Frame /\ Main \notin frames
    BY <1>2 DEF Begin
  <2> HIDE DEF pages, frames
  <2> QED BY <1>1, <2>1
<1>3. ASSUME NEW f \in Frame, RemoveFrame(f) PROVE OneWorld' /\ OneShim'
  <2> DEFINE pages == [page EXCEPT ![f] = 0]
  <2>1. /\ Close(pages, {f}) /\ UNCHANGED <<shimmed, listeners, history>>
        /\ {f} \in SUBSET Frame /\ Main \notin {f}
    BY <1>3 DEF RemoveFrame
  <2> HIDE DEF pages
  <2> QED BY <1>1, <2>1
<1>4. ASSUME NEW f \in Frame, Script(f) \/ InlineHandler(f) PROVE OneWorld' /\ OneShim'
  <2>1. CASE SetDocument(f)
    BY <1>4, <2>1, SetMain DEF Script, InlineHandler
  <2>2. CASE UNCHANGED <<page, node, world, events, clock, framed>>
    BY <1>4, <2>2 DEF Script, InlineHandler, OneWorld, OneShim, events, clock
  <2> QED BY <1>4, <2>1, <2>2 DEF Script, InlineHandler
<1>5. ASSUME NEW a \in Addr,
             \/ \E f \in Frame : Parse(f, a)
             \/ CreateNode(a) \/ DropNode(a)
      PROVE  OneWorld' /\ OneShim'
  <2>1. /\ UNCHANGED <<world, shimmed, listeners, timers, timerCtx, framed>>
        /\ \A b \in Addr : b # a => node'[b] = node[b] /\ shims'[b] = shims[b]
    BY <1>5 DEF Parse, CreateNode, DropNode, events, clock, history, IInv, TypeOK
  <2>2. OneWorld' BY <2>1 DEF OneWorld
  <2>3. ASSUME ~framed, ~strayed'
        PROVE  ~strayed /\ a \notin shimmed /\ shims'[a] = 0
    <3>1. CASE (\E f \in Frame : Parse(f, a)) \/ CreateNode(a)
      <4>1. node[a] = 0 /\ shims' = shims /\ strayed' = strayed
        BY <3>1 DEF Parse, CreateNode, events, history
      <4>2. shims[a] = 0 BY <4>1 DEF IInv, Noted
      <4> QED BY <2>3, <4>1, <4>2 DEF OneShim
    <3>2. CASE DropNode(a)
      BY <2>3, <3>2 DEF DropNode, IInv, TypeOK
    <3> QED BY <1>5, <3>1, <3>2
  <2>4. OneShim' BY <2>1, <2>3 DEF OneShim
  <2> QED BY <2>2, <2>4
<1>6. ASSUME NEW a \in Addr,
             AddListener(a) \/ \E i \in DOMAIN listeners[a] : RemoveListener(a, i)
      PROVE  OneWorld' /\ OneShim'
  <2>1. UNCHANGED <<node, world, timers, timerCtx, framed>> /\ Calling
    BY <1>6 DEF AddListener, RemoveListener, dom, clock, history
  <2>2. ~framed => run.world = world[Main]
    <3>1. run # Idle BY <2>1 DEF Calling, Idle
    <3>2. run.world \in Alive BY <3>1, RunningWorld DEF IInv
    <3> QED BY <3>2 DEF Alive, OneWorld
  <2>3. listeners[a] \in Seq(Document) /\ run.world \in Document
    <3>1. run # Idle BY <2>1 DEF Calling, Idle
    <3> QED BY <3>1, RunningWorld DEF IInv, TypeOK
  <2>4. /\ \A b \in Addr : b # a => listeners'[b] = listeners[b]
        /\ \A i \in DOMAIN listeners'[a] :
             listeners'[a][i] \in {run.world} \cup Range(listeners[a])
    <3>1. CASE AddListener(a)
      <4>1. listeners' = [listeners EXCEPT ![a] = Append(listeners[a], run.world)]
        BY <3>1 DEF AddListener
      <4> QED BY <2>3, <4>1, AppendElements DEF IInv, TypeOK
    <3>2. CASE \E i \in DOMAIN listeners[a] : RemoveListener(a, i)
      <4>1. PICK i \in DOMAIN listeners[a] : RemoveListener(a, i) BY <3>2
      <4>2. listeners' = [listeners EXCEPT ![a] = RemoveAt(listeners[a], i)]
        BY <4>1 DEF RemoveListener
      <4> QED BY <2>3, <4>2, RemoveElements DEF IInv, TypeOK
    <3> QED BY <1>6, <3>1, <3>2
  <2>5. OneWorld'
    <3> SUFFICES ASSUME ~framed, NEW b \in Addr, NEW i \in DOMAIN listeners'[b]
                 PROVE  listeners'[b][i] = world[Main]
      BY <2>1 DEF OneWorld
    <3>1. CASE b # a BY <2>4, <3>1 DEF OneWorld
    <3>2. CASE b = a
      <4>1. \A w \in Range(listeners[a]) : w = world[Main] BY DEF OneWorld, Range
      <4> QED BY <2>2, <2>4, <3>2, <4>1
    <3> QED BY <3>1, <3>2
  <2>6. OneShim'
    <3>1. CASE AddListener(a)
      <4>1. /\ shimmed' = shimmed \cup {a}
            /\ shims' = IF a \in shimmed THEN shims ELSE [shims EXCEPT ![a] = @ + 1]
            /\ strayed' = (strayed \/ node[a] # run.world)
        BY <3>1 DEF AddListener
      <4> SUFFICES ASSUME ~framed, ~strayed, node[a] = run.world, NEW b \in Addr
                   PROVE  /\ b \in shimmed' => shims'[b] = 1
                          /\ shims'[b] > 0 => b \in shimmed' /\ node[b] = world[Main]
        BY <2>1, <4>1 DEF OneShim
      <4>2. /\ b \in shimmed => shims[b] = 1
            /\ shims[b] > 0 => b \in shimmed /\ node[b] = world[Main]
            /\ shims[b] \in Nat
        BY BridgeAssumption DEF OneShim, IInv, TypeOK
      <4>3. CASE b # a BY <4>1, <4>2, <4>3 DEF IInv, TypeOK
      <4>4. CASE b = a
        <5>1. node[b] = world[Main] BY <2>2, <4>4
        <5>2. shims'[b] = 1 BY <4>1, <4>2, <4>4 DEF IInv, TypeOK
        <5> QED BY <4>1, <4>4, <5>1, <5>2
      <4> QED BY <4>3, <4>4
    <3>2. CASE \E i \in DOMAIN listeners[a] : RemoveListener(a, i)
      BY <2>1, <3>2 DEF RemoveListener, history, OneShim
    <3> QED BY <1>6, <3>1, <3>2
  <2> QED BY <2>5, <2>6
<1>7. CASE \/ \E t \in timers : Fire(t) \/ ClearTimer(t)
           \/ \E f \in Frame, a \in Addr : Event(f, a)
           \/ Callback \/ Walked \/ Return
           \/ \E repeat \in BOOLEAN : SetTimer(repeat)
           \/ UNCHANGED vars
  <2>1. /\ UNCHANGED <<node, world, shims, shimmed, listeners, timerCtx, framed, strayed>>
        /\ \A t \in timers' : t \in timers \/ t.world = timerCtx
    BY <1>7 DEF Fire, ClearTimer, Event, Callback, Walked, Return, SetTimer,
                vars, dom, events, clock, history
  <2> QED BY <2>1 DEF OneWorld, OneShim
<1> QED BY <1>2, <1>3, <1>4, <1>5, <1>6, <1>7 DEF Next

THEOREM HomeInvariance == Spec => [](OneWorld /\ OneShim)
<1>1. Init => OneWorld /\ OneShim
  BY BridgeAssumption DEF Init, OneWorld, OneShim
<1>2. IInv /\ (OneWorld /\ OneShim) /\ [Next]_vars => (OneWorld /\ OneShim)'
  BY HomeStep
<1> QED BY <1>1, <1>2, Invariance, PTL DEF Spec

(* Without scripts in frames, the tables and the timers are the page's own. *)
THEOREM HomeCorrect == Spec => []AtHome
<1>1. IInv /\ OneWorld => AtHome
  <2> SUFFICES ASSUME IInv, OneWorld, ~framed PROVE AtHome BY DEF AtHome
  <2>1. ASSUME NEW a \in Addr, NEW i \in DOMAIN listeners[a] PROVE listeners[a][i] \in Alive
    <3>1. listeners[a][i] \in Document
      BY ElementOfSeq, LenProperties DEF IInv, TypeOK
    <3> QED BY <3>1, BridgeAssumption DEF OneWorld, Alive, Document
  <2>2. Calling => run.world = timerCtx
    <3>1. Calling => run # Idle BY DEF Calling, Idle
    <3>2. Calling => run.world \in Alive BY <3>1, RunningWorld DEF IInv
    <3> QED BY <3>2 DEF Alive, OneWorld
  <2> QED BY <2>1, <2>2 DEF AtHome, OneWorld
<1> QED BY <1>1, Invariance, HomeInvariance, PTL

(* A callback is called once for an event, unless a node with a shim went.  *)
THEOREM HeardCorrect == Spec => []HeardOnce
<1>1. IInv /\ OneShim => HeardOnce BY DEF IInv, Noted, OneShim, HeardOnce
<1> QED BY <1>1, Invariance, HomeInvariance, PTL
=============================================================================
