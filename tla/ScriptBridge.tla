---------------------------- MODULE ScriptBridge ----------------------------
(***************************************************************************)
(* The bridge between the engine's documents and QuickJS                   *)
(* (src/khtml/src/ecma/qjs_dom_bridge.cpp, js_proxy.cpp).                  *)
(*                                                                         *)
(* Every frame has a bridge from its first script on, and the bridge has a *)
(* world (runtime and context) for one document: it is thrown away when a  *)
(* script of the next document runs, not when that document comes.  Timers *)
(* and event listeners are kept in tables of the process, which all frames *)
(* use; listeners are found by the address of their node, and a native     *)
(* listener (the shim) on the node makes the engine look them up.          *)
(*                                                                         *)
(* A world is named by its document, for it never has another one.  One    *)
(* event type stands for all: the tables keep them apart.  Arguments,      *)
(* delays and results are left out, as are the DOM itself, promise jobs    *)
(* (they end with the call that made them) and events that a callback      *)
(* causes.                                                                 *)
(***************************************************************************)
EXTENDS Naturals, Sequences, SequencesExt

CONSTANTS
  Frame, Main,   (* frames of the page, and the outermost one              *)
  Addr,          (* places of nodes in memory                              *)
  MaxDocs,       (* bound: documents                                       *)
  MaxTimers,     (* bound: timers                                          *)
  MaxEntries     (* bound: callbacks of a node, and its shims              *)

ASSUME BridgeAssumption ==
  Main \in Frame /\ MaxDocs \in Nat /\ MaxTimers \in Nat /\ MaxEntries \in Nat

VARIABLES
  docs,       (* number of the newest document                             *)
  page,       (* [Frame -> document of the frame, 0: no such frame]        *)
  world,      (* [Frame -> lastDocHandle: document of its world, 0: no bridge] *)
  node,       (* [Addr -> document of the node there, 0: free]             *)
  shims,      (* [Addr -> number of QJSNodeListeners of the node]          *)
  shimmed,    (* g_qjsShimmed                                              *)
  listeners,  (* g_qjsListeners: [Addr -> worlds of the callbacks]         *)
  timers,     (* g_qjsTimers                                               *)
  timerCtx,   (* g_qjsTimerCtx, 0: none                                    *)
  nextId,     (* g_qjsNextTimerId                                          *)
  run,        (* what the thread is in                                     *)
  framed,     (* history: a frame inside the page had a world              *)
  strayed     (* history: a node and what the tables say of it parted      *)

dom       == <<docs, page, node>>
events    == <<shims, shimmed, listeners>>
clock     == <<timers, timerCtx>>
history   == <<framed, strayed>>
vars == <<dom, world, events, clock, nextId, run, history>>

Document == 1..MaxDocs
Timer    == [id : 1..MaxTimers, world : Document, repeat : BOOLEAN]
Idle     == [kind |-> "idle"]
Running  ==
  {Idle} \cup [kind : {"script"}, world : Document, page : Document]
  \cup [kind : {"timer"}, world : Document, timer : Timer]
  \cup [kind : {"event"}, world : Document, addr : Addr, left : 1..MaxEntries,
        at : 0..MaxEntries, torn : BOOLEAN]

TypeOK ==
  /\ docs \in 0..MaxDocs
  /\ page \in [Frame -> 0..MaxDocs] /\ world \in [Frame -> 0..MaxDocs]
  /\ node \in [Addr -> 0..MaxDocs] /\ shims \in [Addr -> 0..MaxEntries]
  /\ shimmed \subseteq Addr
  /\ listeners \in [Addr -> Seq(Document)]
  /\ \A a \in Addr : Len(listeners[a]) <= MaxEntries
  /\ timers \subseteq Timer /\ timerCtx \in 0..MaxDocs /\ nextId \in 1..(MaxTimers + 1)
  /\ run \in Running
  /\ framed \in BOOLEAN /\ strayed \in BOOLEAN

Alive == {world[f] : f \in Frame} \ {0}

-----------------------------------------------------------------------------
(* Documents and worlds.                                                    *)

(* A document lasts as long as its frame shows it or a world wraps it; its  *)
(* nodes go with it, and with them their shims.  But the destructor of a    *)
(* bridge leaves its listeners in the table, and what they refer to leaks   *)
(* (in a QuickJS built without assertions; JS_FreeRuntime() has one).       *)
Lasting(pages, worlds) == {pages[f] : f \in Frame} \cup {worlds[f] : f \in Frame}

Settle(pages, worlds, leaked) ==
  LET ended == Lasting(page, world) \ (Lasting(pages, worlds) \cup leaked)
      gone  == {a \in Addr : node[a] \in ended}
  IN  /\ page' = pages /\ world' = worlds
      /\ node' = [a \in Addr |-> IF a \in gone THEN 0 ELSE node[a]]
      /\ shims' = [a \in Addr |-> IF a \in gone THEN 0 ELSE shims[a]]

(* Frames go, with their bridges, and qjsTimerKillAll() takes the timers of *)
(* all worlds.                                                              *)
FaultClose(pages, frames) ==           \* leaves the timers, too
  /\ Settle(pages, [f \in Frame |-> IF f \in frames THEN 0 ELSE world[f]],
            UNION {Range(listeners[a]) : a \in Addr})
  /\ UNCHANGED clock

Close(pages, frames) ==
  /\ Settle(pages, [f \in Frame |-> IF f \in frames THEN 0 ELSE world[f]],
            UNION {Range(listeners[a]) : a \in Addr})
  /\ IF \E f \in frames : world[f] # 0
     THEN timers' = {} /\ timerCtx' = 0
     ELSE UNCHANGED clock

(* begin(), whose clear() takes the frames of the old page away.            *)
Begin(f) ==
  /\ run = Idle /\ docs < MaxDocs
  /\ f = Main \/ page[Main] # 0
  /\ docs' = docs + 1
  /\ Close([g \in Frame |-> IF g = f THEN docs + 1 ELSE IF f = Main THEN 0 ELSE page[g]],
           IF f = Main THEN Frame \ {Main} ELSE {})
  /\ UNCHANGED <<shimmed, listeners, nextId, run, history>>

(* setDocument(): nothing for the same document, and resetRuntime() for     *)
(* another one, which empties the tables of all frames.                     *)
FaultSetDocument(f) ==                 \* the timers stay
  IF world[f] = page[f]
  THEN UNCHANGED <<page, node, world, events, clock, framed>>
  ELSE /\ Settle(page, [world EXCEPT ![f] = page[f]], {})
       /\ timerCtx' = page[f]
       /\ framed' = (framed \/ f # Main)
       /\ UNCHANGED timers
       /\ IF world[f] = 0
          THEN UNCHANGED <<listeners, shimmed>>
          ELSE listeners' = [a \in Addr |-> <<>>] /\ shimmed' = {}

FaultReset(f) ==                       \* g_qjsShimmed stays
  IF world[f] = page[f]
  THEN UNCHANGED <<page, node, world, events, clock, framed>>
  ELSE /\ Settle(page, [world EXCEPT ![f] = page[f]], {})
       /\ timerCtx' = page[f]
       /\ framed' = (framed \/ f # Main)
       /\ UNCHANGED shimmed
       /\ IF world[f] = 0
          THEN UNCHANGED <<timers, listeners>>
          ELSE timers' = {} /\ listeners' = [a \in Addr |-> <<>>]

SetDocument(f) ==
  IF world[f] = page[f]
  THEN UNCHANGED <<page, node, world, events, clock, framed>>
  ELSE /\ Settle(page, [world EXCEPT ![f] = page[f]], {})
       /\ timerCtx' = page[f]
       /\ framed' = (framed \/ f # Main)
       /\ IF world[f] = 0
          THEN UNCHANGED <<timers, listeners, shimmed>>
          ELSE timers' = {} /\ listeners' = [a \in Addr |-> <<>>] /\ shimmed' = {}

(* The parser makes the nodes of the page.                                  *)
Parse(f, a) ==
  /\ run = Idle /\ page[f] # 0 /\ node[a] = 0
  /\ node' = [node EXCEPT ![a] = page[f]]
  /\ UNCHANGED <<docs, page, world, events, clock, nextId, run, history>>

-----------------------------------------------------------------------------
(* Tasks.                                                                   *)

(* A <script>: ScriptProxy::evaluate().                                     *)
Script(f) ==
  /\ run = Idle /\ page[f] # 0
  /\ SetDocument(f)
  /\ run' = [kind |-> "script", world |-> page[f], page |-> page[f]]
  /\ UNCHANGED <<docs, nextId, strayed>>

(* An onclick attribute: only a new bridge is told the document.            *)
InlineHandler(f) ==
  /\ run = Idle /\ page[f] # 0
  /\ IF world[f] = 0
     THEN SetDocument(f)
     ELSE UNCHANGED <<page, node, world, events, clock, framed>>
  /\ run' = [kind |-> "script", page |-> page[f],
             world |-> IF world[f] = 0 THEN page[f] ELSE world[f]]
  /\ UNCHANGED <<docs, nextId, strayed>>

(* A timer: one that does not repeat leaves the tables first.  A function   *)
(* runs in the world it comes from, a string in the one the timers live in. *)
Fire(t) ==
  /\ run = Idle /\ timerCtx # 0
  /\ timers' = IF t.repeat THEN timers ELSE timers \ {t}
  /\ \E w \in {t.world, timerCtx} :
       run' = [kind |-> "timer", world |-> w, timer |-> t]
  /\ UNCHANGED <<dom, world, events, timerCtx, nextId, history>>

(* An event for a node: each of its shims walks the callbacks of the node.  *)
Event(f, a) ==
  /\ run = Idle /\ page[f] # 0 /\ node[a] = page[f] /\ shims[a] > 0
  /\ run' = [kind |-> "event", world |-> world[f], addr |-> a, left |-> shims[a],
             at |-> 0, torn |-> FALSE]
  /\ UNCHANGED <<dom, world, events, clock, nextId, history>>

Callback ==
  /\ run.kind = "event" /\ run.at < Len(listeners[run.addr])
  /\ run' = [run EXCEPT !.at = run.at + 1, !.world = listeners[run.addr][run.at + 1]]
  /\ UNCHANGED <<dom, world, events, clock, nextId, history>>

(* A walk whose list was changed under it may end anywhere.                 *)
FaultWalked ==                         \* one walk too many
  /\ run.kind = "event" /\ (run.at >= Len(listeners[run.addr]) \/ run.torn)
  /\ run' = IF run.left = 0 THEN Idle
            ELSE [run EXCEPT !.left = run.left - 1, !.at = 0, !.torn = FALSE]
  /\ UNCHANGED <<dom, world, events, clock, nextId, history>>

Walked ==
  /\ run.kind = "event" /\ (run.at >= Len(listeners[run.addr]) \/ run.torn)
  /\ run' = IF run.left = 1 THEN Idle
            ELSE [run EXCEPT !.left = run.left - 1, !.at = 0, !.torn = FALSE]
  /\ UNCHANGED <<dom, world, events, clock, nextId, history>>

Return ==
  /\ run.kind \in {"script", "timer"}
  /\ run' = Idle
  /\ UNCHANGED <<dom, world, events, clock, nextId, history>>

-----------------------------------------------------------------------------
(* What a script may call.                                                  *)

Calling == run.kind \in {"script", "timer"} \/ (run.kind = "event" /\ run.at > 0)

(* The documents whose nodes a script gets at: an inline handler is given   *)
(* its node and the event, whatever world it runs in.                       *)
Reach == IF run.kind = "script" THEN {run.world, run.page} ELSE {run.world}

(* Changing the list that is being walked.                                  *)
Tear(a) ==
  run' = IF run.kind = "event" /\ run.addr = a THEN [run EXCEPT !.torn = TRUE] ELSE run

(* setTimeout(), setInterval(): refused when another frame's world came     *)
(* last.                                                                    *)
SetTimer(repeat) ==
  /\ Calling /\ timerCtx = run.world
  /\ nextId <= MaxTimers /\ nextId' = nextId + 1
  /\ timers' = timers \cup {[id |-> nextId, world |-> run.world, repeat |-> repeat]}
  /\ UNCHANGED <<dom, world, events, timerCtx, run, history>>

(* clearTimeout(): by the number, whoever set it.                           *)
ClearTimer(t) ==
  /\ Calling
  /\ timers' = timers \ {t}
  /\ UNCHANGED <<dom, world, events, timerCtx, nextId, run, history>>

(* addEventListener(): the tables go by the address of the node.            *)
FaultAddListener(a) ==                 \* a shim for every node without one
  /\ Calling /\ node[a] \in Reach /\ Len(listeners[a]) < MaxEntries
  /\ listeners' = [listeners EXCEPT ![a] = Append(@, run.world)]
  /\ shimmed' = shimmed \cup {a}
  /\ shims[a] < MaxEntries
  /\ shims' = IF shims[a] > 0 THEN shims ELSE [shims EXCEPT ![a] = @ + 1]
  /\ Tear(a)
  /\ strayed' = (strayed \/ node[a] # run.world)
  /\ UNCHANGED <<dom, world, clock, nextId, framed>>

AddListener(a) ==
  /\ Calling /\ node[a] \in Reach /\ Len(listeners[a]) < MaxEntries
  /\ listeners' = [listeners EXCEPT ![a] = Append(@, run.world)]
  /\ shimmed' = shimmed \cup {a}
  /\ shims[a] < MaxEntries
  /\ shims' = IF a \in shimmed THEN shims ELSE [shims EXCEPT ![a] = @ + 1]
  /\ Tear(a)
  /\ strayed' = (strayed \/ node[a] # run.world)
  /\ UNCHANGED <<dom, world, clock, nextId, framed>>

(* removeEventListener(): the shim stays.                                   *)
RemoveListener(a, i) ==
  /\ Calling /\ node[a] \in Reach /\ listeners[a][i] = run.world
  /\ listeners' = [listeners EXCEPT ![a] = RemoveAt(@, i)]
  /\ Tear(a)
  /\ UNCHANGED <<dom, world, shims, shimmed, clock, nextId, history>>

(* createElement(), innerHTML; and the end of a node, which is no business  *)
(* of the tables.  The node of an event is held.                            *)
CreateNode(a) ==
  /\ Calling /\ node[a] = 0
  /\ \E d \in Reach : node' = [node EXCEPT ![a] = d]
  /\ UNCHANGED <<docs, page, world, events, clock, nextId, run, history>>

DropNode(a) ==
  /\ Calling /\ node[a] \in Reach
  /\ run.kind = "event" => run.addr # a
  /\ node' = [node EXCEPT ![a] = 0]
  /\ shims' = [shims EXCEPT ![a] = 0]
  /\ strayed' = (strayed \/ a \in shimmed)
  /\ UNCHANGED <<docs, page, world, shimmed, listeners, clock, nextId, run, framed>>

(* A frame is taken out of the page by a script that gets at the page.      *)
RemoveFrame(f) ==
  /\ Calling /\ page[Main] \in Reach
  /\ f # Main /\ page[f] # 0
  /\ Close([page EXCEPT ![f] = 0], {f})
  /\ UNCHANGED <<docs, shimmed, listeners, nextId, run, history>>

-----------------------------------------------------------------------------
Init ==
  /\ docs = 0 /\ page = [f \in Frame |-> 0] /\ world = [f \in Frame |-> 0]
  /\ node = [a \in Addr |-> 0] /\ shims = [a \in Addr |-> 0]
  /\ shimmed = {} /\ listeners = [a \in Addr |-> <<>>]
  /\ timers = {} /\ timerCtx = 0 /\ nextId = 1
  /\ run = Idle /\ framed = FALSE /\ strayed = FALSE

Next ==
  \/ \E f \in Frame : Begin(f) \/ Script(f) \/ InlineHandler(f) \/ RemoveFrame(f)
  \/ \E f \in Frame, a \in Addr : Parse(f, a) \/ Event(f, a)
  \/ \E t \in timers : Fire(t) \/ ClearTimer(t)
  \/ Callback \/ Walked \/ Return
  \/ \E repeat \in BOOLEAN : SetTimer(repeat)
  \/ \E a \in Addr : AddListener(a) \/ CreateNode(a) \/ DropNode(a)
  \/ \E a \in Addr : \E i \in DOMAIN listeners[a] : RemoveListener(a, i)

Spec == Init /\ [][Next]_vars

-----------------------------------------------------------------------------
(* Properties.                                                              *)

(* A timer never outlives the world it calls into, whichever frame goes and *)
(* whichever world the timers were last given (qjsTimerKillAll() on every   *)
(* teardown).                                                               *)
TimersAreAlive ==
  /\ timerCtx \in Alive \cup {0}
  /\ \A t \in timers : t.world \in Alive /\ timerCtx # 0

(* No callback of a world that is gone ever runs.  Its listeners are still  *)
(* in the table, and a node of the page may take the place of theirs: what  *)
(* keeps them silent is that g_qjsShimmed still remembers that place, too   *)
(* (elAddEventListener, dispatchEvent).                                     *)
OnlyTheLivingRun == run # Idle => run.world \in Alive

(* As long as no frame inside the page has run a script, everything in the  *)
(* tables belongs to the world of the page, and its timers are accepted.    *)
AtHome ==
  ~framed =>
    /\ \A t \in timers : t.world = timerCtx
    /\ \A a \in Addr : \A i \in DOMAIN listeners[a] : listeners[a][i] \in Alive
    /\ Calling => run.world = timerCtx

(* And every callback is called once for an event.  Not so when a node with *)
(* a shim was dropped, for the next node in its place looks as if it had    *)
(* one, nor when an inline handler listened to a node of its page in the    *)
(* world of the page before, for the node keeps its shim when the tables    *)
(* are emptied (elAddEventListener, resetRuntime).                          *)
HeardOnce ==
  ~framed /\ ~strayed => \A a \in Addr : listeners[a] # <<>> => shims[a] = 1

-----------------------------------------------------------------------------
(* What the comments say and the code does not do.                          *)

(* qjs_dom_bridge.cpp:1029: "clearTimeout() / world reset during the        *)
(* callback must not be able to dangle the record we are about to call":    *)
(* an interval that clears itself is freed, and read when it returns.       *)
RecordOutlivesCall ==
  run.kind = "timer" => (run.timer.repeat => run.timer \in timers)
=============================================================================
