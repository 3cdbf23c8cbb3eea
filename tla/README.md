# A TLA+ model of KHtmlLite

KHtmlLite is a two-process web browser around the KHTML engine. This directory
holds TLA+ modules that model the code of `src/src/host/` (the browser window,
the renderer host, the page loader, the resource manager) and the bridge to QuickJS
in `src/src/khtml/src/ecma/`, configurations that model-check them with
TLC, and theorems about them whose proofs TLAPS checks. `PROJECT.json` maps
every definition to the lines of C++ it stands for.

Contents: [inventory](#1-inventory), [plan](#2-plan),
[modules](#3-modules-and-code), [runs](#4-runs), [proofs](#5-proofs),
[disagreements](#6-where-the-code-and-its-documentation-disagree),
[limits](#7-what-is-not-modelled).

## 1. Inventory

One `khtml_browser` process owns the window and the tabs. Every tab has a
`khtml_renderer` process, or had one before it was evicted or crashed.
Commands and events cross a `QLocalSocket` as JSON lines, pixels a
`QSharedMemory`. Each process runs its own code on one thread: what makes the
system hard is the order of events (replies, timers, signals emitted from
inside calls, socket messages, process exits), not shared-memory races.

| Component | State | Operations | Interacts with | What makes it hard | What makes it correct |
|---|---|---|---|---|---|
| **PageLoader** (`pageloader.cpp`) | generation, main reply, table of replies, two counters, flags, watchdog, queued finalize timers | `load`, `cancel`, `fail`, main reply, sub-resource reply, finalize, watchdog | renderer (signals `finished`, `refreshed`, `failed`, `progress`), network | `abort()` runs handlers inside the call; replies and timers of abandoned navigations; the watchdog racing the main document | counters exact; every delivered page finalized; nothing of an old navigation fed; a URL fetched once |
| **Renderer document feed** (`khtml_renderer.cpp`) | document of the engine, pending scroll restore, `m_pendingUrl` | initial feed, re-feed, `completed`, restore, blank page | PageLoader, engine, browser | `begin()` discards a pending `completed`; the re-feed and the tombstone restore share one slot | a resumed tab keeps its place; the re-feed is invisible |
| **Frame transport** (both) | damage, shared segment, mirror image, scroll offset, visibility | grab, publish, read tiles, predict and confirm scrolling, resize | engine, `PageSurface` | the segment is overwritten without an acknowledgement; prediction overtakes authority | the mirror converges to the page |
| **Tab history and command channel** (both) | history lists, `navPushed`, `m_adopted`, `m_embedded`, `m_pendingUrl` | navigate, back, forward, reload, stop, `ready`, `url` | user, PageLoader | both ends of the socket change the page at the same time; messages before the connection are dropped | the address bar names the document; no visited page is forgotten |
| **Tab strip** (`khtml_browser.cpp`) | `m_pages`, `m_tabBar`, `m_stack`, placeholders, recovery flags | new, close, select, move, crash, recovery, retry, suspend, resume | renderer processes, memory budget | three containers kept in step by index; signals emitted while indices are in transit | every tab shows its own widget; the selected tab is awake; no restart loop |
| **Memory budget** (`checkMemoryBudget`) | LRU stamps, ceilings, cache purge | sample, suspend, limit, purge | ResourceManager, tab strip | four rules of eviction in a row, over a stamp that is not the time a tab was left | only background tabs are evicted, the longest left first, and every one in the end |
| **ResourceManager** (`resourcemanager.cpp`) | hysteresis levels, latest sample, sanitized configuration | sample, classify, policy, advice | memory budget | thresholds with hysteresis, missing measurements, configurations in any order | no oscillation; ordered budgets; limits that do not loosen under pressure |
| **Script bridge** (`qjs_dom_bridge.cpp`, `js_proxy.cpp`) | a runtime per frame; timers, listeners and shims in tables of the process | script, inline handler, timer, event, setTimeout, addEventListener, teardown | engine (documents, nodes, frames, events) | worlds outlive documents and the other way round; tables shared by frames; nodes found by their address | nothing runs in a world that is gone; a callback is called once |
| **Crash capture, chrome, CSS/JS rewriting, logs, probes** | - | - | - | no protocol | not modelled |
| **KHTML engine, QuickJS interpreter, Bublé** | - | - | through the renderer | vendored or generated | external |

The hazards each component is exposed to are listed with their lines under
`hazards` in `PROJECT.json`.

## 2. Plan

In order of importance.

| Module | About | Composed with | Abstract specification | Theorems |
|---|---|---|---|---|
| `PageLoader` (done) | one navigation after the other, with all their replies and timers | - | `Navigation` (done) | type, counters, watchdog, finalization, single fetch, late refresh, refinement (done) |
| `TabStrip` (done) | pages, bar and stack under crashes and evictions | - | `TabList`; one cell per tab, as an invariant | type, bounded retries, alignment, foreground, selection, refinement (done) |
| `TabNavigation` (done) | history, socket, the renderer's address | the loader reduced to the address it fetches | - | type, address, history (done) |
| `FrameTransport` (done for a viewport that keeps its size) | damage, suppression cache, shared segment, scroll fast path, prediction, visibility | - | the canvas comes to be the page, as a state and a liveness property | type, cache, base, convergence (done); to model: resize, the `framesize` handshake, the recreation of the segment |
| `RendererDocument` (done) | the feeds of a document and the place on it, through re-feeds, sleep and waking | `Navigation`, whose actions it conjoins with the renderer's | a document and the place the user left it at, as an invariant | type, reported place, kept place (done) |
| `ResourceManager`, `MemoryWatchdog` (done but for the purging of caches) | hysteresis, budgets, the four rules of eviction, ceilings | `MemoryWatchdog` extends `ResourceManager` | tabs in the order in which they were left | type, ordered budgets, hysteresis, LRU, bounded idling, ceilings (done) |
| `ScriptBridge` (done) | worlds, timers, listeners, frames, reused nodes | - | - | type, timers, living worlds, home, heard once (done) |
| loading indicator | `loadstart`, `loadprogress`, `loaddone` through stops, retries and re-feeds | `TabNavigation` | - | - |
| cache directory | purge and two renderers of one address | `PageLoader` | - | - |

## 3. Modules and code

### `Navigation` and `PageLoader`

`Navigation` is what the renderer may rely on: asked for navigations, the
loader feeds a document once (`finished`), then any number of times in its
completed form (`refreshed`), never after an error or a stop, and always the
one that was asked for last.

`PageLoader` is `pageloader.cpp`. Variables carry the names of the members
(`m_pending` is `pending`). One action is one run of the event loop:

| Action | Code |
|---|---|
| `Load`, `LoadMirror`, `Cancel` | `load()` of a page, `load()` of a cache mirror (which goes through `fail()`), `cancel()` |
| `MainFinished`, `MainError`, `ObsoleteMainFinished` | `onMainFinished()` with `extractResources()`, `deliverInitialDocument()`, `startDownloads()` |
| `ResourceFinished` | `onResourceFinished()` with `extractFromCss()` and `finalizeSubresources()` |
| `FinalizeTimer`, `Timeout` | the 0 ms and 100 ms timers with the generation they captured; `onTimeout()` |

A document is the set of addresses it names, and so is a style sheet; which
ones they are is chosen when the reply arrives. `QNetworkReply::abort()` emits
`finished` inside the call, so the handlers of aborted downloads are part of the
aborting action; the reply of a `file:` URL has its signal queued already and
may deliver it after the abort (`AbortMain`). Calls of `load()` from inside the
loader's own `finished` and `refreshed` signals do not exist in the code:
navigations the engine asks for arrive from `openUrlRequestDelayed` and the
redirection timer (`khtml_renderer.cpp:303-313`). `m_finished` is only ever
written and is left out. `fed`, `starts`, `refreshes`, `settled` and `stopped`
are history variables.

### `TabList` and `TabStrip`

`TabList` is the list of tabs the user has in mind: an order, the tab on the screen, the
tabs that sleep. Opening, closing, selecting and moving change it, and the browser may
put a tab behind to sleep; there are no renderers, crashes, placeholders and indices.
`ImplementsTabList` reads it off `m_stack` alone, which is what is on the screen
(`SeenTabs`, `SeenFront`, `SeenAsleep`), not off `m_pages`: a widget in a wrong cell would
be seen.

`m_pages` is `pages`, the TabPage objects are `page`, and `strip` holds
`m_stack` (its widgets and its current index) and `m_tabBar` (how many tabs,
which is current: its labels are not modelled). A widget is the tab it belongs
to and its kind: the surface of the running renderer, the surface of a dead one
(`stale`), a recovery placeholder, a crash page or a tombstone. An action is one
event with every slot it calls: removing a tab emits `currentChanged`, whose
handler may resume a suspended tab, unless the code blocks the signals. The rule
by which Qt moves a current index along is `AfterRemoval`/`AfterInsertion`;
deleting a widget makes `QStackedWidget` drop it at once (`Deleted`).
`SilentExit` is a process that cannot be started or exits with code 0 before it
is ready: the code shows nothing for it. The crash count stands still at 3, above
which the code does not tell values apart. Which background page the memory
budget picks is left open (`Evictable`).

### `TabNavigation`

One tab and its renderer. `current`, `back`, `fwd`, `navPushed` are the TabPage's
members; `down` and `up` are the two directions of the socket, each in order;
`pendingUrl`, `fetch` and `doc` are the renderer's address, what its loader
fetches and what the engine shows. The browser's connection and the renderer's
`onClient()` are two steps: commands written before the first and reports made
before the second are dropped, and `lost` remembers that. A redirect is the
function `Redirect`. An adopted (pre-warmed) renderer was given the blank page,
which is written to a file and loaded like any document, so its own address can
be reported too.

### `FrameTransport`

The picture of one tab, from the engine's damage to the browser's canvas. The
viewport keeps its size and is one column of tiles wide; an image is a colour
per row, and a tile's hash is its content (a collision of two hashes is not
modelled). Scrolling is vertical.

| Action | Code |
|---|---|
| `Repaint`, `ScriptScroll` | the engine: `contentsUpdated()` with damage in viewport rows; a scroll, for which the engine reports none |
| `NewDocument` | the loader's `finished` and `refreshed` slots, as far as they touch the frame: full damage, `dropFrameBase()` for a new document |
| `Receive` | `onMessage()`: wheel, mouse, visibility, navigate and reload |
| `Grab` | `grabFrame()` with `flushPendingInput()`: the scroll fast path (`Blit`), the answer to a wheel that did not scroll (`Correct`), the normal path (`Paint`), nothing to do (`Skip`) |
| `Converge` | the 250 ms timer of the newest blit (older ones compare their epoch and return) |
| `ReceiveScroll`, `ReceiveTiles`, `TilesUnread` | `onSocketReady()`, `applyScrollAuthority()`, `readTiles()` |
| `UserWheel`, `UserInput`, `UserNavigates` | `PageSurface`'s event handlers, `setVisible()`, `navigate()`/`reload()` with `resetScrollPosition()` |

`lastFrame` is the base of the next partial frame, `hashes` the suppression
cache, `segment` the tiles listed in shared memory: one list, rewritten by every
frame, whichever message announced it. How far a wheel scrolls is left open, and
the preview is only on or off. A mouse move that is coalesced until the next frame
invalidates the viewport there, before anything looks at the damage, so it is
folded into its arrival.

Ten paths of the code lose pixels for good. The history `faults` names those
that were taken, and the properties claim nothing after them:

| Fault | What happened |
|---|---|
| `overrun` | a list of tiles was replaced before it was read |
| `unread` | the segment could not be attached or locked, the announced tiles were skipped |
| `unsent` | tiles were published before the browser connected |
| `mixed` | a wheel scrolled in a frame that carries partial damage |
| `astray` | the same for a scroll by a script, a key or a restored position |
| `suppressed` | a frame scrolled without a blit, and a tile was left out because its content is that of its last upload |
| `unshown` | a scroll without damage was not noticed by the frame clock |
| `unanswered` | a wheel scrolled in a frame that announced nothing |
| `erased` | a partial frame was painted without a base |
| `rebased` | `resetScrollPosition()` set the offset of the canvas to 0 under scrolled pixels |

### `RendererDocument`

What the renderer does with the document the loader delivers, and how the place on
it survives. `EXTENDS Navigation`: the loader is what `PageLoader` implements, so
`Finished`, `Failed` and `Refreshed` are the slots of `finished` and `refreshed`
conjoined with `FeedInitial`, `Error` and `FeedFinal`. A place is a number from the
top; a document fed first is shorter than in its completed form.

| Action | Code |
|---|---|
| `Finished`, `Failed`, `Refreshed`, `Completed`, `StateTimer` | the slots in RendererHost's constructor (`khtml_renderer.cpp:526-733`) |
| `ClickLink` | `navigateRequested`, from `RendererView::openUrl()` |
| `ObeyNavigate`, `ObeyReload`, `ObeyStop`, `ObeyRestore` | `onMessage()` |
| `Connect`, `ReceiveReady`, `ReceiveUrl`, `ReceiveState` | RenderTab's socket and what TabPage keeps of it |
| `EnterAddress`, `PressStop`, `PressReload`, `Suspend`, `Resume` | `navigate()`, the reload button, `suspendTab()`, `resumeTab()` |

`m_pendingRestore*` is one slot with three writers (the re-feed, the restore command,
and what an earlier document left there) and one reader, the next `completed()`.
`target` and `wanted` are the history of what the user wants to see; `lost` says that
one of these happened: a file that cannot be read at a feed; a re-feed before the
first `completed()` took the place that waited for it; the blank page of an adopted
renderer, or a page still too short, took it; a navigation, link, reload, stop or
scroll found a place on its way; a restore command came after its document had
completed; a tab was put to sleep before a report told the browser of its place or
address.

### `ResourceManager` and `MemoryWatchdog`

`ResourceManager` is the arithmetic of `resourcemanager.cpp`: sanitized
configurations, both classifiers with their hysteresis, budgets in MiB with factors in
percent, and the advice for a background renderer. A query that fails is an input
(`Failed`): the RAM keeps its level and policies fall back to an unknown machine; the
GPU counts as unused.

`MemoryWatchdog` is `checkMemoryBudget()` over tabs that are opened, selected,
navigated, closed, that crash and use memory. One action, `Check`, is the whole
function: sample, the suspensions it advises, the backstop under pressure, the idle
rule, and the ceilings it sets. Time passes in minutes (`Elapse`), with a check in each.
`age` is the time since `lastActive`; `away`, a history, the time since the tab was
really left, and `left` the order in which tabs were.

### `ScriptBridge`

A frame's bridge has a world (`JSRuntime` and `JSContext`) for one document, named by
it; the tables are `g_qjsTimers`, `g_qjsListeners`, `g_qjsShimmed` and
`g_qjsTimerCtx`. The thread is idle or in a script, a timer or the walk over the
callbacks of an event; while it is in one, scripts call into the bridge.

| Action | Code |
|---|---|
| `Begin` | `KHTMLPart::begin()`/`clear()`: a new document, and the end of the frames in the old one with their bridges |
| `Script`, `InlineHandler` | `ScriptProxy::evaluate()` with `setDocument()`; `dispatchEventToQuickJS()`, which tells only a new bridge the document |
| `Fire`, `Event`, `Callback`, `Walked`, `Return` | the `timeout` handler; `QJSNodeListener::handleEvent()` and the walk in `dispatchEvent()` |
| `SetTimer`, `ClearTimer`, `AddListener`, `RemoveListener` | `jsWindowTimer()`, `jsWindowClearTimer()`, `elAddEventListener()`, `elRemoveEventListener()` |
| `Parse`, `CreateNode`, `DropNode`, `RemoveFrame` | the engine: nodes that come and go at addresses that are used again; a frame taken out by a script |

A walk whose list is changed under it (`torn`) may end anywhere: the code iterates over
a container that a callback appends to or erases from. A timer that fires may run in its
own world or in the one of `g_qjsTimerCtx`, for a function keeps its realm and a string is
evaluated there; which of the two it is is left open. What a bridge leaves in the tables
when its frame goes leaks, as in a QuickJS built without assertions; one with them stops in
`JS_FreeRuntime()`. `framed` is a history: a frame
inside the page ran a script; `strayed`: a node with a shim was dropped, or a world
listened to a node of another document.

## 4. Runs

| Run | Instance | Shows |
|---|---|---|
| `page_loader` | 4 resources (style sheet, script, image, font), cap 2, 3 generations | the counters are exact; downloads have a watchdog; a delivered page is finalized; a URL is fetched once; the re-feed waits for the downloads; `Navigation` is implemented; under fairness every delivery is finalized |
| `refreshed_once` | the same, 1 generation | see section 6 |
| `frame_transport` | 3 rows in 2 tiles, a page of 4 rows, a fixed header, 2 colours, 4 documents, 3 events from outside | unless a lossy path was taken, the canvas at rest is the page; the suppression cache vouches for what the canvas shows; the base of a partial frame is the page; under fairness the canvas settles on the page |
| `listed_tiles_arrive` | the same | see section 6: `Converges` with the fault `overrun` allowed |
| `tab_strip` | 3 tabs, symmetric | bar, stack and pages in step; the selected tab awake and on screen; the selection survives crashes and evictions; at most two automatic restarts; `TabList` is implemented |
| `crash_stays_in_its_cell` | 3 tabs | see section 6 |
| `tab_navigation` | 3 addresses, one of which redirects; 3 user actions | the address bar ends up right; nothing forgotten; under fairness an adopted renderer gets its address |
| `back_is_undoable` | the same | see section 6 |
| `memory_watchdog` | 3 tabs, symmetric; 4 loads, 2 GPU ratios and failures, one per region of the default thresholds; idle times of 1 and 2 minutes | the levels do not flap; a tab that was left is put to sleep in time; the longest left goes first; pressure never loosens a ceiling; the worked examples of `docs/resource_manager.md` are an assumption TLC evaluates |
| `renderer_document` | 2 addresses and a blank page; pages of 2 places first and 3 in the end; 3 events of the user and the watchdog | at rest the tab shows what was asked for last, at the place it was left at; the browser was told of it |
| `script_bridge` | a page with one frame, 2 addresses for nodes, 3 documents, 2 timers, 2 callbacks per node | no timer and no callback in a world that is gone; without scripted frames everything in one world, and called once |
| `record_outlives_call` | the same, 1 timer | see section 6 |

Why the bounds are enough. *PageLoader*: three generations put the abandoned
replies and timers of two navigations beside a third; a style sheet that names a
script, an image and a font grows the table past the cap of the document; several
retries of one page are queued at once. *TabStrip*: with three tabs the one that
changes can have a neighbour on either side, and the selection can be left of,
right of, or on it; no variable but the placeholders' deletion is bounded
(`derailed` stops the exploration: once a placeholder was deleted under the
stack nothing is claimed, and the tab bar may grow for ever). *TabNavigation*:
two actions overtake each other, the third is needed for Back after them; a link
click counts as one. *FrameTransport*: three rows are the least that have a fixed
row, a row that scrolls under it and a second tile, which is an edge tile; a scroll
by one row moves content from one tile to the other; three outside events (repaints,
scrolls, commands, failed locks) put a scroll, a repaint and a failure in every
order, with any number of frames and messages between them. The safety properties
were also checked with four events (4.2 million states). *MemoryWatchdog*: with three
tabs two in the background have an order; the loads and ratios are the borders at which
a level changes, from either side. *RendererDocument*: three events are a scroll, a sleep
and one more in either order; a page of three places tells a place that the short first
feed can show from one it cannot. *ScriptBridge*: three documents are one for the page,
one for its frame and one that replaces either; an address whose node went is taken by the
next node; two timers are needed for one to be pending while another runs.

One mutant per property: a plausible bug in a mapped definition (`Fault...`
beside the definition it replaces) that the property detects under the run's own
configuration.

Fairness. Qt runs queued calls and fires armed timers: `FinalizeTimer` and
`Timeout` are weakly fair, and so are the two ends of the socket once they are
connected (`Accept`, `ReceiveReady \/ ReceiveUrl`, `Obey`; `Receive`,
`ReceiveScroll`, `ReceiveTiles`), the frame clock of a visible tab (`Grab`) and the
newest convergence timer (`Converge`). A lock that fails does so a bounded number of
times, since every failure counts as an outside event. Nothing is assumed of
the network (a reply may never come), of the user, or of the connection (the
browser stops trying after 50 attempts). `TabStrip` states no liveness.

`CHECK_DEADLOCK FALSE` in the TabNavigation and FrameTransport configurations:
after the last outside event the tab, or the picture of a tab that is hidden or not
connected, really comes to rest. The other models never do.

## 5. Proofs

The assumptions are those in the modules: the kinds of resources are disjoint
subsets of a finite set, redirects end after one hop, the special values are no
addresses, the bounds are natural numbers.

**`PageLoaderProofs`** proves, for any set of resources, any cap and any number
of navigations, every safety property of the run `page_loader`. None of them is
inductive alone. `IInv` conjoins

- `TypeOK`, `PendingExact`: counters stay natural *because* they count the reply
  table, and they count it because no step takes out a reply that is not there;
- `MainOwner`: a main reply that is still expected belongs to the newest
  generation, of which nothing was delivered or seen yet (so `MainFinished`
  starts from empty tables);
- `Discovered`, `FetchedOnce`: in flight => known => seen, and only what is not
  seen is requested;
- `TokensOwned`, `Phases`: queued finalize timers belong to a delivered
  generation or an older one, and what can be fed again is the document of the
  current one;
- `WatchdogCovers`, `NoLostFinalization`: preserved because finalization stops
  the watchdog only when the table is empty or the watchdog fired, and leaves a
  timer behind otherwise.

`FinalizeKeeps` carries the shared handler; there is one lemma per action. The
action property `RefreshAfterDownloads` and the refinement of `Navigation`
(`InitMaps`, one `...Maps` lemma per action) follow from the same invariant.

**`TabNavigationProofs`** proves, for any addresses, redirects and number of
user actions, that the address bar ends up right and that nothing is forgotten.
`AddressIsDocument` speaks of the quiet state; `AddressFollows` carries it
through the queues: after a successful load the *last* report on its way names
the document, and if no report and no command is left the current address does.
`Remembered` adds the case that makes `NothingForgotten` fragile: while
`navPushed` stands, a report may overwrite the current address without pushing
it, so an address that was reported before must be in the back list already.

**`FrameTransportProofs` and `FrameConvergenceProofs`** prove the four safety
properties of `frame_transport` for any size of viewport, tile and page, any fixed
rows, colours and documents, and any number of events. The assumption about `None`
says that it is no image. The argument has two invariants, both claimed only while
`faults` is empty (`FaultsStay`: it only grows).

- `CacheInv` is about the channel. A remembered tile is either *on its way* (in the
  segment, with a `tiles` message that will fetch it, and no message from that one on
  that carries another offset than the last frame's) or *on the canvas* (and no
  message displaces it). A blit forgets every tile, so nothing has to be claimed of
  what it displaces; a frame that moved without a blit must list every tile, which is
  what the fault `suppressed` says; a tile that is left out while it is still on its
  way is what `overrun` says. Before the connection only white tiles are remembered.
- `BaseInv` is about the renderer. Its base and the tiles it remembers are the page as
  of the last frame, outside the damage and the ghosts a blit left of a fixed element;
  if a tile was forgotten, the convergence frame is due or everything is damaged; a
  wheel that was predicted is on its way, or pending, or answered by a message that
  is. The ghosts are described in page coordinates, because successive blits carry
  them along.

At rest there are no messages, no damage and no timer: the cache says that the canvas
shows what is remembered, the base that what is remembered is the page
(`MirrorCorrect`).

**`MemoryWatchdogProofs`** proves every property of `memory_watchdog`, for any tabs,
loads, thresholds and budgets. `ManagerInv` remembers with each turn of a level how far
the measurement must still be from turning back. `OrderInv` says that `older` is a strict
order of the tabs that are up in which the current tab is last, and that `left` is what
remains of it without the current tab: the reason why a stamp that is set on selection
evicts in the order of leaving (`EvictionIsLRU`). `AgeInv` makes ages follow that order.
`BudgetsAreOrdered` is about the arithmetic alone and carries `LimitsTighten`.

**`RendererDocumentProofs`** proves the type and that the browser knows the place. `Telling`
follows the place through the queue: the *last* state report on its way is of the view's
place, or, if there is none, the tab's is.

`PlaceKept` speaks of a tab at rest; `KeptInv` carries it through everything that is not.
The page the user wants and the place wanted on it are histories; the invariant says who
holds them meanwhile.

- `SocketInv` is about order on the socket: a place to restore comes first among the
  commands and is never the top of the page; while the renderer owes `ready`, that comes
  first among the reports. `OnPage` keeps the view's place on the page.
- `Waking`: a place other than the top is wanted of a document that is still to come only
  while a woken renderer shows the blank page and one order is under way. That is why the
  one slot of the renderer (`m_pendingScrollRestore`) is enough.
- `TargetInv`: whoever has the last word on the document (the tab that sleeps, the newest
  command, the load, the two forms of the document) means the wanted one.
- `PlaceInv`: the wanted place is what is `Carried` (by the first command to come, by the
  slot, by the page, in this order), or what is shown is an error page that nothing will
  replace (`Doomed`); and a slot in use has a feed to come that will empty it.

`TargetInv` and `PlaceInv` are claimed until something is `lost`, which is for good
(`LostStays`). At rest nothing is carried but by the page (`KeptAtRest`).

**`ScriptBridgeProofs`** proves every invariant of `script_bridge`, for any frames,
addresses and bounds. The core is `Homed`: a node of a page that hears events has callbacks
of its own frame's world only. It holds although tables outlive worlds, because frames
share neither documents nor worlds (`Apart`), and because an address that is remembered as
shimmed gets no second shim: callbacks that a dead world left at an address stay silent
even when the next node takes it. `OneWorld` and `OneShim` add what holds without
scripted frames.

**`TabStripProofs`** proves every property of `tab_strip`, for any tabs and any number of
crashes. Every change of `m_stack` and `m_tabBar` is a removal, an insertion and perhaps a
selection at one index; the index lemmas (`Removal`, `Insertion`, `Replacement`, `Moved`)
say which element is where afterwards, and `ReplacedIs` that a removal and an insertion at
the same index cancel for everybody else, which is `SelectionKept`. Three invariants:

- `TypeInv` holds even after an eviction took the wrong cell: `m_stack` may have lost a
  widget, but every open tab still has its tab in `m_tabBar`;
- `RetriesInv`: each unattended restart is one of the crashes that were counted, and a page
  that is not open has an empty history, so that one which is opened again starts anew;
- `StripInv`, of which `GoodInv` claims something only while nothing is derailed: cell *i*
  is page *i*'s and of the kind its state asks for, bar and stack select the same index,
  and the page there is awake. It needs `PagesInv` (pages are distinct, a page that is
  asleep runs no renderer). It also shows that the branch of `navigate()` for a page that
  is asleep is out of reach: the selected page is awake (`ActivatedGood` is the
  `currentChanged` handler, which wakes it).

The refinement of `TabList` follows from `StripInv`. `Seen` says that while every cell is
its page's, what is seen of `m_stack` is told by the pages; then one `...Maps` lemma per
action compares orders and selections: `Neighbour` which tab follows one that is closed,
`SelectionMoved` that a drag keeps the selection on its tab, `ActivatedWakes` that the
handler wakes the tab it shows and no other, `Unseen` that a crash, a recovery, a retry and
an exit change nothing (`StepMaps`, `StripIsTabList`). Nothing is claimed of steps that end
derailed, by which time the strip has lost a neighbour's cell (section 6).

Only model-checked: the liveness properties `DeliveryIsFinalized`, `AdoptedIsNavigated`
and `MirrorSettles` (liveness is out of the prover's reach).

## 6. Where the code and its documentation disagree

Each is a run that expects a violation, and a `finding` with the line quoted.

- `refreshed_once`: `refreshed()` is documented as "at most once per navigation";
  `m_rewritten` guards it, and is never set.
- `crash_stays_in_its_cell`: evicting a crashed or recovering background tab
  deletes the placeholder first, then removes the *next* tab's widget by index.
- `back_is_undoable`: Back fills the forward list and clears it in the same call.
- `listed_tiles_arrive`: the tile list is rewritten without waiting for its reader,
  and what was listed counts as uploaded.
- `record_outlives_call`: an interval that is cleared in its own callback is freed, and
  read when the callback returns; the comment at `qjs_dom_bridge.cpp:1029` claims that
  the record cannot dangle, which is done for timers that do not repeat only.

Also noticed, without a run.

*Tabs.* The recovery makes a second automatic attempt (clearing the cache) that
ARCHITECTURE.md:44 does not name. A crashed tab that is navigated from the address bar
loads and paints behind its crash page (`khtml_browser.cpp:3036`; `finishRecovery()`
returns early and the page's own button is ignored because a renderer runs). One flag,
`navPushed`, stands for all navigations: a second address entered before the first was
reported is pushed twice (2686).

*Loader.* Progress goes from 100 back to 10 when the watchdog fires before the main
document.

*Frames.* A wheel scroll in a frame with partial damage is painted neither by the fast path
nor in full, as `khtml_renderer.cpp:864` says (fault `mixed`). The base of partial frames
is dropped with the navigate command, while the old document still paints (1640, fault
`erased`).

*Document.* "Scroll/zoom are preserved so the swap is visually lossless"
(`khtml_renderer.cpp:642`) does not hold for a re-feed that comes before the first
`completed()`. A place that is still in the slot when the next document comes is applied
to it, against `khtml_browser.cpp:608` ("New document: the renderer restarts at scroll
(0,0)"); the blank page of an adopted renderer may consume the place of the tab; a re-feed
whose file cannot be read leaves the slot set. A state report of a fresh renderer, before
its document is there, overwrites the tab's place with 0. Recovery after a crash restores no
place. After a link click that was stopped, reload loads the stopped address.

*Memory.* The comment at `khtml_browser.cpp:3281` speaks of purging at 70-85 %, the code
purges by the level of ResourceManager. `resourcemanager.h:242` calls the idle time "5 min
background", the code measures it from the last selection (3444). `trimIdleMs` is
sanitized and never used. Under normal pressure a tab over its budget is suspended (3413) where the table of
`resource_manager.md` says Trim. When the machine's memory cannot be queried a budget is
the unscaled baseline. A fresh renderer keeps a limit of 1536 MiB, and a newly selected one
that of a background tab, until the next check. `purgeCacheStep()` (3254) starts itself
again for ever over more than 25 entries that cannot be deleted.

*Scripts.* With frames, the timers of all worlds run in the context set last, and
`setTimeout` of the others returns 0 ("the world the timers live in",
`qjs_dom_bridge.cpp:948`); when a frame goes all timers go, and the page can set none until
its next document; when a frame gets a new document the listeners of all frames are freed,
in the wrong context, and their shims stay, so that a callback registered again is called
twice. A node at an address that was shimmed before gets no shim, and its listeners are
never called (`innerHTML` that is written again). An inline handler of a new page runs in
the world of the page before until its first script runs, against the comment at
`js_proxy.cpp:176`, and so do the old page's timers. A callback that changes the list being
walked invalidates the walk. The same function registered twice is called twice, and one
removal takes both. String timers leak their arguments.

## 7. What is not modelled

Most of the repository is not KHtmlLite's own: of its 393 000 lines of implementation
the vendored KDE engine, QuickJS, its Unicode tables and an embedded transpiler are the
bulk. The program's own part is `src/src/host/` and the bridge in
`src/src/khtml/src/ecma/`, and within these the modules follow the code that keeps state
across events. Left out of it:

- titles, favicons, snapshots, painting and layout, the loading indicator; the text of
  documents, style sheets and scripts (and with it the CSS and JavaScript rewriting);
  sizes of payloads and files; wall-clock times, of which only the order matters; zoom,
  which travels with the place;
- the blank page's file, the cache directory shared by two renderers of one address and
  its purge: they need the contents of files;
- the resizing of a tab (two grids, a new segment, stretched pixels); horizontal scrolling
  and the device pixel ratio repeat what the vertical one shows;
- the sampling intervals of ResourceManager, its callbacks, `reset()` and setters at run
  time (the browser uses none of them), and the memo that avoids setting a ceiling twice;
- the wrapped DOM of the script bridge, promise jobs (they end within the call that made
  them, or at the 100 000th) and events that a callback causes;
- the engine and the interpreter themselves, Windows crash capture, logs, probes and the
  installer.

The components are listed with their status in `PROJECT.json`.
