--------------------------- MODULE TabNavigation ---------------------------
(***************************************************************************)
(* One tab and its renderer: the history the browser keeps for the tab     *)
(* (TabPage in src/host/khtml_browser.cpp), the socket between RenderTab   *)
(* and RendererHost (src/host/khtml_renderer.cpp), and the document the    *)
(* renderer ends up with.                                                  *)
(*                                                                         *)
(* Both directions of the socket keep their order.  A command written      *)
(* before the socket is open, and a report made before the browser's       *)
(* connection was accepted, are dropped.  The page loader is reduced to    *)
(* the address it fetches: it succeeds, at the address it was redirected   *)
(* to, or fails into an error page (see PageLoader).  Every address is an  *)
(* http one, except that of the blank page: loadBlankPage() writes a file  *)
(* and loads it like any other document.                                   *)
(***************************************************************************)
EXTENDS Naturals, Sequences, SequencesExt

CONSTANTS
  Url,
  Redirect,    (* where the server sends a request for an address          *)
  Nothing,     (* no fetch                                                 *)
  Blank,       (* the blank page of a pre-warmed renderer                  *)
  ErrorPage,
  MaxActs      (* bound: actions of the user                               *)

ASSUME RedirectAssumption ==
  /\ Redirect \in [Url -> Url]
  /\ \A u \in Url : Redirect[Redirect[u]] = Redirect[u]

ASSUME OthersAssumption ==
  /\ {Nothing, Blank, ErrorPage} \cap Url = {} /\ Blank # Nothing
  /\ MaxActs \in Nat

VARIABLES
  current, back, fwd, navPushed,   (* the TabPage                          *)
  adopted,     (* m_adopted: the renderer was pre-warmed                   *)
  open,        (* the browser's end of the socket is connected             *)
  embedded,    (* m_embedded: `ready' was received                         *)
  down,        (* commands on their way to the renderer                    *)
  accepted,    (* the renderer's m_socket is set                           *)
  up,          (* messages on their way to the browser                     *)
  pendingUrl,  (* the renderer's m_pendingUrl                              *)
  fetch,       (* the address the page loader fetches                      *)
  doc,         (* address of the document the engine holds                 *)
  acts,        (* history: user actions so far                             *)
  left,        (* history: Back was used                                   *)
  reported,    (* history: the addresses the browser was told of           *)
  loaded,      (* history: the last fetch begun came to its end            *)
  lost         (* history: a command or a report was dropped               *)

browser  == <<current, back, fwd, navPushed>>
renderer == <<pendingUrl, fetch, doc>>
history  == <<acts, left, reported, loaded, lost>>
vars == <<browser, adopted, open, embedded, down, accepted, up, renderer, history>>

Address == Url \cup {Blank}
Command == [cmd : {"navigate"}, url : Address] \cup [cmd : {"reload", "stop"}]
Message == [type : {"ready"}] \cup [type : {"url"}, url : Address]

TypeOK ==
  /\ current \in Address /\ back \in Seq(Address) /\ fwd \in Seq(Address)
  /\ navPushed \in BOOLEAN /\ adopted \in BOOLEAN /\ open \in BOOLEAN
  /\ embedded \in BOOLEAN /\ accepted \in BOOLEAN
  /\ left \in BOOLEAN /\ loaded \in BOOLEAN /\ lost \in BOOLEAN
  /\ down \in Seq(Command) /\ up \in Seq(Message)
  /\ pendingUrl \in Address
  /\ fetch \in Address \cup {Nothing}
  /\ doc \in Address \cup {ErrorPage}
  /\ acts \in 0..MaxActs
  /\ reported \subseteq Address

(* start(): a process is started with the address on its command line,      *)
(* which it loads at once, or a pre-warmed one is adopted, which was given  *)
(* the blank page and may or may not have loaded it by now.                 *)
Init ==
  /\ current \in Url /\ back = <<>> /\ fwd = <<>> /\ navPushed = FALSE
  /\ adopted \in BOOLEAN
  /\ open = FALSE /\ embedded = FALSE /\ accepted = FALSE
  /\ down = <<>> /\ up = <<>>
  /\ pendingUrl = IF adopted THEN Blank ELSE current
  /\ IF adopted THEN fetch \in {Blank, Nothing} ELSE fetch = current
  /\ doc = Blank
  /\ acts = 0 /\ left = FALSE /\ reported = {}
  /\ loaded = FALSE /\ lost = FALSE

-----------------------------------------------------------------------------
(* The user.                                                                *)

Act == acts < MaxActs /\ acts' = acts + 1

Send(command) == down' = IF open THEN Append(down, command) ELSE down

(* navigate() of a running renderer.  `past' is the back list its caller    *)
(* left; whatever the caller put into the forward list is cleared.          *)
Navigate(u, past, push) ==
  /\ back' = IF push THEN Append(past, current) ELSE past
  /\ fwd' = <<>>
  /\ navPushed' = push
  /\ current' = u
  /\ Send([cmd |-> "navigate", url |-> u])
  /\ lost' = (lost \/ ~open)

EnterAddress(u) ==
  /\ Act
  /\ Navigate(u, back, TRUE)
  /\ UNCHANGED <<adopted, open, embedded, accepted, up, renderer, left, reported,
                 loaded>>

GoBack ==
  /\ Act /\ back # <<>>
  /\ Navigate(Last(back), Front(back), FALSE)
  /\ left' = TRUE
  /\ UNCHANGED <<adopted, open, embedded, accepted, up, renderer, reported, loaded>>

GoForward ==
  /\ Act
  /\ IF fwd = <<>> THEN UNCHANGED <<browser, down, lost>>
     ELSE Navigate(Last(fwd), Append(back, current), FALSE)
  /\ UNCHANGED <<adopted, open, embedded, accepted, up, renderer, left, reported,
                 loaded>>

Press(cmd) ==
  /\ Act
  /\ Send([cmd |-> cmd])
  /\ lost' = (lost \/ ~open)
  /\ UNCHANGED <<browser, adopted, open, embedded, accepted, up, renderer, left,
                 reported, loaded>>

Reload == Press("reload")
Stop   == Press("stop")

(* A link of the document the renderer shows: the browser is not asked.     *)
ClickLink(u) ==
  /\ doc \in Url
  /\ Act
  /\ pendingUrl' = u /\ fetch' = u /\ loaded' = FALSE
  /\ UNCHANGED <<browser, adopted, open, embedded, down, accepted, up, doc,
                 left, reported, lost>>

-----------------------------------------------------------------------------
(* The socket.                                                              *)

Connect ==
  /\ ~open
  /\ open' = TRUE
  /\ UNCHANGED <<browser, adopted, embedded, down, accepted, up, renderer, history>>

(* onClient().                                                              *)
Accept ==
  /\ open /\ ~accepted
  /\ accepted' = TRUE
  /\ up' = Append(up, [type |-> "ready"])
  /\ UNCHANGED <<browser, adopted, open, embedded, down, renderer, history>>

(* `ready': an adopted renderer is sent the address of the tab.             *)
FaultReceiveReady ==                     \* the handshake is taken for granted
  /\ up # <<>> /\ Head(up).type = "ready"
  /\ up' = Tail(up) /\ embedded' = TRUE
  /\ UNCHANGED <<browser, adopted, open, down, accepted, renderer, history>>

ReceiveReady ==
  /\ up # <<>> /\ Head(up).type = "ready"
  /\ up' = Tail(up)
  /\ embedded' = TRUE
  /\ down' = IF ~embedded /\ adopted
             THEN Append(down, [cmd |-> "navigate", url |-> current]) ELSE down
  /\ UNCHANGED <<browser, adopted, open, accepted, renderer, history>>

(* urlChanged: the page the browser showed goes to the back list, unless    *)
(* navigate() put it there already.                                         *)
FaultPushes(u) == FALSE                  \* link clicks leave no trace

Pushes(u) == u # current /\ ~navPushed

FaultReceiveUrl ==                       \* only a page that was asked for is taken
  /\ up # <<>> /\ Head(up).type = "url"
  /\ up' = Tail(up)
  /\ current' = IF navPushed THEN Head(up).url ELSE current
  /\ navPushed' = FALSE
  /\ reported' = reported \cup {Head(up).url}
  /\ UNCHANGED <<back, fwd, adopted, open, embedded, down, accepted, renderer,
                 acts, left, loaded, lost>>

ReceiveUrl ==
  /\ up # <<>> /\ Head(up).type = "url"
  /\ LET u == Head(up).url
     IN /\ back' = IF Pushes(u) THEN Append(back, current) ELSE back
        /\ fwd' = IF Pushes(u) THEN <<>> ELSE fwd
        /\ current' = u
        /\ reported' = reported \cup {u}
  /\ navPushed' = FALSE
  /\ up' = Tail(up)
  /\ UNCHANGED <<adopted, open, embedded, down, accepted, renderer,
                 acts, left, loaded, lost>>

(* onMessage().                                                             *)
Obey ==
  /\ accepted /\ down # <<>>
  /\ LET order == Head(down)
     IN CASE order.cmd = "navigate" -> pendingUrl' = order.url /\ fetch' = order.url
          [] order.cmd = "reload" -> fetch' = pendingUrl /\ UNCHANGED pendingUrl
          [] order.cmd = "stop" -> fetch' = Nothing /\ UNCHANGED pendingUrl
  /\ down' = Tail(down)
  /\ loaded' = (loaded /\ fetch' = Nothing)
  /\ UNCHANGED <<browser, adopted, open, embedded, accepted, up, doc,
                 acts, left, reported, lost>>

-----------------------------------------------------------------------------
(* The page loader.                                                         *)

FaultDelivered ==                        \* the request is forgotten before it is read
  /\ fetch # Nothing
  /\ fetch' = Nothing /\ pendingUrl' = fetch' /\ up' = up
  /\ lost' = (lost \/ ~accepted)
  /\ UNCHANGED <<browser, adopted, open, embedded, down, accepted,
                 acts, left, reported>>

(* The final address is reported before the stored copy of the document is  *)
(* read; when it cannot be read the engine keeps the document it has.       *)
Delivered ==
  /\ fetch # Nothing
  /\ LET u == IF fetch = Blank THEN Blank ELSE Redirect[fetch]
     IN /\ pendingUrl' = u
        /\ up' = IF accepted THEN Append(up, [type |-> "url", url |-> u]) ELSE up
  /\ fetch' = Nothing
  /\ lost' = (lost \/ ~accepted)
  /\ UNCHANGED <<browser, adopted, open, embedded, down, accepted,
                 acts, left, reported>>

FetchDone == Delivered /\ doc' = pendingUrl' /\ loaded' = TRUE

CopyUnreadable == Delivered /\ loaded' = FALSE /\ UNCHANGED doc

(* So does a reload of a renderer that could not write the blank page.      *)
FetchFailed ==
  /\ fetch # Nothing
  /\ fetch' = Nothing
  /\ doc' \in {doc, ErrorPage}      \* the error page may not be writable
  /\ UNCHANGED <<browser, adopted, open, embedded, down, accepted, up, pendingUrl, history>>

-----------------------------------------------------------------------------
Next ==
  \/ \E u \in Url : EnterAddress(u)
  \/ \E u \in Url : ClickLink(u)
  \/ GoBack \/ GoForward \/ Reload \/ Stop
  \/ Connect \/ Accept \/ ReceiveReady \/ ReceiveUrl \/ Obey
  \/ FetchDone \/ CopyUnreadable \/ FetchFailed

(* Both event loops run what is queued for them; a connection may never be  *)
(* made (the browser gives up after 50 attempts), a fetch may hang.         *)
Fairness ==
  /\ WF_vars(Accept)
  /\ WF_vars(ReceiveReady \/ ReceiveUrl)
  /\ WF_vars(Obey)

Spec == Init /\ [][Next]_vars
FairSpec == Spec /\ Fairness

-----------------------------------------------------------------------------
(* What holds.                                                              *)

Quiet == accepted /\ down = <<>> /\ up = <<>> /\ fetch = Nothing

(* Whatever the user did on the page and in the chrome at the same time,    *)
(* and however often the two sides overtook each other: once the socket and *)
(* the loader are quiet after a successful load, the address bar names the  *)
(* document the engine holds, if no message was dropped.                    *)
AddressIsDocument == Quiet /\ ~lost /\ loaded => current = doc

(* A page the browser was told of stays within reach of the Back button     *)
(* (until Back itself is used), link clicks and redirects included.         *)
NothingForgotten == ~left => reported \subseteq ToSet(back) \cup {current}

(* A renderer adopted from the warm pool leaves about:blank as soon as the  *)
(* browser reaches it, although it was never given an address to start with.*)
AdoptedIsNavigated == (open /\ adopted /\ ~embedded) ~> pendingUrl # Blank

-----------------------------------------------------------------------------
(* What the tests and comments say and the code does not do.                *)

(* navigation_probe.py:215: after Back, "Forward to B again".  goBack() puts*)
(* the page it leaves into the forward list, and navigate() clears it.      *)
BackIsUndoable == [][GoBack => fwd' # <<>>]_vars
=============================================================================
