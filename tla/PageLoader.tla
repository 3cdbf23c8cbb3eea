----------------------------- MODULE PageLoader -----------------------------
(***************************************************************************)
(* The page loader of a renderer process (src/host/pageloader.cpp).        *)
(*                                                                         *)
(* A navigation fetches one main document, hands it to the engine at once  *)
(* (the `finished' signal), downloads every sub-resource the document and  *)
(* its style sheets name, and finally rewrites the document to the local   *)
(* copies and hands it over a second time (the `refreshed' signal).  A     *)
(* 15 s watchdog aborts whatever is still in flight.                       *)
(*                                                                         *)
(* The loader lives on one thread.  Every action below is one run of the   *)
(* event loop: a call from the renderer, the `finished' signal of one      *)
(* network reply, or a timer.  QNetworkReply::abort() emits `finished'     *)
(* from inside the call, so the handlers of aborted replies are part of    *)
(* the action that aborts them.                                            *)
(***************************************************************************)
EXTENDS Integers, FiniteSets

CONSTANTS
  Res,            (* URLs of fetchable sub-resources                        *)
  Css, Js, Font,  (* those whose path ends in .css / .js / .woff, .woff2, .eot *)
  MaxResources,   (* the cap of extractResources() on m_resources (150)     *)
  MaxNav          (* bound: number of times m_navGeneration is bumped       *)

ASSUME ResAssumption ==
  /\ IsFiniteSet(Res)
  /\ Css \subseteq Res /\ Js \subseteq Res /\ Font \subseteq Res
  /\ Css \cap Js = {} /\ (Css \cup Js) \cap Font = {}

ASSUME BoundsAssumption == MaxResources \in Nat /\ MaxNav \in Nat

VARIABLES
  gen,              (* m_navGeneration                                      *)
  mainReply,        (* m_mainReply: generation of the request, 0 for null   *)
  replies,          (* generations whose main reply has yet to emit `finished' *)
  html,             (* generation whose bytes are in m_mainHtml, 0 if empty *)
  resources,        (* m_resources                                          *)
  seen,             (* m_seenUrls                                           *)
  pendingMap,       (* the resources of m_pendingMap                        *)
  criticals,        (* those whose Res record has isCss or isJs             *)
  pending,          (* m_pending                                            *)
  criticalPending,  (* m_criticalPending                                    *)
  failed,           (* m_failed                                             *)
  timedOut,         (* m_timedOut                                           *)
  delivered,        (* m_initialDelivered                                   *)
  rewritten,        (* m_rewritten: read as a guard, and only ever cleared  *)
  timer,            (* m_timeout->isActive()                                *)
  tokens,           (* per captured generation, the queued finalize timers  *)
  progress,         (* the last value of the progress signal                *)
  fed,              (* history: generation of the document last handed to the
                       engine by finished or refreshed, 0 for an error page *)
  starts,           (* history: requests sent per resource, this navigation *)
  refreshes,        (* history: refreshed signals of this navigation        *)
  settled,          (* history: rewriteAndSave() ran since the delivery     *)
  stopped           (* history: cancel() ran since load()                   *)

replyVars == <<mainReply, replies>>
docVars   == <<html, resources, seen, delivered, rewritten>>
downloads == <<pendingMap, criticals, pending, criticalPending>>
vars == <<gen, replyVars, docVars, downloads, failed, timedOut, timer, tokens,
          progress, fed, starts, refreshes, settled, stopped>>

Gen == 1..MaxNav

TypeOK ==
  /\ gen \in 0..MaxNav
  /\ mainReply \in 0..MaxNav
  /\ replies \subseteq Gen
  /\ html \in 0..MaxNav
  /\ resources \subseteq Res /\ seen \subseteq Res
  /\ pendingMap \subseteq Res /\ criticals \subseteq Res
  /\ pending \in Nat /\ criticalPending \in Nat
  /\ failed \in BOOLEAN /\ timedOut \in BOOLEAN /\ delivered \in BOOLEAN
  /\ rewritten \in BOOLEAN /\ timer \in BOOLEAN
  /\ tokens \in [Gen -> Nat]
  /\ progress \in 0..100
  /\ fed \in 0..MaxNav
  /\ starts \in [Res -> Nat]
  /\ refreshes \in Nat
  /\ settled \in BOOLEAN /\ stopped \in BOOLEAN

Init ==
  /\ gen = 0 /\ mainReply = 0 /\ replies = {} /\ html = 0
  /\ resources = {} /\ seen = {} /\ pendingMap = {} /\ criticals = {}
  /\ pending = 0 /\ criticalPending = 0
  /\ failed = FALSE /\ timedOut = FALSE /\ delivered = FALSE /\ rewritten = FALSE
  /\ timer = FALSE
  /\ tokens = [g \in Gen |-> 0]
  /\ progress = 100           \* nothing loads: the chrome shows no progress line
  /\ fed = 0
  /\ starts = [r \in Res |-> 0]
  /\ refreshes = 0 /\ settled = FALSE /\ stopped = FALSE

-----------------------------------------------------------------------------
(* Handlers shared by several actions.                                      *)

Clamp(low, x, high) == IF x < low THEN low ELSE IF x > high THEN high ELSE x

(* The progress a completed sub-resource reports: total is the number of    *)
(* known resources, remaining the number still in flight.                   *)
DownloadProgress(total, remaining) ==
  LET all  == IF total < 1 THEN 1 ELSE total
      done == Clamp(0, all - remaining, all)
  IN Clamp(0, 10 + (85 * done) \div all, 95)

(* A URL is fetched only if it was not seen in this navigation before.      *)
FaultUnseen == Res \ pendingMap      \* only the downloads in flight are compared

Unseen == Res \ seen

(* The requests sent once startOne() ran for every resource of R.           *)
SentTo(R) == [r \in Res |-> IF r \in R THEN starts[r] + 1 ELSE starts[r]]

(* finalizeSubresources(), run `times' times in a row by a handler that     *)
(* left `queue' as the queued timers and `shown' as the last progress.  It  *)
(* reads the handler's own results, hence the primes.                       *)
FaultFinalizing == ~failed' /\ ~rewritten' /\ ~timedOut'   \* not after the watchdog
FaultUnsettled  == criticalPending' > 0    \* only style sheets and scripts are waited for
FaultRewrites   == ~failed' /\ ~rewritten'  \* rewrites on every completion

Finalizing == ~failed' /\ ~rewritten'
Unsettled  == pending' > 0 \/ criticalPending' > 0
MustWait   == Finalizing /\ Unsettled /\ ~timedOut'
Rewrites   == Finalizing /\ (~Unsettled \/ timedOut')

(* The re-feed is skipped for a document without sub-resources: its final   *)
(* rewrite is byte-identical to the initial one.                            *)
Refeeds == Rewrites /\ delivered' /\ resources' # {}

FinalizeSubresources(queue, shown, times) ==
  /\ tokens'    = IF MustWait THEN [queue EXCEPT ![gen] = @ + 1] ELSE queue
  /\ settled'   = (settled \/ (Rewrites /\ delivered'))
  /\ timer'     = (timer /\ ~Rewrites)
  /\ progress'  = IF Rewrites THEN 100 ELSE shown
  /\ refreshes' = IF Refeeds THEN refreshes + times ELSE refreshes
  /\ fed'       = IF Refeeds THEN html' ELSE fed

(* Every reply of m_pendingMap is aborted and its handler runs to the end.  *)
FaultAbortDownloads ==                 \* the counters are zeroed before the aborts
  /\ pendingMap' = {} /\ criticals' = {}
  /\ pending' = 0 - Cardinality(pendingMap)
  /\ criticalPending' = 0 - Cardinality(criticals)

AbortDownloads ==
  /\ pendingMap' = {} /\ criticals' = {}
  /\ pending' = pending - Cardinality(pendingMap)
  /\ criticalPending' = criticalPending - Cardinality(criticals)

(* fail(): idempotent, and final for this navigation.                       *)
Fail ==
  IF failed
  THEN UNCHANGED <<failed, timer, downloads, progress, fed>>
  ELSE /\ failed' = TRUE
       /\ fed' = 0
       /\ timer' = FALSE
       /\ AbortDownloads
       /\ progress' = 100

(* abort() of the current main reply: an HTTP reply reports the abort from  *)
(* inside the call and is gone; the reply of a local file has its finished  *)
(* signal queued already and delivers it later.                             *)
AbortMain(extra) ==
  \E late \in BOOLEAN :
    replies' = (IF late THEN replies ELSE replies \ {mainReply}) \cup extra

-----------------------------------------------------------------------------
(* Calls from the renderer.                                                 *)

(* load() of an ordinary URL: everything of the previous navigation goes.   *)
Load ==
  /\ gen < MaxNav
  /\ gen' = gen + 1
  /\ AbortMain({gen + 1})
  /\ mainReply' = gen + 1
  /\ html' = 0 /\ resources' = {} /\ seen' = {} /\ delivered' = FALSE
  /\ rewritten' = FALSE
  /\ pendingMap' = {} /\ criticals' = {} /\ pending' = 0 /\ criticalPending' = 0
  /\ failed' = FALSE /\ timedOut' = FALSE
  /\ timer' = TRUE
  /\ progress' = 0
  /\ starts' = [r \in Res |-> 0]
  /\ refreshes' = 0 /\ settled' = FALSE /\ stopped' = FALSE
  /\ UNCHANGED <<tokens, fed>>

(* load() of a cache mirror: refused through fail(), before the generation  *)
(* is bumped, so it lands on the navigation that is still current.          *)
LoadMirror ==
  /\ Fail
  /\ UNCHANGED <<gen, replyVars, docVars, timedOut, tokens, starts, refreshes,
                 settled, stopped>>

(* cancel(): the stop button.                                               *)
Cancel ==
  /\ gen < MaxNav
  /\ gen' = gen + 1
  /\ AbortMain({})
  /\ mainReply' = 0
  /\ pendingMap' = {} /\ criticals' = {} /\ pending' = 0 /\ criticalPending' = 0
  /\ timer' = FALSE
  /\ progress' = 100
  /\ stopped' = TRUE
  /\ UNCHANGED <<docVars, failed, timedOut, tokens, fed, starts, refreshes, settled>>

-----------------------------------------------------------------------------
(* onMainFinished().                                                        *)

(* A reply that is no longer m_mainReply belongs to an abandoned navigation.*)
ObsoleteMainFinished(g) ==
  /\ g \in replies /\ g # mainReply
  /\ replies' = replies \ {g}
  /\ UNCHANGED <<gen, mainReply, docVars, downloads, failed, timedOut, timer,
                 tokens, progress, fed, starts, refreshes, settled, stopped>>

MainError(g) ==
  /\ g \in replies /\ g = mainReply
  /\ replies' = replies \ {g}
  /\ mainReply' = 0
  /\ Fail
  /\ UNCHANGED <<gen, docVars, timedOut, tokens, starts, refreshes, settled, stopped>>

(* extractResources(): the URLs of the document are collected up to the     *)
(* cap, fonts are recorded as seen but not fetched.                         *)
Harvest(found) ==
  /\ Cardinality(resources \cup (found \ Font)) <= MaxResources
  /\ seen' = seen \cup found
  /\ resources' = resources \cup (found \ Font)

(* deliverInitialDocument(): `finished' is emitted, and since no download   *)
(* has started yet, the final rewrite is queued behind this handler.        *)
FaultDeliverAfterFailure ==            \* m_failed is not looked at
  IF delivered
  THEN UNCHANGED <<delivered, tokens, progress, fed>>
  ELSE /\ delivered' = TRUE /\ fed' = html' /\ progress' = 10
       /\ tokens' = IF pending = 0 /\ ~timedOut
                    THEN [tokens EXCEPT ![gen] = @ + 1] ELSE tokens

FaultDeliverWithoutTimer ==            \* no final rewrite is queued
  IF delivered \/ failed
  THEN UNCHANGED <<delivered, tokens, progress, fed>>
  ELSE delivered' = TRUE /\ fed' = html' /\ progress' = 10 /\ UNCHANGED tokens

DeliverInitialDocument ==
  IF delivered \/ failed
  THEN UNCHANGED <<delivered, tokens, progress, fed>>
  ELSE /\ delivered' = TRUE
       /\ fed' = html'
       /\ tokens' = IF pending = 0 /\ ~timedOut
                    THEN [tokens EXCEPT ![gen] = @ + 1] ELSE tokens
       /\ progress' = 10

FaultStartDownloads(R, flagged) ==     \* the critical ones are not counted
  /\ pendingMap' = pendingMap \cup R
  /\ criticals' = criticals \cup flagged
  /\ pending' = pending + Cardinality(R)
  /\ starts' = SentTo(R)
  /\ UNCHANGED criticalPending

StartDownloads(R, flagged) ==
  /\ pendingMap' = pendingMap \cup R
  /\ criticals' = criticals \cup flagged
  /\ pending' = pending + Cardinality(R)
  /\ criticalPending' = criticalPending + Cardinality(flagged)
  /\ starts' = SentTo(R)

MainFinished(g) ==
  /\ g \in replies /\ g = mainReply
  /\ replies' = replies \ {g}
  /\ mainReply' = 0
  /\ html' = g
  /\ \E found \in SUBSET Unseen : Harvest(found)
  /\ DeliverInitialDocument
  /\ StartDownloads(resources', resources' \cap (Css \cup Js))
  /\ UNCHANGED <<gen, rewritten, failed, timedOut, timer, refreshes, settled, stopped>>

-----------------------------------------------------------------------------
(* onResourceFinished().                                                    *)

(* The sub-resource was stored, or dropped after an error or for its size.  *)
(* When it is a style sheet, by its path or by the type the server sent,    *)
(* extractFromCss() starts every URL it names that was not seen before; an  *)
(* @import counts as a style sheet whatever its path.                       *)
ResourceFinished(r) ==
  /\ r \in pendingMap
  /\ \E found \in SUBSET Unseen : \E imports \in SUBSET (found \ Css) :
       LET flagged == (found \cap Css) \cup imports
           was     == IF r \in criticals THEN 1 ELSE 0
       IN /\ seen' = seen \cup found
          /\ resources' = resources \cup found
          /\ pendingMap' = (pendingMap \ {r}) \cup found
          /\ criticals' = (criticals \ {r}) \cup flagged
          /\ pending' = pending + Cardinality(found) - 1
          /\ criticalPending' = criticalPending + Cardinality(flagged) - was
          /\ starts' = SentTo(found)
  /\ UNCHANGED <<gen, replyVars, html, delivered, rewritten, failed, timedOut, stopped>>
  /\ FinalizeSubresources(tokens,
       DownloadProgress(Cardinality(resources), Cardinality(pendingMap) - 1), 1)

-----------------------------------------------------------------------------
(* Timers.                                                                  *)

(* A queued finalizeSubresources(g): the 0 ms one of the delivery or a      *)
(* 100 ms retry.  One queued by an earlier navigation does nothing.         *)
FinalizeTimer(g) ==
  /\ tokens[g] > 0
  /\ UNCHANGED <<gen, replyVars, docVars, downloads, failed, timedOut, starts, stopped>>
  /\ LET queue == [tokens EXCEPT ![g] = @ - 1]
     IN IF g = gen
        THEN FinalizeSubresources(queue, progress, 1)
        ELSE tokens' = queue /\ UNCHANGED <<timer, progress, fed, refreshes, settled>>

(* onTimeout(): every download is aborted.  m_timedOut is already set, so   *)
(* each aborted reply finalizes the page, and then onTimeout() once more.   *)
Timeout ==
  /\ timer
  /\ timedOut' = TRUE
  /\ AbortDownloads
  /\ UNCHANGED <<gen, replyVars, docVars, failed, starts, stopped>>
  /\ FinalizeSubresources(tokens, progress, Cardinality(pendingMap) + 1)

-----------------------------------------------------------------------------
Next ==
  \/ Load \/ LoadMirror \/ Cancel
  \/ \E g \in Gen : ObsoleteMainFinished(g)
  \/ \E g \in Gen : MainError(g)
  \/ \E g \in Gen : MainFinished(g)
  \/ \E r \in Res : ResourceFinished(r)
  \/ \E g \in Gen : FinalizeTimer(g)
  \/ Timeout

(* Qt fires armed timers and runs queued calls; a network reply may never   *)
(* come, and nobody has to call the loader.                                 *)
Fairness ==
  /\ WF_vars(Timeout)
  /\ \A g \in Gen : WF_vars(FinalizeTimer(g))

Spec == Init /\ [][Next]_vars
FairSpec == Spec /\ Fairness

-----------------------------------------------------------------------------
(* What holds.                                                              *)

(* The two download counters always say what the reply table says, whatever *)
(* was aborted, failed or discovered in between: finalizeSubresources()     *)
(* trusts them, and a drift would finalize early or never.                  *)
PendingExact ==
  /\ pending = Cardinality(pendingMap)
  /\ criticals \subseteq pendingMap
  /\ criticalPending = Cardinality(criticals)

(* No download is left without a watchdog: stopping the 15 s timer on       *)
(* finalization never orphans a reply of a navigation that is still alive   *)
(* and has not timed out yet.                                               *)
WatchdogCovers ==
  pendingMap # {} /\ ~timedOut /\ ~failed => timer

(* The final rewrite is never lost: after the first delivery there is       *)
(* always a reply or a queued timer that will run finalizeSubresources().   *)
(* (Not when the watchdog fired before the delivery: progress goes from 100 *)
(* back to 10.)                                                             *)
NoLostFinalization ==
  delivered /\ ~failed /\ ~stopped /\ ~timedOut =>
    settled \/ pendingMap # {} \/ tokens[gen] > 0

(* One navigation requests a URL at most once, however the document and its *)
(* style sheets name it and import each other.                              *)
FetchedOnce == \A r \in Res : starts[r] <= 1

(* The engine is not re-fed while a download can still land, unless the     *)
(* watchdog gave up on them.                                                *)
RefreshAfterDownloads ==
  [][refreshes' > refreshes => delivered' /\ (pendingMap' = {} \/ timedOut')]_vars

(* The loader implements the navigation the renderer sees.                  *)
phaseOf ==
  IF failed THEN "error"
  ELSE IF stopped THEN "stopped"
  ELSE IF ~delivered THEN (IF gen = 0 THEN "idle" ELSE "loading")
  ELSE IF refreshes = 0 THEN "initial" ELSE "final"

Nav == INSTANCE Navigation WITH nav <- gen, phase <- phaseOf, fed <- fed

ImplementsNavigation == Nav!NavSpec

(* A page delivered before the watchdog fired reaches its final form        *)
(* although any reply may hang: either every download ends or the watchdog  *)
(* ends them.                                                               *)
DeliveryIsFinalized ==
  \A g \in Gen :
    (gen = g /\ delivered /\ ~stopped /\ ~timedOut) ~> (settled \/ failed \/ gen # g)

-----------------------------------------------------------------------------
(* What the documentation says and the code does not do.                    *)

(* pageloader.h:75: refreshed() is "Emitted at most once per navigation".   *)
(* Even when the watchdog never fires it is not: every retry that is still  *)
(* queued when the last download ends finalizes the page again, because     *)
(* nothing ever sets m_rewritten.                                           *)
RefreshedAtMostOnce == ~timedOut => refreshes <= 1
=============================================================================
