-------------------------- MODULE PageLoaderProofs --------------------------
(***************************************************************************)
(* Theorems about the page loader, for every set of resources, every cap   *)
(* and every number of navigations.                                        *)
(***************************************************************************)
EXTENDS PageLoader, TLAPS, FiniteSetTheorems

(* The inductive invariant.  A main reply in flight belongs to the current  *)
(* navigation, of which nothing is known yet.                               *)
MainOwner ==
  mainReply # 0 =>
    /\ mainReply = gen
    /\ seen = {} /\ ~delivered /\ ~stopped
    /\ (~timedOut /\ ~failed => timer)

(* What is in flight was discovered, and what was requested is remembered.  *)
Discovered ==
  /\ pendingMap \subseteq resources /\ resources \subseteq seen
  /\ \A r \in Res : starts[r] > 0 => r \in seen

(* Finalize timers exist only for navigations that delivered a document.    *)
TokensOwned ==
  \A g \in Gen : tokens[g] > 0 => g < gen \/ (g = gen /\ delivered /\ ~stopped)

(* The phases of a navigation, and the document it can feed again.          *)
Phases ==
  /\ delivered => gen # 0
  /\ delivered /\ ~stopped => html = gen
  /\ refreshes > 0 => delivered
  /\ stopped => mainReply = 0 /\ pendingMap = {} /\ ~timer
  /\ pendingMap # {} /\ ~failed => delivered
  /\ ~rewritten

IInv ==
  /\ TypeOK
  /\ PendingExact
  /\ MainOwner
  /\ Discovered
  /\ FetchedOnce
  /\ TokensOwned
  /\ Phases
  /\ WatchdogCovers
  /\ NoLostFinalization
-----------------------------------------------------------------------------
(* Counting.                                                                *)

(* Every set of resources is finite, and its size is a natural number that  *)
(* is zero for the empty set only.                                          *)
LEMMA SizeOfResources ==
  ASSUME NEW S \in SUBSET Res
  PROVE  /\ IsFiniteSet(S)
         /\ Cardinality(S) \in Nat
         /\ Cardinality(S) = 0 <=> S = {}
<1>1. IsFiniteSet(S)
  BY FS_Subset, ResAssumption
<1> QED
  BY <1>1, FS_CardinalityType, FS_EmptySet

(* Downloads that were not in flight add up.                                *)
LEMMA SizeOfDisjointUnion ==
  ASSUME NEW S \in SUBSET Res, NEW T \in SUBSET Res, S \cap T = {}
  PROVE  Cardinality(S \cup T) = Cardinality(S) + Cardinality(T)
<1>1. IsFiniteSet(S) /\ IsFiniteSet(T) /\ Cardinality(S) \in Nat /\ Cardinality(T) \in Nat
  BY SizeOfResources
<1>2. Cardinality(S \cap T) = 0
  BY FS_EmptySet
<1>3. Cardinality(S \cup T) = Cardinality(S) + Cardinality(T) - Cardinality(S \cap T)
  BY <1>1, FS_Union
<1> QED
  BY <1>1, <1>2, <1>3

(* One download ends while T new ones start.                                *)
LEMMA SizeAfterReply ==
  ASSUME NEW S \in SUBSET Res, NEW T \in SUBSET Res, S \cap T = {}, NEW r \in Res
  PROVE  Cardinality((S \ {r}) \cup T) =
           Cardinality(S) + Cardinality(T) - (IF r \in S THEN 1 ELSE 0)
<1>1. IsFiniteSet(S) /\ Cardinality(S) \in Nat /\ Cardinality(T) \in Nat
  BY SizeOfResources
<1>2. Cardinality(S \ {r}) = Cardinality(S) - (IF r \in S THEN 1 ELSE 0)
  <2>1. Cardinality(S \ {r}) = IF r \in S THEN Cardinality(S) - 1 ELSE Cardinality(S)
    BY <1>1, FS_RemoveElement
  <2> QED
    BY <1>1, <2>1
<1>3. Cardinality((S \ {r}) \cup T) = Cardinality(S \ {r}) + Cardinality(T)
  <2>1. S \ {r} \in SUBSET Res /\ (S \ {r}) \cap T = {}
    OBVIOUS
  <2> QED
    BY <2>1, SizeOfDisjointUnion
<1> QED
  BY <1>1, <1>2, <1>3

(* A value clamped to an interval of integers lies in it.                   *)
LEMMA ClampInRange ==
  ASSUME NEW low \in Int, NEW high \in Int, NEW x \in Int, low <= high
  PROVE  Clamp(low, x, high) \in low..high
BY DEF Clamp

(* The progress of a download is a percentage.                              *)
LEMMA DownloadProgressInRange ==
  ASSUME NEW total \in Int, NEW remaining \in Int
  PROVE  DownloadProgress(total, remaining) \in 0..100
<1> DEFINE all  == IF total < 1 THEN 1 ELSE total
           done == Clamp(0, all - remaining, all)
           x    == 10 + (85 * done) \div all
<1>1. all \in Int /\ all >= 1
  OBVIOUS
<1>2. done \in Int
  BY <1>1, ClampInRange
<1>3. x \in Int
  <2> HIDE DEF all, done
  <2>1. 85 * done \in Int
    BY <1>2
  <2>2. \A a, b \in Int : b >= 1 => a \div b \in Int
    OBVIOUS
  <2> QED
    BY <1>1, <2>1, <2>2
<1>4. DownloadProgress(total, remaining) = Clamp(0, x, 95)
  BY DEF DownloadProgress
<1>5. \A y \in Int : Clamp(0, y, 95) \in 0..95
  BY DEF Clamp
<1>6. Clamp(0, x, 95) \in 0..95
  <2> HIDE DEF x
  <2> QED
    BY <1>3, <1>5
<1>7. \A y \in 0..95 : y \in 0..100
  OBVIOUS
<1> HIDE DEF x
<1> QED
  BY <1>4, <1>6, <1>7
-----------------------------------------------------------------------------
(* The handlers that several actions share.                                 *)

(* The counters tell whether anything is in flight.                         *)
LEMMA CountersTell ==
  ASSUME TypeOK, PendingExact
  PROVE  /\ pending = 0 <=> pendingMap = {}
         /\ criticalPending = 0 <=> criticals = {}
BY SizeOfResources DEF TypeOK, PendingExact

(* fail() leaves the counters exact, and a failed navigation.               *)
LEMMA FailKeeps ==
  ASSUME TypeOK, PendingExact, Fail
  PROVE  /\ failed' = TRUE
         /\ fed' \in 0..MaxNav /\ progress' \in 0..100
         /\ timer' \in BOOLEAN /\ (timer' => timer)
         /\ pendingMap' \subseteq pendingMap /\ criticals' \subseteq Res
         /\ pending' \in Nat /\ criticalPending' \in Nat
         /\ PendingExact'
<1>1. CASE failed
  <2>1. failed' = TRUE
    BY <1>1 DEF Fail, TypeOK
  <2>2. UNCHANGED <<timer, downloads, progress, fed>>
    BY <1>1 DEF Fail
  <2> QED
    BY <2>1, <2>2 DEF TypeOK, PendingExact, downloads
<1>2. CASE ~failed
  <2>1. pendingMap' = {} /\ criticals' = {} /\ pending' = 0 /\ criticalPending' = 0
    BY <1>2, SizeOfResources DEF Fail, AbortDownloads, TypeOK, PendingExact
  <2>2. PendingExact'
    BY <2>1, FS_EmptySet DEF PendingExact
  <2>3. failed' = TRUE /\ fed' = 0 /\ timer' = FALSE /\ progress' = 100
    BY <1>2 DEF Fail
  <2>4. fed' \in 0..MaxNav /\ progress' \in 0..100
    BY <2>3, BoundsAssumption
  <2>5. pendingMap' \subseteq pendingMap /\ criticals' \subseteq Res
        /\ pending' \in Nat /\ criticalPending' \in Nat
    BY <2>1
  <2> QED
    BY <2>2, <2>3, <2>4, <2>5
<1> QED
  BY <1>1, <1>2

(* finalizeSubresources() never arms the watchdog.                          *)
LEMMA FinalizeKeeps ==
  ASSUME TypeOK, NEW queue \in [Gen -> Nat], NEW shown \in 0..100, NEW times \in Nat,
         html' \in 0..MaxNav, FinalizeSubresources(queue, shown, times)
  PROVE  /\ tokens' \in [Gen -> Nat]
         /\ settled' \in BOOLEAN
         /\ timer' \in BOOLEAN /\ (timer' => timer)
         /\ progress' \in 0..100
         /\ refreshes' \in Nat
         /\ fed' \in 0..MaxNav
<1>1. tokens' \in [Gen -> Nat]
  <2>1. CASE MustWait
    <3>1. tokens' = [queue EXCEPT ![gen] = @ + 1]
      BY <2>1 DEF FinalizeSubresources
    <3>2. \A g \in Gen : queue[g] + 1 \in Nat
      OBVIOUS
    <3> QED
      BY <3>1, <3>2
  <2>2. CASE ~MustWait
    BY <2>2 DEF FinalizeSubresources
  <2> QED
    BY <2>1, <2>2
<1>2. settled' \in BOOLEAN /\ timer' \in BOOLEAN /\ (timer' => timer)
  BY DEF FinalizeSubresources, TypeOK
<1>3. progress' \in 0..100 /\ refreshes' \in Nat /\ fed' \in 0..MaxNav
  BY DEF FinalizeSubresources, TypeOK
<1> QED
  BY <1>1, <1>2, <1>3

-----------------------------------------------------------------------------
(* One lemma per action.                                                    *)

LEMMA InitInv == Init => IInv
<1> SUFFICES ASSUME Init PROVE IInv
  OBVIOUS
<1>1. TypeOK
  <2>1. 0 \in 0..MaxNav /\ 0 \in Nat /\ 100 \in 0..100
    BY BoundsAssumption
  <2>2. [g \in Gen |-> 0] \in [Gen -> Nat] /\ [r \in Res |-> 0] \in [Res -> Nat]
    OBVIOUS
  <2> QED
    BY <2>1, <2>2 DEF Init, TypeOK
<1>2. PendingExact
  BY FS_EmptySet DEF Init, PendingExact
<1> QED
  BY <1>1, <1>2 DEF Init, IInv, MainOwner, Discovered, FetchedOnce, TokensOwned, Phases,
     WatchdogCovers, NoLostFinalization

LEMMA LoadInv == IInv /\ Load => IInv'
<1> SUFFICES ASSUME IInv, Load PROVE IInv'
  OBVIOUS
<1> USE DEF IInv
<1>0. gen' = gen + 1 /\ gen' \in Gen /\ gen \in Nat
  BY BoundsAssumption DEF Load, TypeOK, Gen
<1>1. TypeOK'
  <2>1. gen' \in 0..MaxNav /\ mainReply' \in 0..MaxNav /\ html' \in 0..MaxNav
    BY <1>0, BoundsAssumption DEF Load, Gen
  <2>2. replies' \subseteq Gen
    BY <1>0 DEF Load, AbortMain, TypeOK
  <2>3. starts' \in [Res -> Nat]
    BY DEF Load
  <2>4. pending' \in Nat /\ criticalPending' \in Nat /\ refreshes' \in Nat
        /\ progress' \in 0..100
    BY DEF Load
  <2>5. /\ failed' \in BOOLEAN /\ timedOut' \in BOOLEAN /\ delivered' \in BOOLEAN
        /\ rewritten' \in BOOLEAN /\ timer' \in BOOLEAN
        /\ settled' \in BOOLEAN /\ stopped' \in BOOLEAN
    BY DEF Load
  <2>6. resources' \subseteq Res /\ seen' \subseteq Res /\ pendingMap' \subseteq Res
        /\ criticals' \subseteq Res /\ tokens' \in [Gen -> Nat] /\ fed' \in 0..MaxNav
    BY DEF Load, TypeOK
  <2> QED
    BY <2>1, <2>2, <2>3, <2>4, <2>5, <2>6, Zenon DEF TypeOK
<1>2. PendingExact'
  BY FS_EmptySet DEF Load, PendingExact
<1>3. MainOwner' /\ Discovered' /\ FetchedOnce'
  BY DEF Load, MainOwner, Discovered, FetchedOnce, TypeOK
<1>4. TokensOwned'
  BY <1>0 DEF Load, TokensOwned, TypeOK, Gen
<1>5. Phases' /\ WatchdogCovers' /\ NoLostFinalization'
  BY DEF Load, Phases, WatchdogCovers, NoLostFinalization
<1> QED
  BY <1>1, <1>2, <1>3, <1>4, <1>5

LEMMA LoadMirrorInv == IInv /\ LoadMirror => IInv'
<1> SUFFICES ASSUME IInv, LoadMirror PROVE IInv'
  OBVIOUS
<1> USE DEF IInv
<1>0. /\ failed' = TRUE
      /\ fed' \in 0..MaxNav /\ progress' \in 0..100
      /\ timer' \in BOOLEAN /\ (timer' => timer)
      /\ pendingMap' \subseteq pendingMap /\ criticals' \subseteq Res
      /\ pending' \in Nat /\ criticalPending' \in Nat
      /\ PendingExact'
  BY FailKeeps DEF LoadMirror
<1>1. TypeOK'
  BY <1>0 DEF LoadMirror, TypeOK, replyVars, docVars
<1>2. MainOwner' /\ Discovered' /\ FetchedOnce'
  BY <1>0 DEF LoadMirror, MainOwner, Discovered, FetchedOnce, replyVars, docVars
<1>3. TokensOwned' /\ Phases'
  BY <1>0 DEF LoadMirror, TokensOwned, Phases, replyVars, docVars
<1>4. WatchdogCovers' /\ NoLostFinalization'
  BY <1>0 DEF WatchdogCovers, NoLostFinalization
<1> QED
  BY <1>0, <1>1, <1>2, <1>3, <1>4

LEMMA CancelInv == IInv /\ Cancel => IInv'
<1> SUFFICES ASSUME IInv, Cancel PROVE IInv'
  OBVIOUS
<1> USE DEF IInv
<1>0. gen' = gen + 1 /\ gen' \in Gen /\ gen \in Nat
  BY BoundsAssumption DEF Cancel, TypeOK, Gen
<1>1. TypeOK'
  <2>1. gen' \in 0..MaxNav /\ mainReply' \in 0..MaxNav
    BY <1>0, BoundsAssumption DEF Cancel, Gen
  <2>2. replies' \subseteq Gen
    BY DEF Cancel, AbortMain, TypeOK
  <2>3. pending' \in Nat /\ criticalPending' \in Nat /\ progress' \in 0..100
    BY DEF Cancel
  <2>4. timer' \in BOOLEAN /\ stopped' \in BOOLEAN
        /\ pendingMap' \subseteq Res /\ criticals' \subseteq Res
    BY DEF Cancel
  <2>5. /\ html' = html /\ resources' = resources /\ seen' = seen
        /\ delivered' = delivered /\ rewritten' = rewritten /\ failed' = failed
        /\ timedOut' = timedOut /\ tokens' = tokens /\ fed' = fed
        /\ starts' = starts /\ refreshes' = refreshes /\ settled' = settled
    BY DEF Cancel, docVars
  <2>6. /\ html' \in 0..MaxNav /\ resources' \subseteq Res /\ seen' \subseteq Res
        /\ failed' \in BOOLEAN /\ timedOut' \in BOOLEAN /\ delivered' \in BOOLEAN
        /\ rewritten' \in BOOLEAN /\ settled' \in BOOLEAN
        /\ tokens' \in [Gen -> Nat] /\ fed' \in 0..MaxNav
        /\ starts' \in [Res -> Nat] /\ refreshes' \in Nat
    BY <2>5 DEF TypeOK
  <2> QED
    BY <2>1, <2>2, <2>3, <2>4, <2>6, Zenon DEF TypeOK
<1>2. PendingExact'
  BY FS_EmptySet DEF Cancel, PendingExact
<1>3. MainOwner' /\ Discovered' /\ FetchedOnce'
  BY DEF Cancel, MainOwner, Discovered, FetchedOnce, docVars
<1>4. TokensOwned'
  BY <1>0 DEF Cancel, TokensOwned, TypeOK, Gen
<1>5. Phases' /\ WatchdogCovers' /\ NoLostFinalization'
  BY <1>0 DEF Cancel, Phases, WatchdogCovers, NoLostFinalization, docVars
<1> QED
  BY <1>1, <1>2, <1>3, <1>4, <1>5

LEMMA ObsoleteMainFinishedInv ==
  ASSUME IInv, NEW g \in Gen, ObsoleteMainFinished(g)
  PROVE  IInv'
<1> USE DEF IInv
<1>0. /\ replies' \subseteq replies
      /\ UNCHANGED <<gen, mainReply, docVars, downloads, failed, timedOut, timer,
                     tokens, progress, fed, starts, refreshes, settled, stopped>>
  BY DEF ObsoleteMainFinished
<1>1. TypeOK'
  BY <1>0 DEF TypeOK, docVars, downloads
<1>2. PendingExact' /\ WatchdogCovers' /\ NoLostFinalization'
  BY <1>0 DEF PendingExact, WatchdogCovers, NoLostFinalization, docVars, downloads
<1>3. MainOwner' /\ Discovered' /\ FetchedOnce' /\ TokensOwned' /\ Phases'
  BY <1>0 DEF MainOwner, Discovered, FetchedOnce, TokensOwned, Phases, docVars, downloads
<1> QED
  BY <1>1, <1>2, <1>3

LEMMA MainErrorInv ==
  ASSUME IInv, NEW g \in Gen, MainError(g)
  PROVE  IInv'
<1> USE DEF IInv
<1>0. /\ failed' = TRUE
      /\ fed' \in 0..MaxNav /\ progress' \in 0..100
      /\ timer' \in BOOLEAN /\ (timer' => timer)
      /\ pendingMap' \subseteq pendingMap /\ criticals' \subseteq Res
      /\ pending' \in Nat /\ criticalPending' \in Nat
      /\ PendingExact'
  BY FailKeeps DEF MainError
<1>a. mainReply' = 0 /\ mainReply' \in 0..MaxNav /\ replies' \subseteq replies
  BY BoundsAssumption DEF MainError
<1>1. TypeOK'
  BY <1>0, <1>a DEF MainError, TypeOK, docVars
<1>2. MainOwner' /\ Discovered' /\ FetchedOnce'
  BY <1>0, <1>a DEF MainError, MainOwner, Discovered, FetchedOnce, docVars
<1>3. TokensOwned' /\ Phases'
  BY <1>0, <1>a DEF MainError, TokensOwned, Phases, docVars
<1>4. WatchdogCovers' /\ NoLostFinalization'
  BY <1>0 DEF WatchdogCovers, NoLostFinalization
<1> QED
  BY <1>0, <1>1, <1>2, <1>3, <1>4

(* The document arrives: what it names was never requested, and nothing of  *)
(* this navigation is in flight yet.                                        *)
LEMMA MainFinishedInv ==
  ASSUME IInv, NEW g \in Gen, MainFinished(g)
  PROVE  IInv'
<1> USE DEF IInv
<1>0. /\ gen = g /\ gen' = gen /\ mainReply = gen /\ mainReply' = 0 /\ html' = gen
      /\ replies' \subseteq replies
      /\ resources = {} /\ seen = {} /\ pendingMap = {} /\ criticals = {}
      /\ ~delivered /\ ~stopped
  BY DEF MainFinished, MainOwner, Discovered, PendingExact, Gen
<1>z. pending = 0 /\ criticalPending = 0
  BY <1>0, CountersTell
<1>1. PICK found \in SUBSET Res : seen' = found /\ resources' = found \ Font
  BY <1>0 DEF MainFinished, Harvest, Unseen
<1>2. /\ pendingMap' = resources' /\ criticals' = resources' \cap (Css \cup Js)
      /\ pending' = Cardinality(resources')
      /\ criticalPending' = Cardinality(resources' \cap (Css \cup Js))
      /\ starts' = SentTo(resources')
  <2>1. \A S \in SUBSET Res : 0 + Cardinality(S) = Cardinality(S)
    BY SizeOfResources
  <2> QED
    BY <1>0, <1>1, <1>z, <2>1 DEF MainFinished, StartDownloads
<1>3. PendingExact'
  BY <1>2 DEF PendingExact
<1>4. \/ /\ failed /\ UNCHANGED <<delivered, tokens, progress, fed>>
      \/ /\ ~failed /\ delivered' = TRUE /\ fed' = html' /\ progress' = 10
         /\ tokens' = IF ~timedOut THEN [tokens EXCEPT ![gen] = @ + 1] ELSE tokens
  BY <1>0, <1>z DEF MainFinished, DeliverInitialDocument
<1>5. UNCHANGED <<rewritten, failed, timedOut, timer, refreshes, settled, stopped>>
  BY DEF MainFinished
<1>6. tokens' \in [Gen -> Nat] /\ \A k \in Gen : k # gen => tokens'[k] = tokens[k]
  BY <1>4 DEF TypeOK
<1>7. ~failed /\ ~timedOut => tokens'[gen] > 0
  BY <1>0, <1>4 DEF TypeOK
<1>8. TypeOK'
  <2>1. gen' \in 0..MaxNav /\ mainReply' \in 0..MaxNav /\ html' \in 0..MaxNav
    BY <1>0, BoundsAssumption DEF TypeOK
  <2>2. resources' \subseteq Res /\ seen' \subseteq Res /\ pendingMap' \subseteq Res
        /\ criticals' \subseteq Res /\ replies' \subseteq Gen
    BY <1>0, <1>1, <1>2 DEF TypeOK
  <2>3. pending' \in Nat /\ criticalPending' \in Nat
    BY <1>2, <2>2, SizeOfResources
  <2>4. delivered' \in BOOLEAN /\ fed' \in 0..MaxNav
    BY <1>4, <2>1 DEF TypeOK
  <2>6. progress' \in 0..100
    BY <1>4 DEF TypeOK
  <2>5. starts' \in [Res -> Nat]
    BY <1>2 DEF SentTo, TypeOK
  <2> QED
    BY <1>5, <1>6, <2>1, <2>2, <2>3, <2>4, <2>5, <2>6 DEF TypeOK
<1>9. MainOwner' /\ Phases'
  BY <1>0, <1>1, <1>4, <1>5 DEF MainOwner, Phases, Gen
<1>10. Discovered' /\ FetchedOnce'
  BY <1>0, <1>1, <1>2 DEF Discovered, FetchedOnce, SentTo, TypeOK
<1>11. TokensOwned'
  BY <1>0, <1>4, <1>5, <1>6 DEF TokensOwned
<1>12. WatchdogCovers'
  BY <1>0, <1>5 DEF WatchdogCovers, MainOwner, Gen
<1>13. NoLostFinalization'
  BY <1>0, <1>5, <1>7 DEF NoLostFinalization
<1> QED
  BY <1>3, <1>8, <1>9, <1>10, <1>11, <1>12, <1>13

(* A reply ends: the URLs its style sheet adds are all new.                 *)
LEMMA ResourceFinishedInv ==
  ASSUME IInv, NEW r \in Res, ResourceFinished(r)
  PROVE  IInv'
<1> USE DEF IInv
<1> DEFINE shown == DownloadProgress(Cardinality(resources), Cardinality(pendingMap) - 1)
<1>0. /\ r \in pendingMap /\ mainReply = 0 /\ ~stopped
      /\ FinalizeSubresources(tokens, shown, 1)
      /\ gen' = gen /\ mainReply' = mainReply /\ replies' = replies /\ html' = html
      /\ delivered' = delivered /\ rewritten' = rewritten /\ failed' = failed
      /\ timedOut' = timedOut /\ stopped' = stopped
  BY DEF ResourceFinished, replyVars, MainOwner, Discovered, Phases
<1>1. PICK found \in SUBSET Unseen : \E imports \in SUBSET (found \ Css) :
        LET flagged == (found \cap Css) \cup imports
            was     == IF r \in criticals THEN 1 ELSE 0
        IN /\ seen' = seen \cup found
           /\ resources' = resources \cup found
           /\ pendingMap' = (pendingMap \ {r}) \cup found
           /\ criticals' = (criticals \ {r}) \cup flagged
           /\ pending' = pending + Cardinality(found) - 1
           /\ criticalPending' = criticalPending + Cardinality(flagged) - was
           /\ starts' = SentTo(found)
  BY DEF ResourceFinished
<1>2. PICK flagged \in SUBSET found :
           /\ seen' = seen \cup found
           /\ resources' = resources \cup found
           /\ pendingMap' = (pendingMap \ {r}) \cup found
           /\ criticals' = (criticals \ {r}) \cup flagged
           /\ pending' = pending + Cardinality(found) - 1
           /\ criticalPending' = criticalPending + Cardinality(flagged)
                                  - (IF r \in criticals THEN 1 ELSE 0)
           /\ starts' = SentTo(found)
  <2>1. PICK imports \in SUBSET (found \ Css) :
        LET flagged == (found \cap Css) \cup imports
            was     == IF r \in criticals THEN 1 ELSE 0
        IN /\ seen' = seen \cup found
           /\ resources' = resources \cup found
           /\ pendingMap' = (pendingMap \ {r}) \cup found
           /\ criticals' = (criticals \ {r}) \cup flagged
           /\ pending' = pending + Cardinality(found) - 1
           /\ criticalPending' = criticalPending + Cardinality(flagged) - was
           /\ starts' = SentTo(found)
    BY <1>1
  <2>2. (found \cap Css) \cup imports \in SUBSET found
    OBVIOUS
  <2> QED
    BY <2>1, <2>2
<1>3. /\ found \in SUBSET Res /\ flagged \in SUBSET Res /\ r \in Res
      /\ pendingMap \in SUBSET Res /\ criticals \in SUBSET Res
      /\ pendingMap \cap found = {} /\ criticals \cap flagged = {}
  BY DEF Unseen, Discovered, PendingExact, TypeOK
<1>4. PendingExact'
  <2>1. pending' = Cardinality(pendingMap')
    BY <1>0, <1>2, <1>3, SizeAfterReply, SizeOfResources DEF PendingExact
  <2>2. criticalPending' = Cardinality(criticals')
    <3>1. Cardinality((criticals \ {r}) \cup flagged) =
            Cardinality(criticals) + Cardinality(flagged)
            - (IF r \in criticals THEN 1 ELSE 0)
      BY <1>3, SizeAfterReply
    <3> QED
      BY <1>2, <3>1 DEF PendingExact
  <2>3. criticals' \subseteq pendingMap'
    BY <1>2 DEF PendingExact
  <2> QED
    BY <2>1, <2>2, <2>3 DEF PendingExact
<1>5. /\ resources' \subseteq Res /\ seen' \subseteq Res /\ pendingMap' \in SUBSET Res
      /\ criticals' \in SUBSET Res
  BY <1>2, <1>3 DEF TypeOK
<1>6. /\ pending' \in Nat /\ criticalPending' \in Nat
      /\ (pending' = 0 => pendingMap' = {})
  BY <1>4, <1>5, SizeOfResources DEF PendingExact
<1>7. shown \in 0..100
  <2>1. Cardinality(resources) \in Int /\ Cardinality(pendingMap) - 1 \in Int
    BY SizeOfResources DEF TypeOK
  <2> QED
    BY <2>1, DownloadProgressInRange
<1> HIDE DEF shown
<1>8. /\ tokens' \in [Gen -> Nat] /\ settled' \in BOOLEAN /\ timer' \in BOOLEAN
      /\ (timer' => timer) /\ progress' \in 0..100 /\ refreshes' \in Nat
      /\ fed' \in 0..MaxNav
  BY <1>0, <1>7, FinalizeKeeps DEF TypeOK
<1>9. TypeOK'
  <2>1. starts' \in [Res -> Nat]
    BY <1>2 DEF SentTo, TypeOK
  <2> QED
    BY <1>0, <1>5, <1>6, <1>8, <2>1 DEF TypeOK
<1>10. Discovered' /\ FetchedOnce'
  BY <1>2, <1>3 DEF Discovered, FetchedOnce, SentTo, Unseen, TypeOK
<1>11. MainOwner' /\ Phases'
  <2>1. refreshes' > 0 => delivered'
    BY <1>0 DEF FinalizeSubresources, Refeeds, Phases, TypeOK
  <2> QED
    BY <1>0, <2>1 DEF MainOwner, Phases
<1>12. WatchdogCovers'
  <2> SUFFICES ASSUME pendingMap' # {}, ~timedOut', ~failed' PROVE timer'
    BY DEF WatchdogCovers
  <2>1. Unsettled
    BY <1>6 DEF Unsettled
  <2>2. timer
    BY <1>0 DEF WatchdogCovers
  <2>3. timer' = (timer /\ ~Rewrites)
    BY <1>0 DEF FinalizeSubresources
  <2> QED
    BY <2>1, <2>2, <2>3 DEF Rewrites
<1>13. TokensOwned'
  <2>1. MustWait => delivered /\ gen \in Gen
    BY <1>0, BoundsAssumption DEF MustWait, Finalizing, Phases, TypeOK, Gen
  <2> QED
    BY <1>0, <2>1 DEF TokensOwned, FinalizeSubresources, TypeOK
<1>14. NoLostFinalization'
  <2> SUFFICES ASSUME delivered', ~failed', ~stopped', ~timedOut'
               PROVE  settled' \/ tokens'[gen'] > 0
    BY DEF NoLostFinalization
  <2>1. Finalizing /\ gen \in Gen
    BY <1>0, BoundsAssumption DEF Finalizing, Phases, TypeOK, Gen
  <2>2. CASE Unsettled
    BY <1>0, <2>1, <2>2 DEF FinalizeSubresources, MustWait, TypeOK
  <2>3. CASE ~Unsettled
    BY <1>0, <2>1, <2>3 DEF FinalizeSubresources, Rewrites
  <2> QED
    BY <2>2, <2>3
<1> QED
  BY <1>4, <1>9, <1>10, <1>11, <1>12, <1>13, <1>14

(* A queued finalization either belongs to a page that was replaced, or     *)
(* queues the next retry, or finalizes the page.                            *)
LEMMA FinalizeTimerInv ==
  ASSUME IInv, NEW g \in Gen, FinalizeTimer(g)
  PROVE  IInv'
<1> USE DEF IInv
<1> DEFINE queue == [tokens EXCEPT ![g] = @ - 1]
<1>0. /\ tokens[g] > 0
      /\ gen' = gen /\ replies' = replies /\ mainReply' = mainReply /\ html' = html
      /\ resources' = resources /\ seen' = seen /\ delivered' = delivered
      /\ rewritten' = rewritten /\ pendingMap' = pendingMap /\ criticals' = criticals
      /\ pending' = pending /\ criticalPending' = criticalPending
      /\ failed' = failed /\ timedOut' = timedOut /\ starts' = starts
      /\ stopped' = stopped
  BY DEF FinalizeTimer, replyVars, docVars, downloads
<1>1. /\ queue \in [Gen -> Nat] /\ queue[g] = tokens[g] - 1
      /\ \A k \in Gen : k # g => queue[k] = tokens[k]
  BY <1>0 DEF TypeOK
<1>2. \/ /\ g = gen
         /\ FinalizeSubresources(queue, progress, 1)
      \/ /\ g # gen
         /\ tokens' = queue /\ UNCHANGED <<timer, progress, fed, refreshes, settled>>
  BY DEF FinalizeTimer
<1> HIDE DEF queue
<1>3. /\ tokens' \in [Gen -> Nat] /\ settled' \in BOOLEAN /\ timer' \in BOOLEAN
      /\ (timer' => timer) /\ progress' \in 0..100 /\ refreshes' \in Nat
      /\ fed' \in 0..MaxNav
  <2>1. CASE g = gen
    BY <1>0, <1>1, <1>2, <2>1, FinalizeKeeps DEF TypeOK
  <2>2. CASE g # gen
    BY <1>1, <1>2, <2>2 DEF TypeOK
  <2> QED
    BY <2>1, <2>2
<1>4. g = gen => delivered /\ ~stopped /\ mainReply = 0
  BY <1>0 DEF TokensOwned, MainOwner, Gen
<1>5. TypeOK' /\ PendingExact' /\ Discovered' /\ FetchedOnce'
  BY <1>0, <1>3 DEF TypeOK, PendingExact, Discovered, FetchedOnce
<1>6. MainOwner' /\ Phases'
  <2>1. refreshes' > 0 => delivered'
    BY <1>0, <1>2, <1>4 DEF Phases
  <2>2. g # gen => timer' = timer
    BY <1>2
  <2> QED
    BY <1>0, <1>3, <1>4, <2>1, <2>2 DEF MainOwner, Phases
<1>7. TokensOwned'
  <2>1. CASE g = gen
    BY <1>0, <1>1, <1>2, <1>4, <2>1 DEF TokensOwned, FinalizeSubresources, TypeOK
  <2>2. CASE g # gen
    BY <1>0, <1>1, <1>2, <2>2 DEF TokensOwned, TypeOK
  <2> QED
    BY <2>1, <2>2
<1>8. WatchdogCovers'
  <2> SUFFICES ASSUME pendingMap' # {}, ~timedOut', ~failed' PROVE timer'
    BY DEF WatchdogCovers
  <2>1. timer
    BY <1>0 DEF WatchdogCovers
  <2>2. Unsettled
    BY <1>0, CountersTell DEF Unsettled, TypeOK
  <2>3. timer' = (timer /\ ~Rewrites) \/ timer' = timer
    BY <1>2 DEF FinalizeSubresources
  <2> QED
    BY <2>1, <2>2, <2>3 DEF Rewrites
<1>9. NoLostFinalization'
  <2> SUFFICES ASSUME delivered', ~failed', ~stopped', ~timedOut'
               PROVE  settled' \/ pendingMap' # {} \/ tokens'[gen'] > 0
    BY DEF NoLostFinalization
  <2>1. Finalizing /\ gen \in Gen
    BY <1>0, BoundsAssumption DEF Finalizing, Phases, TypeOK, Gen
  <2>2. CASE g = gen /\ Unsettled
    BY <1>0, <1>1, <1>2, <2>1, <2>2 DEF FinalizeSubresources, MustWait, TypeOK
  <2>3. CASE g = gen /\ ~Unsettled
    BY <1>0, <1>2, <2>1, <2>3 DEF FinalizeSubresources, Rewrites
  <2>4. CASE g # gen
    BY <1>0, <1>1, <1>2, <2>1, <2>4 DEF NoLostFinalization
  <2> QED
    BY <2>2, <2>3, <2>4
<1> QED
  BY <1>5, <1>6, <1>7, <1>8, <1>9

(* The watchdog: nothing is left in flight, and the page is finalized.      *)
LEMMA TimeoutInv == IInv /\ Timeout => IInv'
<1> SUFFICES ASSUME IInv, Timeout PROVE IInv'
  OBVIOUS
<1> USE DEF IInv
<1>0. /\ timedOut' = TRUE /\ ~stopped
      /\ gen' = gen /\ replies' = replies /\ mainReply' = mainReply /\ html' = html
      /\ resources' = resources /\ seen' = seen /\ delivered' = delivered
      /\ rewritten' = rewritten /\ failed' = failed /\ starts' = starts
      /\ stopped' = stopped
  BY DEF Timeout, Phases, replyVars, docVars
<1>1. /\ pendingMap' = {} /\ criticals' = {} /\ pending' = 0 /\ criticalPending' = 0
  BY SizeOfResources DEF Timeout, AbortDownloads, TypeOK, PendingExact
<1>2. PendingExact'
  BY <1>1, FS_EmptySet DEF PendingExact
<1>3. Cardinality(pendingMap) + 1 \in Nat
  BY SizeOfResources DEF TypeOK
<1>4. /\ tokens' \in [Gen -> Nat] /\ settled' \in BOOLEAN /\ timer' \in BOOLEAN
      /\ (timer' => timer) /\ progress' \in 0..100 /\ refreshes' \in Nat
      /\ fed' \in 0..MaxNav
  BY <1>0, <1>3, FinalizeKeeps DEF Timeout, TypeOK
<1>5. TypeOK'
  BY <1>0, <1>1, <1>4 DEF TypeOK
<1>6. tokens' = tokens
  BY <1>0 DEF Timeout, FinalizeSubresources, MustWait
<1>7. refreshes' > 0 => delivered'
  BY <1>0 DEF Timeout, FinalizeSubresources, Refeeds, Phases
<1>8. MainOwner' /\ Discovered' /\ FetchedOnce' /\ TokensOwned' /\ Phases'
  BY <1>0, <1>1, <1>4, <1>6, <1>7 DEF MainOwner, Discovered, FetchedOnce, TokensOwned, Phases
<1>9. WatchdogCovers' /\ NoLostFinalization'
  BY <1>0 DEF WatchdogCovers, NoLostFinalization
<1> QED
  BY <1>2, <1>5, <1>8, <1>9

LEMMA StutterInv == IInv /\ UNCHANGED vars => IInv'
BY DEF IInv, vars, replyVars, docVars, downloads, TypeOK, PendingExact, MainOwner, Discovered,
   FetchedOnce, TokensOwned, Phases, WatchdogCovers, NoLostFinalization

-----------------------------------------------------------------------------
(* The theorems.                                                            *)

LEMMA StepInv == IInv /\ [Next]_vars => IInv'
<1> SUFFICES ASSUME IInv, [Next]_vars PROVE IInv'
  OBVIOUS
<1>1. CASE Load
  BY <1>1, LoadInv
<1>2. CASE LoadMirror
  BY <1>2, LoadMirrorInv
<1>3. CASE Cancel
  BY <1>3, CancelInv
<1>4. CASE \E g \in Gen : ObsoleteMainFinished(g)
  BY <1>4, ObsoleteMainFinishedInv
<1>5. CASE \E g \in Gen : MainError(g)
  BY <1>5, MainErrorInv
<1>6. CASE \E g \in Gen : MainFinished(g)
  BY <1>6, MainFinishedInv
<1>7. CASE \E r \in Res : ResourceFinished(r)
  BY <1>7, ResourceFinishedInv
<1>8. CASE \E g \in Gen : FinalizeTimer(g)
  BY <1>8, FinalizeTimerInv
<1>9. CASE Timeout
  BY <1>9, TimeoutInv
<1>10. CASE UNCHANGED vars
  BY <1>10, StutterInv
<1> QED
  BY <1>1, <1>2, <1>3, <1>4, <1>5, <1>6, <1>7, <1>8, <1>9, <1>10 DEF Next

THEOREM Invariance == Spec => []IInv
BY InitInv, StepInv, PTL DEF Spec

(* Every variable of the loader keeps its type.                             *)
THEOREM TypeCorrect == Spec => []TypeOK
<1>1. IInv => TypeOK
  BY DEF IInv
<1> QED
  BY <1>1, Invariance, PTL

(* The counters finalizeSubresources() trusts are exact.                    *)
THEOREM CountersExact == Spec => []PendingExact
<1>1. IInv => PendingExact
  BY DEF IInv
<1> QED
  BY <1>1, Invariance, PTL

(* Every download of a living navigation runs under the watchdog.           *)
THEOREM Watched == Spec => []WatchdogCovers
<1>1. IInv => WatchdogCovers
  BY DEF IInv
<1> QED
  BY <1>1, Invariance, PTL

(* The final rewrite of a delivered page is always on its way or done.      *)
THEOREM FinalizationKept == Spec => []NoLostFinalization
<1>1. IInv => NoLostFinalization
  BY DEF IInv
<1> QED
  BY <1>1, Invariance, PTL

(* No URL is requested twice by one navigation.                             *)
THEOREM NoDoubleFetch == Spec => []FetchedOnce
<1>1. IInv => FetchedOnce
  BY DEF IInv
<1> QED
  BY <1>1, Invariance, PTL

(* A page is handed over again only when no download can still land.        *)
THEOREM RefreshIsLate == Spec => RefreshAfterDownloads
<1>1. IInv /\ [Next]_vars =>
        [refreshes' > refreshes => delivered' /\ (pendingMap' = {} \/ timedOut')]_vars
  <2> SUFFICES ASSUME IInv, Next, refreshes' > refreshes
               PROVE  delivered' /\ (pendingMap' = {} \/ timedOut')
    BY DEF vars
  <2> USE DEF IInv
  <2>0. ~(refreshes > refreshes) /\ ~(0 > refreshes)
    BY DEF TypeOK
  <2>1. CASE Load
    BY <2>0, <2>1 DEF Load
  <2>2. CASE LoadMirror \/ Cancel
    BY <2>0, <2>2 DEF LoadMirror, Cancel
  <2>3. CASE \E g \in Gen : ObsoleteMainFinished(g) \/ MainError(g) \/ MainFinished(g)
    BY <2>0, <2>3 DEF ObsoleteMainFinished, MainError, MainFinished
  <2>4. ASSUME NEW queue, NEW shown, NEW times, FinalizeSubresources(queue, shown, times)
        PROVE  delivered' /\ (pending' = 0 \/ ~(pending' > 0) \/ timedOut')
    BY <2>0, <2>4 DEF FinalizeSubresources, Refeeds, Rewrites, Unsettled
  <2>5. TypeOK' /\ PendingExact'
    BY StepInv
  <2>6. ~(pending' > 0) => pendingMap' = {}
    BY <2>5, SizeOfResources DEF TypeOK, PendingExact
  <2>7. CASE \E r \in Res : ResourceFinished(r)
    BY <2>4, <2>6, <2>7 DEF ResourceFinished
  <2>8. CASE \E g \in Gen : FinalizeTimer(g)
    BY <2>0, <2>4, <2>6, <2>8 DEF FinalizeTimer
  <2>9. CASE Timeout
    BY <2>4, <2>6, <2>9 DEF Timeout
  <2> QED
    BY <2>1, <2>2, <2>3, <2>7, <2>8, <2>9 DEF Next
<1> QED
  BY <1>1, Invariance, PTL DEF Spec, RefreshAfterDownloads

-----------------------------------------------------------------------------
(* The loader implements Navigation: each action is a step of it or none.   *)

LEMMA InitMaps == Init => Nav!NavInit
BY DEF Init, Nav!NavInit, phaseOf

LEMMA LoadMaps == IInv /\ Load => Nav!Start
<1> SUFFICES ASSUME IInv, Load PROVE Nav!Start
  OBVIOUS
<1>1. gen' # 0
  BY DEF IInv, TypeOK, Load
<1>2. phaseOf' = "loading"
  BY <1>1 DEF Load, phaseOf
<1> QED
  BY <1>2 DEF Load, Nav!Start

(* fail() ends the navigation with an error page, or was called before.     *)
LEMMA FailMaps ==
  ASSUME Fail, gen' = gen
  PROVE  Nav!Error \/ (phaseOf = "error" /\ phaseOf' = "error" /\ fed' = fed)
<1>1. CASE failed
  BY <1>1 DEF Fail, phaseOf
<1>2. CASE ~failed
  <2>1. phaseOf # "error"
    BY <1>2 DEF phaseOf
  <2>2. phaseOf' = "error" /\ fed' = 0
    BY <1>2 DEF Fail, phaseOf
  <2> QED
    BY <2>1, <2>2 DEF Nav!Error
<1> QED
  BY <1>1, <1>2

LEMMA CancelMaps == Cancel => Nav!Stop
BY DEF Cancel, Nav!Stop, phaseOf

(* The delivery is the first feeding, unless the navigation failed before.  *)
LEMMA MainFinishedMaps ==
  ASSUME IInv, NEW g \in Gen, MainFinished(g)
  PROVE  Nav!FeedInitial \/ (phaseOf' = phaseOf /\ fed' = fed /\ gen' = gen)
<1>1. /\ g = gen /\ gen # 0 /\ ~delivered /\ ~stopped /\ ~stopped' /\ gen' = gen
      /\ html' = gen /\ failed' = failed /\ refreshes' = refreshes
  BY DEF MainFinished, IInv, MainOwner, Gen
<1>2. refreshes = 0
  BY <1>1 DEF IInv, TypeOK, Phases
<1>3. CASE failed
  BY <1>1, <1>3 DEF MainFinished, DeliverInitialDocument, phaseOf
<1>4. CASE ~failed
  <2>1. phaseOf = "loading"
    BY <1>1, <1>4 DEF phaseOf
  <2>2. delivered' /\ fed' = gen
    BY <1>1, <1>4 DEF MainFinished, DeliverInitialDocument
  <2>3. phaseOf' = "initial"
    BY <1>1, <1>2, <1>4, <2>2 DEF phaseOf
  <2> QED
    BY <1>1, <2>1, <2>2, <2>3 DEF Nav!FeedInitial
<1> QED
  BY <1>3, <1>4

(* Whoever finalizes the page feeds the document of this navigation, or     *)
(* feeds nothing.                                                           *)
LEMMA FinalizeMaps ==
  ASSUME IInv, NEW queue, NEW shown, NEW times \in Nat, times > 0,
         FinalizeSubresources(queue, shown, times),
         gen' = gen, html' = html, delivered' = delivered, failed' = failed,
         stopped' = stopped, ~stopped
  PROVE  Nav!FeedFinal \/ (phaseOf' = phaseOf /\ fed' = fed)
<1>1. CASE Refeeds
  <2>1. delivered /\ ~failed /\ html = gen
    BY <1>1 DEF Refeeds, Rewrites, Finalizing, IInv, Phases
  <2>2. refreshes' # 0 /\ fed' = gen
    BY <1>1, <2>1 DEF FinalizeSubresources, IInv, TypeOK
  <2>3. phaseOf' = "final" /\ phaseOf \in {"initial", "final"}
    BY <2>1, <2>2 DEF phaseOf
  <2> QED
    BY <2>2, <2>3 DEF Nav!FeedFinal
<1>2. CASE ~Refeeds
  BY <1>2 DEF FinalizeSubresources, phaseOf
<1> QED
  BY <1>1, <1>2

LEMMA StepMaps == IInv /\ [Next]_vars => [Nav!NavNext]_(Nav!navVars)
<1> SUFFICES ASSUME IInv, [Next]_vars
             PROVE  Nav!NavNext \/ (gen' = gen /\ phaseOf' = phaseOf /\ fed' = fed)
  BY DEF Nav!navVars
<1> USE DEF Nav!NavNext
<1>1. CASE Load
  BY <1>1, LoadMaps
<1>2. CASE LoadMirror
  BY <1>2, FailMaps DEF LoadMirror
<1>3. CASE Cancel
  BY <1>3, CancelMaps
<1>4. CASE \E g \in Gen : ObsoleteMainFinished(g)
  BY <1>4 DEF ObsoleteMainFinished, docVars, phaseOf
<1>5. CASE \E g \in Gen : MainError(g)
  BY <1>5, FailMaps DEF MainError
<1>6. CASE \E g \in Gen : MainFinished(g)
  BY <1>6, MainFinishedMaps
<1>7. CASE \E r \in Res : ResourceFinished(r)
  <2> PICK r \in Res : ResourceFinished(r)
    BY <1>7
  <2>1. ~stopped
    BY DEF ResourceFinished, IInv, Phases
  <2> QED
    BY <2>1, FinalizeMaps DEF ResourceFinished
<1>8. CASE \E g \in Gen : FinalizeTimer(g)
  <2> PICK g \in Gen : FinalizeTimer(g)
    BY <1>8
  <2>1. CASE g = gen
    <3>1. ~stopped
      BY <2>1 DEF FinalizeTimer, IInv, TokensOwned, Gen
    <3> QED
      BY <2>1, <3>1, FinalizeMaps DEF FinalizeTimer, docVars
  <2>2. CASE g # gen
    BY <2>2 DEF FinalizeTimer, docVars, phaseOf
  <2> QED
    BY <2>1, <2>2
<1>9. CASE Timeout
  <2>1. ~stopped
    BY <1>9 DEF Timeout, IInv, Phases
  <2>2. Cardinality(pendingMap) + 1 \in Nat /\ Cardinality(pendingMap) + 1 > 0
    BY SizeOfResources DEF IInv, TypeOK
  <2> QED
    BY <1>9, <2>1, <2>2, FinalizeMaps DEF Timeout, docVars
<1>10. CASE UNCHANGED vars
  BY <1>10 DEF vars, docVars, phaseOf
<1> QED
  BY <1>1, <1>2, <1>3, <1>4, <1>5, <1>6, <1>7, <1>8, <1>9, <1>10 DEF Next

(* Whatever the network and the timers do, the renderer sees a Navigation:  *)
(* one first document, then completed forms of the same one, never the      *)
(* document of a navigation that was replaced.                              *)
THEOREM Refinement == Spec => ImplementsNavigation
BY InitMaps, StepMaps, Invariance, PTL DEF Spec, ImplementsNavigation, Nav!NavSpec
=============================================================================
