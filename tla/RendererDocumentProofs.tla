----------------------- MODULE RendererDocumentProofs -----------------------
(***************************************************************************)
(* What the browser knows of the place on a page, and what becomes of it,  *)
(* for any number of addresses, places, feeds and queued messages.         *)
(*                                                                         *)
(* First: once completed() has told the place, the browser need not wait   *)
(* for a timer.  The claim must be carried through the queue, so the       *)
(* invariant says which report still under way has the last word, and that *)
(* there is a socket for it.  Then: a tab at rest shows the document the   *)
(* user wants at the place the user wants.  There the invariant follows    *)
(* the document (TargetInv) and the place (PlaceInv) from hand to hand.    *)
(***************************************************************************)
EXTENDS RendererDocument, SequenceTheorems, TLAPS

-----------------------------------------------------------------------------
(* The inductive invariant.                                                 *)

NoState == \A i \in DOMAIN up : up[i].type # "state"

(* The last report of a place that is on its way is of the page's place.    *)
NewestState ==
  \A i \in DOMAIN up :
    /\ up[i].type = "state"
    /\ \A j \in DOMAIN up : j > i => up[j].type # "state"
    => up[i].place = pos

Telling ==
  told => /\ link = "open"
          /\ NewestState
          /\ NoState => saved = pos

IInv == TypeOK /\ Telling

-----------------------------------------------------------------------------
(* Queues.                                                                  *)

LEMMA TailElements ==
  ASSUME NEW S, NEW s \in Seq(S), s # <<>>
  PROVE  /\ Head(s) \in S /\ Head(s) = s[1]
         /\ Tail(s) \in Seq(S) /\ Len(s) \in Nat \ {0}
         /\ DOMAIN s = 1..Len(s) /\ DOMAIN Tail(s) = 1..(Len(s) - 1)
         /\ \A i \in 1..(Len(s) - 1) : Tail(s)[i] = s[i + 1]
BY HeadTailProperties, LenProperties, ElementOfSeq, EmptySeq

LEMMA AppendElements ==
  ASSUME NEW S, NEW s \in Seq(S), NEW e \in S
  PROVE  /\ Append(s, e) \in Seq(S) /\ Len(s) \in Nat
         /\ DOMAIN s = 1..Len(s) /\ DOMAIN Append(s, e) = 1..(Len(s) + 1)
         /\ Append(s, e)[Len(s) + 1] = e
         /\ \A i \in 1..Len(s) : Append(s, e)[i] = s[i]
BY AppendProperties, LenProperties

LEMMA SingletonSeq == ASSUME NEW S, NEW e \in S PROVE <<e>> \in Seq(S)
OBVIOUS

-----------------------------------------------------------------------------
(* Places and views.                                                        *)

LEMMA EndIsPlace == ASSUME NEW v PROVE End(v) \in Place
BY DocumentAssumption DEF End, Place

LEMMA WithinIsPlace == ASSUME NEW v, NEW p \in Place PROVE Within(p, v) \in Place
BY EndIsPlace DEF Within

LEMMA FedTypes ==
  ASSUME TypeOK, NEW form \in {"initial", "final", "error"}, Fed(form)
  PROVE  view' \in View /\ pos' \in Place /\ told' \in BOOLEAN
         /\ feed' \in {"loading", "complete", "stopped"} /\ told' = FALSE
<1>1. 0 \in Place BY DocumentAssumption DEF Place
<1>2. asked \in Address BY DEF TypeOK
<1>3. [of |-> asked, form |-> form] \in View BY <1>2 DEF View
<1> QED BY <1>1, <1>3 DEF Fed

LEMMA UnreadTypes ==
  ASSUME TypeOK, Unread
  PROVE  view' \in View /\ pos' \in Place /\ told' \in BOOLEAN
         /\ feed' \in {"loading", "complete", "stopped"}
BY DEF Unread, TypeOK

LEMMA ReportedTypes ==
  ASSUME TypeOK, NEW r \in Report, Reported(r)
  PROVE  up' \in Seq(Report)
BY AppendElements DEF Reported, TypeOK

LEMMA LostType == ASSUME TypeOK, NEW h \in BOOLEAN, Lose(h) PROVE lost' \in BOOLEAN
BY DEF Lose, TypeOK

LEMMA ActTypes == ASSUME TypeOK, Act PROVE acts' \in 0..MaxActs
BY DocumentAssumption DEF Act, TypeOK

-----------------------------------------------------------------------------
LEMMA InitInv == Init => IInv
<1> SUFFICES ASSUME Init PROVE IInv OBVIOUS
<1>1. TypeOK
  <2>1. 0 \in Place BY DocumentAssumption DEF Place
  <2>2. down \in Seq(Command) /\ up \in Seq(Report) BY EmptySeq DEF Init
  <2>3. current \in Address /\ asked \in Address /\ target \in Address
    BY DEF Init, Address
  <2>4. view \in View BY DEF Init, Empty, View, Address
  <2>5. NavTypeOK BY DEF Init, NavTypeOK, Phase
  <2>6. refreshes \in 0..MaxRefreshes /\ acts \in 0..MaxActs
    BY DocumentAssumption DEF Init
  <2> QED BY <2>1, <2>2, <2>3, <2>4, <2>5, <2>6 DEF Init, TypeOK
<1>2. Telling BY DEF Init, Telling
<1> QED BY <1>1, <1>2 DEF IInv

-----------------------------------------------------------------------------
(* Every action keeps the types.                                            *)

LEMMA TypeStep == TypeOK /\ [Next]_vars => TypeOK'
<1> SUFFICES ASSUME TypeOK, [Next]_vars PROVE TypeOK'
  OBVIOUS
<1>0. 0 \in Place /\ Address \subseteq Address \cup {Nowhere} /\ Doc \subseteq Address
  BY DocumentAssumption DEF Place, Address
<1>1. CASE Finished
  <2>1. NavTypeOK' /\ refreshes' \in 0..MaxRefreshes
    BY <1>1, DocumentAssumption DEF Finished, FeedInitial, NavTypeOK, Phase, TypeOK
  <2>2. up' \in Seq(Report)
    <3>1. [type |-> "url", url |-> asked] \in Report BY DEF Report, TypeOK
    <3> QED BY <1>1, <3>1, ReportedTypes DEF Finished
  <2>3. /\ view' \in View /\ pos' \in Place /\ told' \in BOOLEAN
        /\ feed' \in {"loading", "complete", "stopped"} /\ lost' \in BOOLEAN
    BY <1>1, FedTypes, UnreadTypes, LostType DEF Finished, TypeOK
  <2> QED BY <1>1, <2>1, <2>2, <2>3 DEF Finished, browser, wish, TypeOK
<1>2. CASE Failed
  <2>1. NavTypeOK'
    BY <1>2 DEF Failed, Error, NavTypeOK, Phase, TypeOK
  <2>2. /\ view' \in View /\ pos' \in Place /\ told' \in BOOLEAN
        /\ feed' \in {"loading", "complete", "stopped"} /\ lost' \in BOOLEAN
    BY <1>2, FedTypes, UnreadTypes, LostType DEF Failed, TypeOK
  <2>3. wanted' \in Place BY <1>0, <1>2 DEF Failed, TypeOK
  <2> QED BY <1>2, <2>1, <2>2, <2>3 DEF Failed, channel, browser, TypeOK
<1>3. CASE Refreshed
  <2>1. NavTypeOK' /\ refreshes' \in 0..MaxRefreshes
    BY <1>3, DocumentAssumption DEF Refreshed, FeedFinal, NavTypeOK, Phase, TypeOK
  <2>2. /\ view' \in View /\ pos' \in Place /\ told' \in BOOLEAN
        /\ feed' \in {"loading", "complete", "stopped"} /\ lost' \in BOOLEAN
    BY <1>3, FedTypes, UnreadTypes, LostType DEF Refreshed, TypeOK
  <2> QED BY <1>3, <2>1, <2>2 DEF Refreshed, channel, browser, wish, TypeOK
<1>4. CASE Completed
  <2>1. pos' \in Place
    BY <1>4, WithinIsPlace DEF Completed, TypeOK
  <2>2. up' \in Seq(Report)
    <3>1. [type |-> "state", place |-> pos'] \in Report BY <2>1 DEF Report
    <3> QED BY <1>4, <3>1, ReportedTypes DEF Completed
  <2>3. lost' \in BOOLEAN /\ told' \in BOOLEAN BY <1>4, LostType DEF Completed
  <2> QED BY <1>4, <2>1, <2>2, <2>3 DEF Completed, loader, browser, wish, NavTypeOK, TypeOK
<1>5. CASE StateTimer
  <2>1. [type |-> "state", place |-> pos] \in Report BY DEF Report, TypeOK
  <2>2. up' \in Seq(Report) BY <1>5, <2>1, ReportedTypes DEF StateTimer
  <2> QED BY <1>5, <2>2 DEF StateTimer, loader, engine, browser, wish, NavTypeOK, TypeOK
<1>6. ASSUME NEW d \in Doc, ClickLink(d) PROVE TypeOK'
  <2>1. NavTypeOK' BY <1>6 DEF ClickLink, Start, NavTypeOK, Phase, TypeOK
  <2>2. acts' \in 0..MaxActs BY <1>6, ActTypes DEF ClickLink
  <2>3. lost' \in BOOLEAN BY <1>6, LostType DEF ClickLink, Underway
  <2>4. d \in Address /\ target' \in Address /\ wanted' \in Place
    BY <1>0, <1>6 DEF ClickLink, wish, TypeOK
  <2> QED
    BY <1>6, <2>1, <2>2, <2>3, <2>4 DEF ClickLink, engine, channel, browser, TypeOK
<1>7. ASSUME NEW place \in Place, Scroll(place) PROVE TypeOK'
  <2>1. acts' \in 0..MaxActs BY <1>7, ActTypes DEF Scroll
  <2>2. lost' \in BOOLEAN BY <1>7, LostType DEF Scroll, Underway
  <2> QED BY <1>7, <2>1, <2>2 DEF Scroll, loader, channel, browser, NavTypeOK, TypeOK
<1>8. CASE ObeyNavigate \/ ObeyReload \/ ObeyStop \/ ObeyRestore
  <2>1. down # <<>> /\ down' = Tail(down)
    BY <1>8 DEF ObeyNavigate, ObeyReload, ObeyStop, ObeyRestore
  <2>2. down' \in Seq(Command) /\ Head(down) \in Command
    BY <2>1, TailElements DEF TypeOK
  <2>3. NavTypeOK'
    BY <1>8 DEF ObeyNavigate, ObeyReload, ObeyStop, ObeyRestore, Start, Stop, loader,
                NavTypeOK, Phase, TypeOK
  <2>4. lost' \in BOOLEAN
    BY <1>8, LostType DEF ObeyNavigate, ObeyReload, ObeyStop, ObeyRestore
  <2>5. CASE ObeyNavigate
    <3>1. asked' \in Address BY <2>2, <2>5 DEF ObeyNavigate, Command
    <3> QED BY <2>2, <2>3, <2>4, <2>5, <3>1 DEF ObeyNavigate, engine, browser, wish, TypeOK
  <2>6. CASE ObeyReload
    <3>1. target' \in Address /\ wanted' \in Place
      BY <1>0, <2>6 DEF ObeyReload, wish, TypeOK
    <3> QED BY <2>2, <2>3, <2>4, <2>6, <3>1 DEF ObeyReload, engine, browser, TypeOK
  <2>7. CASE ObeyStop
    <3>1. target' \in Address /\ wanted' \in Place
      BY <2>7 DEF ObeyStop, wish, View, TypeOK
    <3>2. feed' \in {"loading", "complete", "stopped"} BY <2>7 DEF ObeyStop, TypeOK
    <3> QED BY <2>2, <2>3, <2>4, <2>7, <3>1, <3>2 DEF ObeyStop, browser, TypeOK
  <2>8. CASE ObeyRestore
    <3>1. slot' \in Place BY <2>2, <2>8 DEF ObeyRestore, Command
    <3> QED BY <2>2, <2>3, <2>4, <2>8, <3>1 DEF ObeyRestore, loader, browser, wish, TypeOK
  <2> QED BY <1>8, <2>5, <2>6, <2>7, <2>8
<1>9. CASE Connect
  <2>1. <<>> \in Seq(Command) /\ <<>> \in Seq(Report) BY EmptySeq
  <2>2. [type |-> "ready"] \in Report BY DEF Report
  <2>3. up' \in Seq(Report) BY <1>9, <2>1, <2>2, SingletonSeq DEF Connect
  <2>4. down' \in Seq(Command)
    <3>1. CASE restore = Nowhere BY <1>9, <2>1, <3>1 DEF Connect
    <3>2. CASE restore # Nowhere
      <4>1. [cmd |-> "restore", place |-> restore] \in Command
        BY <3>2 DEF Command, TypeOK
      <4> QED BY <1>9, <3>2, <4>1, SingletonSeq DEF Connect
    <3> QED BY <3>1, <3>2
  <2> QED
    BY <1>9, <2>3, <2>4 DEF Connect, loader, engine, wish, NavTypeOK, TypeOK
<1>10. CASE ReceiveReady \/ ReceiveUrl \/ ReceiveState
  <2>1. up # <<>> /\ up' = Tail(up)
    BY <1>10 DEF ReceiveReady, ReceiveUrl, ReceiveState
  <2>2. up' \in Seq(Report) /\ Head(up) \in Report BY <2>1, TailElements DEF TypeOK
  <2>3. CASE ReceiveReady
    <3>1. [cmd |-> "navigate", url |-> current] \in Command BY DEF Command, TypeOK
    <3>2. down' \in Seq(Command)
      BY <2>3, <3>1, AppendElements DEF ReceiveReady, TypeOK
    <3> QED BY <2>2, <2>3, <3>2 DEF ReceiveReady, loader, engine, wish, NavTypeOK, TypeOK
  <2>4. CASE ReceiveUrl
    <3>1. current' \in Address BY <2>2, <2>4 DEF ReceiveUrl, Report
    <3> QED BY <2>2, <2>4, <3>1 DEF ReceiveUrl, loader, engine, wish, NavTypeOK, TypeOK
  <2>5. CASE ReceiveState
    <3>1. saved' \in Place BY <2>2, <2>5 DEF ReceiveState, Report
    <3> QED BY <2>2, <2>5, <3>1 DEF ReceiveState, loader, engine, wish, NavTypeOK, TypeOK
  <2> QED BY <1>10, <2>3, <2>4, <2>5
<1>11. ASSUME NEW d \in Doc, EnterAddress(d) PROVE TypeOK'
  <2>1. d \in Address BY <1>0
  <2>2. [cmd |-> "navigate", url |-> d] \in Command BY <2>1 DEF Command
  <2>3. down' \in Seq(Command) BY <1>11, <2>2, AppendElements DEF EnterAddress, TypeOK
  <2>4. acts' \in 0..MaxActs BY <1>11, ActTypes DEF EnterAddress
  <2>5. lost' \in BOOLEAN BY <1>11, LostType DEF EnterAddress, Underway
  <2> QED
    BY <1>0, <1>11, <2>1, <2>3, <2>4, <2>5 DEF EnterAddress, loader, engine, NavTypeOK, TypeOK
<1>12. CASE PressStop \/ PressReload
  <2>1. [cmd |-> "stop"] \in Command /\ [cmd |-> "reload"] \in Command BY DEF Command
  <2>2. down' \in Seq(Command)
    <3>1. CASE PressStop BY <2>1, <3>1, AppendElements DEF PressStop, TypeOK
    <3>2. CASE PressReload BY <2>1, <3>2, AppendElements DEF PressReload, TypeOK
    <3> QED BY <1>12, <3>1, <3>2
  <2>3. acts' \in 0..MaxActs BY <1>12, ActTypes DEF PressStop, PressReload
  <2> QED
    BY <1>12, <2>2, <2>3
    DEF PressStop, PressReload, loader, engine, browser, wish, NavTypeOK, TypeOK
<1>13. CASE Suspend
  <2>1. down' \in Seq(Command) /\ up' \in Seq(Report) BY <1>13, EmptySeq DEF Suspend
  <2>2. NavTypeOK' /\ refreshes' \in 0..MaxRefreshes
    BY <1>13, DocumentAssumption DEF Suspend, NavTypeOK, Phase
  <2>3. acts' \in 0..MaxActs BY <1>13, ActTypes DEF Suspend
  <2>4. lost' \in BOOLEAN BY <1>13, LostType DEF Suspend
  <2>5. asked' \in Address /\ view' \in View
    BY <1>13 DEF Suspend, Empty, View, Address
  <2> QED
    BY <1>0, <1>13, <2>1, <2>2, <2>3, <2>4, <2>5 DEF Suspend, wish, TypeOK
<1>14. ASSUME NEW adopted \in BOOLEAN, Resume(adopted) PROVE TypeOK'
  <2>1. NavTypeOK' BY <1>14 DEF Resume, Start, NavTypeOK, Phase, TypeOK
  <2>2. asked' \in Address BY <1>14 DEF Resume, Address, TypeOK
  <2> QED BY <1>14, <2>1, <2>2 DEF Resume, engine, channel, wish, TypeOK
<1>15. CASE UNCHANGED vars
  BY <1>15 DEF vars, loader, engine, channel, browser, wish, NavTypeOK, TypeOK
<1> QED
  BY <1>1, <1>2, <1>3, <1>4, <1>5, <1>6, <1>7, <1>8, <1>9, <1>10, <1>11, <1>12,
     <1>13, <1>14, <1>15 DEF Next

-----------------------------------------------------------------------------
(* The last report keeps the last word.                                     *)

(* A report of the place the page is at speaks last; one of something else  *)
(* says nothing about it.                                                   *)
LEMMA ReportTells ==
  ASSUME TypeOK, NEW r \in Report, link = "open", Reported(r), saved' = saved,
         r.type = "state" => r.place = pos'
  PROVE  /\ r.type = "state" => NewestState' /\ ~NoState'
         /\ r.type # "state" /\ pos' = pos =>
              (NewestState => NewestState') /\ (NoState' => NoState)
<1>1. /\ Len(up) \in Nat /\ DOMAIN up = 1..Len(up) /\ DOMAIN up' = 1..(Len(up) + 1)
      /\ up'[Len(up) + 1] = r /\ \A i \in 1..Len(up) : up'[i] = up[i]
  BY AppendElements DEF Reported, TypeOK
<1>2. ASSUME r.type = "state" PROVE NewestState' /\ ~NoState'
  <2>1. ~NoState' BY <1>1, <1>2 DEF NoState
  <2>2. NewestState'
    <3> SUFFICES ASSUME NEW i \in DOMAIN up', up'[i].type = "state",
                        \A j \in DOMAIN up' : j > i => up'[j].type # "state"
                 PROVE  up'[i].place = pos'
      BY DEF NewestState
    <3>1. i = Len(up) + 1 BY <1>1, <1>2
    <3> QED BY <1>1, <1>2, <3>1
  <2> QED BY <2>1, <2>2
<1>3. ASSUME r.type # "state", pos' = pos, NewestState PROVE NewestState'
  <2> SUFFICES ASSUME NEW i \in DOMAIN up', up'[i].type = "state",
                      \A j \in DOMAIN up' : j > i => up'[j].type # "state"
               PROVE  up'[i].place = pos'
    BY DEF NewestState
  <2>1. i \in DOMAIN up /\ up[i] = up'[i] BY <1>1, <1>3
  <2>2. \A j \in DOMAIN up : j > i => up[j].type # "state" BY <1>1
  <2> QED BY <1>3, <2>1, <2>2 DEF NewestState
<1>4. ASSUME NoState', r.type # "state" PROVE NoState
  BY <1>1, <1>4 DEF NoState
<1> QED BY <1>2, <1>3, <1>4

(* A report that is read leaves the last one as it is, unless it was that.  *)
LEMMA TailTells ==
  ASSUME TypeOK, up # <<>>, up' = Tail(up), pos' = pos
  PROVE  /\ NewestState => NewestState'
         /\ Head(up).type # "state" /\ NoState' => NoState
         /\ Head(up).type = "state" /\ NewestState /\ NoState' => Head(up).place = pos
<1>1. /\ Len(up) \in Nat \ {0} /\ DOMAIN up = 1..Len(up) /\ Head(up) = up[1]
      /\ DOMAIN up' = 1..(Len(up) - 1) /\ \A i \in 1..(Len(up) - 1) : up'[i] = up[i + 1]
  BY TailElements DEF TypeOK
<1>2. ASSUME NEW j \in DOMAIN up, j > 1
      PROVE  j - 1 \in DOMAIN up' /\ up'[j - 1] = up[j]
  BY <1>1, <1>2
<1>3. ASSUME NewestState PROVE NewestState'
  <2> SUFFICES ASSUME NEW i \in DOMAIN up', up'[i].type = "state",
                      \A j \in DOMAIN up' : j > i => up'[j].type # "state"
               PROVE  up'[i].place = pos'
    BY DEF NewestState
  <2>1. i + 1 \in DOMAIN up /\ up[i + 1] = up'[i] BY <1>1
  <2>2. ASSUME NEW j \in DOMAIN up, j > i + 1 PROVE up[j].type # "state"
    <3>1. j > 1 /\ j - 1 > i BY <1>1, <2>2
    <3> QED BY <1>2, <3>1
  <2> QED BY <1>3, <2>1, <2>2 DEF NewestState
<1>4. ASSUME NoState', NEW i \in DOMAIN up, i # 1 PROVE up[i].type # "state"
  <2>1. i > 1 BY <1>1, <1>4
  <2> QED BY <1>2, <1>4, <2>1 DEF NoState
<1>5. ASSUME NoState', Head(up).type # "state" PROVE NoState
  BY <1>1, <1>4, <1>5 DEF NoState
<1>6. ASSUME NewestState, NoState', Head(up).type = "state" PROVE Head(up).place = pos
  <2>1. 1 \in DOMAIN up /\ up[1].type = "state" BY <1>1, <1>6
  <2>2. \A j \in DOMAIN up : j > 1 => up[j].type # "state" BY <1>1, <1>4, <1>6
  <2> QED BY <1>1, <1>6, <2>1, <2>2 DEF NewestState
<1> QED BY <1>3, <1>5, <1>6

(* A step that touches nothing of it.                                       *)
LEMMA Untold ==
  ASSUME Telling, UNCHANGED <<told, link, up, pos, saved>>
  PROVE  Telling'
BY DEF Telling, NewestState, NoState

LEMMA TellStep == TypeOK /\ Telling /\ [Next]_vars => Telling'
<1> SUFFICES ASSUME TypeOK, Telling, [Next]_vars PROVE Telling'
  OBVIOUS
<1>1. CASE Finished
  <2> DEFINE r == [type |-> "url", url |-> asked]
  <2>1. r \in Report /\ r.type = "url" BY DEF Report, TypeOK
  <2>2. Reported(r) /\ link' = link /\ saved' = saved
    BY <1>1 DEF Finished, browser
  <2>3. told' = FALSE \/ (told' = told /\ pos' = pos)
    BY <1>1 DEF Finished, Fed, Unread
  <2> HIDE DEF r
  <2>4. CASE told' = FALSE BY <2>4 DEF Telling
  <2>5. ASSUME told', told' = told, pos' = pos PROVE Telling'
    <3>1. told /\ link = "open" BY <2>5 DEF Telling
    <3>2. (NewestState => NewestState') /\ (NoState' => NoState)
      BY <2>1, <2>2, <2>5, <3>1, ReportTells
    <3> QED BY <2>2, <2>5, <3>1, <3>2 DEF Telling
  <2> QED BY <2>3, <2>4, <2>5 DEF Telling
<1>2. CASE Failed \/ Refreshed
  <2>1. UNCHANGED <<link, up, saved>>
    BY <1>2 DEF Failed, Refreshed, channel, browser
  <2>2. told' = FALSE \/ (told' = told /\ pos' = pos)
    BY <1>2 DEF Failed, Refreshed, Fed, Unread
  <2> QED BY <2>1, <2>2, Untold DEF Telling
<1>3. CASE Completed \/ StateTimer
  <2> DEFINE r == [type |-> "state", place |-> pos']
  <2>1. pos' \in Place BY <1>3, TypeStep DEF TypeOK
  <2>2. r \in Report /\ r.type = "state" /\ r.place = pos' BY <2>1 DEF Report
  <2>3. Reported(r) /\ link' = link /\ saved' = saved
    BY <1>3 DEF Completed, StateTimer, engine, browser
  <2>4. told' => link = "open"
    BY <1>3 DEF Completed, StateTimer
  <2> HIDE DEF r
  <2>5. ASSUME told' PROVE NewestState' /\ ~NoState'
    BY <2>2, <2>3, <2>4, <2>5, ReportTells
  <2> QED BY <2>3, <2>4, <2>5 DEF Telling
<1>4. ASSUME NEW d \in Doc, ClickLink(d) PROVE Telling'
  BY <1>4, Untold DEF ClickLink, engine, channel, browser
<1>5. ASSUME NEW place \in Place, Scroll(place) PROVE Telling'
  BY <1>5 DEF Scroll, Telling
<1>6. CASE ObeyNavigate \/ ObeyReload \/ ObeyStop \/ ObeyRestore
  BY <1>6, Untold
  DEF ObeyNavigate, ObeyReload, ObeyStop, ObeyRestore, engine, browser
<1>7. CASE Connect
  <2>1. ~told /\ told' = told BY <1>7 DEF Connect, Telling
  <2> QED BY <2>1 DEF Telling
<1>8. CASE ReceiveReady \/ ReceiveUrl
  <2>1. /\ up # <<>> /\ up' = Tail(up) /\ Head(up).type # "state"
        /\ UNCHANGED <<told, link, pos, saved>>
    BY <1>8 DEF ReceiveReady, ReceiveUrl, engine
  <2>2. (NewestState => NewestState') /\ (NoState' => NoState)
    BY <2>1, TailTells
  <2> QED BY <2>1, <2>2 DEF Telling
<1>9. CASE ReceiveState
  <2>1. /\ up # <<>> /\ up' = Tail(up) /\ Head(up).type = "state"
        /\ saved' = Head(up).place /\ UNCHANGED <<told, link, pos>>
    BY <1>9 DEF ReceiveState, engine
  <2>2. /\ NewestState => NewestState'
        /\ NewestState /\ NoState' => Head(up).place = pos
    BY <2>1, TailTells
  <2> QED BY <2>1, <2>2 DEF Telling
<1>10. ASSUME NEW d \in Doc, EnterAddress(d) PROVE Telling'
  BY <1>10, Untold DEF EnterAddress, engine
<1>11. CASE PressStop \/ PressReload
  BY <1>11, Untold DEF PressStop, PressReload, engine, browser
<1>12. CASE Suspend BY <1>12 DEF Suspend, Telling
<1>13. ASSUME NEW adopted \in BOOLEAN, Resume(adopted) PROVE Telling'
  <2>1. ~told /\ told' = told BY <1>13 DEF Resume, Telling
  <2> QED BY <2>1 DEF Telling
<1>14. CASE UNCHANGED vars
  BY <1>14, Untold DEF vars, engine, channel, browser
<1> QED
  BY <1>1, <1>2, <1>3, <1>4, <1>5, <1>6, <1>7, <1>8, <1>9, <1>10, <1>11, <1>12,
     <1>13, <1>14 DEF Next

-----------------------------------------------------------------------------
(* The invariant holds in every reachable state.                            *)
THEOREM Invariance == Spec => []IInv
<1>1. Init => IInv BY InitInv
<1>2. IInv /\ [Next]_vars => IInv' BY TypeStep, TellStep DEF IInv
<1> QED BY <1>1, <1>2, PTL DEF Spec

(* Places stay on the page, and queues hold what is sent.                   *)
THEOREM TypeCorrect == Spec => []TypeOK
<1>1. IInv => TypeOK BY DEF IInv
<1> QED BY <1>1, Invariance, PTL

(* After completed() the browser has the place of the page, or it is on its *)
(* way, until the page moves again.                                         *)
THEOREM PlaceReported == Spec => []PlaceIsTold
<1>1. IInv => PlaceIsTold BY DEF IInv, Telling, NoState, PlaceIsTold
<1> QED BY <1>1, Invariance, PTL

-----------------------------------------------------------------------------
(* The invariant of the place that is kept.                                 *)

(* No address is on its way to the renderer, or one only.                   *)
NoOrder == \A i \in DOMAIN down : down[i].cmd # "navigate"

OneOrder ==
  /\ owed => NoOrder
  /\ \A i, j \in DOMAIN down :
       down[i].cmd = "navigate" /\ down[j].cmd = "navigate" => i = j

(* The last address on its way to the renderer is the one the user wants.   *)
NewestOrder ==
  \A i \in DOMAIN down :
    /\ down[i].cmd = "navigate"
    /\ \A j \in DOMAIN down : j > i => down[j].cmd # "navigate"
    => down[i].url = target

(* The socket: only the first report is `ready', as long as the address is  *)
(* owed; a place is sent first, and is never the top.                       *)
ReportsInv ==
  /\ link # "open" => up = <<>>
  /\ \A i \in DOMAIN up : up[i].type = "ready" => owed /\ i = 1
  /\ owed /\ link = "open" => up # <<>> /\ up[1].type = "ready"

CommandsInv ==
  /\ link # "open" => down = <<>>
  /\ \A i \in DOMAIN down : down[i].cmd = "restore" => i = 1 /\ down[i].place # 0

SleepInv ==
  /\ restore # Nowhere => link = "starting" /\ restore # 0
  /\ link = "none" => /\ ~owed /\ phase = "idle" /\ view = Empty
                      /\ feed = "complete" /\ slot = Nowhere

SocketInv == ReportsInv /\ CommandsInv /\ SleepInv

(* The view never stands below the end of its page.                         *)
OnPage == pos <= End(view)

(* A place other than the top is wanted of a document still to come only    *)
(* after a tab was woken, while its renderer shows the blank page; and then *)
(* nobody has asked for another document.                                   *)
WakingOrder == wanted # 0 /\ Ordered => asked = Blank /\ view.of = Blank /\ OneOrder
WakingLoad  == wanted # 0 /\ phase = "loading" => view.of = Blank

Waking == WakingOrder /\ WakingLoad

(* Whoever has the last word on the document means the one the user wants:  *)
(* the sleeping tab, the command or address under way, the loader, the view. *)
AsleepTarget == link = "none" => current = target /\ saved = wanted
OrderTarget  == IF owed THEN current = target ELSE NewestOrder
DocTarget    == link # "none" /\ ~Ordered =>
                  IF phase = "loading" THEN asked = target ELSE view.of = target
FormTarget   == phase \in {"initial", "final"} => view.of = asked
BlankTarget  == target = Blank => wanted = 0

TargetInv == AsleepTarget /\ OrderTarget /\ DocTarget /\ FormTarget /\ BlankTarget

(* The place that the next document, or this one, is to show: it is with    *)
(* the browser until there is a socket, then in the first command, then in  *)
(* the slot, then on the page.  What a second feed saved of a page that is  *)
(* about to go does not count.                                              *)
Awaited == restore # Nowhere \/ (down # <<>> /\ Head(down).cmd = "restore")

AwaitedPlace == IF restore # Nowhere THEN restore ELSE Head(down).place

Carried ==
  IF Awaited THEN AwaitedPlace
  ELSE IF slot # Nowhere /\ (Ordered => asked = Blank) THEN slot
  ELSE IF Coming THEN 0
  ELSE pos

(* An error page to which the place of the page it replaces is still to     *)
(* come: it will be lost there.                                             *)
Doomed ==
  /\ phase = "error" /\ view.form = "error" /\ wanted = 0 /\ asked # Blank
  /\ Awaited \/ slot > 0

(* Whoever has the place means the one the user wants, and a place in the   *)
(* slot is still to be used.                                                *)
PlaceCarried  == link # "none" => wanted = Carried \/ Doomed
AwaitedInTime == Awaited /\ asked = Blank => Ordered
SlotInUse     == slot # Nowhere => phase = "loading" \/ feed = "loading" \/ Ordered

PlaceInv == PlaceCarried /\ AwaitedInTime /\ SlotInUse

KeptInv == SocketInv /\ OnPage /\ Waking /\ (~lost => TargetInv /\ PlaceInv)

-----------------------------------------------------------------------------
(* Where a place can be.                                                    *)

LEMMA EndNat == ASSUME NEW v PROVE End(v) \in Nat /\ 0 <= End(v)
BY DocumentAssumption DEF End

LEMMA NoEnd ==
  ASSUME NEW v, v.of = Blank \/ v.form = "error"
  PROVE  End(v) = 0
BY DocumentAssumption DEF End

LEMMA PlaceNat == \A p \in Place : p \in Nat /\ 0 <= p
BY DocumentAssumption DEF Place

LEMMA WithinEnd == ASSUME NEW v, NEW p \in Place PROVE Within(p, v) <= End(v)
BY EndNat, PlaceNat DEF Within

-----------------------------------------------------------------------------
(* The commands.                                                            *)

LEMMA OrderedIs == Ordered <=> owed \/ ~NoOrder
BY DEF Ordered, NoOrder

LEMMA CommandKinds ==
  ASSUME TypeOK, NEW i \in DOMAIN down
  PROVE  /\ down[i] \in Command
         /\ down[i].cmd = "restore" => down[i].place \in Place
         /\ down[i].cmd = "navigate" => down[i].url \in Address
BY ElementOfSeq, LenProperties DEF TypeOK, Command

(* A command is obeyed.                                                     *)
LEMMA ObeyedOrders ==
  ASSUME TypeOK, down # <<>>, down' = Tail(down)
  PROVE  /\ 1 \in DOMAIN down /\ Head(down) = down[1]
         /\ \A i \in DOMAIN down' : i + 1 \in DOMAIN down /\ i + 1 > 1 /\ down'[i] = down[i + 1]
         /\ NoOrder' <=> ~ \E i \in DOMAIN Tail(down) : Tail(down)[i].cmd = "navigate"
         /\ NoOrder => NoOrder'
         /\ Head(down).cmd # "navigate" /\ NoOrder' => NoOrder
         /\ Head(down).cmd = "navigate" => ~NoOrder
         /\ OneOrder /\ (owed' => owed) => OneOrder'
         /\ OneOrder /\ Head(down).cmd = "navigate" => ~owed /\ NoOrder'
         /\ NewestOrder /\ target' = target => NewestOrder'
         /\ NewestOrder /\ Head(down).cmd = "navigate" /\ NoOrder' => Head(down).url = target
<1>1. /\ Len(down) \in Nat \ {0} /\ DOMAIN down = 1..Len(down) /\ Head(down) = down[1]
      /\ DOMAIN down' = 1..(Len(down) - 1) /\ \A i \in 1..(Len(down) - 1) : down'[i] = down[i + 1]
  BY TailElements DEF TypeOK
<1>2. ASSUME NEW j \in DOMAIN down, j # 1
      PROVE  j - 1 \in DOMAIN down' /\ down'[j - 1] = down[j] /\ j > 1
  BY <1>1, <1>2
<1>3. \A i \in DOMAIN down' : i + 1 \in DOMAIN down /\ i + 1 > 1 /\ down'[i] = down[i + 1]
  BY <1>1
<1>4. 1 \in DOMAIN down BY <1>1
<1>5. NoOrder' <=> ~ \E i \in DOMAIN Tail(down) : Tail(down)[i].cmd = "navigate"
  BY DEF NoOrder
<1>6. NoOrder => NoOrder' BY <1>3 DEF NoOrder
<1>7. Head(down).cmd # "navigate" /\ NoOrder' => NoOrder
  BY <1>1, <1>2 DEF NoOrder
<1>8. Head(down).cmd = "navigate" => ~NoOrder BY <1>1, <1>4 DEF NoOrder
<1>9. ASSUME OneOrder, owed' => owed PROVE OneOrder'
  <2>1. owed' => NoOrder' BY <1>6, <1>9 DEF OneOrder
  <2>2. ASSUME NEW i \in DOMAIN down', NEW j \in DOMAIN down',
               down'[i].cmd = "navigate", down'[j].cmd = "navigate"
        PROVE  i = j
    <3>1. i + 1 = j + 1 BY <1>3, <1>9, <2>2 DEF OneOrder
    <3> QED BY <1>1, <3>1
  <2> QED BY <2>1, <2>2 DEF OneOrder
<1>10. ASSUME OneOrder, Head(down).cmd = "navigate" PROVE ~owed /\ NoOrder'
  <2>1. ~owed BY <1>8, <1>10 DEF OneOrder
  <2>2. ASSUME NEW i \in DOMAIN down', down'[i].cmd = "navigate" PROVE FALSE
    <3>1. i + 1 = 1 BY <1>1, <1>3, <1>4, <1>10, <2>2 DEF OneOrder
    <3> QED BY <1>3, <3>1, <2>2
  <2> QED BY <2>1, <2>2 DEF NoOrder
<1>11. ASSUME NewestOrder, target' = target PROVE NewestOrder'
  <2> SUFFICES ASSUME NEW i \in DOMAIN down', down'[i].cmd = "navigate",
                      \A j \in DOMAIN down' : j > i => down'[j].cmd # "navigate"
               PROVE  down'[i].url = target'
    BY DEF NewestOrder
  <2>1. i + 1 \in DOMAIN down /\ down[i + 1] = down'[i] /\ i \in Nat BY <1>1, <1>3
  <2>2. ASSUME NEW j \in DOMAIN down, j > i + 1 PROVE down[j].cmd # "navigate"
    <3>1. j # 1 /\ j - 1 > i BY <1>1, <2>1, <2>2
    <3> QED BY <1>2, <3>1
  <2> QED BY <1>11, <2>1, <2>2 DEF NewestOrder
<1>12. ASSUME NewestOrder, Head(down).cmd = "navigate", NoOrder'
       PROVE  Head(down).url = target
  <2>1. \A j \in DOMAIN down : j > 1 => down[j].cmd # "navigate"
    BY <1>2, <1>12 DEF NoOrder
  <2> QED BY <1>1, <1>4, <1>12, <2>1 DEF NewestOrder
<1> QED BY <1>1, <1>3, <1>4, <1>5, <1>6, <1>7, <1>8, <1>9, <1>10, <1>11, <1>12

(* A command is sent.                                                       *)
LEMMA SentOrders ==
  ASSUME TypeOK, NEW c \in Command, down' = Append(down, c)
  PROVE  /\ down' # <<>> /\ Head(down') = IF down = <<>> THEN c ELSE Head(down)
         /\ \A i \in DOMAIN down' : (i \in DOMAIN down /\ down'[i] = down[i])
                                    \/ (i = Len(down) + 1 /\ down'[i] = c)
         /\ c.cmd = "navigate" => ~NoOrder'
         /\ c.cmd # "navigate" => (NoOrder' <=> NoOrder)
         /\ OneOrder /\ c.cmd # "navigate" /\ (owed' => owed) => OneOrder'
         /\ NoOrder /\ ~owed' => OneOrder'
         /\ NewestOrder /\ c.cmd # "navigate" /\ target' = target => NewestOrder'
         /\ c.cmd = "navigate" /\ c.url = target' => NewestOrder'
<1>1. /\ Len(down) \in Nat /\ DOMAIN down = 1..Len(down)
      /\ DOMAIN down' = 1..(Len(down) + 1) /\ down'[Len(down) + 1] = c
      /\ \A i \in 1..Len(down) : down'[i] = down[i] /\ down' \in Seq(Command)
  BY AppendElements DEF TypeOK
<1>2. down' # <<>> /\ Head(down') = IF down = <<>> THEN c ELSE Head(down)
  <2>1. down' \in Seq(Command) /\ down \in Seq(Command) BY AppendElements DEF TypeOK
  <2>2. 1 \in DOMAIN down' BY <1>1
  <2>3. down' # <<>> BY <2>1, <2>2, EmptySeq
  <2>4. Head(down') = down'[1] BY <2>1, <2>3, HeadTailProperties, TailElements
  <2>5. CASE down = <<>>
    <3>1. Len(down) = 0 BY <2>5
    <3> QED BY <1>1, <2>3, <2>4, <2>5, <3>1
  <2>6. CASE down # <<>>
    <3>1. Head(down) = down[1] /\ Len(down) \in Nat \ {0} BY <2>1, <2>6, TailElements
    <3> QED BY <1>1, <2>3, <2>4, <2>6, <3>1
  <2> QED BY <2>5, <2>6
<1>3. \A i \in DOMAIN down' : (i \in DOMAIN down /\ down'[i] = down[i])
                              \/ (i = Len(down) + 1 /\ down'[i] = c)
  BY <1>1
<1>4. \A i \in DOMAIN down : i \in DOMAIN down' /\ down'[i] = down[i] /\ i < Len(down) + 1
  BY <1>1
<1>5. Len(down) + 1 \in DOMAIN down' BY <1>1
<1>6. c.cmd = "navigate" => ~NoOrder' BY <1>1, <1>5 DEF NoOrder
<1>7. c.cmd # "navigate" => (NoOrder' <=> NoOrder) BY <1>3, <1>4 DEF NoOrder
<1>8. OneOrder /\ c.cmd # "navigate" /\ (owed' => owed) => OneOrder'
  BY <1>3, <1>7 DEF OneOrder
<1>9. NoOrder /\ ~owed' => OneOrder' BY <1>3 DEF NoOrder, OneOrder
<1>10. ASSUME NewestOrder, c.cmd # "navigate", target' = target PROVE NewestOrder'
  <2> SUFFICES ASSUME NEW i \in DOMAIN down', down'[i].cmd = "navigate",
                      \A j \in DOMAIN down' : j > i => down'[j].cmd # "navigate"
               PROVE  down'[i].url = target'
    BY DEF NewestOrder
  <2>1. i \in DOMAIN down /\ down'[i] = down[i] BY <1>3, <1>10
  <2>2. \A j \in DOMAIN down : j > i => down[j].cmd # "navigate" BY <1>4
  <2> QED BY <1>10, <2>1, <2>2 DEF NewestOrder
<1>11. ASSUME c.cmd = "navigate", c.url = target' PROVE NewestOrder'
  <2> SUFFICES ASSUME NEW i \in DOMAIN down', down'[i].cmd = "navigate",
                      \A j \in DOMAIN down' : j > i => down'[j].cmd # "navigate"
               PROVE  down'[i].url = target'
    BY DEF NewestOrder
  <2>1. ~(i \in DOMAIN down) BY <1>1, <1>4, <1>5, <1>11
  <2> QED BY <1>3, <1>11, <2>1
<1> QED BY <1>2, <1>3, <1>6, <1>7, <1>8, <1>9, <1>10, <1>11

(* The socket is new.                                                       *)
LEMMA FreshOrders ==
  ASSUME down' = <<>> \/ \E p : down' = <<[cmd |-> "restore", place |-> p]>>
  PROVE  NoOrder' /\ OneOrder' /\ NewestOrder'
<1>1. \A i \in DOMAIN down' : i = 1 /\ down'[i].cmd = "restore" OBVIOUS
<1> QED BY <1>1 DEF NoOrder, OneOrder, NewestOrder

(* No command is sent or obeyed.                                            *)
LEMMA SameOrders ==
  ASSUME UNCHANGED down
  PROVE  /\ NoOrder' <=> NoOrder
         /\ OneOrder /\ (owed' => owed) => OneOrder'
         /\ NewestOrder /\ target' = target => NewestOrder'
         /\ owed' = owed => (Ordered' <=> Ordered)
BY DEF NoOrder, OneOrder, NewestOrder, Ordered

-----------------------------------------------------------------------------
(* A view never stands below the end of its page.                           *)
LEMMA OnPageStep == TypeOK /\ OnPage /\ [Next]_vars => OnPage'
<1> SUFFICES ASSUME TypeOK, OnPage, [Next]_vars PROVE OnPage' OBVIOUS
<1>1. CASE UNCHANGED <<view, pos>> BY <1>1 DEF OnPage
<1>2. CASE pos' = 0 BY <1>2, EndNat DEF OnPage
<1>3. CASE Completed
  <2>1. slot # Nowhere => slot \in Place BY DEF TypeOK
  <2> QED BY <1>3, <2>1, WithinEnd DEF Completed, OnPage
<1>4. ASSUME NEW place \in Place, Scroll(place) PROVE OnPage'
  BY <1>4 DEF Scroll, OnPage
<1>5. CASE Finished \/ Failed \/ Refreshed
  BY <1>1, <1>2, <1>5 DEF Finished, Failed, Refreshed, Fed, Unread
<1>6. CASE StateTimer \/ ObeyNavigate \/ ObeyReload \/ ObeyStop \/ ObeyRestore
  BY <1>1, <1>6 DEF StateTimer, ObeyNavigate, ObeyReload, ObeyStop, ObeyRestore, engine
<1>7. CASE Connect \/ ReceiveReady \/ ReceiveUrl \/ ReceiveState \/ PressReload \/ PressStop
  BY <1>1, <1>7
  DEF Connect, ReceiveReady, ReceiveUrl, ReceiveState, PressReload, PressStop, engine
<1>8. ASSUME NEW d \in Doc, ClickLink(d) \/ EnterAddress(d) PROVE OnPage'
  BY <1>1, <1>8 DEF ClickLink, EnterAddress, engine
<1>9. CASE Suspend BY <1>2, <1>9 DEF Suspend
<1>10. ASSUME NEW adopted \in BOOLEAN, Resume(adopted) PROVE OnPage'
  BY <1>1, <1>10 DEF Resume, engine
<1>11. CASE UNCHANGED vars BY <1>1, <1>11 DEF vars, engine
<1> QED
  BY <1>3, <1>4, <1>5, <1>6, <1>7, <1>8, <1>9, <1>10, <1>11 DEF Next

-----------------------------------------------------------------------------
(* What the socket holds.                                                   *)

LEMMA ReportsAppended ==
  ASSUME TypeOK, ReportsInv, NEW r \in Report, r.type # "ready", Reported(r),
         UNCHANGED <<link, owed>>
  PROVE  ReportsInv'
<1>1. CASE link # "open" BY <1>1 DEF Reported, ReportsInv
<1>2. CASE link = "open"
  <2>1. /\ Len(up) \in Nat /\ DOMAIN up = 1..Len(up) /\ DOMAIN up' = 1..(Len(up) + 1)
        /\ up'[Len(up) + 1] = r /\ \A i \in 1..Len(up) : up'[i] = up[i]
        /\ up' \in Seq(Report)
    BY <1>2, AppendElements DEF Reported, TypeOK
  <2>2. up' # <<>> BY <2>1, EmptySeq
  <2>3. \A i \in DOMAIN up' : up'[i].type = "ready" => owed' /\ i = 1
    BY <2>1 DEF ReportsInv
  <2>4. ASSUME owed PROVE up'[1].type = "ready"
    <3>1. up # <<>> /\ up[1].type = "ready" BY <1>2, <2>4 DEF ReportsInv
    <3>2. 1 \in 1..Len(up) BY <2>1, <3>1, EmptySeq DEF TypeOK
    <3> QED BY <2>1, <3>1, <3>2
  <2> QED BY <1>2, <2>2, <2>3, <2>4 DEF ReportsInv
<1> QED BY <1>1, <1>2

LEMMA ReportsRead ==
  ASSUME TypeOK, ReportsInv, up # <<>>, up' = Tail(up), link' = link,
         owed' = IF Head(up).type = "ready" THEN FALSE ELSE owed
  PROVE  ReportsInv' /\ (Head(up).type = "ready" <=> owed)
<1>1. /\ Len(up) \in Nat \ {0} /\ DOMAIN up = 1..Len(up) /\ Head(up) = up[1]
      /\ DOMAIN up' = 1..(Len(up) - 1) /\ \A i \in 1..(Len(up) - 1) : up'[i] = up[i + 1]
  BY TailElements DEF TypeOK
<1>2. link = "open" BY DEF ReportsInv
<1>3. 1 \in DOMAIN up BY <1>1
<1>4. Head(up).type = "ready" <=> owed BY <1>1, <1>2, <1>3 DEF ReportsInv
<1>5. \A i \in DOMAIN up' : up'[i].type # "ready"
  <2> SUFFICES ASSUME NEW i \in DOMAIN up', up'[i].type = "ready" PROVE FALSE OBVIOUS
  <2>1. i + 1 \in DOMAIN up /\ up[i + 1].type = "ready" /\ i + 1 # 1 BY <1>1
  <2> QED BY <2>1 DEF ReportsInv
<1>6. ~owed' BY <1>4
<1> QED BY <1>2, <1>4, <1>5, <1>6 DEF ReportsInv

LEMMA CommandsObeyed ==
  ASSUME TypeOK, CommandsInv, down # <<>>, down' = Tail(down), link' = link
  PROVE  CommandsInv' /\ link = "open" /\ \A i \in DOMAIN down' : down'[i].cmd # "restore"
<1>1. link = "open" BY DEF CommandsInv
<1>2. \A i \in DOMAIN down' : down'[i].cmd # "restore" BY ObeyedOrders DEF CommandsInv
<1> QED BY <1>1, <1>2 DEF CommandsInv

LEMMA CommandsSent ==
  ASSUME TypeOK, CommandsInv, NEW c \in Command, c.cmd # "restore", link = "open",
         down' = Append(down, c), link' = link
  PROVE  CommandsInv'
BY SentOrders DEF CommandsInv

LEMMA SocketStep == TypeOK /\ SocketInv /\ [Next]_vars => SocketInv'
<1> SUFFICES ASSUME TypeOK, ReportsInv, CommandsInv, SleepInv, [Next]_vars
             PROVE  ReportsInv' /\ CommandsInv' /\ SleepInv'
  BY DEF SocketInv
<1>0. /\ UNCHANGED <<up, link, owed>> => ReportsInv'
      /\ UNCHANGED <<down, link>> => CommandsInv'
      /\ UNCHANGED <<link, owed, restore>> /\ link # "none" => SleepInv'
  BY DEF ReportsInv, CommandsInv, SleepInv
<1>1. CASE Finished
  <2>1. [type |-> "url", url |-> asked] \in Report BY DEF Report, TypeOK
  <2>2. link # "none" BY <1>1 DEF Finished, FeedInitial, SleepInv
  <2>3. ReportsInv' BY <1>1, <2>1, ReportsAppended DEF Finished, browser
  <2> QED BY <1>0, <1>1, <2>2, <2>3 DEF Finished, browser
<1>2. CASE Failed \/ Refreshed
  <2>1. link # "none" BY <1>2 DEF Failed, Refreshed, FeedFinal, SleepInv
  <2> QED BY <1>0, <1>2, <2>1 DEF Failed, Refreshed, channel, browser
<1>3. CASE Completed \/ StateTimer
  <2> DEFINE r == [type |-> "state", place |-> pos']
  <2>1. pos' \in Place BY <1>3, TypeStep DEF TypeOK
  <2>2. r \in Report /\ r.type # "ready" BY <2>1 DEF Report
  <2>3. Reported(r) /\ UNCHANGED <<link, owed, restore, down>>
    BY <1>3 DEF Completed, StateTimer, engine, browser
  <2>4. link # "none" BY <1>3 DEF Completed, StateTimer, SleepInv
  <2> HIDE DEF r
  <2>5. ReportsInv' BY <2>2, <2>3, ReportsAppended
  <2> QED BY <1>0, <2>3, <2>4, <2>5
<1>4. ASSUME NEW d \in Doc, ClickLink(d) PROVE ReportsInv' /\ CommandsInv' /\ SleepInv'
  BY <1>0, <1>4 DEF ClickLink, channel, browser
<1>5. ASSUME NEW place \in Place, Scroll(place)
      PROVE  ReportsInv' /\ CommandsInv' /\ SleepInv'
  BY <1>0, <1>5 DEF Scroll, channel, browser
<1>6. CASE ObeyNavigate \/ ObeyReload \/ ObeyStop \/ ObeyRestore
  <2>1. down # <<>> /\ down' = Tail(down) /\ UNCHANGED <<link, up, owed, restore>>
    BY <1>6 DEF ObeyNavigate, ObeyReload, ObeyStop, ObeyRestore, browser
  <2>2. CommandsInv' /\ link = "open" BY <2>1, CommandsObeyed
  <2> QED BY <1>0, <2>1, <2>2
<1>7. CASE Connect
  <2>1. link = "starting" /\ link' = "open" /\ restore' = Nowhere /\ owed' = owed
    BY <1>7 DEF Connect
  <2>2. SleepInv' BY <2>1 DEF SleepInv
  <2>3. CommandsInv'
    <3>1. CASE restore = Nowhere
      <4>1. down' = <<>> BY <1>7, <3>1 DEF Connect
      <4> QED BY <2>1, <4>1 DEF CommandsInv
    <3>2. CASE restore # Nowhere
      <4>1. down' = <<[cmd |-> "restore", place |-> restore]>> BY <1>7, <3>2 DEF Connect
      <4>2. restore # 0 BY <3>2 DEF SleepInv
      <4>3. \A i \in DOMAIN down' : i = 1 /\ down'[i].place = restore BY <4>1
      <4> QED BY <2>1, <4>2, <4>3 DEF CommandsInv
    <3> QED BY <3>1, <3>2
  <2>4. ReportsInv'
    <3>1. CASE owed
      <4>1. up' = <<[type |-> "ready"]>> BY <1>7, <3>1 DEF Connect
      <4>2. /\ \A i \in DOMAIN up' : i = 1
            /\ up' # <<>> /\ up'[1].type = "ready"
        BY <4>1
      <4> QED BY <2>1, <3>1, <4>2 DEF ReportsInv
    <3>2. CASE ~owed
      <4>1. up' = <<>> BY <1>7, <3>2 DEF Connect
      <4> QED BY <2>1, <3>2, <4>1 DEF ReportsInv
    <3> QED BY <3>1, <3>2
  <2> QED BY <2>2, <2>3, <2>4
<1>8. CASE ReceiveReady \/ ReceiveUrl \/ ReceiveState
  <2>1. /\ up # <<>> /\ up' = Tail(up) /\ UNCHANGED <<link, restore>>
        /\ owed' = IF Head(up).type = "ready" THEN FALSE ELSE owed
    BY <1>8 DEF ReceiveReady, ReceiveUrl, ReceiveState
  <2>2. ReportsInv' BY <2>1, ReportsRead
  <2>3. link = "open" BY <2>1 DEF ReportsInv
  <2>4. SleepInv' BY <2>1, <2>3 DEF SleepInv
  <2>5. CommandsInv'
    <3>1. CASE ReceiveReady
      <4>1. [cmd |-> "navigate", url |-> current] \in Command BY DEF Command, TypeOK
      <4> QED BY <2>1, <2>3, <3>1, <4>1, CommandsSent DEF ReceiveReady
    <3>2. CASE ReceiveUrl \/ ReceiveState
      BY <1>0, <2>1, <3>2 DEF ReceiveUrl, ReceiveState
    <3> QED BY <1>8, <3>1, <3>2
  <2> QED BY <2>2, <2>4, <2>5
<1>9. ASSUME NEW d \in Doc, EnterAddress(d) PROVE ReportsInv' /\ CommandsInv' /\ SleepInv'
  <2>1. [cmd |-> "navigate", url |-> d] \in Command BY DEF Command, Address
  <2>2. CommandsInv' BY <1>9, <2>1, CommandsSent DEF EnterAddress
  <2> QED BY <1>0, <1>9, <2>2 DEF EnterAddress
<1>10. CASE PressReload \/ PressStop
  <2>1. [cmd |-> "stop"] \in Command /\ [cmd |-> "reload"] \in Command BY DEF Command
  <2>2. CommandsInv' BY <1>10, <2>1, CommandsSent DEF PressReload, PressStop
  <2> QED BY <1>0, <1>10, <2>2 DEF PressReload, PressStop, browser
<1>11. CASE Suspend
  BY <1>11 DEF Suspend, ReportsInv, CommandsInv, SleepInv
<1>12. ASSUME NEW adopted \in BOOLEAN, Resume(adopted)
       PROVE  ReportsInv' /\ CommandsInv' /\ SleepInv'
  <2>1. link = "none" /\ link' = "starting" /\ UNCHANGED channel
    BY <1>12 DEF Resume
  <2>2. up = <<>> /\ down = <<>> BY <2>1 DEF ReportsInv, CommandsInv
  <2>3. restore' = IF saved = 0 THEN Nowhere ELSE saved BY <1>12 DEF Resume
  <2> QED BY <2>1, <2>2, <2>3 DEF channel, ReportsInv, CommandsInv, SleepInv
<1>13. CASE UNCHANGED vars
  BY <1>0, <1>13 DEF vars, loader, engine, channel, browser, SleepInv
<1> QED
  BY <1>1, <1>2, <1>3, <1>4, <1>5, <1>6, <1>7, <1>8, <1>9, <1>10, <1>11, <1>12, <1>13
  DEF Next

-----------------------------------------------------------------------------
(* A place is wanted of a document to come only by a tab that wakes.        *)
LEMMA FedWakes ==
  ASSUME WakingOrder, NEW form \in {"initial", "final", "error"},
         Fed(form) \/ Unread, UNCHANGED <<asked, down, owed>>, wanted' # 0 => wanted # 0
  PROVE  WakingOrder'
<1>1. Ordered' => Ordered BY SameOrders
<1>2. OneOrder => OneOrder' BY SameOrders
<1>3. view'.of \in {asked, view.of} BY DEF Fed, Unread
<1> QED BY <1>1, <1>2, <1>3 DEF WakingOrder

LEMMA WakingStep ==
  ASSUME TypeOK, SocketInv, Waking, [Next]_vars
  PROVE  Waking'
<1> SUFFICES WakingOrder' /\ WakingLoad' BY DEF Waking
<1> USE DEF Waking
<1>0. /\ UNCHANGED <<wanted, owed, down, asked, view>> => WakingOrder'
      /\ UNCHANGED <<wanted, phase, view>> => WakingLoad'
      /\ phase' # "loading" => WakingLoad'
      /\ wanted' = 0 => WakingOrder' /\ WakingLoad'
  BY SameOrders DEF WakingOrder, WakingLoad
<1>1. CASE Finished
  <2>1. WakingOrder' BY <1>1, FedWakes DEF Finished, browser, wish
  <2> QED BY <1>0, <1>1, <2>1 DEF Finished, FeedInitial
<1>2. CASE Failed
  <2>1. wanted' # 0 => wanted # 0 BY <1>2 DEF Failed
  <2>2. WakingOrder' BY <1>2, <2>1, FedWakes DEF Failed, channel, browser
  <2> QED BY <1>0, <1>2, <2>2 DEF Failed, Error
<1>3. CASE Refreshed
  <2>1. WakingOrder' BY <1>3, FedWakes DEF Refreshed, channel, browser, wish
  <2> QED BY <1>0, <1>3, <2>1 DEF Refreshed, FeedFinal
<1>4. CASE Completed \/ StateTimer \/ Connect \/ ReceiveUrl \/ ReceiveState
  <2>1. UNCHANGED <<wanted, owed, asked, view, phase>>
    BY <1>4
    DEF Completed, StateTimer, Connect, ReceiveUrl, ReceiveState, loader, engine, browser, wish
  <2>2. WakingLoad' BY <1>0, <2>1
  <2>3. CASE down' = down BY <1>0, <2>1, <2>2, <2>3
  <2>4. CASE Connect
    <3>1. NoOrder' /\ OneOrder' BY <2>4, FreshOrders DEF Connect
    <3>2. Ordered' => Ordered BY <2>1, <3>1, OrderedIs DEF Ordered, NoOrder
    <3> QED BY <2>1, <2>2, <3>1, <3>2 DEF WakingOrder
  <2> QED BY <1>4, <2>3, <2>4 DEF Completed, StateTimer, ReceiveUrl, ReceiveState
<1>5. ASSUME NEW d \in Doc, ClickLink(d) PROVE WakingOrder' /\ WakingLoad'
  <2>1. CASE Ordered
    <3>1. view.of # Blank BY <1>5, DocumentAssumption DEF ClickLink
    <3>2. wanted' = 0 BY <1>5, <2>1, <3>1 DEF ClickLink, wish, WakingOrder
    <3> QED BY <1>0, <3>2
  <2>2. CASE ~Ordered
    <3>1. wanted' = 0 BY <1>5, <2>2 DEF ClickLink
    <3> QED BY <1>0, <3>1
  <2> QED BY <2>1, <2>2
<1>6. ASSUME NEW place \in Place, Scroll(place) PROVE WakingOrder' /\ WakingLoad'
  <2>1. UNCHANGED <<owed, down, asked, view, phase>>
    BY <1>6 DEF Scroll, loader, channel, browser
  <2>2. CASE Coming
    <3>1. wanted' = wanted BY <1>6, <2>2 DEF Scroll
    <3> QED BY <1>0, <2>1, <3>1
  <2>3. CASE ~Coming
    <3>1. ~Ordered' /\ phase' # "loading" BY <2>1, <2>3, SameOrders DEF Coming
    <3> QED BY <3>1 DEF WakingOrder, WakingLoad
  <2> QED BY <2>2, <2>3
<1>7. CASE ObeyNavigate
  <2>1. /\ down # <<>> /\ down' = Tail(down) /\ Head(down).cmd = "navigate"
        /\ UNCHANGED <<wanted, owed, view>>
    BY <1>7 DEF ObeyNavigate, engine, browser, wish
  <2>2. ASSUME wanted' # 0 PROVE ~Ordered' /\ view'.of = Blank
    <3>1. ~NoOrder /\ wanted # 0 BY <2>1, <2>2, ObeyedOrders
    <3>2. view.of = Blank /\ OneOrder BY <3>1, OrderedIs DEF WakingOrder
    <3>3. ~owed' /\ NoOrder' BY <2>1, <3>2, ObeyedOrders
    <3> QED BY <2>1, <3>2, <3>3 DEF Ordered, NoOrder
  <2> QED BY <2>2 DEF WakingOrder, WakingLoad
<1>8. CASE ObeyReload \/ ObeyStop \/ ObeyRestore
  <2>1. /\ down # <<>> /\ down' = Tail(down) /\ Head(down).cmd # "navigate"
        /\ UNCHANGED <<owed, asked, view>>
    BY <1>8 DEF ObeyReload, ObeyStop, ObeyRestore, engine, browser
  <2>2. /\ NoOrder' <=> NoOrder
        /\ OneOrder => OneOrder'
        /\ NoOrder' <=> ~ \E i \in DOMAIN Tail(down) : Tail(down)[i].cmd = "navigate"
    BY <2>1, ObeyedOrders
  <2>3. Ordered' <=> Ordered BY <2>1, <2>2 DEF Ordered, NoOrder
  <2>4. ASSUME wanted' = wanted PROVE WakingOrder'
    BY <2>1, <2>2, <2>3, <2>4 DEF WakingOrder
  <2>5. CASE ObeyReload
    <3>1. CASE wanted' = wanted /\ Ordered
      BY <2>1, <2>4, <3>1 DEF WakingOrder, WakingLoad
    <3>2. CASE ~Ordered
      <4>1. wanted' = 0 BY <2>2, <2>5, <3>2, OrderedIs DEF ObeyReload
      <4> QED BY <1>0, <4>1
    <3>3. Ordered => wanted' = wanted BY <2>2, <2>5, OrderedIs DEF ObeyReload, wish
    <3> QED BY <3>1, <3>2, <3>3
  <2>6. CASE ObeyStop
    <3>1. WakingLoad' BY <1>0, <2>6 DEF ObeyStop, Stop
    <3>2. Ordered => wanted' = wanted BY <2>6 DEF ObeyStop, wish
    <3>3. WakingOrder' BY <2>3, <2>4, <3>2 DEF WakingOrder
    <3> QED BY <3>1, <3>3
  <2>7. CASE ObeyRestore
    <3>1. wanted' = wanted /\ phase' = phase BY <2>7 DEF ObeyRestore, loader, wish
    <3> QED BY <1>0, <2>1, <2>4, <3>1
  <2> QED BY <1>8, <2>5, <2>6, <2>7
<1>9. CASE ReceiveReady
  <2> DEFINE c == [cmd |-> "navigate", url |-> current]
  <2>1. c \in Command /\ c.cmd = "navigate" BY DEF Command, TypeOK
  <2>2. /\ down' = Append(down, c) /\ ~owed' /\ up # <<>> /\ Head(up).type = "ready"
        /\ UNCHANGED <<wanted, asked, view, phase>>
    BY <1>9 DEF ReceiveReady, loader, engine, wish
  <2>3. owed
    <3>1. ReportsInv BY DEF SocketInv
    <3>2. 1 \in DOMAIN up /\ Head(up) = up[1] BY <2>2, TailElements DEF TypeOK
    <3> QED BY <2>2, <3>1, <3>2 DEF ReportsInv
  <2> HIDE DEF c
  <2>4. NoOrder => OneOrder' BY <2>1, <2>2, SentOrders
  <2>5. OneOrder => OneOrder' BY <2>3, <2>4 DEF OneOrder
  <2>6. Ordered BY <2>3 DEF Ordered
  <2> QED BY <1>0, <2>2, <2>5, <2>6 DEF WakingOrder
<1>10. ASSUME NEW d \in Doc, EnterAddress(d) PROVE WakingOrder' /\ WakingLoad'
  BY <1>0, <1>10 DEF EnterAddress
<1>11. CASE PressReload \/ PressStop
  <2>1. PICK c \in Command : c.cmd # "navigate" /\ down' = Append(down, c)
    <3>1. [cmd |-> "stop"] \in Command /\ [cmd |-> "reload"] \in Command BY DEF Command
    <3> QED BY <1>11, <3>1 DEF PressReload, PressStop
  <2>2. UNCHANGED <<wanted, owed, asked, view, phase>>
    BY <1>11 DEF PressReload, PressStop, loader, engine, browser, wish
  <2>3. (NoOrder' <=> NoOrder) /\ (OneOrder => OneOrder') BY <2>1, <2>2, SentOrders
  <2>4. Ordered' <=> Ordered BY <2>2, <2>3 DEF Ordered, NoOrder
  <2> QED BY <1>0, <2>2, <2>3, <2>4 DEF WakingOrder
<1>12. CASE Suspend
  <2>1. ~owed' /\ down' = <<>> /\ phase' # "loading" BY <1>12 DEF Suspend
  <2>2. ~Ordered' BY <2>1, FreshOrders DEF Ordered, NoOrder
  <2> QED BY <1>0, <2>1, <2>2 DEF WakingOrder
<1>13. ASSUME NEW adopted \in BOOLEAN, Resume(adopted) PROVE WakingOrder' /\ WakingLoad'
  <2>1. /\ view = Empty /\ down = <<>> /\ link = "none"
        /\ UNCHANGED <<view, down>> /\ owed' = adopted
        /\ asked' = IF adopted THEN Blank ELSE current
    BY <1>13 DEF Resume, engine, channel, SocketInv, CommandsInv, SleepInv
  <2>2. NoOrder' /\ OneOrder' BY <2>1, FreshOrders
  <2>3. Ordered' => adopted BY <2>1, <2>2 DEF Ordered, NoOrder
  <2>4. view'.of = Blank BY <2>1 DEF Empty
  <2> QED BY <2>1, <2>2, <2>3, <2>4 DEF WakingOrder, WakingLoad
<1>14. CASE UNCHANGED vars
  BY <1>0, <1>14 DEF vars, loader, engine, channel, browser, wish
<1> QED
  BY <1>1, <1>2, <1>3, <1>4, <1>5, <1>6, <1>7, <1>8, <1>9, <1>10, <1>11, <1>12, <1>13,
     <1>14 DEF Next

-----------------------------------------------------------------------------
(* A place that was lost stays lost.                                        *)
LEMMA LostStays == ASSUME [Next]_vars, ~lost' PROVE ~lost
<1>1. CASE \/ Finished \/ Failed \/ Refreshed \/ Completed \/ StateTimer
           \/ ObeyNavigate \/ ObeyReload \/ ObeyStop \/ ObeyRestore
  BY <1>1
  DEF Finished, Failed, Refreshed, Completed, StateTimer, ObeyNavigate, ObeyReload,
      ObeyStop, ObeyRestore, Lose
<1>2. CASE \/ Connect \/ ReceiveReady \/ ReceiveUrl \/ ReceiveState \/ PressReload
           \/ PressStop \/ Suspend \/ UNCHANGED vars
  BY <1>2
  DEF Connect, ReceiveReady, ReceiveUrl, ReceiveState, PressReload, PressStop, Suspend,
      vars, Lose
<1>3. ASSUME NEW d \in Doc, ClickLink(d) \/ EnterAddress(d) PROVE ~lost
  BY <1>3 DEF ClickLink, EnterAddress, Lose
<1>4. ASSUME NEW place \in Place, Scroll(place) PROVE ~lost
  BY <1>4 DEF Scroll, Lose
<1>5. ASSUME NEW adopted \in BOOLEAN, Resume(adopted) PROVE ~lost
  BY <1>5 DEF Resume
<1> QED BY <1>1, <1>2, <1>3, <1>4, <1>5 DEF Next

(* `ready' is what the browser waits for as long as it owes the address.    *)
LEMMA ReadyIsOwed ==
  ASSUME TypeOK, SocketInv, up # <<>>
  PROVE  link = "open" /\ (Head(up).type = "ready" <=> owed)
<1>1. 1 \in DOMAIN up /\ Head(up) = up[1] BY TailElements DEF TypeOK
<1> QED BY <1>1 DEF SocketInv, ReportsInv

-----------------------------------------------------------------------------
(* The document the user asked for.                                         *)

LEMMA NothingNewest == NoOrder => NewestOrder
BY DEF NoOrder, NewestOrder

(* A step of the engine: the wish, the tab and the commands stay.           *)
LEMMA EngineTargets ==
  ASSUME TargetInv, link # "none",
         UNCHANGED <<link, asked, owed, down, current, saved, target>>,
         wanted' \in {wanted, 0},
         \/ view'.of = view.of /\ phase' = phase
         \/ view'.of = asked /\ phase = "loading" /\ phase' # "loading"
         \/ view'.of = asked /\ phase \in {"initial", "final"} /\ phase' = "final"
  PROVE  TargetInv'
<1>1. /\ Ordered' <=> Ordered
      /\ NewestOrder => NewestOrder'
  BY SameOrders
<1>2. AsleepTarget' /\ BlankTarget' BY DEF TargetInv, AsleepTarget, BlankTarget
<1>3. OrderTarget' BY <1>1 DEF TargetInv, OrderTarget
<1>4. FormTarget' BY DEF TargetInv, FormTarget
<1>5. DocTarget'
  <2>1. CASE view'.of = view.of /\ phase' = phase
    BY <1>1, <2>1 DEF TargetInv, DocTarget
  <2>2. CASE view'.of = asked /\ phase = "loading" /\ phase' # "loading"
    BY <1>1, <2>2 DEF TargetInv, DocTarget
  <2>3. CASE view'.of = asked /\ phase \in {"initial", "final"} /\ phase' = "final"
    <3>1. view'.of = view.of /\ phase # "loading" /\ phase' # "loading"
      BY <2>3 DEF TargetInv, FormTarget
    <3> QED BY <1>1, <3>1 DEF TargetInv, DocTarget
  <2> QED BY <2>1, <2>2, <2>3
<1> QED BY <1>2, <1>3, <1>4, <1>5 DEF TargetInv

LEMMA TargetStep ==
  ASSUME TypeOK, SocketInv, OnPage, TargetInv, [Next]_vars, ~lost'
  PROVE  TargetInv'
<1>1. CASE Finished
  <2>1. Fed("initial") BY <1>1 DEF Finished, Lose
  <2>2. link # "none" BY <1>1 DEF Finished, FeedInitial, SocketInv, SleepInv
  <2> QED
    BY <1>1, <2>1, <2>2, EngineTargets DEF Finished, FeedInitial, Fed, browser, wish
<1>2. CASE Failed
  <2>1. Fed("error") BY <1>2 DEF Failed, Lose
  <2>2. link # "none" BY <1>2 DEF Failed, SocketInv, SleepInv
  <2> QED
    BY <1>2, <2>1, <2>2, EngineTargets DEF Failed, Error, Fed, channel, browser
<1>3. CASE Refreshed
  <2>1. Fed("final") BY <1>3 DEF Refreshed, Lose
  <2>2. link # "none" BY <1>3 DEF Refreshed, FeedFinal, SocketInv, SleepInv
  <2> QED
    BY <1>3, <2>1, <2>2, EngineTargets DEF Refreshed, FeedFinal, Fed, channel, browser, wish
<1>4. CASE Completed \/ StateTimer
  <2>1. link # "none" BY <1>4 DEF Completed, StateTimer, SocketInv, SleepInv
  <2> QED
    BY <1>4, <2>1, EngineTargets DEF Completed, StateTimer, loader, engine, browser, wish
<1>5. ASSUME NEW d \in Doc, ClickLink(d) PROVE TargetInv'
  <2>1. /\ link' = link /\ link = "open" /\ phase' = "loading" /\ asked' = d /\ d # Blank
        /\ UNCHANGED <<owed, down, current, saved>>
    BY <1>5, DocumentAssumption DEF ClickLink, Start, channel, browser
  <2>2. Ordered' <=> Ordered BY <2>1, SameOrders
  <2>3. AsleepTarget' /\ FormTarget' BY <2>1 DEF AsleepTarget, FormTarget
  <2>4. CASE Ordered
    <3>1. UNCHANGED wish BY <1>5, <2>4 DEF ClickLink
    <3>2. OrderTarget' BY <2>1, <3>1, SameOrders DEF wish, TargetInv, OrderTarget
    <3> QED BY <2>2, <2>3, <2>4, <3>1, <3>2 DEF wish, TargetInv, DocTarget, BlankTarget
  <2>5. CASE ~Ordered
    <3>1. target' = d /\ wanted' = 0 BY <1>5, <2>5 DEF ClickLink
    <3>2. ~owed' /\ NoOrder BY <2>1, <2>5, OrderedIs
    <3>3. NoOrder' BY <2>1, <3>2, SameOrders
    <3>4. OrderTarget' BY <3>2, <3>3, NothingNewest DEF OrderTarget, NewestOrder, NoOrder
    <3> QED BY <2>1, <2>3, <3>1, <3>4 DEF TargetInv, DocTarget, BlankTarget
  <2> QED BY <2>4, <2>5
<1>6. ASSUME NEW place \in Place, Scroll(place) PROVE TargetInv'
  <2>1. /\ UNCHANGED <<link, asked, owed, down, current, saved, target, view, phase>>
        /\ link = "open" /\ place # pos /\ place <= End(view)
        /\ wanted' = IF Coming THEN wanted ELSE place
    BY <1>6 DEF Scroll, loader, channel, browser
  <2>2. wanted' \in {wanted, 0} \/ target # Blank
    <3>1. CASE Coming BY <2>1, <3>1
    <3>2. CASE ~Coming /\ target = Blank
      <4>1. view.of = Blank BY <2>1, <3>2 DEF Coming, TargetInv, DocTarget
      <4>2. End(view) = 0 /\ 0 <= place BY <4>1, NoEnd, PlaceNat
      <4>3. place = 0 BY <2>1, <4>2, PlaceNat
      <4> QED BY <2>1, <3>2, <4>3
    <3> QED BY <3>1, <3>2
  <2>3. BlankTarget' BY <2>1, <2>2 DEF TargetInv, BlankTarget
  <2>4. (Ordered' <=> Ordered) /\ (NewestOrder => NewestOrder') BY <2>1, SameOrders
  <2> QED
    BY <2>1, <2>3, <2>4
    DEF TargetInv, AsleepTarget, OrderTarget, DocTarget, FormTarget
<1>7. CASE ObeyNavigate
  <2>1. /\ down # <<>> /\ down' = Tail(down) /\ Head(down).cmd = "navigate"
        /\ UNCHANGED <<link, owed, current, saved, target, wanted>>
        /\ phase' = "loading" /\ asked' = Head(down).url
    BY <1>7 DEF ObeyNavigate, Start, engine, browser, wish
  <2>2. link = "open" BY <2>1, CommandsObeyed DEF SocketInv
  <2>3. NewestOrder => NewestOrder' BY <2>1, ObeyedOrders
  <2>4. ASSUME ~Ordered' PROVE asked' = target
    <3>1. ~owed /\ NoOrder' BY <2>1, <2>4 DEF Ordered, NoOrder
    <3>2. NewestOrder BY <3>1 DEF TargetInv, OrderTarget
    <3> QED BY <2>1, <3>1, <3>2, ObeyedOrders
  <2> QED
    BY <2>1, <2>2, <2>3, <2>4
    DEF TargetInv, AsleepTarget, OrderTarget, DocTarget, FormTarget, BlankTarget
<1>8. CASE ObeyReload \/ ObeyStop \/ ObeyRestore
  <2>1. /\ down # <<>> /\ down' = Tail(down) /\ Head(down).cmd # "navigate"
        /\ UNCHANGED <<link, asked, owed, current, saved, view>>
    BY <1>8 DEF ObeyReload, ObeyStop, ObeyRestore, engine, browser
  <2>2. link = "open" BY <2>1, CommandsObeyed DEF SocketInv
  <2>3. /\ NoOrder' <=> NoOrder
        /\ NewestOrder /\ target' = target => NewestOrder'
        /\ NoOrder' <=> ~ \E i \in DOMAIN Tail(down) : Tail(down)[i].cmd = "navigate"
    BY <2>1, ObeyedOrders
  <2>4. Ordered' <=> Ordered BY <2>1, <2>3 DEF Ordered, NoOrder
  <2>5. AsleepTarget' BY <2>1, <2>2 DEF AsleepTarget
  <2>6. target' = target => OrderTarget' BY <2>1, <2>3 DEF TargetInv, OrderTarget
  <2>7. ~Ordered => OrderTarget'
    <3> SUFFICES ASSUME ~Ordered PROVE OrderTarget' OBVIOUS
    <3>1. ~owed' /\ NoOrder' BY <2>1, <2>3, OrderedIs
    <3> QED BY <3>1 DEF OrderTarget, NewestOrder, NoOrder
  <2>8. CASE ObeyReload
    <3>1. phase' = "loading" BY <2>8 DEF ObeyReload, Start
    <3>2. CASE Ordered
      <4>1. UNCHANGED wish BY <2>3, <2>8, <3>2, OrderedIs DEF ObeyReload
      <4> QED
        BY <2>4, <2>5, <2>6, <3>1, <3>2, <4>1
        DEF wish, TargetInv, DocTarget, FormTarget, BlankTarget
    <3>3. CASE ~Ordered
      <4>1. target' = asked /\ wanted' = 0 BY <2>3, <2>8, <3>3, OrderedIs DEF ObeyReload
      <4> QED
        BY <2>1, <2>5, <2>7, <3>1, <3>3, <4>1
        DEF TargetInv, DocTarget, FormTarget, BlankTarget
    <3> QED BY <3>2, <3>3
  <2>9. CASE ObeyStop
    <3>1. phase' \in {"error", "stopped"} BY <2>9 DEF ObeyStop, Stop
    <3>2. CASE phase = "loading" /\ ~Ordered
      <4>1. target' = view.of /\ wanted' = pos BY <2>9, <3>2 DEF ObeyStop
      <4>2. view.of = Blank => pos = 0
        BY NoEnd, PlaceNat DEF OnPage, TypeOK
      <4> QED
        BY <2>1, <2>5, <2>7, <3>1, <3>2, <4>1, <4>2
        DEF TargetInv, DocTarget, FormTarget, BlankTarget
    <3>3. CASE ~(phase = "loading" /\ ~Ordered)
      <4>1. UNCHANGED wish BY <2>9, <3>3 DEF ObeyStop
      <4> QED
        BY <2>1, <2>4, <2>5, <2>6, <3>1, <3>3, <4>1
        DEF wish, TargetInv, DocTarget, FormTarget, BlankTarget
    <3> QED BY <3>2, <3>3
  <2>10. CASE ObeyRestore
    <3>1. UNCHANGED <<phase, target, wanted>> BY <2>10 DEF ObeyRestore, loader, wish
    <3> QED
      BY <2>1, <2>4, <2>5, <2>6, <3>1 DEF TargetInv, DocTarget, FormTarget, BlankTarget
  <2> QED BY <1>8, <2>8, <2>9, <2>10
<1>9. CASE Connect
  <2>1. /\ link = "starting" /\ link' = "open"
        /\ UNCHANGED <<asked, view, phase, owed, current, saved, target, wanted>>
    BY <1>9 DEF Connect, loader, engine, wish
  <2>2. NoOrder' /\ NewestOrder' BY <1>9, FreshOrders DEF Connect
  <2>3. NoOrder
    <3>1. down = <<>> BY <2>1 DEF SocketInv, CommandsInv
    <3> QED BY <3>1 DEF NoOrder
  <2>4. Ordered' <=> Ordered BY <2>1, <2>2, <2>3 DEF Ordered, NoOrder
  <2> QED
    BY <2>1, <2>2, <2>4
    DEF TargetInv, AsleepTarget, OrderTarget, DocTarget, FormTarget, BlankTarget
<1>10. CASE ReceiveReady
  <2> DEFINE c == [cmd |-> "navigate", url |-> current]
  <2>1. c \in Command /\ c.cmd = "navigate" /\ c.url = current BY DEF Command, TypeOK
  <2>2. /\ down' = Append(down, c) /\ ~owed' /\ up # <<>> /\ Head(up).type = "ready"
        /\ UNCHANGED <<link, asked, view, phase, current, saved, target, wanted>>
    BY <1>10 DEF ReceiveReady, loader, engine, wish
  <2>3. owed /\ link = "open" BY <2>2, ReadyIsOwed
  <2>4. current = target BY <2>3 DEF TargetInv, OrderTarget
  <2> HIDE DEF c
  <2>5. NewestOrder' /\ ~NoOrder' BY <2>1, <2>2, <2>4, SentOrders
  <2>6. Ordered' BY <2>5 DEF Ordered, NoOrder
  <2> QED
    BY <2>2, <2>3, <2>5, <2>6
    DEF TargetInv, AsleepTarget, OrderTarget, DocTarget, FormTarget, BlankTarget
<1>11. CASE ReceiveUrl \/ ReceiveState
  <2>1. /\ up # <<>> /\ Head(up).type # "ready"
        /\ UNCHANGED <<link, asked, owed, down, view, phase, target, wanted>>
    BY <1>11 DEF ReceiveUrl, ReceiveState, loader, engine, wish
  <2>2. link = "open" /\ ~owed BY <2>1, ReadyIsOwed
  <2>3. (Ordered' <=> Ordered) /\ (NewestOrder => NewestOrder') BY <2>1, SameOrders
  <2> QED
    BY <2>1, <2>2, <2>3
    DEF TargetInv, AsleepTarget, OrderTarget, DocTarget, FormTarget, BlankTarget
<1>12. ASSUME NEW d \in Doc, EnterAddress(d) PROVE TargetInv'
  <2> DEFINE c == [cmd |-> "navigate", url |-> d]
  <2>1. c \in Command /\ c.cmd = "navigate" /\ c.url = d BY DEF Command, Address
  <2>2. /\ down' = Append(down, c) /\ link = "open" /\ current' = d /\ target' = d
        /\ wanted' = 0 /\ UNCHANGED <<link, asked, view, phase, owed>>
    BY <1>12 DEF EnterAddress, loader, engine
  <2> HIDE DEF c
  <2>3. NewestOrder' /\ ~NoOrder' BY <2>1, <2>2, SentOrders
  <2>4. Ordered' BY <2>3 DEF Ordered, NoOrder
  <2> QED
    BY <2>2, <2>3, <2>4
    DEF TargetInv, AsleepTarget, OrderTarget, DocTarget, FormTarget, BlankTarget
<1>13. CASE PressReload \/ PressStop
  <2>1. PICK c \in Command : c.cmd # "navigate" /\ down' = Append(down, c)
    <3>1. [cmd |-> "stop"] \in Command /\ [cmd |-> "reload"] \in Command BY DEF Command
    <3> QED BY <1>13, <3>1 DEF PressReload, PressStop
  <2>2. /\ link = "open"
        /\ UNCHANGED <<link, asked, view, phase, owed, current, saved, target, wanted>>
    BY <1>13 DEF PressReload, PressStop, loader, engine, browser, wish
  <2>3. (NoOrder' <=> NoOrder) /\ (NewestOrder => NewestOrder') BY <2>1, <2>2, SentOrders
  <2>4. Ordered' <=> Ordered BY <2>2, <2>3 DEF Ordered, NoOrder
  <2> QED
    BY <2>2, <2>3, <2>4
    DEF TargetInv, AsleepTarget, OrderTarget, DocTarget, FormTarget, BlankTarget
<1>14. CASE Suspend
  <2>1. /\ link' = "none" /\ ~owed' /\ down' = <<>> /\ phase' = "idle"
        /\ UNCHANGED <<current, saved, target, wanted>>
    BY <1>14 DEF Suspend, wish
  <2>2. saved = wanted /\ current = target BY <1>14 DEF Suspend, Lose
  <2>3. NewestOrder' BY <2>1, FreshOrders
  <2> QED
    BY <2>1, <2>2, <2>3
    DEF TargetInv, AsleepTarget, OrderTarget, DocTarget, FormTarget, BlankTarget
<1>15. ASSUME NEW adopted \in BOOLEAN, Resume(adopted) PROVE TargetInv'
  <2>1. /\ link = "none" /\ link' = "starting" /\ phase' = "loading" /\ owed' = adopted
        /\ asked' = IF adopted THEN Blank ELSE current
        /\ UNCHANGED <<down, current, saved, target, wanted>>
    BY <1>15 DEF Resume, Start, channel, wish
  <2>2. down = <<>> /\ current = target
    BY <2>1 DEF SocketInv, CommandsInv, TargetInv, AsleepTarget
  <2>3. NewestOrder' /\ (adopted => Ordered') BY <2>1, <2>2, FreshOrders DEF Ordered
  <2> QED
    BY <2>1, <2>2, <2>3
    DEF TargetInv, AsleepTarget, OrderTarget, DocTarget, FormTarget, BlankTarget
<1>16. CASE UNCHANGED vars
  <2>1. UNCHANGED <<link, asked, owed, down, current, saved, target, wanted, view, phase>>
    BY <1>16 DEF vars, loader, engine, channel, browser, wish
  <2>2. (Ordered' <=> Ordered) /\ (NewestOrder => NewestOrder') BY <2>1, SameOrders
  <2> QED
    BY <2>1, <2>2
    DEF TargetInv, AsleepTarget, OrderTarget, DocTarget, FormTarget, BlankTarget
<1> QED
  BY <1>1, <1>2, <1>3, <1>4, <1>5, <1>6, <1>7, <1>8, <1>9, <1>10, <1>11, <1>12, <1>13,
     <1>14, <1>15, <1>16 DEF Next

-----------------------------------------------------------------------------
(* The place the user wants.                                                *)

(* A place that is awaited is not the top, and it is the only one there is. *)
LEMMA AwaitedIs ==
  ASSUME TypeOK, SocketInv
  PROVE  /\ Awaited => AwaitedPlace \in Place /\ AwaitedPlace # 0
         /\ Awaited /\ down # <<>> => restore = Nowhere /\ Head(down).cmd = "restore"
         /\ restore # Nowhere => down = <<>> /\ link = "starting"
<1>1. restore # Nowhere => down = <<>> /\ link = "starting" /\ restore # 0
  BY DEF SocketInv, CommandsInv, SleepInv
<1>2. ASSUME restore # Nowhere PROVE AwaitedPlace \in Place /\ AwaitedPlace # 0
  BY <1>1, <1>2 DEF AwaitedPlace, TypeOK
<1>3. ASSUME restore = Nowhere, down # <<>>, Head(down).cmd = "restore"
      PROVE  AwaitedPlace \in Place /\ AwaitedPlace # 0
  <2>1. 1 \in DOMAIN down /\ Head(down) = down[1] BY <1>3, TailElements DEF TypeOK
  <2>2. down[1].place \in Place BY <1>3, <2>1, CommandKinds
  <2>3. down[1].place # 0 BY <1>3, <2>1 DEF SocketInv, CommandsInv
  <2> QED BY <1>3, <2>1, <2>2, <2>3 DEF AwaitedPlace
<1> QED BY <1>1, <1>2, <1>3 DEF Awaited

LEMMA CarriedIs ==
  /\ Awaited => Carried = AwaitedPlace
  /\ ~Awaited /\ slot # Nowhere /\ (Ordered => asked = Blank) => Carried = slot
  /\ ~Awaited /\ slot = Nowhere /\ Coming => Carried = 0
  /\ ~Awaited /\ Ordered /\ asked # Blank => Carried = 0
  /\ ~Awaited /\ slot = Nowhere /\ ~Coming => Carried = pos
BY DEF Carried, Coming

LEMMA CarriedNextIs ==
  /\ Awaited' => Carried' = AwaitedPlace'
  /\ ~Awaited' /\ slot' # Nowhere /\ (Ordered' => asked' = Blank) => Carried' = slot'
  /\ ~Awaited' /\ slot' = Nowhere /\ Coming' => Carried' = 0
  /\ ~Awaited' /\ Ordered' /\ asked' # Blank => Carried' = 0
  /\ ~Awaited' /\ slot' = Nowhere /\ ~Coming' => Carried' = pos'
BY DEF Carried, Coming

(* What does not touch the socket leaves what is awaited.                   *)
LEMMA AwaitedSame ==
  ASSUME UNCHANGED <<restore, down, owed>>
  PROVE  /\ (Awaited' <=> Awaited) /\ AwaitedPlace' = AwaitedPlace
         /\ Ordered' <=> Ordered
BY DEF Awaited, AwaitedPlace, Ordered

LEMMA AwaitedObeyed ==
  ASSUME TypeOK, SocketInv, down # <<>>, down' = Tail(down), UNCHANGED <<restore, link>>
  PROVE  restore = Nowhere /\ ~Awaited' /\ (Head(down).cmd # "restore" => ~Awaited)
<1>1. restore = Nowhere BY AwaitedIs
<1>2. \A i \in DOMAIN down' : down'[i].cmd # "restore"
  BY CommandsObeyed DEF SocketInv
<1>3. ASSUME down' # <<>> PROVE Head(down').cmd # "restore"
  <2>1. down' \in Seq(Command) BY TailElements DEF TypeOK
  <2>2. 1 \in DOMAIN down' /\ Head(down') = down'[1] BY <1>3, <2>1, TailElements
  <2> QED BY <1>2, <2>2
<1> QED BY <1>1, <1>3 DEF Awaited

LEMMA AwaitedSent ==
  ASSUME TypeOK, SocketInv, NEW c \in Command, c.cmd # "restore", link = "open",
         down' = Append(down, c), UNCHANGED restore
  PROVE  /\ Awaited' <=> Awaited
         /\ Awaited => AwaitedPlace' = AwaitedPlace
<1>1. restore = Nowhere BY AwaitedIs
<1>2. down' # <<>> /\ Head(down') = IF down = <<>> THEN c ELSE Head(down)
  BY SentOrders
<1> QED BY <1>1, <1>2 DEF Awaited, AwaitedPlace

LEMMA NothingUnderway ==
  ASSUME TypeOK, ~Underway
  PROVE  slot = Nowhere /\ restore = Nowhere /\ ~Awaited
<1>1. down # <<>> => 1 \in DOMAIN down /\ Head(down) = down[1]
  BY TailElements DEF TypeOK
<1> QED BY <1>1 DEF Underway, Awaited

(* Only a message is sent, or the browser reads one.                        *)
LEMMA PlaceSame ==
  ASSUME PlaceInv, UNCHANGED <<slot, asked, phase, pos, view, feed, wanted>>,
         link # "none", Awaited' <=> Awaited, Awaited => AwaitedPlace' = AwaitedPlace,
         Ordered' <=> Ordered
  PROVE  PlaceInv'
<1>1. Carried' = Carried BY DEF Carried, Coming
<1>2. Doomed' <=> Doomed BY DEF Doomed
<1> QED BY <1>1, <1>2 DEF PlaceInv, PlaceCarried, AwaitedInTime, SlotInUse

LEMMA PlaceStep ==
  ASSUME TypeOK, TypeOK', SocketInv, OnPage, Waking, TargetInv, PlaceInv, [Next]_vars, ~lost'
  PROVE  PlaceInv'
<1> USE DEF PlaceInv
<1>0. pos \in Place /\ pos # Nowhere /\ Nowhere \notin Place /\ 0 # Nowhere /\ saved \in Place
  <2>1. Nowhere \notin Place /\ 0 # Nowhere BY PlaceNat DEF Nowhere
  <2>2. pos \in Place /\ saved \in Place BY DEF TypeOK
  <2> QED BY <2>1, <2>2
<1>1. CASE Finished
  <2>1. /\ Fed("initial") /\ phase = "loading" /\ phase' = "initial" /\ pos' = 0
        /\ feed' = "loading" /\ UNCHANGED <<restore, down, owed, slot, asked, link, wanted>>
    BY <1>1 DEF Finished, FeedInitial, Fed, Lose, browser, wish
  <2>2. (Awaited' <=> Awaited) /\ AwaitedPlace' = AwaitedPlace BY <2>1, AwaitedSame
  <2>3. Ordered' <=> Ordered BY <2>1, AwaitedSame
  <2>4. Coming BY <2>1 DEF Coming
  <2>5. Carried' = Carried BY <2>1, <2>2, <2>3, <2>4, AwaitedSame DEF Carried
  <2>6. link # "none" BY <2>1 DEF SocketInv, SleepInv
  <2>7. wanted = Carried BY <2>1, <2>6 DEF PlaceCarried, Doomed
  <2> QED BY <2>1, <2>2, <2>3, <2>5, <2>7, AwaitedSame
          DEF PlaceCarried, AwaitedInTime, SlotInUse
<1>2. CASE Failed
  <2>1. /\ Fed("error") /\ phase = "loading" /\ phase' = "error" /\ pos' = 0
        /\ feed' = "loading" /\ UNCHANGED <<restore, down, owed, slot, asked, link>>
        /\ wanted' = (IF Ordered THEN wanted ELSE 0) /\ view'.form = "error"
    <3>1. Fed("error") BY <1>2 DEF Failed, Lose
    <3>2. view'.form = "error" BY <3>1 DEF Fed
    <3>3. wanted' = (IF Ordered THEN wanted ELSE 0) BY <1>2 DEF Failed
    <3> QED BY <1>2, <3>1, <3>2, <3>3 DEF Failed, Error, Fed, browser, channel
  <2>2. Ordered' <=> Ordered BY <2>1, AwaitedSame
  <2>3. (Awaited' <=> Awaited) /\ AwaitedPlace' = AwaitedPlace
    BY <2>1 DEF Awaited, AwaitedPlace
  <2>4. Coming BY <2>1 DEF Coming
  <2>5. Carried' = Carried BY <2>1, <2>2, <2>3, <2>4 DEF Carried
  <2>6. link # "none" BY <2>1 DEF SocketInv, SleepInv
  <2>7. wanted = Carried BY <2>1, <2>6 DEF PlaceCarried, Doomed
  <2>8. ASSUME ~Ordered, Carried # 0 PROVE Doomed'
    <3>1. target # Blank BY <2>7, <2>8 DEF TargetInv, BlankTarget
    <3>2. asked # Blank BY <2>1, <2>6, <2>8, <3>1 DEF TargetInv, DocTarget
    <3>3. Awaited \/ slot # Nowhere BY <2>4, <2>8, CarriedIs
    <3>4. ~Awaited => slot = Carried BY <2>8, <3>3, CarriedIs
    <3>5. slot # Nowhere => slot \in Nat /\ 0 <= slot BY PlaceNat DEF TypeOK
    <3>6. ~Awaited => slot > 0 BY <2>8, <3>3, <3>4, <3>5
    <3> QED BY <2>1, <2>3, <2>8, <3>2, <3>6 DEF Doomed
  <2>9. PlaceCarried' BY <2>1, <2>5, <2>7, <2>8 DEF PlaceCarried
  <2> QED BY <2>1, <2>2, <2>3, <2>9 DEF AwaitedInTime, SlotInUse
<1>3. CASE Refreshed
  <2>1. /\ Fed("final") /\ phase \in {"initial", "final"} /\ phase' = "final" /\ pos' = 0
        /\ feed' = "loading" /\ UNCHANGED <<restore, down, owed, asked, link, wanted>>
        /\ slot = Nowhere /\ slot' = pos
    BY <1>3 DEF Refreshed, FeedFinal, Fed, Lose, browser, channel, wish
  <2>2. Ordered' <=> Ordered BY <2>1, AwaitedSame
  <2>3. (Awaited' <=> Awaited) /\ AwaitedPlace' = AwaitedPlace
    BY <2>1 DEF Awaited, AwaitedPlace
  <2>4. link # "none" BY <2>1 DEF SocketInv, SleepInv
  <2>5. wanted = Carried BY <2>1, <2>4 DEF PlaceCarried, Doomed
  <2>6. (Coming <=> Ordered) /\ (Coming' <=> Ordered') BY <2>1 DEF Coming
  <2>7. Carried' = Carried
    <3>1. CASE Awaited BY <2>3, <3>1, CarriedIs, CarriedNextIs
    <3>2. CASE ~Awaited /\ ~Ordered
      BY <1>0, <2>1, <2>2, <2>3, <2>6, <3>2, CarriedIs, CarriedNextIs
    <3>3. CASE ~Awaited /\ Ordered /\ asked = Blank
      <4>1. view.of = Blank BY <2>1, <3>3 DEF TargetInv, FormTarget
      <4>2. pos = 0 BY <1>0, <4>1, NoEnd, PlaceNat DEF OnPage
      <4>3. Carried' = 0 BY <1>0, <2>1, <2>3, <3>3, <4>2, CarriedNextIs
      <4> QED BY <2>1, <2>6, <3>3, <4>3, CarriedIs
    <3>4. CASE ~Awaited /\ Ordered /\ asked # Blank
      BY <2>1, <2>2, <2>3, <3>4, CarriedIs, CarriedNextIs
    <3> QED BY <3>1, <3>2, <3>3, <3>4
  <2> QED BY <2>1, <2>2, <2>3, <2>5, <2>7 DEF PlaceCarried, AwaitedInTime, SlotInUse
<1>4. CASE Completed
  <2>1. /\ feed = "loading" /\ slot' = Nowhere
        /\ pos' = IF slot = Nowhere THEN pos ELSE Within(slot, view)
        /\ UNCHANGED <<restore, down, owed, asked, link, wanted, view, phase>>
        /\ slot # Nowhere => view.of # Blank /\ ~(slot > End(view))
    BY <1>4 DEF Completed, Lose, loader, browser, wish
  <2>2. Ordered' <=> Ordered BY <2>1, AwaitedSame
  <2>3. (Awaited' <=> Awaited) /\ AwaitedPlace' = AwaitedPlace
    BY <2>1 DEF Awaited, AwaitedPlace
  <2>4. link # "none" BY <2>1 DEF SocketInv, SleepInv
  <2>5. Coming' <=> Coming BY <2>1, <2>2 DEF Coming
  <2>6. CASE Doomed
    <3>1. End(view) = 0 BY <2>6, NoEnd DEF Doomed
    <3>2. ~(slot > 0)
      <4>1. slot # Nowhere => ~(slot > 0) BY <2>1, <3>1
      <4>2. slot = Nowhere => ~(slot > 0) BY DEF Nowhere
      <4> QED BY <4>1, <4>2
    <3>3. Doomed' BY <2>1, <2>3, <2>6, <3>2 DEF Doomed
    <3> QED BY <2>1, <2>2, <2>3, <3>3 DEF PlaceCarried, AwaitedInTime, SlotInUse
  <2>7. CASE wanted = Carried
    <3>1. CASE Awaited \/ slot = Nowhere
      <4>1. Carried' = Carried BY <2>1, <2>2, <2>3, <2>5, <3>1 DEF Carried
      <4> QED BY <2>1, <2>2, <2>3, <2>7, <4>1 DEF PlaceCarried, AwaitedInTime, SlotInUse
    <3>2. CASE ~Awaited /\ slot # Nowhere
      <4>1. pos' = slot BY <2>1, <3>2 DEF Within
      <4>2. CASE Ordered /\ asked # Blank
        BY <2>1, <2>2, <2>3, <2>7, <3>2, <4>2, CarriedIs, CarriedNextIs
        DEF PlaceCarried, AwaitedInTime, SlotInUse
      <4>3. CASE (Ordered => asked = Blank) /\ Coming
        <5>1. wanted = 0
          <6>1. view.of # Blank BY <2>1, <3>2
          <6> QED BY <4>3, <6>1 DEF Coming, Waking, WakingOrder, WakingLoad
        <5>2. Carried' = 0 BY <2>1, <2>3, <2>5, <3>2, <4>3, CarriedNextIs
        <5> QED BY <2>1, <2>3, <3>2, <5>1, <5>2 DEF PlaceCarried, AwaitedInTime, SlotInUse
      <4>4. CASE (Ordered => asked = Blank) /\ ~Coming
        <5>1. Carried = slot BY <3>2, <4>4, CarriedIs
        <5>2. Carried' = pos' BY <2>1, <2>3, <2>5, <3>2, <4>4, CarriedNextIs
        <5> QED
          BY <2>1, <2>3, <2>7, <3>2, <4>1, <5>1, <5>2
          DEF PlaceCarried, AwaitedInTime, SlotInUse
      <4> QED BY <4>2, <4>3, <4>4
    <3> QED BY <3>1, <3>2
  <2> QED BY <2>4, <2>6, <2>7 DEF PlaceCarried
<1>5. ASSUME NEW d \in Doc, ClickLink(d) PROVE PlaceInv'
  <2>1. /\ ~Underway /\ phase' = "loading" /\ link = "open"
        /\ UNCHANGED <<restore, down, owed, slot, link>>
        /\ IF Ordered THEN wanted' = wanted ELSE wanted' = 0
    BY <1>5 DEF ClickLink, Lose, Start, engine, channel, browser, wish
  <2>2. slot = Nowhere /\ ~Awaited BY <2>1, NothingUnderway
  <2>3. ~Awaited' BY <2>1, <2>2 DEF Awaited
  <2>4. Carried' = 0 BY <2>1, <2>2, <2>3, CarriedNextIs DEF Coming
  <2>5. ASSUME Ordered PROVE wanted = 0
    <3>1. ~Doomed BY <2>2 DEF Doomed, Nowhere
    <3> QED BY <2>1, <2>2, <2>5, <3>1, CarriedIs DEF PlaceCarried, Coming
  <2> QED BY <2>1, <2>2, <2>3, <2>4, <2>5 DEF PlaceCarried, AwaitedInTime, SlotInUse
<1>6. ASSUME NEW place \in Place, Scroll(place) PROVE PlaceInv'
  <2>1. /\ ~Underway /\ link = "open" /\ pos' = place
        /\ UNCHANGED <<restore, down, owed, slot, link, asked, phase, view, feed>>
        /\ wanted' = IF Coming THEN wanted ELSE place
    BY <1>6 DEF Scroll, Lose, loader, channel, browser
  <2>2. slot = Nowhere /\ ~Awaited BY <2>1, NothingUnderway
  <2>3. ~Awaited' BY <2>1, <2>2 DEF Awaited
  <2>4. (Ordered' <=> Ordered) /\ (Coming' <=> Coming) BY <2>1, AwaitedSame DEF Coming
  <2>5. ~Doomed BY <2>2 DEF Doomed, Nowhere
  <2>6. wanted' = Carried'
    <3>1. CASE Coming
      BY <2>1, <2>2, <2>3, <2>4, <2>5, <3>1, CarriedIs, CarriedNextIs DEF PlaceCarried
    <3>2. CASE ~Coming BY <2>1, <2>2, <2>3, <2>4, <3>2, CarriedNextIs
    <3> QED BY <3>1, <3>2
  <2> QED BY <2>1, <2>2, <2>3, <2>6 DEF PlaceCarried, AwaitedInTime, SlotInUse
<1>7. CASE ObeyNavigate
  <2>1. /\ down # <<>> /\ down' = Tail(down) /\ Head(down).cmd = "navigate"
        /\ UNCHANGED <<link, owed, restore, wanted, slot, view>>
        /\ phase' = "loading" /\ (slot = Nowhere \/ asked = Blank)
    <3>1. slot = Nowhere \/ asked = Blank BY <1>7 DEF ObeyNavigate, Lose
    <3> QED BY <1>7, <3>1 DEF ObeyNavigate, Start, engine, browser, wish
  <2>2. ~Awaited /\ ~Awaited' /\ link # "none"
    BY <2>1, AwaitedObeyed, CommandsObeyed DEF SocketInv
  <2>3. Ordered /\ Coming /\ Coming'
    <3>1. ~NoOrder BY <2>1, ObeyedOrders
    <3> QED BY <2>1, <3>1, OrderedIs DEF Coming
  <2>4. ~Doomed
    <3>1. slot = Nowhere => ~(slot > 0) BY DEF Nowhere
    <3> QED BY <2>1, <2>2, <3>1 DEF Doomed
  <2>5. wanted = Carried BY <2>2, <2>4 DEF PlaceCarried
  <2>6. CASE slot = Nowhere
    BY <2>1, <2>2, <2>3, <2>5, <2>6, CarriedIs, CarriedNextIs
    DEF PlaceCarried, AwaitedInTime, SlotInUse
  <2>7. CASE slot # Nowhere
    <3>1. wanted = slot BY <2>1, <2>2, <2>5, <2>7, CarriedIs
    <3>2. ASSUME Ordered' PROVE wanted = 0
      <4>1. ~OneOrder
        <5>1. ASSUME OneOrder PROVE ~Ordered'
          BY <2>1, <5>1, ObeyedOrders DEF Ordered, NoOrder
        <5> QED BY <3>2, <5>1
      <4> QED BY <2>3, <4>1 DEF Waking, WakingOrder
    <3>3. CASE Ordered' => asked' = Blank
      BY <2>1, <2>2, <2>7, <3>1, <3>3, CarriedNextIs
      DEF PlaceCarried, AwaitedInTime, SlotInUse
    <3>4. CASE Ordered' /\ asked' # Blank
      BY <2>1, <2>2, <3>2, <3>4, CarriedNextIs DEF PlaceCarried, AwaitedInTime, SlotInUse
    <3> QED BY <3>3, <3>4
  <2> QED BY <2>6, <2>7
<1>8. CASE ObeyReload \/ ObeyStop
  <2>1. /\ down # <<>> /\ down' = Tail(down)
        /\ Head(down).cmd # "navigate" /\ Head(down).cmd # "restore"
        /\ UNCHANGED <<link, asked, owed, restore, slot, pos>> /\ slot = Nowhere
    BY <1>8 DEF ObeyReload, ObeyStop, Lose, engine, browser
  <2>2. ~Awaited /\ ~Awaited' /\ link # "none"
    BY <2>1, AwaitedObeyed, CommandsObeyed DEF SocketInv
  <2>3. /\ NoOrder' <=> NoOrder
        /\ NoOrder' <=> ~ \E i \in DOMAIN Tail(down) : Tail(down)[i].cmd = "navigate"
    BY <2>1, ObeyedOrders
  <2>4. Ordered' <=> Ordered BY <2>1, <2>3 DEF Ordered, NoOrder
  <2>5. ~Doomed BY <2>1, <2>2 DEF Doomed, Nowhere
  <2>6. wanted = Carried BY <2>2, <2>5 DEF PlaceCarried
  <2>7. wanted' = Carried'
    <3>1. CASE ObeyReload
      <4>1. Coming' BY <3>1 DEF ObeyReload, Start, Coming
      <4>2. Carried' = 0 BY <2>1, <2>2, <4>1, CarriedNextIs
      <4>3. CASE Ordered
        <5>1. wanted' = wanted BY <2>3, <3>1, <4>3, OrderedIs DEF ObeyReload, wish
        <5> QED BY <2>1, <2>2, <2>6, <4>2, <4>3, <5>1, CarriedIs DEF Coming
      <4>4. CASE ~Ordered
        <5>1. wanted' = 0 BY <2>3, <3>1, <4>4, OrderedIs DEF ObeyReload
        <5> QED BY <4>2, <5>1
      <4> QED BY <4>3, <4>4
    <3>2. CASE ObeyStop
      <4>1. phase' # "loading" BY <3>2 DEF ObeyStop, Stop
      <4>2. Coming' <=> Ordered BY <2>4, <4>1 DEF Coming
      <4>3. CASE phase = "loading" /\ ~Ordered
        <5>1. wanted' = pos BY <3>2, <4>3 DEF ObeyStop
        <5> QED BY <2>1, <2>2, <4>2, <4>3, <5>1, CarriedNextIs
      <4>4. CASE ~(phase = "loading" /\ ~Ordered)
        <5>1. wanted' = wanted BY <3>2, <4>4 DEF ObeyStop, wish
        <5>2. Coming <=> Ordered BY <4>4 DEF Coming
        <5> QED BY <2>1, <2>2, <2>6, <4>2, <5>1, <5>2, CarriedIs, CarriedNextIs
      <4> QED BY <4>3, <4>4
    <3> QED BY <1>8, <3>1, <3>2
  <2> QED BY <2>1, <2>2, <2>7 DEF PlaceCarried, AwaitedInTime, SlotInUse
<1>9. CASE ObeyRestore
  <2>1. /\ down # <<>> /\ down' = Tail(down) /\ Head(down).cmd = "restore"
        /\ UNCHANGED <<link, asked, owed, restore, view, phase, feed, wanted>>
        /\ slot' = Head(down).place
        /\ asked = Blank \/ phase = "loading" \/ feed = "loading"
    <3>1. asked = Blank \/ phase = "loading" \/ feed = "loading"
      BY <1>9 DEF ObeyRestore, Lose
    <3> QED BY <1>9, <3>1 DEF ObeyRestore, loader, browser, wish
  <2>2. restore = Nowhere /\ ~Awaited' /\ link # "none"
    BY <2>1, AwaitedObeyed, CommandsObeyed DEF SocketInv
  <2>3. Awaited /\ AwaitedPlace = slot' BY <2>1, <2>2 DEF Awaited, AwaitedPlace
  <2>4. slot' \in Place /\ slot' # 0 /\ slot' # Nowhere BY <1>0, <2>3, AwaitedIs
  <2>5. NoOrder' <=> NoOrder BY <2>1, ObeyedOrders
  <2>6. Ordered' <=> Ordered BY <2>1, <2>5 DEF Ordered, NoOrder
  <2>7. SlotInUse' /\ AwaitedInTime'
    <3>1. asked = Blank => Ordered' BY <2>3, <2>6 DEF AwaitedInTime
    <3> QED BY <2>1, <2>2, <3>1 DEF SlotInUse, AwaitedInTime
  <2>8. CASE Doomed
    <3>1. slot' > 0 BY <2>4, PlaceNat
    <3>2. Doomed' BY <2>1, <2>8, <3>1 DEF Doomed
    <3> QED BY <2>7, <3>2 DEF PlaceCarried
  <2>9. CASE wanted = Carried
    <3>1. wanted = slot' BY <2>3, <2>9, CarriedIs
    <3>2. Ordered' => asked' = Blank BY <2>1, <2>4, <2>6, <3>1 DEF Waking, WakingOrder
    <3>3. Carried' = slot' BY <2>2, <2>4, <3>2, CarriedNextIs
    <3> QED BY <2>1, <2>7, <3>1, <3>3 DEF PlaceCarried
  <2> QED BY <2>2, <2>8, <2>9 DEF PlaceCarried
<1>10. CASE Connect
  <2>1. /\ link = "starting" /\ restore' = Nowhere
        /\ down' = IF restore = Nowhere THEN <<>> ELSE <<[cmd |-> "restore", place |-> restore]>>
        /\ UNCHANGED <<slot, asked, phase, pos, view, feed, wanted, owed>>
    BY <1>10 DEF Connect, loader, engine, wish
  <2>2. down = <<>> BY <2>1 DEF SocketInv, CommandsInv
  <2>3. NoOrder' BY <2>1, FreshOrders
  <2>4. Ordered' <=> Ordered
    <3>1. NoOrder BY <2>2 DEF NoOrder
    <3> QED BY <2>1, <2>3, <3>1 DEF Ordered, NoOrder
  <2>5. (Awaited' <=> Awaited) /\ (Awaited => AwaitedPlace' = AwaitedPlace)
    <3>1. CASE restore = Nowhere BY <2>1, <2>2, <3>1 DEF Awaited
    <3>2. CASE restore # Nowhere
      <4>1. down' = <<[cmd |-> "restore", place |-> restore]>> BY <2>1, <3>2
      <4>2. down' # <<>> /\ Head(down') = [cmd |-> "restore", place |-> restore] BY <4>1
      <4> QED BY <2>1, <3>2, <4>2 DEF Awaited, AwaitedPlace
    <3> QED BY <3>1, <3>2
  <2> QED BY <2>1, <2>4, <2>5, PlaceSame
<1>11. CASE ReceiveReady
  <2> DEFINE c == [cmd |-> "navigate", url |-> current]
  <2>1. c \in Command /\ c.cmd = "navigate" BY DEF Command, TypeOK
  <2>2. /\ down' = Append(down, c) /\ up # <<>> /\ Head(up).type = "ready"
        /\ UNCHANGED <<slot, asked, phase, pos, view, feed, wanted, restore>>
    BY <1>11 DEF ReceiveReady, loader, engine, wish
  <2>3. owed /\ link = "open" BY <2>2, ReadyIsOwed
  <2> HIDE DEF c
  <2>4. Ordered /\ Ordered'
    <3>1. ~NoOrder' BY <2>1, <2>2, SentOrders
    <3> QED BY <2>3, <3>1 DEF Ordered, NoOrder
  <2>5. (Awaited' <=> Awaited) /\ (Awaited => AwaitedPlace' = AwaitedPlace)
    BY <2>1, <2>2, <2>3, AwaitedSent
  <2> QED BY <2>2, <2>3, <2>4, <2>5, PlaceSame
<1>12. CASE ReceiveUrl \/ ReceiveState
  <2>1. /\ up # <<>>
        /\ UNCHANGED <<slot, asked, phase, pos, view, feed, wanted, restore, down, owed>>
    BY <1>12 DEF ReceiveUrl, ReceiveState, loader, engine, wish
  <2>2. link = "open" BY <2>1, ReadyIsOwed
  <2>3. (Awaited' <=> Awaited) /\ AwaitedPlace' = AwaitedPlace
    BY <2>1 DEF Awaited, AwaitedPlace
  <2>4. Ordered' <=> Ordered BY <2>1, AwaitedSame
  <2> QED BY <2>1, <2>2, <2>3, <2>4, PlaceSame
<1>13. ASSUME NEW d \in Doc, EnterAddress(d) PROVE PlaceInv'
  <2> DEFINE c == [cmd |-> "navigate", url |-> d]
  <2>1. c \in Command /\ c.cmd = "navigate" BY DEF Command, Address
  <2>2. /\ down' = Append(down, c) /\ link = "open" /\ wanted' = 0 /\ ~Underway
        /\ UNCHANGED <<slot, restore>>
    BY <1>13 DEF EnterAddress, Lose, engine
  <2>3. slot = Nowhere /\ ~Awaited BY <2>2, NothingUnderway
  <2> HIDE DEF c
  <2>4. ~Awaited' BY <2>1, <2>2, <2>3, AwaitedSent
  <2>5. Ordered' BY <2>1, <2>2, SentOrders DEF Ordered, NoOrder
  <2>6. Carried' = 0 BY <2>2, <2>3, <2>4, <2>5, CarriedNextIs DEF Coming
  <2> QED BY <2>2, <2>3, <2>4, <2>6 DEF PlaceCarried, AwaitedInTime, SlotInUse
<1>14. CASE PressReload \/ PressStop
  <2>1. PICK c \in Command : /\ c.cmd # "navigate" /\ c.cmd # "restore"
                             /\ down' = Append(down, c)
    <3>1. [cmd |-> "stop"] \in Command /\ [cmd |-> "reload"] \in Command BY DEF Command
    <3> QED BY <1>14, <3>1 DEF PressReload, PressStop
  <2>2. /\ link = "open"
        /\ UNCHANGED <<slot, asked, phase, pos, view, feed, wanted, restore, owed>>
    BY <1>14 DEF PressReload, PressStop, loader, engine, browser, wish
  <2>3. Ordered' <=> Ordered
    <3>1. NoOrder' <=> NoOrder BY <2>1, <2>2, SentOrders
    <3> QED BY <2>2, <3>1 DEF Ordered, NoOrder
  <2>4. (Awaited' <=> Awaited) /\ (Awaited => AwaitedPlace' = AwaitedPlace)
    BY <2>1, <2>2, AwaitedSent
  <2> QED BY <2>2, <2>3, <2>4, PlaceSame
<1>15. CASE Suspend
  <2>1. link' = "none" /\ restore' = Nowhere /\ down' = <<>> /\ slot' = Nowhere
    BY <1>15 DEF Suspend
  <2> QED BY <2>1 DEF PlaceCarried, AwaitedInTime, SlotInUse, Awaited
<1>16. ASSUME NEW adopted \in BOOLEAN, Resume(adopted) PROVE PlaceInv'
  <2>1. /\ link = "none" /\ phase' = "loading" /\ owed' = adopted
        /\ asked' = IF adopted THEN Blank ELSE current
        /\ restore' = IF saved = 0 THEN Nowhere ELSE saved
        /\ UNCHANGED <<down, slot, wanted>>
    BY <1>16 DEF Resume, Start, engine, channel, wish
  <2>2. /\ down = <<>> /\ slot = Nowhere /\ current = target /\ saved = wanted
        /\ target = Blank => wanted = 0
    BY <2>1 DEF SocketInv, CommandsInv, SleepInv, TargetInv, AsleepTarget, BlankTarget
  <2>3. Coming' BY <2>1 DEF Coming
  <2>4. CASE saved = 0
    <3>1. ~Awaited' BY <2>1, <2>2, <2>4 DEF Awaited
    <3>2. Carried' = 0 BY <2>1, <2>2, <2>3, <3>1, CarriedNextIs
    <3> QED BY <2>1, <2>2, <2>4, <3>1, <3>2 DEF PlaceCarried, AwaitedInTime, SlotInUse
  <2>5. CASE saved # 0
    <3>1. restore' = saved /\ Awaited' BY <1>0, <2>1, <2>5 DEF Awaited
    <3>2. Carried' = saved BY <1>0, <3>1, CarriedNextIs DEF AwaitedPlace
    <3>3. asked' = Blank => Ordered' BY <2>1, <2>2, <2>5 DEF Ordered
    <3> QED BY <2>1, <2>2, <3>2, <3>3 DEF PlaceCarried, AwaitedInTime, SlotInUse
  <2> QED BY <2>4, <2>5
<1>17. CASE UNCHANGED vars
  <2>1. UNCHANGED <<slot, asked, phase, pos, view, feed, wanted, restore, down, owed, link>>
    BY <1>17 DEF vars, loader, engine, channel, browser, wish
  <2>2. (Awaited' <=> Awaited) /\ AwaitedPlace' = AwaitedPlace
    BY <2>1 DEF Awaited, AwaitedPlace
  <2>3. Ordered' <=> Ordered BY <2>1, AwaitedSame
  <2>4. CASE link # "none" BY <2>1, <2>2, <2>3, <2>4, PlaceSame
  <2>5. CASE link = "none"
    BY <2>1, <2>2, <2>3, <2>5 DEF PlaceCarried, AwaitedInTime, SlotInUse
  <2> QED BY <2>4, <2>5
<1>18. CASE StateTimer
  <2>1. /\ link = "open"
        /\ UNCHANGED <<slot, asked, phase, pos, view, feed, wanted, restore, down, owed>>
    BY <1>18 DEF StateTimer, loader, engine, browser, wish
  <2>2. (Awaited' <=> Awaited) /\ AwaitedPlace' = AwaitedPlace
    BY <2>1 DEF Awaited, AwaitedPlace
  <2>3. Ordered' <=> Ordered BY <2>1, AwaitedSame
  <2> QED BY <2>1, <2>2, <2>3, PlaceSame
<1> QED
  BY <1>1, <1>2, <1>3, <1>4, <1>5, <1>6, <1>7, <1>8, <1>9, <1>10, <1>11, <1>12, <1>13,
     <1>14, <1>15, <1>16, <1>17, <1>18 DEF Next

-----------------------------------------------------------------------------
LEMMA KeptInit == ASSUME Init PROVE KeptInv
<1>1. down = <<>> /\ up = <<>> /\ restore = Nowhere /\ slot = Nowhere /\ link = "starting"
  BY DEF Init
<1>2. NoOrder /\ OneOrder /\ NewestOrder BY <1>1 DEF NoOrder, OneOrder, NewestOrder
<1>3. SocketInv BY <1>1 DEF SocketInv, ReportsInv, CommandsInv, SleepInv
<1>4. OnPage BY EndNat DEF Init, OnPage
<1>5. wanted = 0 /\ phase = "loading" /\ current = target BY DEF Init
<1>6. Waking BY <1>5 DEF Waking, WakingOrder, WakingLoad
<1>7. TargetInv
  <2>1. ~Ordered => asked = target BY DEF Init, Ordered
  <2> QED
    BY <1>1, <1>2, <1>5, <2>1
    DEF TargetInv, AsleepTarget, OrderTarget, DocTarget, FormTarget, BlankTarget
<1>8. PlaceInv
  <2>1. ~Awaited BY <1>1 DEF Awaited
  <2>2. Carried = 0 BY <1>1, <1>5, <2>1, CarriedIs DEF Coming
  <2> QED BY <1>1, <1>5, <2>1, <2>2 DEF PlaceInv, PlaceCarried, AwaitedInTime, SlotInUse
<1> QED BY <1>3, <1>4, <1>6, <1>7, <1>8 DEF KeptInv

LEMMA KeptStep == TypeOK /\ KeptInv /\ [Next]_vars => KeptInv'
<1> SUFFICES ASSUME TypeOK, KeptInv, [Next]_vars PROVE KeptInv' OBVIOUS
<1>1. TypeOK' BY TypeStep
<1>2. SocketInv' /\ OnPage' /\ Waking'
  BY SocketStep, OnPageStep, WakingStep DEF KeptInv
<1>3. ASSUME ~lost' PROVE TargetInv' /\ PlaceInv'
  <2>1. TargetInv /\ PlaceInv BY <1>3, LostStays DEF KeptInv
  <2>2. SocketInv /\ OnPage /\ Waking BY DEF KeptInv
  <2> QED BY <1>1, <1>3, <2>1, <2>2, TargetStep, PlaceStep
<1> QED BY <1>2, <1>3 DEF KeptInv

(* At rest the place is nowhere but on the page.                            *)
LEMMA KeptAtRest == TypeOK /\ KeptInv => PlaceKept
<1> SUFFICES ASSUME TypeOK, KeptInv, AtRest, ~lost PROVE Kept BY DEF PlaceKept
<1>1. /\ link = "open" /\ ~Ordered /\ phase # "loading" /\ down = <<>> /\ feed # "loading"
  BY DEF AtRest, Coming
<1>2. view.of = target BY <1>1 DEF KeptInv, TargetInv, DocTarget
<1>3. slot = Nowhere BY <1>1 DEF KeptInv, PlaceInv, SlotInUse
<1>4. ~Awaited BY <1>1 DEF KeptInv, SocketInv, SleepInv, Awaited
<1>5. ~Doomed BY <1>3, <1>4 DEF Doomed, Nowhere
<1>6. wanted = pos BY <1>1, <1>3, <1>4, <1>5, CarriedIs DEF KeptInv, PlaceInv, PlaceCarried, Coming
<1>7. pos = Within(wanted, view)
  <2>1. ~(pos > End(view)) BY EndNat, PlaceNat DEF KeptInv, OnPage, TypeOK
  <2> QED BY <1>6, <2>1 DEF Within
<1> QED BY <1>2, <1>3, <1>7 DEF Kept

(* A tab at rest shows the document the user asked for last, at the place   *)
(* where the user left it, unless that place was lost in a way that is named. *)
THEOREM PlaceSurvives == Spec => []PlaceKept
<1>1. Init => TypeOK /\ KeptInv BY InitInv, KeptInit DEF IInv
<1>2. TypeOK /\ KeptInv /\ [Next]_vars => (TypeOK /\ KeptInv)' BY TypeStep, KeptStep
<1>3. TypeOK /\ KeptInv => PlaceKept BY KeptAtRest
<1> QED BY <1>1, <1>2, <1>3, PTL DEF Spec
=============================================================================
