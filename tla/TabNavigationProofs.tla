------------------------ MODULE TabNavigationProofs ------------------------
(***************************************************************************)
(* Two invariants of TabNavigation, for any set of addresses, any          *)
(* redirects and any number of user actions:                               *)
(*                                                                         *)
(*   - the address bar names the document once everything is quiet: the    *)
(*     claim must be carried through the queues, so the invariant says     *)
(*     which report, of those still on their way, has the last word;       *)
(*   - no reported page is lost from the history: the claim must survive   *)
(*     a report that overwrites the address the user has just entered.     *)
(***************************************************************************)
EXTENDS TabNavigation, SequenceTheorems, TLAPS

-----------------------------------------------------------------------------
(* The inductive invariant.                                                 *)

NoReport   == \A i \in DOMAIN up : up[i].type # "url"
NoNavigate == \A i \in DOMAIN down : down[i].cmd # "navigate"

(* The last report on its way is of the document the engine holds.          *)
NewestReport ==
  \A i \in DOMAIN up :
    /\ up[i].type = "url"
    /\ \A j \in DOMAIN up : j > i => up[j].type # "url"
    => up[i].url = doc

(* After a successful load nothing is fetched; the last report will bring   *)
(* the address of the document; and when all reports have arrived, only a   *)
(* command of the user that is still on its way can make a difference.      *)
AddressFollows ==
  loaded /\ ~lost =>
    /\ fetch = Nothing
    /\ NewestReport
    /\ NoReport /\ NoNavigate => current = doc

(* While navPushed stands, the current address may be overwritten by a      *)
(* report without being pushed; if it was reported before, it is in the     *)
(* back list already.                                                       *)
Remembered ==
  ~left =>
    /\ reported \subseteq ToSet(back) \cup {current}
    /\ navPushed /\ current \in reported => current \in ToSet(back)

IInv == TypeOK /\ AddressFollows /\ Remembered

-----------------------------------------------------------------------------
(* What Append adds to the elements of a sequence.                          *)
LEMMA ToSetAppend ==
  ASSUME NEW S, NEW s \in Seq(S), NEW e \in S
  PROVE  ToSet(Append(s, e)) = ToSet(s) \cup {e}
<1> DEFINE t == Append(s, e)
<1>1. /\ t \in Seq(S) /\ Len(t) = Len(s) + 1 /\ t[Len(s) + 1] = e
      /\ \A i \in 1..Len(s) : t[i] = s[i]
  BY AppendProperties
<1>2. DOMAIN s = 1..Len(s) /\ DOMAIN t = 1..(Len(s) + 1) /\ Len(s) \in Nat
  BY <1>1
<1>3. ToSet(t) = {t[i] : i \in 1..(Len(s) + 1)} /\ ToSet(s) = {s[i] : i \in 1..Len(s)}
  BY <1>2 DEF ToSet
<1> HIDE DEF t
<1>4. ToSet(t) = ToSet(s) \cup {e}
  BY <1>1, <1>2, <1>3
<1> QED BY <1>4 DEF t

(* The rest of a queue is a queue of the same kind, one place further.      *)
LEMMA TailElements ==
  ASSUME NEW S, NEW s \in Seq(S), s # <<>>
  PROVE  /\ Head(s) \in S /\ Head(s) = s[1]
         /\ Tail(s) \in Seq(S) /\ Len(Tail(s)) = Len(s) - 1 /\ Len(s) \in Nat \ {0}
         /\ DOMAIN s = 1..Len(s) /\ DOMAIN Tail(s) = 1..(Len(s) - 1)
         /\ \A i \in 1..(Len(s) - 1) : Tail(s)[i] = s[i + 1]
BY HeadTailProperties, LenProperties, ElementOfSeq, EmptySeq

LEMMA FrontElements ==
  ASSUME NEW S, NEW s \in Seq(S), s # <<>>
  PROVE  Front(s) \in Seq(S) /\ Last(s) \in S
<1>1. Len(s) \in Nat /\ Len(s) # 0 BY EmptySeq, LenProperties
<1>2. Last(s) \in S BY <1>1, ElementOfSeq DEF Last
<1>3. Front(s) \in Seq(S)
  BY <1>1, SubSeqProperties DEF Front
<1> QED BY <1>2, <1>3

(* A redirected address is an address.                                      *)
LEMMA RedirectedIsAddress ==
  ASSUME NEW f \in Address
  PROVE  (IF f = Blank THEN Blank ELSE Redirect[f]) \in Address
BY RedirectAssumption DEF Address

-----------------------------------------------------------------------------
LEMMA InitInv == Init => IInv
<1> SUFFICES ASSUME Init PROVE IInv OBVIOUS
<1>1. TypeOK
  <2>1. back \in Seq(Address) /\ fwd \in Seq(Address) /\ down \in Seq(Command)
        /\ up \in Seq(Message)
    BY EmptySeq DEF Init
  <2>2. pendingUrl \in Address /\ fetch \in Address \cup {Nothing}
    <3>1. CASE adopted = TRUE BY <3>1 DEF Init, Address
    <3>2. CASE adopted = FALSE BY <3>2 DEF Init, Address
    <3> QED BY <3>1, <3>2 DEF Init
  <2>3. acts \in 0..MaxActs
    BY OthersAssumption DEF Init
  <2>4. current \in Address /\ doc \in Address \cup {ErrorPage} /\ reported \subseteq Address
    BY DEF Init, Address
  <2> QED BY <2>1, <2>2, <2>3, <2>4 DEF Init, TypeOK
<1>2. AddressFollows /\ Remembered
  BY DEF Init, AddressFollows, Remembered, ToSet
<1> QED BY <1>1, <1>2 DEF IInv

-----------------------------------------------------------------------------
(* Every action keeps the types.                                            *)

(* What the browser does when it navigates, whatever it put into the back   *)
(* list before.                                                             *)
LEMMA NavigateTypes ==
  ASSUME TypeOK, NEW u \in Address, NEW past \in Seq(Address), NEW push \in BOOLEAN,
         Navigate(u, past, push)
  PROVE  /\ current' \in Address /\ back' \in Seq(Address) /\ fwd' \in Seq(Address)
         /\ navPushed' \in BOOLEAN /\ down' \in Seq(Command) /\ lost' \in BOOLEAN
<1>1. back' \in Seq(Address)
  BY AppendProperties DEF Navigate, TypeOK
<1>2. fwd' \in Seq(Address) BY EmptySeq DEF Navigate
<1>3. [cmd |-> "navigate", url |-> u] \in Command BY DEF Command
<1>4. down' \in Seq(Command)
  BY <1>3, AppendProperties DEF Navigate, Send, TypeOK
<1> QED BY <1>1, <1>2, <1>4 DEF Navigate, TypeOK

LEMMA ActTypes ==
  ASSUME TypeOK, Act PROVE acts' \in 0..MaxActs
BY OthersAssumption DEF Act, TypeOK

LEMMA TypeStep == TypeOK /\ [Next]_vars => TypeOK'
<1> SUFFICES ASSUME TypeOK, [Next]_vars PROVE TypeOK'
  OBVIOUS
<1>1. ASSUME NEW u \in Url, EnterAddress(u) PROVE TypeOK'
  <2>1. u \in Address /\ back \in Seq(Address) BY DEF Address, TypeOK
  <2>2. Act /\ Navigate(u, back, TRUE) BY <1>1 DEF EnterAddress
  <2>3. acts' \in 0..MaxActs
    BY <2>2, ActTypes
  <2>4. /\ current' \in Address /\ back' \in Seq(Address) /\ fwd' \in Seq(Address)
        /\ navPushed' \in BOOLEAN /\ down' \in Seq(Command) /\ lost' \in BOOLEAN
    BY <2>1, <2>2, NavigateTypes
  <2> QED BY <1>1, <2>3, <2>4 DEF EnterAddress, TypeOK, renderer
<1>2. ASSUME NEW u \in Url, ClickLink(u) PROVE TypeOK'
  BY <1>2, ActTypes DEF ClickLink, TypeOK, Address, browser
<1>3. CASE GoBack
  <2>1. Last(back) \in Address /\ Front(back) \in Seq(Address)
    BY <1>3, FrontElements DEF GoBack, TypeOK
  <2> QED BY <1>3, <2>1, NavigateTypes, ActTypes DEF GoBack, TypeOK, renderer
<1>4. CASE GoForward
  <2>1. ASSUME fwd = <<>> PROVE TypeOK'
    BY <1>4, <2>1, ActTypes DEF GoForward, TypeOK, renderer, browser
  <2>2. ASSUME fwd # <<>> PROVE TypeOK'
    <3>1. Last(fwd) \in Address /\ Append(back, current) \in Seq(Address)
      BY <2>2, FrontElements, AppendProperties DEF TypeOK
    <3> QED BY <1>4, <2>2, <3>1, NavigateTypes, ActTypes DEF GoForward, TypeOK, renderer
  <2> QED BY <2>1, <2>2
<1>5. ASSUME NEW c \in {"reload", "stop"}, Press(c) PROVE TypeOK'
  <2>1. [cmd |-> c] \in Command BY DEF Command
  <2>2. down' \in Seq(Command) BY <1>5, <2>1, AppendProperties DEF Press, Send, TypeOK
  <2> QED BY <1>5, <2>2, ActTypes DEF Press, TypeOK, renderer, browser
<1>6. CASE Connect
  BY <1>6 DEF Connect, TypeOK, browser, renderer, history
<1>7. CASE Accept
  <2>1. [type |-> "ready"] \in Message BY DEF Message
  <2>2. up' \in Seq(Message) BY <1>7, <2>1, AppendProperties DEF Accept, TypeOK
  <2> QED BY <1>7, <2>2 DEF Accept, TypeOK, browser, renderer, history
<1>8. CASE ReceiveReady
  <2>1. up' \in Seq(Message) BY <1>8, TailElements DEF ReceiveReady, TypeOK
  <2>2. [cmd |-> "navigate", url |-> current] \in Command BY DEF Command, TypeOK
  <2>3. down' \in Seq(Command)
    BY <1>8, <2>2, AppendProperties DEF ReceiveReady, TypeOK
  <2> QED BY <1>8, <2>1, <2>3 DEF ReceiveReady, TypeOK, browser, renderer, history
<1>9. CASE ReceiveUrl
  <2>1. up' \in Seq(Message) /\ Head(up) \in Message
    BY <1>9, TailElements DEF ReceiveUrl, TypeOK
  <2>2. Head(up).url \in Address BY <1>9, <2>1 DEF ReceiveUrl, Message
  <2>3. back' \in Seq(Address) /\ fwd' \in Seq(Address)
    BY <1>9, AppendProperties, EmptySeq DEF ReceiveUrl, TypeOK
  <2> QED BY <1>9, <2>1, <2>2, <2>3 DEF ReceiveUrl, TypeOK, renderer
<1>10. CASE Obey
  <2>1. down' \in Seq(Command) /\ Head(down) \in Command
    BY <1>10, TailElements DEF Obey, TypeOK
  <2>2. pendingUrl' \in Address /\ fetch' \in Address \cup {Nothing}
    BY <1>10, <2>1 DEF Obey, TypeOK, Command
  <2> QED BY <1>10, <2>1, <2>2 DEF Obey, TypeOK, browser
<1>11. ASSUME Delivered
       PROVE  /\ pendingUrl' \in Address /\ fetch' = Nothing /\ up' \in Seq(Message)
              /\ lost' \in BOOLEAN
  <2> DEFINE u == IF fetch = Blank THEN Blank ELSE Redirect[fetch]
  <2>1. u \in Address BY <1>11, RedirectedIsAddress DEF Delivered, TypeOK
  <2>2. [type |-> "url", url |-> u] \in Message BY <2>1 DEF Message
  <2>3. up' \in Seq(Message) BY <1>11, <2>2, AppendProperties DEF Delivered, TypeOK
  <2> QED BY <1>11, <2>1, <2>3 DEF Delivered, TypeOK
<1>12. CASE FetchDone
  BY <1>11, <1>12 DEF FetchDone, Delivered, TypeOK, browser
<1>13. CASE CopyUnreadable
  BY <1>11, <1>13 DEF CopyUnreadable, Delivered, TypeOK, browser
<1>14. CASE FetchFailed
  BY <1>14 DEF FetchFailed, TypeOK, browser, history
<1>15. CASE UNCHANGED vars
  BY <1>15 DEF vars, browser, renderer, history, TypeOK
<1> QED
  BY <1>1, <1>2, <1>3, <1>4, <1>5, <1>6, <1>7, <1>8, <1>9, <1>10, <1>12, <1>13,
     <1>14, <1>15 DEF Next, Reload, Stop

-----------------------------------------------------------------------------
(* The last report keeps the last word.                                     *)

(* A command of the user that asks for an address makes no claim on the     *)
(* address bar until it was obeyed; one that is dropped sets lost.          *)
LEMMA NavigateFollows ==
  ASSUME TypeOK, AddressFollows, NEW u \in Address, NEW past, NEW push,
         Navigate(u, past, push), UNCHANGED <<up, fetch, doc, loaded>>
  PROVE  AddressFollows'
<1> SUFFICES ASSUME loaded', ~lost'
             PROVE  fetch' = Nothing /\ NewestReport' /\ ~NoNavigate'
  BY DEF AddressFollows
<1> DEFINE order == [cmd |-> "navigate", url |-> u]
<1>1. open /\ ~lost /\ down' = Append(down, order)
  BY DEF Navigate, Send, TypeOK
<1>2. order \in Command BY DEF Command
<1>3. DOMAIN down' = 1..(Len(down) + 1) /\ Len(down) \in Nat /\ down'[Len(down) + 1] = order
  BY <1>1, <1>2, AppendProperties, LenProperties DEF TypeOK
<1>4. ~NoNavigate' BY <1>3 DEF NoNavigate
<1>5. fetch' = Nothing /\ NewestReport' BY <1>1 DEF AddressFollows, NewestReport
<1> QED BY <1>4, <1>5

(* A delivery speaks last.                                                  *)
LEMMA DeliveryFollows ==
  ASSUME TypeOK, Delivered, doc' = pendingUrl'
  PROVE  AddressFollows'
<1> SUFFICES ASSUME ~lost' PROVE fetch' = Nothing /\ NewestReport' /\ ~NoReport'
  BY DEF AddressFollows
<1> DEFINE u == IF fetch = Blank THEN Blank ELSE Redirect[fetch]
           m == [type |-> "url", url |-> u]
<1>1. u \in Address BY RedirectedIsAddress DEF Delivered, TypeOK
<1>2. m \in Message BY <1>1 DEF Message
<1>3. accepted /\ up' = Append(up, m) /\ doc' = u /\ fetch' = Nothing
  BY DEF Delivered, TypeOK
<1>4. /\ DOMAIN up' = 1..(Len(up) + 1) /\ Len(up) \in Nat
      /\ up'[Len(up) + 1] = m
  BY <1>2, <1>3, AppendProperties, LenProperties DEF TypeOK
<1>5. m.type = "url" /\ m.url = u OBVIOUS
<1> HIDE DEF m, u
<1>6. ~NoReport' BY <1>4, <1>5 DEF NoReport
<1>7. NewestReport'
  BY <1>3, <1>4, <1>5 DEF NewestReport
<1> QED BY <1>3, <1>6, <1>7

(* A command more in the queue does not hide one that is there.             *)
LEMMA MoreOrders ==
  ASSUME TypeOK, NEW order \in Command, down' = down \/ down' = Append(down, order)
  PROVE  NoNavigate' => NoNavigate
<1>1. CASE down' = down BY <1>1 DEF NoNavigate
<1>2. CASE down' = Append(down, order)
  <2>1. /\ Len(down) \in Nat /\ DOMAIN down = 1..Len(down)
        /\ DOMAIN down' = 1..(Len(down) + 1) /\ \A i \in 1..Len(down) : down'[i] = down[i]
    BY <1>2, AppendProperties, LenProperties DEF TypeOK
  <2> QED BY <2>1 DEF NoNavigate
<1> QED BY <1>1, <1>2

(* A message taken from the front of the queue leaves the last report as    *)
(* it is, unless it was that report itself.                                 *)
LEMMA TailReports ==
  ASSUME TypeOK, up # <<>>, up' = Tail(up), doc' = doc
  PROVE  /\ NewestReport => NewestReport'
         /\ Head(up).type # "url" /\ NoReport' => NoReport
         /\ Head(up).type = "url" /\ NewestReport /\ NoReport' => Head(up).url = doc
<1>1. /\ Len(up) \in Nat \ {0} /\ DOMAIN up = 1..Len(up) /\ Head(up) = up[1]
      /\ DOMAIN up' = 1..(Len(up) - 1) /\ \A i \in 1..(Len(up) - 1) : up'[i] = up[i + 1]
  BY TailElements DEF TypeOK
<1>2. ASSUME NEW j \in DOMAIN up, j > 1
      PROVE  j - 1 \in DOMAIN up' /\ up'[j - 1] = up[j]
  BY <1>1, <1>2
<1>3. ASSUME NewestReport PROVE NewestReport'
  <2> SUFFICES ASSUME NEW i \in DOMAIN up', up'[i].type = "url",
                      \A j \in DOMAIN up' : j > i => up'[j].type # "url"
               PROVE  up'[i].url = doc'
    BY DEF NewestReport
  <2>1. i + 1 \in DOMAIN up /\ up[i + 1] = up'[i] BY <1>1
  <2>2. ASSUME NEW j \in DOMAIN up, j > i + 1 PROVE up[j].type # "url"
    <3>1. j > 1 /\ j - 1 > i BY <1>1, <2>2
    <3> QED BY <1>2, <3>1
  <2> QED BY <1>3, <2>1, <2>2 DEF NewestReport
<1>4. ASSUME NoReport', NEW i \in DOMAIN up, i # 1 PROVE up[i].type # "url"
  <2>1. i > 1 BY <1>1, <1>4
  <2> QED BY <1>2, <1>4, <2>1 DEF NoReport
<1>5. ASSUME NoReport', Head(up).type # "url" PROVE NoReport
  BY <1>1, <1>4, <1>5 DEF NoReport
<1>6. ASSUME NewestReport, NoReport', Head(up).type = "url" PROVE Head(up).url = doc
  <2>1. 1 \in DOMAIN up /\ up[1].type = "url" BY <1>1, <1>6
  <2>2. \A j \in DOMAIN up : j > 1 => up[j].type # "url" BY <1>1, <1>4, <1>6
  <2> QED BY <1>1, <1>6, <2>1, <2>2 DEF NewestReport
<1> QED BY <1>3, <1>5, <1>6

LEMMA FollowStep == TypeOK /\ AddressFollows /\ [Next]_vars => AddressFollows'
<1> SUFFICES ASSUME TypeOK, AddressFollows, [Next]_vars PROVE AddressFollows'
  OBVIOUS
<1>1. ASSUME NEW u \in Url, EnterAddress(u) PROVE AddressFollows'
  BY <1>1, NavigateFollows DEF EnterAddress, Address, renderer
<1>2. ASSUME NEW u \in Url, ClickLink(u) PROVE AddressFollows'
  BY <1>2 DEF ClickLink, AddressFollows
<1>3. CASE GoBack
  <2>1. Last(back) \in Address BY <1>3, FrontElements DEF GoBack, TypeOK
  <2> QED BY <1>3, <2>1, NavigateFollows DEF GoBack, renderer
<1>4. CASE GoForward
  <2>1. ASSUME fwd = <<>> PROVE AddressFollows'
    BY <1>4, <2>1
    DEF GoForward, renderer, browser, AddressFollows, NewestReport, NoReport, NoNavigate
  <2>2. ASSUME fwd # <<>> PROVE AddressFollows'
    <3>1. Last(fwd) \in Address BY <2>2, FrontElements DEF TypeOK
    <3> QED BY <1>4, <2>2, <3>1, NavigateFollows DEF GoForward, renderer
  <2> QED BY <2>1, <2>2
<1>5. ASSUME NEW c \in {"reload", "stop"}, Press(c) PROVE AddressFollows'
  <2>1. [cmd |-> c] \in Command BY DEF Command
  <2>2. NoNavigate' => NoNavigate
    BY <1>5, <2>1, MoreOrders DEF Press, Send
  <2>3. /\ UNCHANGED <<up, fetch, doc, loaded, current>>
        /\ lost' = (lost \/ ~open)
    BY <1>5 DEF Press, renderer, browser
  <2> QED BY <2>2, <2>3 DEF AddressFollows, NewestReport, NoReport, TypeOK
<1>6. CASE Connect
  BY <1>6 DEF Connect, browser, renderer, history,
              AddressFollows, NewestReport, NoReport, NoNavigate
<1>7. CASE Accept
  <2> DEFINE m == [type |-> "ready"]
  <2>1. m \in Message /\ m.type # "url" BY DEF Message
  <2>2. up' = Append(up, m) /\ UNCHANGED <<fetch, doc, loaded, lost, current, down>>
    BY <1>7 DEF Accept, renderer, browser, history
  <2>3. /\ Len(up) \in Nat /\ DOMAIN up = 1..Len(up) /\ DOMAIN up' = 1..(Len(up) + 1)
        /\ up'[Len(up) + 1] = m /\ \A i \in 1..Len(up) : up'[i] = up[i]
    BY <2>1, <2>2, AppendProperties, LenProperties DEF TypeOK
  <2> HIDE DEF m
  <2>4. NewestReport => NewestReport' BY <2>1, <2>2, <2>3 DEF NewestReport
  <2>5. NoReport' => NoReport BY <2>3 DEF NoReport
  <2>6. NoNavigate' => NoNavigate BY <2>2 DEF NoNavigate
  <2> QED BY <2>2, <2>4, <2>5, <2>6 DEF AddressFollows
<1>8. CASE ReceiveReady
  <2>1. /\ up # <<>> /\ up' = Tail(up) /\ Head(up).type = "ready"
        /\ UNCHANGED <<fetch, doc, loaded, lost, current>>
    BY <1>8 DEF ReceiveReady, renderer, browser, history
  <2>2. (NewestReport => NewestReport') /\ (NoReport' => NoReport)
    BY <2>1, TailReports
  <2>3. NoNavigate' => NoNavigate
    <3>1. [cmd |-> "navigate", url |-> current] \in Command BY DEF Command, TypeOK
    <3> QED BY <1>8, <3>1, MoreOrders DEF ReceiveReady
  <2> QED BY <2>1, <2>2, <2>3 DEF AddressFollows
<1>9. CASE ReceiveUrl
  <2>1. /\ up # <<>> /\ up' = Tail(up) /\ Head(up).type = "url"
        /\ current' = Head(up).url
        /\ UNCHANGED <<fetch, doc, loaded, lost>>
    BY <1>9 DEF ReceiveUrl, renderer
  <2>2. /\ NewestReport => NewestReport'
        /\ NewestReport /\ NoReport' => Head(up).url = doc
    BY <2>1, TailReports
  <2> QED BY <2>1, <2>2 DEF AddressFollows
<1>10. CASE Obey
  <2>1. down # <<>> /\ down' = Tail(down) /\ UNCHANGED <<up, doc, lost, current>>
    BY <1>10 DEF Obey, browser
  <2>2. loaded' => loaded /\ fetch' = Nothing /\ Head(down).cmd = "stop"
    <3>1. Head(down) \in Command BY <2>1, TailElements DEF TypeOK
    <3>2. Nothing \notin Address BY OthersAssumption DEF Address
    <3>3. loaded' => loaded /\ fetch' = Nothing BY <1>10 DEF Obey, TypeOK
    <3>4. Head(down).cmd = "navigate" => fetch' # Nothing
      BY <1>10, <3>1, <3>2 DEF Obey, Command
    <3>5. Head(down).cmd = "reload" => fetch' # Nothing
      BY <1>10, <3>2 DEF Obey, TypeOK
    <3> QED BY <3>1, <3>3, <3>4, <3>5 DEF Command
  <2>3. Head(down).cmd = "stop" /\ NoNavigate' => NoNavigate
    <3> SUFFICES ASSUME Head(down).cmd = "stop", NoNavigate', NEW i \in DOMAIN down
                 PROVE  down[i].cmd # "navigate"
      BY DEF NoNavigate
    <3>1. /\ Len(down) \in Nat \ {0} /\ DOMAIN down = 1..Len(down) /\ Head(down) = down[1]
          /\ DOMAIN down' = 1..(Len(down) - 1)
          /\ \A k \in 1..(Len(down) - 1) : down'[k] = down[k + 1]
      BY <2>1, TailElements DEF TypeOK
    <3>2. CASE i = 1 BY <3>1, <3>2
    <3>3. CASE i # 1
      <4>1. i - 1 \in DOMAIN down' /\ down'[i - 1] = down[i] BY <3>1, <3>3
      <4> QED BY <4>1 DEF NoNavigate
    <3> QED BY <3>2, <3>3
  <2> QED BY <2>1, <2>2, <2>3 DEF AddressFollows, NewestReport, NoReport
<1>11. CASE FetchDone
  BY <1>11, DeliveryFollows DEF FetchDone
<1>12. CASE CopyUnreadable
  BY <1>12 DEF CopyUnreadable, AddressFollows
<1>13. CASE FetchFailed
  <2>1. loaded' = loaded /\ lost' = lost /\ fetch # Nothing
    BY <1>13 DEF FetchFailed, history
  <2> QED BY <2>1 DEF AddressFollows
<1>14. CASE UNCHANGED vars
  BY <1>14 DEF vars, browser, renderer, history,
               AddressFollows, NewestReport, NoReport, NoNavigate
<1> QED
  BY <1>1, <1>2, <1>3, <1>4, <1>5, <1>6, <1>7, <1>8, <1>9, <1>10, <1>11, <1>12,
     <1>13, <1>14 DEF Next, Reload, Stop

-----------------------------------------------------------------------------
(* Nothing reported leaves the history.                                     *)

LEMMA RememberStep == TypeOK /\ Remembered /\ [Next]_vars => Remembered'
<1> SUFFICES ASSUME TypeOK, Remembered, [Next]_vars PROVE Remembered'
  OBVIOUS
<1>1. ASSUME NEW u \in Url, EnterAddress(u) PROVE Remembered'
  <2>1. back' = Append(back, current) /\ current' = u /\ UNCHANGED <<left, reported>>
    BY <1>1 DEF EnterAddress, Navigate
  <2>2. ToSet(back') = ToSet(back) \cup {current}
    BY <2>1, ToSetAppend DEF TypeOK
  <2> QED BY <2>1, <2>2 DEF Remembered
<1>2. ASSUME NEW u \in Url, ClickLink(u) PROVE Remembered'
  BY <1>2 DEF ClickLink, browser, Remembered
<1>3. CASE GoBack
  BY <1>3 DEF GoBack, Remembered
<1>4. CASE GoForward
  <2>1. ASSUME fwd = <<>> PROVE Remembered'
    BY <1>4, <2>1 DEF GoForward, browser, Remembered
  <2>2. ASSUME fwd # <<>> PROVE Remembered'
    <3>1. back' = Append(back, current) /\ navPushed' = FALSE /\ UNCHANGED <<left, reported>>
      BY <1>4, <2>2 DEF GoForward, Navigate
    <3>2. ToSet(back') = ToSet(back) \cup {current}
      BY <3>1, ToSetAppend DEF TypeOK
    <3> QED BY <3>1, <3>2 DEF Remembered
  <2> QED BY <2>1, <2>2
<1>5. ASSUME NEW c \in {"reload", "stop"}, Press(c) PROVE Remembered'
  BY <1>5 DEF Press, browser, Remembered
<1>6. CASE ReceiveUrl
  <2> DEFINE u == Head(up).url
  <2>1. /\ back' = IF Pushes(u) THEN Append(back, current) ELSE back
        /\ current' = u /\ reported' = reported \cup {u} /\ navPushed' = FALSE
        /\ left' = left
    BY <1>6 DEF ReceiveUrl
  <2> HIDE DEF u
  <2>2. CASE Pushes(u)
    <3>1. ToSet(back') = ToSet(back) \cup {current}
      BY <2>1, <2>2, ToSetAppend DEF TypeOK
    <3> QED BY <2>1, <3>1 DEF Remembered
  <2>3. CASE ~Pushes(u) /\ u = current
    BY <2>1, <2>3 DEF Remembered
  <2>4. CASE ~Pushes(u) /\ u # current
    <3>1. navPushed BY <2>4 DEF Pushes, TypeOK
    <3> QED BY <2>1, <2>4, <3>1 DEF Remembered
  <2> QED BY <2>2, <2>3, <2>4
<1>7. CASE \/ Connect \/ Accept \/ ReceiveReady \/ Obey \/ FetchFailed \/ UNCHANGED vars
  <2>1. UNCHANGED <<back, current, navPushed, left, reported>>
    <3>1. CASE Connect BY <3>1 DEF Connect, browser, history
    <3>2. CASE Accept BY <3>2 DEF Accept, browser, history
    <3>3. CASE ReceiveReady BY <3>3 DEF ReceiveReady, browser, history
    <3>4. CASE Obey BY <3>4 DEF Obey, browser
    <3>5. CASE FetchFailed BY <3>5 DEF FetchFailed, browser, history
    <3>6. CASE UNCHANGED vars BY <3>6 DEF vars, browser, history
    <3> QED BY <1>7, <3>1, <3>2, <3>3, <3>4, <3>5, <3>6
  <2> QED BY <2>1 DEF Remembered
<1>8. CASE FetchDone \/ CopyUnreadable
  BY <1>8 DEF FetchDone, CopyUnreadable, Delivered, browser, Remembered
<1> QED
  BY <1>1, <1>2, <1>3, <1>4, <1>5, <1>6, <1>7, <1>8 DEF Next, Reload, Stop

-----------------------------------------------------------------------------
(* The invariant holds in every reachable state, whatever the addresses,    *)
(* the redirects and the number of actions.                                 *)
THEOREM Invariance == Spec => []IInv
<1>1. Init => IInv BY InitInv
<1>2. IInv /\ [Next]_vars => IInv'
  BY TypeStep, FollowStep, RememberStep DEF IInv
<1> QED BY <1>1, <1>2, PTL DEF Spec

(* Queues, lists and addresses keep their types.                            *)
THEOREM TypeCorrect == Spec => []TypeOK
<1>1. IInv => TypeOK BY DEF IInv
<1> QED BY <1>1, Invariance, PTL

(* Once socket and loader are quiet after a successful load, the address    *)
(* bar names the document the engine holds.                                 *)
THEOREM AddressCorrect == Spec => []AddressIsDocument
<1>1. IInv => AddressIsDocument
  BY DEF IInv, AddressFollows, NoReport, NoNavigate, AddressIsDocument, Quiet
<1> QED BY <1>1, Invariance, PTL

(* A page the browser was told of stays within reach of the Back button.    *)
THEOREM HistoryKept == Spec => []NothingForgotten
<1>1. IInv => NothingForgotten
  BY DEF IInv, Remembered, NothingForgotten
<1> QED BY <1>1, Invariance, PTL
=============================================================================
