------------------------------ MODULE TabList -------------------------------
(***************************************************************************)
(* What the tabs of the window promise the user, with no renderers, no     *)
(* widgets and no indices kept in step: tabs in an order, one of them on   *)
(* the screen, some of the others put to sleep to save memory.  The order  *)
(* and the tab on the screen change by the user's hand only, and a tab     *)
(* that comes to the screen is awake from then on.                         *)
(***************************************************************************)
EXTENDS Naturals, Sequences, SequencesExt

CONSTANT
  Tab     (* identities a tab can have                                     *)

VARIABLES
  open,   (* the tabs, from left to right                                  *)
  front,  (* the tab on the screen                                         *)
  asleep  (* the tabs that show a tombstone                                *)

listVars == <<open, front, asleep>>

Only(t) == open = <<t>> /\ front = t /\ asleep = {}

ListInit == \E t \in Tab : Only(t)

(* A new tab goes to the right end, and to the screen.                      *)
Open(t) ==
  /\ t \notin ToSet(open)
  /\ open' = Append(open, t)
  /\ front' = t
  /\ UNCHANGED asleep

(* The place of a tab that was on the screen is taken by its right          *)
(* neighbour, or by its left one if it was the last.                        *)
Close(i) ==
  /\ Len(open) > 1
  /\ open' = RemoveAt(open, i)
  /\ front' = IF open[i] # front THEN front
              ELSE IF i < Len(open) THEN open[i + 1] ELSE open[i - 1]
  /\ asleep' = asleep \ {open[i], front'}

(* The window is never empty.                                               *)
CloseLast(t) == Len(open) = 1 /\ Only(t)'

Select(i) ==
  /\ front' = open[i]
  /\ asleep' = asleep \ {front'}
  /\ UNCHANGED open

Move(i, j) ==
  /\ open' = InsertAt(RemoveAt(open, i), j, open[i])
  /\ UNCHANGED <<front, asleep>>

(* The one thing the browser does by itself.                                *)
Sleep(t) ==
  /\ t \in ToSet(open) \ {front}
  /\ asleep' = asleep \cup {t}
  /\ UNCHANGED <<open, front>>

ListNext ==
  \/ \E t \in Tab : Open(t) \/ CloseLast(t) \/ Sleep(t)
  \/ \E i \in DOMAIN open : Close(i) \/ Select(i)
  \/ \E i, j \in DOMAIN open : Move(i, j)
=============================================================================
