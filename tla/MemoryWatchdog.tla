--------------------------- MODULE MemoryWatchdog ---------------------------
(***************************************************************************)
(* The memory watchdog of the browser window (checkMemoryBudget() in       *)
(* src/host/khtml_browser.cpp) over the tabs it puts to sleep, driven by   *)
(* the pressure and the budgets of ResourceManager.                        *)
(*                                                                         *)
(* A tab that is put to sleep loses its renderer and becomes a tombstone;  *)
(* selecting it starts a new renderer.  The watchdog decides by lastActive,*)
(* the time a tab was last opened, selected or navigated, and not by the   *)
(* time it was last seen.  No two tabs have the same lastActive.           *)
(*                                                                         *)
(* A check takes place every 5 s or more often, and time passes here in    *)
(* minutes: at least one check per minute.  The order of tabs on the strip,*)
(* their widgets and what follows a crash are TabStrip's; here the tab to  *)
(* be selected after a close, and whether a crashed one is restarted, are  *)
(* left open.  The caches a check purges are not part of the module.       *)
(***************************************************************************)
EXTENDS ResourceManager

CONSTANTS
  Tab,
  IdleBusy,      (* minutes a tab may idle while the processor is busy     *)
  IdleRelaxed,   (* and while it is not; also suspendIdleMs                *)
  Provisional    (* limit of a renderer until its first check, MiB         *)

ASSUME WatchdogAssumption ==
  /\ Tab # {}
  /\ IdleBusy \in Nat /\ IdleRelaxed \in Nat
  /\ 0 < IdleBusy /\ IdleBusy <= IdleRelaxed
  /\ Provisional \in Nat \ {0}

VARIABLES
  state,     (* of every tab                                               *)
  current,   (* the tab that is shown                                      *)
  age,       (* minutes since lastActive                                   *)
  older,     (* pairs of tabs with the first one's lastActive before the   *)
             (* second one's                                               *)
  ceiling,   (* commit limit of a tab's renderer, 0 without one            *)
  heavy,     (* tabs whose renderer uses more than its soft budget         *)
  checked,   (* a check took place this minute                             *)
  away,      (* history: minutes since the tab was left                    *)
  left       (* history: pairs of tabs left in this order                  *)

tabs == <<state, current, age, older, ceiling, heavy, checked, away, left>>
vars == <<manager, tabs>>

(* "crashed" is a tab with a crash page and without a renderer.             *)
State == {"closed", "awake", "crashed", "asleep"}

Old == IdleRelaxed + 1        \* an age no rule tells from a greater one

TypeOK ==
  /\ ManagerTypeOK
  /\ state \in [Tab -> State] /\ current \in Tab
  /\ age \in [Tab -> 0..Old] /\ away \in [Tab -> 0..Old]
  /\ older \subseteq Tab \X Tab /\ left \subseteq Tab \X Tab
  /\ ceiling \in [Tab -> Nat] /\ heavy \subseteq Tab
  /\ checked \in BOOLEAN

Up(t)      == state[t] \in {"awake", "crashed"}         \* neither closed nor asleep
Background == {t \in Tab : Up(t) /\ t # current}

(* Sets of pairs as orders: x comes last, or drops out.                     *)
Last(r, others, x) == {p \in r : p[1] # x /\ p[2] # x} \cup {<<t, x>> : t \in others \ {x}}
Without(r, S)      == {p \in r : p[1] \notin S /\ p[2] \notin S}

UpWith(t) == {u \in Tab : Up(u)} \cup {t}

-----------------------------------------------------------------------------
(* The currentChanged handler: t is shown from now on.  A tab that sleeps   *)
(* is resumed with a new renderer.                                          *)

FaultStamped(t) == UNCHANGED <<age, older>>       \* lastActive not updated

Stamped(t) ==
  /\ age' = [age EXCEPT ![t] = 0]
  /\ older' = Last(older, UpWith(t), t)

Started(t) ==
  /\ state' = [state EXCEPT ![t] = "awake"]
  /\ ceiling' = [ceiling EXCEPT ![t] = Provisional]
  /\ heavy' = heavy \ {t}

Shown(t) ==
  /\ current' = t
  /\ Stamped(t)
  /\ away' = [away EXCEPT ![t] = 0, ![current] = 0]
  /\ left' = Without(Last(left, Background, current), {t})

Open(t) ==
  /\ state[t] = "closed"
  /\ Shown(t) /\ Started(t)
  /\ UNCHANGED <<manager, checked>>

Select(t) ==
  /\ state[t] # "closed" /\ t # current
  /\ Shown(t)
  /\ IF state[t] = "asleep" THEN Started(t) ELSE UNCHANGED <<state, ceiling, heavy>>
  /\ UNCHANGED <<manager, checked>>

(* navigate(), always of the tab that is shown; a crashed one gets a new    *)
(* renderer.                                                                *)
Navigate ==
  /\ Stamped(current)
  /\ IF state[current] = "crashed" THEN Started(current) ELSE UNCHANGED <<state, ceiling, heavy>>
  /\ UNCHANGED <<manager, current, checked, away, left>>

(* retryCrashedTab(), the reload button of a crash page.                    *)
Retry ==
  /\ state[current] = "crashed"
  /\ Started(current)
  /\ UNCHANGED <<manager, current, age, older, checked, away, left>>

(* A renderer dies: the tab gets a new one or a crash page.                 *)
Crash(t) ==
  /\ state[t] = "awake"
  /\ \/ Started(t)
     \/ /\ state' = [state EXCEPT ![t] = "crashed"]
        /\ ceiling' = [ceiling EXCEPT ![t] = 0]
        /\ heavy' = heavy \ {t}
  /\ UNCHANGED <<manager, current, age, older, checked, away, left>>

(* The working set of a renderer grows above its soft budget, or falls       *)
(* below it; what the budget is depends on the pressure at the next check.  *)
Use(t) ==
  /\ state[t] = "awake"
  /\ heavy' = IF t \in heavy THEN heavy \ {t} ELSE heavy \cup {t}
  /\ UNCHANGED <<manager, state, current, age, older, ceiling, checked, away, left>>

(* closeTab() of a tab that is not shown.                                   *)
CloseOther(t) ==
  /\ state[t] # "closed" /\ t # current
  /\ state' = [state EXCEPT ![t] = "closed"]
  /\ ceiling' = [ceiling EXCEPT ![t] = 0]
  /\ heavy' = heavy \ {t}
  /\ older' = Without(older, {t}) /\ left' = Without(left, {t})
  /\ age' = [age EXCEPT ![t] = 0] /\ away' = [away EXCEPT ![t] = 0]
  /\ UNCHANGED <<manager, current, checked>>

(* closeTab() of the one that is: another one is selected, or a new one     *)
(* opened in place of the last.                                             *)
CloseCurrent(next) ==
  LET last == \A t \in Tab \ {current} : state[t] = "closed"
  IN /\ IF last THEN next = current
        ELSE next # current /\ state[next] # "closed"
     /\ current' = next
     /\ state' = [state EXCEPT ![current] = "closed",
                    ![next] = IF last \/ @ = "asleep" THEN "awake" ELSE @]
     /\ ceiling' = [ceiling EXCEPT ![current] = 0,
                      ![next] = IF last \/ state[next] = "asleep" THEN Provisional ELSE @]
     /\ heavy' = heavy \ {current}
     /\ age' = [age EXCEPT ![current] = 0, ![next] = 0]
     /\ older' = Without(Last(older, UpWith(next), next), {current} \ {next})
     /\ away' = [away EXCEPT ![current] = 0, ![next] = 0]
     /\ left' = Without(left, {current, next})
     /\ UNCHANGED <<manager, checked>>

-----------------------------------------------------------------------------
(* checkMemoryBudget(), by the timer or by the system's low-memory event;   *)
(* busy: the processor is above 85 %.  Four rules follow each other: a      *)
(* renderer over its budget, or advised to be suspended by the level of the *)
(* RAM alone; under critical pressure of the RAM or the GPU every tab in    *)
(* the background, or under a warning the oldest; what idled too long.      *)

Oldest(S) == {t \in S : \A u \in S : <<u, t>> \notin older}

Advised ==
  {t \in Background : /\ state[t] = "awake"
                      /\ \/ t \in heavy
                         \/ Advice(ram', age[t] >= IdleRelaxed, t \in heavy) = "suspend"}

Backstop(S) ==
  IF "critical" \in {ram', gpu'} THEN S
  ELSE IF "warning" \in {ram', gpu'} THEN Oldest(S) ELSE {}

FaultIdle(S, busy) ==                   \* crash pages are passed over
  {t \in S : state[t] = "awake" /\ age[t] >= (IF busy THEN IdleBusy ELSE IdleRelaxed)}

Idle(S, busy) == {t \in S : age[t] >= (IF busy THEN IdleBusy ELSE IdleRelaxed)}

Evicted(rest, busy) ==
  LET kept == rest \ Backstop(rest)
  IN Background \ (kept \ Idle(kept, busy))

(* suspendTab() of a set of tabs.                                           *)
Asleep(S) ==
  /\ state' = [t \in Tab |-> IF t \in S THEN "asleep" ELSE state[t]]
  /\ age' = [t \in Tab |-> IF t \in S THEN 0 ELSE age[t]]
  /\ away' = [t \in Tab |-> IF t \in S THEN 0 ELSE away[t]]
  /\ older' = Without(older, S) /\ left' = Without(left, S)

Check(load, ratio, busy) ==
  /\ Sample(load, ratio)
  /\ UNCHANGED current
  /\ \E S \in {Evicted(Background \ Advised, busy)} :
       /\ Asleep(S)
       /\ heavy' = heavy \ S
       /\ ceiling' = [t \in Tab |-> IF state[t] # "awake" \/ t \in S THEN 0
                                    ELSE Ceiling(t = current)']
  /\ checked' = TRUE

(* A minute passes.  An age only counts while a tab is up.                  *)
Elapse ==
  LET aged(a) == [t \in Tab |-> IF Up(t) THEN NoMore(a[t] + 1, Old) ELSE 0]
  IN /\ checked
     /\ checked' = FALSE
     /\ age' = aged(age)
     /\ away' = [aged(away) EXCEPT ![current] = 0]
     /\ UNCHANGED <<manager, state, current, older, ceiling, heavy, left>>

Init ==
  /\ ManagerInit
  /\ current \in Tab
  /\ state = [t \in Tab |-> IF t = current THEN "awake" ELSE "closed"]
  /\ age = [t \in Tab |-> 0] /\ away = [t \in Tab |-> 0]
  /\ older = {} /\ left = {}
  /\ ceiling = [t \in Tab |-> IF t = current THEN Provisional ELSE 0]
  /\ heavy = {} /\ checked = FALSE

Next ==
  \/ \E t \in Tab : Open(t) \/ Select(t) \/ Use(t) \/ Crash(t) \/ CloseOther(t) \/ CloseCurrent(t)
  \/ Navigate \/ Retry \/ Elapse
  \/ \E load \in Load \cup {Failed}, ratio \in Ratio \cup {Failed}, busy \in BOOLEAN :
       Check(load, ratio, busy)

Spec == Init /\ [][Next]_vars

-----------------------------------------------------------------------------
(* Properties.                                                              *)

(* A tab does not keep its renderer, or a crash page, for longer than       *)
(* IdleRelaxed minutes after it was left (the idle rule of                  *)
(* checkMemoryBudget() over a lastActive that selecting and navigating, but *)
(* nothing in the background, brings up to date).                           *)
LeftIsPutToSleep ==
  \A t \in Background : away[t] <= (IF checked THEN IdleRelaxed - 1 ELSE IdleRelaxed)

(* What a check puts to sleep was left before what it spares, tabs over     *)
(* their budget apart, although lastActive is not the time a tab was left   *)
(* (the backstop and the idle rule of checkMemoryBudget(), "evicts          *)
(* background tabs by true LRU").                                           *)
LongestLeftGoFirst ==
  [][\A t, u \in Background :
       /\ state'[t] = "asleep" /\ t \notin heavy
       /\ state'[u] = state[u]
       => <<t, u>> \in left]_vars

(* While the pressure of the RAM does not fall, a check never loosens the   *)
(* limit that a check has set to a renderer in the background, as long as   *)
(* the load could be read (makeRendererPolicy(), setMemoryCeilingKB()).     *)
PressureNeverLoosens ==
  [][sampled /\ sampled' /\ Rank(ram') >= Rank(ram) =>
       \A t \in Background :
         \/ Provisional \in {ceiling[t], ceiling'[t]}
         \/ ceiling'[t] <= ceiling[t]]_vars

=============================================================================
