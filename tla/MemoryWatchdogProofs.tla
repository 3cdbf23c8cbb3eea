------------------------ MODULE MemoryWatchdogProofs ------------------------
(***************************************************************************)
(* What the memory watchdog does, for any configuration, any machine, any  *)
(* loads and any set of tabs:                                              *)
(*                                                                         *)
(*   - a level of pressure does not flap: the sanitized thresholds are in  *)
(*     order and at least a band from 0, and the level remembers on which  *)
(*     side of a threshold its last change was measured;                   *)
(*   - lastActive, although it is the time of selection, orders the tabs   *)
(*     in the background by the time they were left, so that eviction by   *)
(*     lastActive spares what was left last, and bounds the time a tab can *)
(*     stay alive after it was left;                                       *)
(*   - budgets fall with the pressure and are lower in the background.     *)
(***************************************************************************)
EXTENDS MemoryWatchdog, TLAPS

-----------------------------------------------------------------------------
(* The thresholds.                                                          *)

Ordered(cfg) ==
  /\ cfg \in Thresholds
  /\ cfg.band <= cfg.warning /\ cfg.warning < cfg.critical

LEMMA RamConfigOrdered == Ordered(RamConfig(RamSettings))
BY SettingsAssumption
DEF Ordered, RamConfig, Thresholds, Clamp, AtLeast, NoMore

LEMMA GpuConfigOrdered == Ordered(GpuConfig(GpuSettings))
BY SettingsAssumption
DEF Ordered, GpuConfig, Thresholds, Clamp, AtLeast, NoMore

(* On which side of a threshold the last change of a level was measured.    *)
TurnInv(level, turn, cfg) ==
  /\ level = "normal" => \/ turn.way = "none"
                         \/ turn.way = "down" /\ turn.at <= cfg.warning - cfg.band
  /\ level = "warning" => \/ turn.way = "up" /\ turn.at >= cfg.warning
                          \/ turn.way = "down" /\ turn.at <= cfg.critical - cfg.band
  /\ level = "critical" => turn.way = "up" /\ turn.at >= cfg.critical

LEMMA AppliedTurns ==
  ASSUME NEW cfg, Ordered(cfg), NEW level \in Level, NEW turn \in Turn,
         NEW measured \in Nat, TurnInv(level, turn, cfg)
  PROVE  LET new   == Applied(level, measured, cfg)
             turn2 == Turned(turn, level, new, measured)
         IN /\ new \in Level /\ turn2 \in Turn
            /\ TurnInv(new, turn2, cfg)
            /\ Reversal(turn, turn2, cfg.band)
<1> DEFINE new   == Applied(level, measured, cfg)
           turn2 == Turned(turn, level, new, measured)
<1>1. /\ cfg.band \in Nat /\ cfg.warning \in Nat /\ cfg.critical \in Nat
      /\ cfg.band <= cfg.warning /\ cfg.warning < cfg.critical
  BY DEF Ordered, Thresholds
<1>2. turn.way \in {"none", "up", "down"} /\ turn.at \in Nat
  BY DEF Turn
<1>3. CASE new = level
  <2>1. turn2 = turn BY <1>3 DEF Turned
  <2> QED BY <1>3, <2>1, <1>2, <1>1 DEF Reversal
<1>4. CASE new # level /\ Rank(new) > Rank(level)
  <2>1. turn2 = [way |-> "up", at |-> measured] BY <1>4 DEF Turned
  <2>2. \/ level = "normal" /\ new = "warning" /\ measured >= cfg.warning
        \/ level = "normal" /\ new = "critical" /\ measured >= cfg.critical
        \/ level = "warning" /\ new = "critical" /\ measured >= cfg.critical
    BY <1>4, <1>1 DEF Applied, Raw, Rank, Level
  <2> QED BY <2>1, <2>2, <1>1, <1>2 DEF TurnInv, Reversal, Turn, Level
<1>5. CASE new # level /\ ~(Rank(new) > Rank(level))
  <2>1. turn2 = [way |-> "down", at |-> measured] BY <1>5 DEF Turned
  <2>2. \/ level = "warning" /\ new = "normal" /\ measured <= cfg.warning - cfg.band
        \/ level = "critical" /\ new = "normal" /\ measured <= cfg.warning - cfg.band
        \/ level = "critical" /\ new = "warning" /\ measured <= cfg.critical - cfg.band
    BY <1>5, <1>1 DEF Applied, Raw, Rank, Level
  <2> QED BY <2>1, <2>2, <1>1, <1>2 DEF TurnInv, Reversal, Turn, Level
<1> QED BY <1>3, <1>4, <1>5

(* One sample: both levels keep to their thresholds and turn in the band.   *)
ManagerInv ==
  /\ ManagerTypeOK
  /\ TurnInv(ram, ramTurn, RamConfig(RamSettings))
  /\ TurnInv(gpu, gpuTurn, GpuConfig(GpuSettings))

Steady ==
  /\ Reversal(ramTurn, ramTurn', RamConfig(RamSettings).band)
  /\ Reversal(gpuTurn, gpuTurn', GpuConfig(GpuSettings).band)

LEMMA SampleSteady ==
  ASSUME ManagerInv, NEW load \in Load \cup {Failed}, NEW ratio \in Ratio \cup {Failed},
         Sample(load, ratio)
  PROVE  ManagerInv' /\ Steady
<1>1. /\ ram \in Level /\ gpu \in Level /\ ramTurn \in Turn /\ gpuTurn \in Turn
      /\ sampled' \in BOOLEAN
  BY DEF ManagerInv, ManagerTypeOK, Sample
<1>2. /\ ram' \in Level /\ ramTurn' \in Turn
      /\ TurnInv(ram', ramTurn', RamConfig(RamSettings))
      /\ Reversal(ramTurn, ramTurn', RamConfig(RamSettings).band)
  <2>1. CASE load = Failed
    <3>1. ram' = ram /\ ramTurn' = ramTurn BY <2>1 DEF Sample, Turned
    <3> QED BY <3>1, <1>1 DEF ManagerInv, Reversal, Turn
  <2>2. CASE load # Failed
    <3>1. load \in Nat BY <2>2, SettingsAssumption
    <3>2. NoMore(load, 100) \in 0..100 /\ NoMore(load, 100) \in Nat
      BY <3>1 DEF NoMore
    <3>3. ram' = Applied(ram, NoMore(load, 100), RamConfig(RamSettings))
      BY <2>2, <3>2, <1>1 DEF Sample, RamNext
    <3>4. ramTurn' = Turned(ramTurn, ram, ram', NoMore(load, 100))
      BY DEF Sample
    <3> QED BY <3>2, <3>3, <3>4, <1>1, AppliedTurns, RamConfigOrdered DEF ManagerInv
  <2> QED BY <2>1, <2>2
<1>3. /\ gpu' \in Level /\ gpuTurn' \in Turn
      /\ TurnInv(gpu', gpuTurn', GpuConfig(GpuSettings))
      /\ Reversal(gpuTurn, gpuTurn', GpuConfig(GpuSettings).band)
  <2>1. MeasuredGpu(ratio) \in Ratio \cup {0} /\ MeasuredGpu(ratio) \in Nat
    BY SettingsAssumption DEF MeasuredGpu
  <2>2. gpu' = Applied(gpu, MeasuredGpu(ratio), GpuConfig(GpuSettings))
    BY <2>1, <1>1 DEF Sample, GpuNext
  <2>3. gpuTurn' = Turned(gpuTurn, gpu, gpu', MeasuredGpu(ratio))
    BY DEF Sample
  <2> QED BY <2>1, <2>2, <2>3, <1>1, AppliedTurns, GpuConfigOrdered DEF ManagerInv
<1> QED BY <1>1, <1>2, <1>3 DEF ManagerInv, ManagerTypeOK, Steady

-----------------------------------------------------------------------------
(* The tabs.  older is a strict total order of the tabs that are up, with   *)
(* the shown one last, which ages respect; left is its restriction to the   *)
(* background.                                                              *)

OrderInv ==
  /\ Up(current)
  /\ \A t, u \in Tab : <<t, u>> \in older => Up(t) /\ Up(u) /\ t # u /\ <<u, t>> \notin older
  /\ \A t, u \in Tab : Up(t) /\ Up(u) /\ t # u => <<t, u>> \in older \/ <<u, t>> \in older
  /\ \A t \in Tab : <<current, t>> \notin older
  /\ left = {p \in older : p[1] # current /\ p[2] # current}

AgeInv ==
  /\ \A t, u \in Tab : <<t, u>> \in older => age[u] <= age[t]
  /\ \A t \in Tab : away[t] <= age[t]
  /\ away[current] = 0

IInv == ManagerInv /\ TypeOK /\ OrderInv /\ AgeInv /\ LeftIsPutToSleep

LEMMA InitInv == Init => IInv
<1> SUFFICES ASSUME Init PROVE IInv
  OBVIOUS
<1>1. ManagerTypeOK /\ ManagerInv
  BY DEF Init, ManagerInit, ManagerInv, ManagerTypeOK, TurnInv, Turn, Level
<1>2. TypeOK
  <2>1. /\ current \in Tab /\ Provisional \in Nat /\ 0 \in 0..Old
        /\ state = [t \in Tab |-> IF t = current THEN "awake" ELSE "closed"]
        /\ age = [t \in Tab |-> 0] /\ away = [t \in Tab |-> 0]
        /\ ceiling = [t \in Tab |-> IF t = current THEN Provisional ELSE 0]
        /\ older = {} /\ left = {} /\ heavy = {} /\ checked = FALSE
    BY WatchdogAssumption DEF Init, Old
  <2>2. state \in [Tab -> State]
    BY <2>1 DEF State
  <2>3. age \in [Tab -> 0..Old] /\ away \in [Tab -> 0..Old] /\ ceiling \in [Tab -> Nat]
    BY <2>1
  <2> QED BY <1>1, <2>1, <2>2, <2>3 DEF TypeOK
<1>3. OrderInv /\ AgeInv /\ LeftIsPutToSleep
  BY DEF Init, OrderInv, AgeInv, LeftIsPutToSleep, Up, Background
<1> QED BY <1>1, <1>2, <1>3 DEF IInv

(* The shown tab changes, or is stamped: it becomes the last.               *)
LEMMA ShownInv ==
  ASSUME IInv, NEW t \in Tab, Shown(t), UNCHANGED <<manager, checked>>,
         t # current,
         state' \in [Tab -> State],
         state'[t] \in {"awake", "crashed"},
         \A u \in Tab \ {t} : state'[u] = state[u]
  PROVE  OrderInv' /\ AgeInv' /\ LeftIsPutToSleep'
<1>1. /\ \A u \in Tab \ {t} : Up(u)' <=> Up(u)
      /\ Up(t)'
  BY DEF Up
<1>2. /\ current' = t
      /\ older' = {p \in older : p[1] # t /\ p[2] # t}
                    \cup {<<u, t>> : u \in {v \in Tab : Up(v)} \ {t}}
      /\ age' = [age EXCEPT ![t] = 0]
      /\ away' = [away EXCEPT ![t] = 0, ![current] = 0]
      /\ left' = {p \in {p \in left : p[1] # current /\ p[2] # current}
                            \cup {<<u, current>> : u \in Background \ {current}} :
                    p[1] # t /\ p[2] # t}
  BY DEF Shown, Stamped, Last, UpWith, Without
<1>3. /\ \A u, v \in Tab : <<u, v>> \in older' <=>
            \/ <<u, v>> \in older /\ u # t /\ v # t
            \/ v = t /\ u # t /\ Up(u)
      /\ older' \subseteq Tab \X Tab
  BY <1>2 DEF IInv, TypeOK
<1>4. \A u, v \in Tab : <<u, v>> \in left' <=>
            /\ u # t /\ v # t
            /\ \/ <<u, v>> \in left /\ u # current /\ v # current
               \/ v = current /\ u \in Background
  BY <1>2 DEF IInv, TypeOK, Background
<1>5. /\ left' \subseteq Tab \X Tab
      /\ \A u, v \in Tab : <<u, v>> \in left' <=>
            <<u, v>> \in older' /\ u # t /\ v # t
  <2>1. \A u, v \in Tab : <<u, v>> \in left <=>
          <<u, v>> \in older /\ u # current /\ v # current
    BY DEF IInv, OrderInv
  <2>2. \A u \in Tab : <<u, current>> \in older <=> u \in Background
    BY DEF IInv, OrderInv, Background, TypeOK
  <2>3. \A u \in Tab : <<current, u>> \notin older
    BY DEF IInv, OrderInv
  <2>4. left' \subseteq Tab \X Tab
    BY <1>2 DEF IInv, TypeOK, Background
  <2> QED BY <1>3, <1>4, <2>1, <2>2, <2>3, <2>4
<1>6. OrderInv'
  BY <1>1, <1>2, <1>3, <1>5 DEF IInv, OrderInv
<1>7. AgeInv'
  BY <1>2, <1>3 DEF IInv, AgeInv, TypeOK, Old
<1>8. LeftIsPutToSleep'
  BY <1>1, <1>2, WatchdogAssumption DEF IInv, LeftIsPutToSleep, Background, TypeOK, Old
<1> QED BY <1>6, <1>7, <1>8

(* Leaving the order: what remains is ordered as before.                    *)
LEMMA WithoutInv ==
  ASSUME IInv, NEW S \in SUBSET (Tab \ {current}), UNCHANGED current,
         state' \in [Tab -> State],
         \A u \in Tab : Up(u)' <=> Up(u) /\ u \notin S,
         older' = Without(older, S), left' = Without(left, S),
         \A u \in Tab \ S : age'[u] = age[u] /\ away'[u] = away[u],
         \A u \in S : age'[u] = 0 /\ away'[u] = 0
  PROVE  OrderInv' /\ AgeInv'
<1>1. /\ older' = {p \in older : p[1] \notin S /\ p[2] \notin S}
      /\ left' = {p \in left : p[1] \notin S /\ p[2] \notin S}
  BY DEF Without
<1>2. \A u, v \in Tab : <<u, v>> \in older' <=> <<u, v>> \in older /\ u \notin S /\ v \notin S
  BY <1>1
<1>3. left' = {p \in older' : p[1] # current' /\ p[2] # current'}
  BY <1>1 DEF IInv, OrderInv
<1>4. OrderInv'
  <2>1. Up(current)'
    BY DEF IInv, OrderInv, TypeOK
  <2>2. \A t, u \in Tab : <<t, u>> \in older' =>
          Up(t)' /\ Up(u)' /\ t # u /\ <<u, t>> \notin older'
    BY <1>2 DEF IInv, OrderInv
  <2>3. \A t, u \in Tab : Up(t)' /\ Up(u)' /\ t # u =>
          <<t, u>> \in older' \/ <<u, t>> \in older'
    BY <1>2 DEF IInv, OrderInv
  <2>4. \A t \in Tab : <<current', t>> \notin older'
    BY <1>2 DEF IInv, OrderInv, TypeOK
  <2> QED BY <1>3, <2>1, <2>2, <2>3, <2>4 DEF OrderInv
<1>5. AgeInv'
  BY <1>2 DEF IInv, AgeInv, TypeOK
<1> QED BY <1>4, <1>5

(* A step that neither the order nor any age takes part in.                 *)
LEMMA SameOrder ==
  ASSUME IInv, UNCHANGED <<current, age, older, away, left, checked>>,
         \A u \in Tab : Up(u)' <=> Up(u)
  PROVE  OrderInv' /\ AgeInv' /\ LeftIsPutToSleep'
<1>1. OrderInv' BY DEF IInv, OrderInv, TypeOK
<1>2. AgeInv' BY DEF IInv, AgeInv
<1>3. LeftIsPutToSleep' BY DEF IInv, LeftIsPutToSleep, Background
<1> QED BY <1>1, <1>2, <1>3

-----------------------------------------------------------------------------
(* The budgets.                                                             *)

Sane(b) ==
  /\ b \in Budgets
  /\ b.min <= b.max /\ b.minHard <= b.maxHard /\ b.reference > 0
  /\ b.scaleMin <= b.scaleMax
  /\ b.critical <= b.warning /\ b.warning <= b.fgWarning /\ b.fgWarning <= 100
  /\ b.critical <= b.fgCritical /\ b.fgCritical <= b.fgWarning

LEMMA ClampInRange ==
  ASSUME NEW v \in Nat, NEW low \in Nat, NEW high \in Nat, low <= high
  PROVE  Clamp(v, low, high) \in Nat /\ low <= Clamp(v, low, high) /\ Clamp(v, low, high) <= high
BY DEF Clamp, NoMore

LEMMA ClampMonotone ==
  ASSUME NEW v \in Nat, NEW w \in Nat, v <= w,
         NEW low \in Nat, NEW high \in Nat, low <= high
  PROVE  Clamp(v, low, high) <= Clamp(w, low, high)
BY DEF Clamp, NoMore

LEMMA PercentMonotone ==
  ASSUME NEW v \in Nat, NEW w \in Nat, v <= w, NEW f \in Nat, NEW g \in Nat, f <= g
  PROVE  (v * f) \div 100 \in Nat /\ (w * g) \div 100 \in Nat
         /\ (v * f) \div 100 <= (w * g) \div 100
<1>1. v * f \in Nat /\ w * g \in Nat /\ v * f <= w * g
  <2>1. v * f <= w * f BY SMT
  <2>2. w * f <= w * g BY SMT
  <2> QED BY <2>1, <2>2
<1> DEFINE x == v * f
           y == w * g
<1>2. x \in Nat /\ y \in Nat /\ x <= y BY <1>1
<1> HIDE DEF x, y
<1>3. x \div 100 \in Nat /\ y \div 100 \in Nat /\ x \div 100 <= y \div 100
  BY <1>2
<1> QED BY <1>3 DEF x, y

LEMMA ClampedPercent ==
  ASSUME NEW v \in Nat, NEW w \in Nat, v <= w, NEW f \in Nat, NEW g \in Nat, f <= g,
         NEW low \in Nat, NEW high \in Nat, low <= high
  PROVE  /\ Clamp((v * f) \div 100, low, high) \in low..high
         /\ Clamp((w * g) \div 100, low, high) \in low..high
         /\ Clamp((v * f) \div 100, low, high) <= Clamp((w * g) \div 100, low, high)
<1> DEFINE x == (v * f) \div 100
           y == (w * g) \div 100
<1>1. x \in Nat /\ y \in Nat /\ x <= y BY PercentMonotone
<1> HIDE DEF x, y
<1>2. /\ Clamp(x, low, high) \in low..high /\ Clamp(y, low, high) \in low..high
      /\ Clamp(x, low, high) <= Clamp(y, low, high)
  BY <1>1, ClampInRange, ClampMonotone
<1> QED BY <1>2 DEF x, y

LEMMA BudgetConfigSane ==
  ASSUME NEW settings \in Budgets
  PROVE  Sane(BudgetConfig(settings))
<1> DEFINE b == BudgetConfig(settings)
           s == settings
<1>1. /\ s.baseline \in Nat /\ s.reference \in Nat /\ s.scaleMin \in Nat /\ s.scaleMax \in Nat
      /\ s.min \in Nat /\ s.max \in Nat /\ s.fraction \in Nat
      /\ s.warning \in Nat /\ s.critical \in Nat /\ s.fgWarning \in Nat /\ s.fgCritical \in Nat
      /\ s.ceiling \in Nat /\ s.minHard \in Nat /\ s.maxHard \in Nat
  BY DEF Budgets
<1>2. /\ b.scaleMin = Clamp(s.scaleMin, 10, 1600)
      /\ b.scaleMax = Clamp(s.scaleMax, b.scaleMin, 1600)
      /\ b.min = AtLeast(s.min, 32) /\ b.max = AtLeast(s.max, b.min)
      /\ b.minHard = AtLeast(s.minHard, 64) /\ b.maxHard = AtLeast(s.maxHard, b.minHard)
      /\ b.reference = AtLeast(s.reference, 512) /\ b.baseline = AtLeast(s.baseline, 32)
      /\ b.fraction = Clamp(s.fraction, 1, 100) /\ b.ceiling = Clamp(s.ceiling, 100, 800)
  BY DEF BudgetConfig
<1>3. /\ b.warning = Clamp(s.warning, 5, 100)
      /\ b.critical = NoMore(Clamp(s.critical, 5, 100), b.warning)
      /\ b.fgWarning = Clamp(s.fgWarning, b.warning, 100)
      /\ b.fgCritical = NoMore(Clamp(s.fgCritical, b.critical, 100), b.fgWarning)
      /\ DOMAIN b = {"baseline", "reference", "scaleMin", "scaleMax", "min", "max", "fraction",
                     "warning", "critical", "fgWarning", "fgCritical",
                     "ceiling", "minHard", "maxHard"}
  BY DEF BudgetConfig
<1>4. b = [baseline |-> b.baseline, reference |-> b.reference,
           scaleMin |-> b.scaleMin, scaleMax |-> b.scaleMax,
           min |-> b.min, max |-> b.max, fraction |-> b.fraction,
           warning |-> b.warning, critical |-> b.critical,
           fgWarning |-> b.fgWarning, fgCritical |-> b.fgCritical,
           ceiling |-> b.ceiling, minHard |-> b.minHard, maxHard |-> b.maxHard]
  BY DEF BudgetConfig
<1> HIDE DEF b
<1>5. /\ b.scaleMin \in Nat /\ b.scaleMin <= 1600 /\ b.fraction \in Nat /\ b.ceiling \in Nat
      /\ b.min \in Nat /\ b.minHard \in Nat /\ b.baseline \in Nat
      /\ b.reference \in Nat /\ b.reference > 0
  BY <1>1, <1>2 DEF Clamp, NoMore, AtLeast
<1>6. /\ b.scaleMax \in Nat /\ b.scaleMin <= b.scaleMax
      /\ b.max \in Nat /\ b.min <= b.max
      /\ b.maxHard \in Nat /\ b.minHard <= b.maxHard
  BY <1>1, <1>2, <1>5 DEF Clamp, NoMore, AtLeast
<1>7. b.warning \in Nat /\ b.warning <= 100
  BY <1>1, <1>3 DEF Clamp, NoMore
<1>8. b.critical \in Nat /\ b.critical <= b.warning
  <2>1. Clamp(s.critical, 5, 100) \in Nat BY <1>1 DEF Clamp, NoMore
  <2> QED BY <1>3, <1>7, <2>1 DEF NoMore
<1>9. b.fgWarning \in Nat /\ b.warning <= b.fgWarning /\ b.fgWarning <= 100
  BY <1>1, <1>3, <1>7 DEF Clamp, NoMore
<1>10. b.fgCritical \in Nat /\ b.critical <= b.fgCritical /\ b.fgCritical <= b.fgWarning
  <2>1. /\ Clamp(s.fgCritical, b.critical, 100) \in Nat
        /\ b.critical <= Clamp(s.fgCritical, b.critical, 100)
    BY <1>1, <1>7, <1>8 DEF Clamp, NoMore
  <2> QED BY <1>3, <1>7, <1>8, <1>9, <2>1 DEF NoMore
<1>11. b \in Budgets
  BY <1>4, <1>5, <1>6, <1>7, <1>8, <1>9, <1>10 DEF Budgets
<1> QED BY <1>5, <1>6, <1>7, <1>8, <1>9, <1>10, <1>11 DEF Sane, b

LEMMA BaseTyped ==
  ASSUME NEW b, Sane(b), NEW total \in Nat
  PROVE  Base(b, total) \in Nat
<1>1. /\ b.min \in Nat /\ b.max \in Nat /\ b.min <= b.max
      /\ b.baseline \in Nat /\ b.scaleMin \in Nat /\ b.scaleMax \in Nat
      /\ b.scaleMin <= b.scaleMax
      /\ b.fraction \in Nat /\ b.reference \in Nat /\ b.reference > 0
  BY DEF Sane, Budgets
<1> DEFINE scale  == Clamp((total * 100) \div b.reference, b.scaleMin, b.scaleMax)
           share  == (total * b.fraction) \div 100
           scaled == (b.baseline * scale) \div 100
           base   == IF total = 0 THEN b.baseline
                     ELSE IF share > 0 THEN NoMore(scaled, share) ELSE scaled
<1>2. (total * 100) \div b.reference \in Nat BY <1>1
<1>3. scale \in Nat BY <1>1, <1>2, ClampInRange
<1> HIDE DEF scale
<1>4. share \in Nat /\ scaled \in Nat BY <1>1, <1>3, PercentMonotone
<1> HIDE DEF share, scaled
<1>5. base \in Nat BY <1>1, <1>4 DEF NoMore
<1> HIDE DEF base
<1>6. Clamp(base, b.min, b.max) \in Nat BY <1>1, <1>5, ClampInRange
<1> QED BY <1>6 DEF Base, base, scaled, share, scale

(* What makeRendererPolicy() promises: a renderer in the background has no  *)
(* more than one in the foreground, or one under lower pressure; the soft   *)
(* limit lies in the configured range, and never above the hard one.        *)
THEOREM BudgetsAreOrdered ==
  ASSUME NEW settings \in Budgets, NEW total \in Nat, NEW foreground \in BOOLEAN,
         NEW low \in Level, NEW high \in Level, Rank(low) <= Rank(high)
  PROVE  LET b == BudgetConfig(settings)
         IN /\ Hard(b, total, high, FALSE) \in Nat /\ Hard(b, total, low, foreground) \in Nat
            /\ Soft(b, total, low, foreground) \in b.min..b.max
            /\ Soft(b, total, high, FALSE) <= Soft(b, total, low, foreground)
            /\ Hard(b, total, high, FALSE) <= Hard(b, total, low, foreground)
            /\ Soft(b, total, low, foreground) <= Hard(b, total, low, foreground)
<1> DEFINE b == BudgetConfig(settings)
<1>1. Sane(b)
  BY BudgetConfigSane
<1> HIDE DEF b
<1>2. /\ b.min \in Nat /\ b.max \in Nat /\ b.min <= b.max /\ b.ceiling \in Nat
      /\ b.minHard \in Nat /\ b.maxHard \in Nat /\ b.minHard <= b.maxHard
      /\ b.warning \in Nat /\ b.critical \in Nat /\ b.fgWarning \in Nat /\ b.fgCritical \in Nat
  BY <1>1 DEF Sane, Budgets
<1>3. Base(b, total) \in Nat BY <1>1, BaseTyped
<1>4. /\ Factor(b, high, FALSE) \in Nat /\ Factor(b, low, foreground) \in Nat
      /\ Factor(b, high, FALSE) <= Factor(b, low, foreground)
  BY <1>1, <1>2 DEF Factor, Level, Rank, Sane
<1> DEFINE s == Soft(b, total, high, FALSE)
           t == Soft(b, total, low, foreground)
<1>5. s \in b.min..b.max /\ t \in b.min..b.max /\ s <= t
  <2> DEFINE base == Base(b, total)
             f    == Factor(b, high, FALSE)
             g    == Factor(b, low, foreground)
             min  == b.min
             max  == b.max
  <2>1. base \in Nat /\ f \in Nat /\ g \in Nat /\ f <= g /\ min \in Nat /\ max \in Nat /\ min <= max
    BY <1>2, <1>3, <1>4
  <2> HIDE DEF base, f, g, min, max
  <2>2. base <= base BY <2>1
  <2>3. /\ Clamp((base * f) \div 100, min, max) \in min..max
        /\ Clamp((base * g) \div 100, min, max) \in min..max
        /\ Clamp((base * f) \div 100, min, max) <= Clamp((base * g) \div 100, min, max)
    BY <2>1, <2>2, ClampedPercent
  <2> QED BY <2>3 DEF Soft, base, f, g, min, max
<1> DEFINE u == Clamp((s * b.ceiling) \div 100, b.minHard, b.maxHard)
           v == Clamp((t * b.ceiling) \div 100, b.minHard, b.maxHard)
<1>6. /\ Hard(b, total, high, FALSE) = AtLeast(u, s)
      /\ Hard(b, total, low, foreground) = AtLeast(v, t)
  BY DEF Hard
<1> HIDE DEF s, t
<1>7. s \in Nat /\ t \in Nat /\ u \in Nat /\ v \in Nat /\ u <= v
  <2> DEFINE c   == b.ceiling
             min == b.minHard
             max == b.maxHard
  <2>1. /\ s \in Nat /\ t \in Nat /\ s <= t /\ c \in Nat
        /\ min \in Nat /\ max \in Nat /\ min <= max
    BY <1>2, <1>5
  <2> HIDE DEF c, min, max
  <2>2. c <= c BY <2>1
  <2>3. /\ Clamp((s * c) \div 100, min, max) \in min..max
        /\ Clamp((t * c) \div 100, min, max) \in min..max
        /\ Clamp((s * c) \div 100, min, max) <= Clamp((t * c) \div 100, min, max)
    BY <2>1, <2>2, ClampedPercent, ZenonT(30)
  <2>4. /\ Clamp((s * c) \div 100, min, max) \in Nat
        /\ Clamp((t * c) \div 100, min, max) \in Nat
    BY <2>1, <2>3
  <2> QED BY <2>1, <2>3, <2>4 DEF c, min, max
<1> HIDE DEF u, v
<1>8. /\ AtLeast(u, s) \in Nat /\ AtLeast(v, t) \in Nat /\ t <= AtLeast(v, t) /\ AtLeast(u, s) <= AtLeast(v, t)
  BY <1>5, <1>7 DEF AtLeast
<1> QED BY <1>5, <1>6, <1>8 DEF b, s, t

-----------------------------------------------------------------------------
(* Types.                                                                   *)

LEMMA HardCeilingTyped ==
  ASSUME NEW known \in BOOLEAN, NEW level \in Level, NEW foreground \in BOOLEAN
  PROVE  LET total == IF known THEN TotalPhys ELSE 0
         IN /\ HardCeiling[total][level][foreground]
                  = Hard(BudgetConfig(BudgetSettings), total, level, foreground)
            /\ HardCeiling[total][level][foreground] \in Nat
<1> DEFINE total == IF known THEN TotalPhys ELSE 0
<1>1. BudgetSettings \in Budgets /\ total \in {0, TotalPhys} /\ total \in Nat
  BY SettingsAssumption
<1> HIDE DEF total
<1>2. HardCeiling[total][level][foreground]
        = Hard(BudgetConfig(BudgetSettings), total, level, foreground)
  BY <1>1 DEF HardCeiling
<1>3. Rank(level) <= Rank(level)
  BY DEF Rank, Level
<1>4. Hard(BudgetConfig(BudgetSettings), total, level, foreground) \in Nat
  BY <1>1, <1>3, BudgetsAreOrdered
<1> QED BY <1>2, <1>4 DEF total

LEMMA CheckTyped ==
  ASSUME IInv, ManagerTypeOK', NEW load, NEW ratio, NEW busy \in BOOLEAN,
         Check(load, ratio, busy)
  PROVE  TypeOK'
<1> PICK S \in {Evicted(Background \ Advised, busy)} :
      /\ Asleep(S)
      /\ heavy' = heavy \ S
      /\ ceiling' = [t \in Tab |-> IF state[t] # "awake" \/ t \in S THEN 0
                                   ELSE Ceiling(t = current)']
  BY DEF Check
<1>1. current' = current /\ checked' = TRUE BY DEF Check
<1>2. state' \in [Tab -> State] BY DEF Asleep, IInv, TypeOK, State
<1>3. age' \in [Tab -> 0..Old] /\ away' \in [Tab -> 0..Old]
  BY WatchdogAssumption DEF Asleep, IInv, TypeOK, Old
<1>4. older' \subseteq Tab \X Tab /\ left' \subseteq Tab \X Tab /\ heavy' \subseteq Tab
  BY DEF Asleep, Without, IInv, TypeOK
<1>5. \A foreground \in BOOLEAN : Ceiling(foreground)' \in Nat
  BY HardCeilingTyped DEF Ceiling, ManagerTypeOK
<1>6. ceiling' \in [Tab -> Nat]
  BY <1>5, <1>1
<1> QED BY <1>1, <1>2, <1>3, <1>4, <1>6 DEF TypeOK, IInv

LEMMA TypeStep ==
  ASSUME IInv, ManagerInv', Next
  PROVE  TypeOK'
<1> USE DEF IInv
<1>0. ManagerTypeOK' BY DEF ManagerInv
<1>1. 0 \in 0..Old /\ Provisional \in Nat BY WatchdogAssumption DEF Old
<1> DEFINE Order == older' \subseteq Tab \X Tab /\ left' \subseteq Tab \X Tab
           Ages  == age' \in [Tab -> 0..Old] /\ away' \in [Tab -> 0..Old]
           Tabs  == /\ state' \in [Tab -> State] /\ ceiling' \in [Tab -> Nat]
                    /\ heavy' \subseteq Tab
<1>2. ASSUME NEW t \in Tab, Shown(t) PROVE Order /\ Ages /\ current' \in Tab
  <2>1. Order BY <1>2 DEF Shown, Stamped, Last, Without, UpWith, Background, TypeOK
  <2>2. Ages BY <1>2, <1>1 DEF Shown, Stamped, TypeOK
  <2> QED BY <2>1, <2>2, <1>2 DEF Shown
<1>3. ASSUME NEW t \in Tab, Started(t) PROVE Tabs
  BY <1>3, <1>1 DEF Started, TypeOK, State
<1>4. CASE \E t \in Tab : Open(t)
  BY <1>0, <1>2, <1>3, <1>4 DEF Open, TypeOK
<1>5. CASE \E t \in Tab : Select(t)
  <2> PICK t \in Tab : Select(t) BY <1>5
  <2>1. Tabs BY <1>3 DEF Select, TypeOK
  <2> QED BY <1>0, <1>2, <2>1 DEF Select, TypeOK
<1>6. CASE \E t \in Tab : Use(t)
  BY <1>0, <1>6 DEF Use, TypeOK
<1>7. CASE \E t \in Tab : Crash(t)
  <2> PICK t \in Tab : Crash(t) BY <1>7
  <2>1. CASE Started(t) BY <1>0, <1>3, <2>1 DEF Crash, TypeOK
  <2>2. CASE ~Started(t)
    <3>1. Tabs BY <2>2 DEF Crash, TypeOK, State
    <3> QED BY <1>0, <3>1 DEF Crash, TypeOK
  <2> QED BY <2>1, <2>2
<1>8. CASE \E t \in Tab : CloseOther(t)
  <2> PICK t \in Tab : CloseOther(t) BY <1>8
  <2>1. Tabs BY DEF CloseOther, TypeOK, State
  <2>2. Order BY DEF CloseOther, Without, TypeOK
  <2>3. Ages BY <1>1 DEF CloseOther, TypeOK
  <2> QED BY <1>0, <2>1, <2>2, <2>3 DEF CloseOther, TypeOK
<1>9. CASE \E t \in Tab : CloseCurrent(t)
  <2> PICK t \in Tab : CloseCurrent(t) BY <1>9
  <2>1. Tabs BY <1>1 DEF CloseCurrent, TypeOK, State
  <2>2. Order BY DEF CloseCurrent, Last, Without, UpWith, TypeOK
  <2>3. Ages BY <1>1 DEF CloseCurrent, TypeOK
  <2> QED BY <1>0, <2>1, <2>2, <2>3 DEF CloseCurrent, TypeOK
<1>10. CASE Navigate
  <2>1. Tabs BY <1>10, <1>3 DEF Navigate, TypeOK
  <2>2. Order BY <1>10 DEF Navigate, Stamped, Last, UpWith, TypeOK
  <2>3. Ages BY <1>10, <1>1 DEF Navigate, Stamped, TypeOK
  <2> QED BY <1>0, <1>10, <2>1, <2>2, <2>3 DEF Navigate, TypeOK
<1>11. CASE Retry
  BY <1>0, <1>3, <1>11 DEF Retry, TypeOK
<1>12. CASE Elapse
  <2>1. Ages BY <1>1, <1>12, WatchdogAssumption DEF Elapse, TypeOK, NoMore, Old
  <2> QED BY <1>0, <1>12, <2>1 DEF Elapse, TypeOK
<1>13. CASE \E load \in Load \cup {Failed}, ratio \in Ratio \cup {Failed}, busy \in BOOLEAN :
              Check(load, ratio, busy)
  BY <1>0, <1>13, CheckTyped
<1> QED BY <1>4, <1>5, <1>6, <1>7, <1>8, <1>9, <1>10, <1>11, <1>12, <1>13 DEF Next

-----------------------------------------------------------------------------
(* The steps.                                                               *)

LEMMA CheckInv ==
  ASSUME IInv, NEW load, NEW ratio, NEW busy \in BOOLEAN, TypeOK', Check(load, ratio, busy)
  PROVE  OrderInv' /\ AgeInv' /\ LeftIsPutToSleep'
<1> DEFINE S == Evicted(Background \ Advised, busy)
<1>1. Asleep(S) /\ current' = current /\ checked' = TRUE BY DEF Check
<1>2. S \subseteq Background BY DEF Evicted
<1>3. \A t \in Background \ S : age[t] < IdleRelaxed
  <2> DEFINE rest == Background \ Advised
             kept == rest \ Backstop(rest)
  <2>1. S = Background \ (kept \ Idle(kept, busy)) BY DEF Evicted
  <2> HIDE DEF kept, S
  <2> SUFFICES ASSUME NEW t \in Background \ S PROVE age[t] < IdleRelaxed
    OBVIOUS
  <2>2. t \in kept /\ t \notin Idle(kept, busy) BY <2>1
  <2>3. age[t] \in Nat BY DEF IInv, TypeOK, Background, Old
  <2> QED BY <2>2, <2>3, WatchdogAssumption DEF Idle
<1> HIDE DEF S
<1>4. /\ \A u \in Tab : Up(u)' <=> Up(u) /\ u \notin S
      /\ \A u \in Tab \ S : age'[u] = age[u] /\ away'[u] = away[u]
      /\ \A u \in S : age'[u] = 0 /\ away'[u] = 0
      /\ older' = Without(older, S) /\ left' = Without(left, S)
  BY <1>1, <1>2 DEF Asleep, Up, Background
<1>5. S \in SUBSET (Tab \ {current}) BY <1>2 DEF Background
<1>6. OrderInv' /\ AgeInv'
  BY <1>1, <1>4, <1>5, WithoutInv DEF TypeOK
<1>7. LeftIsPutToSleep'
  <2> SUFFICES ASSUME NEW t \in Tab, Up(t)', t # current'
               PROVE  away'[t] <= IdleRelaxed - 1
    BY <1>1 DEF LeftIsPutToSleep, Background
  <2>1. t \in Background \ S BY <1>1, <1>4 DEF Background
  <2>2. away[t] <= age[t] /\ age[t] < IdleRelaxed BY <1>3, <2>1 DEF IInv, AgeInv
  <2> QED BY <1>4, <2>1, <2>2, WatchdogAssumption DEF IInv, TypeOK, Old
<1> QED BY <1>6, <1>7

LEMMA ElapseInv ==
  ASSUME IInv, Elapse
  PROVE  OrderInv' /\ AgeInv' /\ LeftIsPutToSleep'
<1>1. /\ \A t \in Tab : Up(t)' <=> Up(t)
      /\ current' = current /\ older' = older /\ left' = left
      /\ checked /\ checked' = FALSE
  BY DEF Elapse, Up
<1>2. /\ \A t \in Tab : age'[t] = IF Up(t) THEN NoMore(age[t] + 1, Old) ELSE 0
      /\ \A t \in Tab : away'[t] = IF t = current THEN 0
                                    ELSE IF Up(t) THEN NoMore(away[t] + 1, Old) ELSE 0
  BY DEF Elapse, IInv, TypeOK
<1>3. OrderInv' BY <1>1 DEF IInv, OrderInv, TypeOK
<1>4. AgeInv'
  <2>1. \A t \in Tab : age[t] \in Nat /\ away[t] \in Nat
    BY DEF IInv, TypeOK, Old
  <2>2. \A t, u \in Tab : <<t, u>> \in older => Up(t) /\ Up(u) /\ age[u] <= age[t]
    BY DEF IInv, OrderInv, AgeInv
  <2>3. \A t, u \in Tab : <<t, u>> \in older' => age'[u] <= age'[t]
    BY <1>1, <1>2, <2>1, <2>2, WatchdogAssumption DEF NoMore, Old
  <2>4. \A t \in Tab : away'[t] <= age'[t]
    BY <1>2, <2>1, WatchdogAssumption DEF IInv, AgeInv, NoMore, Old
  <2>5. away'[current'] = 0 BY <1>1, <1>2 DEF IInv, TypeOK
  <2> QED BY <2>3, <2>4, <2>5 DEF AgeInv
<1>5. LeftIsPutToSleep'
  BY <1>1, <1>2, WatchdogAssumption DEF IInv, LeftIsPutToSleep, Background, TypeOK, NoMore, Old
<1> QED BY <1>3, <1>4, <1>5

LEMMA CloseOtherInv ==
  ASSUME IInv, TypeOK', NEW t \in Tab, CloseOther(t)
  PROVE  OrderInv' /\ AgeInv' /\ LeftIsPutToSleep'
<1>1. /\ \A u \in Tab : Up(u)' <=> Up(u) /\ u \notin {t}
      /\ \A u \in Tab \ {t} : age'[u] = age[u] /\ away'[u] = away[u]
      /\ \A u \in {t} : age'[u] = 0 /\ away'[u] = 0
      /\ older' = Without(older, {t}) /\ left' = Without(left, {t})
      /\ current' = current /\ checked' = checked /\ {t} \in SUBSET (Tab \ {current})
  BY DEF CloseOther, Up, IInv, TypeOK
<1>2. OrderInv' /\ AgeInv' BY <1>1, WithoutInv DEF TypeOK
<1>3. LeftIsPutToSleep' BY <1>1 DEF IInv, LeftIsPutToSleep, Background
<1> QED BY <1>2, <1>3

LEMMA CloseCurrentInv ==
  ASSUME IInv, TypeOK', NEW t \in Tab, CloseCurrent(t)
  PROVE  OrderInv' /\ AgeInv' /\ LeftIsPutToSleep'
<1> USE DEF IInv
<1>1. CASE \A u \in Tab \ {current} : state[u] = "closed"
  <2>1. /\ t = current /\ current' = t /\ checked' = checked
        /\ age' = [age EXCEPT ![t] = 0] /\ away' = [away EXCEPT ![t] = 0]
        /\ Up(t)' /\ \A u \in Tab : Up(u)' => u = t
        /\ left' = {p \in left : p[1] # t /\ p[2] # t}
    BY <1>1 DEF CloseCurrent, Up, Without, TypeOK
  <2>2. \A u, v \in Tab : <<u, v>> \notin older
    BY <1>1 DEF OrderInv, Up
  <2>3. older' = {} /\ left' = {}
    BY <1>1, <2>1, <2>2 DEF CloseCurrent, Last, Without, UpWith, Up, TypeOK, OrderInv
  <2>4. OrderInv' BY <2>1, <2>3 DEF OrderInv
  <2>5. AgeInv' BY <2>1, <2>3 DEF AgeInv, TypeOK, Old
  <2>6. LeftIsPutToSleep' BY <2>1 DEF LeftIsPutToSleep, Background
  <2> QED BY <2>4, <2>5, <2>6
<1>2. CASE ~\A u \in Tab \ {current} : state[u] = "closed"
  <2>1. /\ t # current /\ current' = t /\ checked' = checked
        /\ age' = [age EXCEPT ![current] = 0, ![t] = 0]
        /\ away' = [away EXCEPT ![current] = 0, ![t] = 0]
        /\ older' = Without(Last(older, UpWith(t), t), {current})
        /\ left' = Without(left, {current, t})
    BY <1>2 DEF CloseCurrent
  <2>2. /\ Up(t)' /\ state'[current] = "closed"
        /\ \A u \in Tab \ {t, current} : Up(u)' <=> Up(u)
    <3>1. /\ state'[t] = IF state[t] = "asleep" THEN "awake" ELSE state[t]
          /\ state[t] # "closed" /\ state'[current] = "closed"
          /\ \A u \in Tab \ {t, current} : state'[u] = state[u]
      BY <1>2, <2>1 DEF CloseCurrent, TypeOK
    <3>2. state[t] \in State BY DEF TypeOK
    <3>3. Up(t)' BY <3>1, <3>2 DEF Up, State
    <3> QED BY <3>1, <3>3 DEF Up
  <2>3. /\ \A u, v \in Tab : <<u, v>> \in older' <=>
              \/ <<u, v>> \in older /\ u # t /\ v # t /\ u # current /\ v # current
              \/ v = t /\ u # t /\ u # current /\ Up(u)
        /\ older' \subseteq Tab \X Tab
    BY <2>1 DEF Last, Without, UpWith, TypeOK
  <2>4. \A u, v \in Tab : <<u, v>> \in left' <=>
          <<u, v>> \in left /\ u # t /\ v # t /\ u # current /\ v # current
    BY <2>1 DEF Without
  <2>5. \A u, v \in Tab : <<u, v>> \in left <=>
          <<u, v>> \in older /\ u # current /\ v # current
    BY DEF OrderInv
  <2>6. left' = {p \in older' : p[1] # t /\ p[2] # t}
    <3>1. left' \subseteq Tab \X Tab BY DEF TypeOK
    <3> QED BY <2>3, <2>4, <2>5, <3>1
  <2>7. OrderInv'
    BY <2>1, <2>2, <2>3, <2>6 DEF OrderInv, Up
  <2>8. AgeInv'
    <3>1. \A u \in Tab : /\ age'[u] = IF u = current \/ u = t THEN 0 ELSE age[u]
                         /\ away'[u] = IF u = current \/ u = t THEN 0 ELSE away[u]
                         /\ age[u] \in Nat /\ away[u] \in Nat
      BY <2>1 DEF TypeOK, Old
    <3>2. \A u, v \in Tab : <<u, v>> \in older' => age'[v] <= age'[u]
      <4> SUFFICES ASSUME NEW u \in Tab, NEW v \in Tab, <<u, v>> \in older'
                   PROVE  age'[v] <= age'[u]
        OBVIOUS
      <4>1. CASE v = t BY <3>1, <4>1
      <4>2. CASE v # t
        <5>1. <<u, v>> \in older /\ u # t /\ v # t /\ u # current /\ v # current
          BY <2>3, <4>2
        <5>2. age[v] <= age[u] BY <5>1 DEF AgeInv
        <5> QED BY <3>1, <5>1, <5>2
      <4> QED BY <4>1, <4>2
    <3>3. \A u \in Tab : away'[u] <= age'[u]
      BY <3>1 DEF AgeInv
    <3> QED BY <2>1, <3>1, <3>2, <3>3 DEF AgeInv
  <2>9. LeftIsPutToSleep'
    BY <2>1, <2>2 DEF LeftIsPutToSleep, Background, TypeOK, Up
  <2> QED BY <2>7, <2>8, <2>9
<1> QED BY <1>1, <1>2

LEMMA NavigateInv ==
  ASSUME IInv, Navigate
  PROVE  OrderInv' /\ AgeInv' /\ LeftIsPutToSleep'
<1> USE DEF IInv
<1>1. /\ current' = current /\ checked' = checked /\ away' = away /\ left' = left
      /\ age' = [age EXCEPT ![current] = 0]
  BY DEF Navigate, Stamped
<1>2. \A u \in Tab : Up(u)' <=> Up(u)
  BY DEF Navigate, Started, Up, TypeOK
<1>3. older' = older
  <2>1. \A u \in Tab : <<u, current>> \in older <=> Up(u) /\ u # current
    BY DEF OrderInv, TypeOK
  <2>2. \A u, v \in Tab : <<u, v>> \in older' <=> <<u, v>> \in older
    BY <2>1 DEF Navigate, Stamped, Last, UpWith, OrderInv, TypeOK
  <2>3. older' \subseteq Tab \X Tab
    BY DEF Navigate, Stamped, Last, UpWith, TypeOK
  <2> QED BY <2>2, <2>3 DEF TypeOK
<1>4. OrderInv' BY <1>1, <1>2, <1>3 DEF OrderInv, TypeOK
<1>5. AgeInv'
  BY <1>1, <1>3 DEF AgeInv, OrderInv, TypeOK, Old
<1>6. LeftIsPutToSleep' BY <1>1, <1>2 DEF LeftIsPutToSleep, Background
<1> QED BY <1>4, <1>5, <1>6

LEMMA NextInv ==
  ASSUME IInv, Next
  PROVE  IInv' /\ (Steady \/ UNCHANGED manager)
<1>1. CASE \E load \in Load \cup {Failed}, ratio \in Ratio \cup {Failed}, busy \in BOOLEAN :
             Check(load, ratio, busy)
  <2> PICK load \in Load \cup {Failed}, ratio \in Ratio \cup {Failed}, busy \in BOOLEAN :
             Check(load, ratio, busy)
    BY <1>1
  <2>1. ManagerInv' /\ Steady
    BY SampleSteady DEF Check, IInv
  <2>2. TypeOK' BY <1>1, <2>1, TypeStep DEF Next
  <2>3. OrderInv' /\ AgeInv' /\ LeftIsPutToSleep' BY <2>2, CheckInv
  <2> QED BY <2>1, <2>2, <2>3 DEF IInv
<1>2. CASE ~\E load \in Load \cup {Failed}, ratio \in Ratio \cup {Failed}, busy \in BOOLEAN :
              Check(load, ratio, busy)
  <2>1. UNCHANGED manager
    BY <1>2 DEF Next, Open, Select, Use, Crash, CloseOther, CloseCurrent, Navigate, Retry, Elapse
  <2>2. ManagerInv'
    BY <2>1 DEF IInv, ManagerInv, ManagerTypeOK, manager
  <2>3. TypeOK' BY <2>2, TypeStep
  <2>4. OrderInv' /\ AgeInv' /\ LeftIsPutToSleep'
    <3>1. CASE \E t \in Tab : Open(t)
      <4> PICK t \in Tab : Open(t) BY <3>1
      <4>1. t # current BY DEF Open, IInv, OrderInv, Up
      <4>2. state' = [state EXCEPT ![t] = "awake"] BY DEF Open, Started
      <4>3. /\ state' \in [Tab -> State] /\ state'[t] \in {"awake", "crashed"}
            /\ \A u \in Tab \ {t} : state'[u] = state[u]
        BY <2>3, <4>2 DEF IInv, TypeOK
      <4> QED BY <4>1, <4>3, ShownInv DEF Open
    <3>2. CASE \E t \in Tab : Select(t)
      <4> PICK t \in Tab : Select(t) BY <3>2
      <4>1. /\ state' \in [Tab -> State] /\ state[t] \in State /\ state[t] # "closed"
            /\ state'[t] = IF state[t] = "asleep" THEN "awake" ELSE state[t]
            /\ \A u \in Tab \ {t} : state'[u] = state[u]
        BY <2>3 DEF Select, Started, IInv, TypeOK
      <4>2. state'[t] \in {"awake", "crashed"} BY <4>1 DEF State
      <4> QED BY <4>1, <4>2, ShownInv DEF Select
    <3>3. CASE \E t \in Tab : Use(t) \/ Crash(t)
      <4> PICK t \in Tab : Use(t) \/ Crash(t) BY <3>3
      <4>1. \A u \in Tab : Up(u)' <=> Up(u)
        BY DEF Use, Crash, Started, Up, IInv, TypeOK
      <4> QED BY <4>1, SameOrder DEF Use, Crash
    <3>4. CASE \E t \in Tab : CloseOther(t)
      BY <2>3, <3>4, CloseOtherInv
    <3>5. CASE \E t \in Tab : CloseCurrent(t)
      BY <2>3, <3>5, CloseCurrentInv
    <3>6. CASE Navigate
      BY <3>6, NavigateInv
    <3>7. CASE Retry
      <4>1. \A u \in Tab : Up(u)' <=> Up(u)
        BY <3>7 DEF Retry, Started, Up, IInv, TypeOK
      <4> QED BY <3>7, <4>1, SameOrder DEF Retry
    <3>8. CASE Elapse
      BY <3>8, ElapseInv
    <3> QED BY <1>2, <3>1, <3>2, <3>3, <3>4, <3>5, <3>6, <3>7, <3>8 DEF Next
  <2> QED BY <2>1, <2>2, <2>3, <2>4 DEF IInv
<1> QED BY <1>1, <1>2

LEMMA StutterInv ==
  ASSUME IInv, UNCHANGED vars
  PROVE  IInv'
<1>1. ManagerInv' /\ TypeOK'
  BY DEF IInv, vars, manager, tabs, ManagerInv, ManagerTypeOK, TypeOK
<1>2. \A u \in Tab : Up(u)' <=> Up(u) BY DEF Up, vars, tabs
<1>3. OrderInv' /\ AgeInv' /\ LeftIsPutToSleep'
  BY <1>2, SameOrder DEF vars, tabs
<1> QED BY <1>1, <1>3 DEF IInv

(* The invariant holds in every state of every behaviour.                   *)
THEOREM Invariance == Spec => []IInv
<1>1. Init => IInv BY InitInv
<1>2. IInv /\ [Next]_vars => IInv' BY NextInv, StutterInv
<1> QED BY <1>1, <1>2, PTL DEF Spec

(* Every variable of the watchdog and of the resource manager keeps its     *)
(* type, for any tabs and any configuration.                                *)
THEOREM TypeCorrect == Spec => []TypeOK
<1>1. IInv => TypeOK BY DEF IInv
<1> QED BY <1>1, Invariance, PTL

(* No tab in the background outlives IdleRelaxed minutes since it was left  *)
(* (the idle rule of checkMemoryBudget()).                                  *)
THEOREM BackgroundIsBounded == Spec => []LeftIsPutToSleep
<1>1. IInv => LeftIsPutToSleep BY DEF IInv
<1> QED BY <1>1, Invariance, PTL

(* The levels of pressure do not flap, whatever the configuration           *)
(* (applyRamHysteresis(), applyGpuHysteresis() after sanitizeRamConfig()    *)
(* and sanitizeGpuConfig()).                                                *)
THEOREM LevelsDoNotFlap == Spec => NoFlapping
<1>1. IInv /\ [Next]_vars => [Steady]_manager
  BY NextInv DEF vars
<1>2. Spec => [][Steady]_manager
  BY <1>1, Invariance, PTL DEF Spec
<1> QED BY <1>2 DEF NoFlapping, Steady

(* A check that puts a tab to sleep, unless it is over its budget, puts to  *)
(* sleep everything that was left before it (the backstop and the idle rule *)
(* of checkMemoryBudget(), by lastActive).                                  *)
THEOREM EvictionIsLRU == Spec => LongestLeftGoFirst
<1> DEFINE Fair ==
      \A t, u \in Background :
        /\ state'[t] = "asleep" /\ t \notin heavy
        /\ state'[u] = state[u]
        => <<t, u>> \in left
<1>1. ASSUME IInv, Next PROVE Fair
  <2> SUFFICES ASSUME NEW t \in Background, NEW u \in Background,
                      state'[t] = "asleep", t \notin heavy, state'[u] = state[u]
               PROVE  <<t, u>> \in left
    OBVIOUS
  <2>1. PICK load \in Load \cup {Failed}, ratio \in Ratio \cup {Failed}, busy \in BOOLEAN :
               Check(load, ratio, busy)
    <3>1. state[t] # "asleep" /\ t \in Tab /\ state \in [Tab -> State] /\ current \in Tab
      BY <1>1 DEF Background, Up, IInv, TypeOK
    <3>2. \A v \in Tab : ~(Open(v) \/ Select(v) \/ Use(v) \/ Crash(v) \/ CloseOther(v))
      BY <3>1 DEF Open, Select, Use, Crash, CloseOther, Started
    <3>3. \A v \in Tab : ~CloseCurrent(v)
      <4> SUFFICES ASSUME NEW v \in Tab, CloseCurrent(v) PROVE FALSE
        OBVIOUS
      <4>1. state'[t] \in {"closed", "awake", state[t]}
        BY <3>1 DEF CloseCurrent
      <4> QED BY <3>1, <4>1
    <3>4. ~Navigate /\ ~Retry /\ ~Elapse
      BY <3>1 DEF Navigate, Retry, Elapse, Started
    <3> QED BY <1>1, <3>2, <3>3, <3>4 DEF Next
  <2> DEFINE rest == Background \ Advised
             kept == rest \ Backstop(rest)
             S    == Evicted(rest, busy)
  <2>2. S = Background \ (kept \ Idle(kept, busy)) BY DEF Evicted
  <2>3. t \in S /\ u \notin S /\ t # u
    BY <2>1 DEF Check, Asleep, Background, Up
  <2>4. /\ u \in kept /\ u \notin Idle(kept, busy) /\ u \in rest
    BY <2>2, <2>3
  <2>5. "critical" \notin {ram', gpu'}
    BY <2>4 DEF Backstop
  <2>6. <<u, t>> \notin older
    <3>1. /\ age[t] \in Nat /\ age[u] \in Nat
          /\ <<u, t>> \in older => age[t] <= age[u]
      BY <1>1 DEF IInv, TypeOK, AgeInv, Background, Old
    <3>2. age[u] < IdleRelaxed /\ age[u] < (IF busy THEN IdleBusy ELSE IdleRelaxed)
      BY <2>4, <3>1, WatchdogAssumption DEF Idle
    <3>3. CASE t \in Advised
      <4>1. age[t] >= IdleRelaxed
        BY <2>5, <3>3 DEF Advised, Advice
      <4> QED BY <3>1, <3>2, <4>1, WatchdogAssumption
    <3>4. CASE t \in Backstop(rest)
      BY <2>4, <2>5, <3>4 DEF Backstop, Oldest
    <3>5. CASE t \in Idle(kept, busy)
      BY <3>1, <3>2, <3>5, WatchdogAssumption DEF Idle
    <3> QED BY <2>2, <2>3, <3>3, <3>4, <3>5
  <2> QED BY <1>1, <2>3, <2>6 DEF IInv, OrderInv, Background
<1>2. IInv /\ [Next]_vars => [Fair]_vars
  BY <1>1
<1> HIDE DEF Fair
<1>3. Spec => [][Fair]_vars
  BY <1>2, Invariance, PTL DEF Spec
<1> QED BY <1>3 DEF LongestLeftGoFirst, Fair

(* Under pressure that does not fall a check loosens no limit that a check  *)
(* has set in the background (makeRendererPolicy(), setMemoryCeilingKB()).  *)
LimitInv ==
  \A t \in Tab : state[t] = "awake" =>
    ceiling[t] = Provisional \/ \E foreground \in BOOLEAN : ceiling[t] = Ceiling(foreground)

(* Apart from a check, a limit stays, goes with its renderer, or is a new   *)
(* renderer's.                                                              *)
LEMMA OtherLimits ==
  ASSUME IInv, NEW t \in Tab,
         \/ UNCHANGED vars
         \/ \E v \in Tab : Open(v) \/ Select(v) \/ Use(v) \/ Crash(v) \/ CloseOther(v) \/ CloseCurrent(v)
         \/ Navigate \/ Retry \/ Elapse
  PROVE  /\ ceiling'[t] \in {0, Provisional, ceiling[t]}
         /\ state'[t] = "awake" =>
              ceiling'[t] = Provisional \/ (state[t] = "awake" /\ ceiling'[t] = ceiling[t])
<1> USE DEF IInv
<1>1. state \in [Tab -> State] /\ ceiling \in [Tab -> Nat] /\ current \in Tab BY DEF TypeOK
<1>2. ASSUME NEW v \in Tab, Started(v)
      PROVE  /\ ceiling'[t] \in {0, Provisional, ceiling[t]}
             /\ state'[t] = "awake" =>
                  ceiling'[t] = Provisional \/ (state[t] = "awake" /\ ceiling'[t] = ceiling[t])
  BY <1>1, <1>2 DEF Started
<1>3. CASE \E v \in Tab : Open(v) \/ Select(v)
  BY <1>1, <1>2, <1>3 DEF Open, Select
<1>4. CASE \E v \in Tab : Use(v) \/ Crash(v) \/ CloseOther(v)
  BY <1>1, <1>2, <1>4 DEF Use, Crash, CloseOther
<1>5. CASE \E v \in Tab : CloseCurrent(v)
  <2> PICK v \in Tab : CloseCurrent(v) BY <1>5
  <2> DEFINE all == \A u \in Tab \ {current} : state[u] = "closed"
  <2>1. /\ ceiling' = [ceiling EXCEPT ![current] = 0,
                         ![v] = IF all \/ state[v] = "asleep" THEN Provisional ELSE @]
        /\ state' = [state EXCEPT ![current] = "closed",
                       ![v] = IF all \/ @ = "asleep" THEN "awake" ELSE @]
        /\ IF all THEN v = current ELSE v # current /\ state[v] # "closed"
    BY DEF CloseCurrent
  <2> HIDE DEF all
  <2> QED BY <1>1, <2>1
<1>6. CASE Navigate \/ Retry
  BY <1>1, <1>2, <1>6 DEF Navigate, Retry
<1>7. CASE Elapse \/ UNCHANGED vars
  BY <1>7 DEF Elapse, vars, tabs
<1> QED BY <1>3, <1>4, <1>5, <1>6, <1>7

THEOREM LimitsTighten == Spec => PressureNeverLoosens
<1> DEFINE Tight ==
      sampled /\ sampled' /\ Rank(ram') >= Rank(ram) =>
        \A t \in Background :
          \/ Provisional \in {ceiling[t], ceiling'[t]}
          \/ ceiling'[t] <= ceiling[t]
<1>1. Init => LimitInv
  BY DEF Init, LimitInv
<1>2. ASSUME IInv, LimitInv, [Next]_vars PROVE LimitInv'
  <2>1. CASE \E load \in Load \cup {Failed}, ratio \in Ratio \cup {Failed}, busy \in BOOLEAN :
               Check(load, ratio, busy)
    <3> PICK load \in Load \cup {Failed}, ratio \in Ratio \cup {Failed}, busy \in BOOLEAN :
               Check(load, ratio, busy)
      BY <2>1
    <3> SUFFICES ASSUME NEW t \in Tab, state'[t] = "awake"
                 PROVE  \E foreground \in BOOLEAN : ceiling'[t] = Ceiling(foreground)'
      BY DEF LimitInv
    <3>1. current' = current BY DEF Check
    <3>2. ceiling'[t] = Ceiling(t = current)'
      BY DEF Check, Asleep
    <3>3. PICK foreground \in BOOLEAN : foreground = (t = current) OBVIOUS
    <3> QED BY <3>1, <3>2, <3>3
  <2>2. CASE ~\E load \in Load \cup {Failed}, ratio \in Ratio \cup {Failed}, busy \in BOOLEAN :
                Check(load, ratio, busy)
    <3>1. UNCHANGED manager
      BY <1>2, <2>2 DEF Next, Open, Select, Use, Crash, CloseOther, CloseCurrent, Navigate,
                        Retry, Elapse, vars
    <3>2. \A foreground \in BOOLEAN : Ceiling(foreground)' = Ceiling(foreground)
      BY <3>1 DEF Ceiling, manager
    <3>3. \A t \in Tab : state'[t] = "awake" =>
             ceiling'[t] = Provisional \/ (state[t] = "awake" /\ ceiling'[t] = ceiling[t])
      BY <1>2, <2>2, OtherLimits DEF Next
    <3> QED BY <1>2, <3>2, <3>3 DEF LimitInv
  <2> QED BY <2>1, <2>2
<1>3. ASSUME IInv, IInv', LimitInv, Next PROVE Tight
  <2> SUFFICES ASSUME sampled, sampled', Rank(ram') >= Rank(ram), NEW t \in Background,
                      ceiling[t] # Provisional, ceiling'[t] # Provisional
               PROVE  ceiling'[t] <= ceiling[t]
    OBVIOUS
  <2>1. t \in Tab /\ ceiling[t] \in Nat /\ ram \in Level /\ ram' \in Level
    BY <1>3 DEF IInv, TypeOK, ManagerTypeOK, Background
  <2>2. CASE \E load \in Load \cup {Failed}, ratio \in Ratio \cup {Failed}, busy \in BOOLEAN :
               Check(load, ratio, busy)
    <3> PICK load \in Load \cup {Failed}, ratio \in Ratio \cup {Failed}, busy \in BOOLEAN :
               Check(load, ratio, busy)
      BY <2>2
    <3>1. CASE ceiling'[t] = 0 BY <2>1, <3>1
    <3>2. CASE ceiling'[t] # 0
      <4>1. state[t] = "awake" /\ ceiling'[t] = Ceiling(FALSE)'
        BY <2>1, <3>2 DEF Check, Background
      <4>2. PICK foreground \in BOOLEAN : ceiling[t] = Ceiling(foreground)
        BY <1>3, <2>1, <4>1 DEF LimitInv
      <4>3. /\ ceiling[t] = Hard(BudgetConfig(BudgetSettings), TotalPhys, ram, foreground)
            /\ ceiling'[t] = Hard(BudgetConfig(BudgetSettings), TotalPhys, ram', FALSE)
        BY <2>1, <4>1, <4>2, HardCeilingTyped DEF Ceiling
      <4>4. Rank(ram) <= Rank(ram') BY <2>1 DEF Rank, Level
      <4> QED BY <2>1, <4>3, <4>4, BudgetsAreOrdered, SettingsAssumption
    <3> QED BY <3>1, <3>2
  <2>3. CASE ~\E load \in Load \cup {Failed}, ratio \in Ratio \cup {Failed}, busy \in BOOLEAN :
                Check(load, ratio, busy)
    <3>1. ceiling'[t] \in {0, Provisional, ceiling[t]}
      BY <1>3, <2>1, <2>3, OtherLimits DEF Next
    <3> QED BY <2>1, <3>1
  <2> QED BY <2>2, <2>3
<1> HIDE DEF Tight
<1>4. IInv /\ IInv' /\ LimitInv /\ [Next]_vars => [Tight]_vars
  BY <1>3
<1>5. Spec => [][Tight]_vars
  BY <1>1, <1>2, <1>4, Invariance, PTL DEF Spec
<1> QED BY <1>5 DEF PressureNeverLoosens, Tight
=============================================================================
