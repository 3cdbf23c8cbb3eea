-------------------------- MODULE ResourceManager --------------------------
(***************************************************************************)
(* Memory pressure and the budgets that follow from it (ResourceManager,   *)
(* src/host/resourcemanager.cpp).                                          *)
(*                                                                         *)
(* sample() turns the memory load of the machine and the use of the GPU's  *)
(* memory, in percent, into two levels of pressure; policyFor() turns the  *)
(* level of the RAM into a budget for a renderer, in MiB.  The GPU never   *)
(* enters a budget.  Whatever a host sets as configuration is sanitized    *)
(* first.  Factors are percentages; a budget is rounded down to a MiB.     *)
(*                                                                         *)
(* The configuration is set once, before the first sample.  The callbacks  *)
(* and reset(), which the browser does not use, are left out.              *)
(***************************************************************************)
EXTENDS Integers

CONSTANTS
  RamSettings,   (* setRamPolicyConfig(): thresholds of the memory load    *)
  GpuSettings,   (* setGpuPolicyConfig()                                   *)
  BudgetSettings,(* setRamPolicyConfig(): what a renderer may use          *)
  TotalPhys,     (* memory of the machine, MiB                             *)
  Load,          (* memory loads the system reports                        *)
  Ratio          (* use of the GPU memory, percent of its budget           *)

Thresholds == [warning : Nat, critical : Nat, band : Nat]

Budgets == [baseline : Nat, reference : Nat, scaleMin : Nat, scaleMax : Nat,
            min : Nat, max : Nat, fraction : Nat,
            warning : Nat, critical : Nat, fgWarning : Nat, fgCritical : Nat,
            ceiling : Nat, minHard : Nat, maxHard : Nat]

ASSUME SettingsAssumption ==
  /\ RamSettings \in Thresholds /\ GpuSettings \in Thresholds
  /\ BudgetSettings \in Budgets
  /\ TotalPhys \in Nat /\ Load \subseteq Nat /\ Ratio \subseteq Nat

AtLeast(v, low) == IF v < low THEN low ELSE v
FaultNoMore(v, high) == v                                    \* no limit

NoMore(v, high) == IF v > high THEN high ELSE v
Clamp(v, low, high) == IF v < low THEN low ELSE NoMore(v, high)

(* sanitizeRamConfig() and sanitizeGpuConfig().                             *)

RamConfig(s) ==
  LET warning == Clamp(s.warning, 1, 98)
  IN [warning  |-> warning,
      critical |-> NoMore(AtLeast(s.critical, warning + 1), 99),
      band     |-> NoMore(NoMore(s.band, 50), warning)]

GpuConfig(s) ==
  LET warning == Clamp(s.warning, 5, 99)
  IN [warning  |-> warning,
      critical |-> Clamp(s.critical, warning + 1, 100),
      band     |-> NoMore(Clamp(s.band, 0, 50), warning)]

BudgetConfig(s) ==
  LET scaleMin == Clamp(s.scaleMin, 10, 1600)
      min      == AtLeast(s.min, 32)
      warning  == Clamp(s.warning, 5, 100)
      critical == NoMore(Clamp(s.critical, 5, 100), warning)
      fgWarn   == Clamp(s.fgWarning, warning, 100)
      minHard  == AtLeast(s.minHard, 64)
  IN [baseline   |-> AtLeast(s.baseline, 32),
      reference  |-> AtLeast(s.reference, 512),
      scaleMin   |-> scaleMin,
      scaleMax   |-> Clamp(s.scaleMax, scaleMin, 1600),
      min        |-> min,
      max        |-> AtLeast(s.max, min),
      fraction   |-> Clamp(s.fraction, 1, 100),
      warning    |-> warning,
      critical   |-> critical,
      fgWarning  |-> fgWarn,
      fgCritical |-> NoMore(Clamp(s.fgCritical, critical, 100), fgWarn),
      ceiling    |-> Clamp(s.ceiling, 100, 800),
      minHard    |-> minHard,
      maxHard    |-> AtLeast(s.maxHard, minHard)]

-----------------------------------------------------------------------------
(* The levels, and how a new measurement moves one: up at once, down only   *)
(* when it has fallen by the band.                                          *)

Level == {"normal", "warning", "critical"}

Rank(level) == CASE level = "normal" -> 0 [] level = "warning" -> 1
                 [] level = "critical" -> 2

Raw(measured, cfg) ==
  IF measured >= cfg.critical THEN "critical"
  ELSE IF measured >= cfg.warning THEN "warning" ELSE "normal"

FaultApplied(level, measured, cfg) == Raw(measured, cfg)     \* no band

Applied(level, measured, cfg) ==
  IF Rank(Raw(measured, cfg)) >= Rank(level) THEN Raw(measured, cfg)
  ELSE IF measured <= cfg.warning - cfg.band THEN "normal"
  ELSE IF level = "critical" /\ measured <= cfg.critical - cfg.band THEN "warning"
  ELSE level

(* Soft and hard limit of a renderer at a level of the RAM.  total is 0     *)
(* when the memory of the machine is not known.                             *)

Base(b, total) ==
  LET scale == Clamp((total * 100) \div b.reference, b.scaleMin, b.scaleMax)
      share == (total * b.fraction) \div 100
      scaled == (b.baseline * scale) \div 100
  IN Clamp(IF total = 0 THEN b.baseline
           ELSE IF share > 0 THEN NoMore(scaled, share) ELSE scaled, b.min, b.max)

Factor(b, level, foreground) ==
  CASE level = "normal"   -> 100
    [] level = "warning"  -> IF foreground THEN b.fgWarning ELSE b.warning
    [] level = "critical" -> IF foreground THEN b.fgCritical ELSE b.critical

Soft(b, total, level, foreground) ==
  Clamp((Base(b, total) * Factor(b, level, foreground)) \div 100, b.min, b.max)

Hard(b, total, level, foreground) ==
  LET soft == Soft(b, total, level, foreground)
  IN AtLeast(Clamp((soft * b.ceiling) \div 100, b.minHard, b.maxHard), soft)

(* adviseBackground() of a renderer that is neither shown nor suspended.    *)
Advice(level, idleTooLong, overSoft) ==
  IF level = "critical" \/ idleTooLong \/ (level = "warning" /\ overSoft) THEN "suspend"
  ELSE IF level = "warning" \/ overSoft THEN "trim" ELSE "keep"

-----------------------------------------------------------------------------
VARIABLES
  ram, gpu,         (* ramPressure, gpuPressure                            *)
  sampled,          (* latest.ram.valid                                    *)
  ramTurn, gpuTurn  (* history: the last change of each level              *)

manager == <<ram, gpu, sampled, ramTurn, gpuTurn>>

Failed == -1        (* a query the system did not answer                   *)

Turn == [way : {"none", "up", "down"}, at : Nat]

Turned(turn, old, new, measured) ==
  IF new = old THEN turn
  ELSE [way |-> IF Rank(new) > Rank(old) THEN "up" ELSE "down", at |-> measured]

ManagerTypeOK ==
  /\ ram \in Level /\ gpu \in Level /\ sampled \in BOOLEAN
  /\ ramTurn \in Turn /\ gpuTurn \in Turn

ManagerInit ==
  /\ ram = "normal" /\ gpu = "normal" /\ sampled = FALSE
  /\ ramTurn = [way |-> "none", at |-> 0]
  /\ gpuTurn = [way |-> "none", at |-> 0]

RamNext ==
  [level \in Level |-> [load \in 0..100 |-> Applied(level, load, RamConfig(RamSettings))]]

GpuNext ==
  [level \in Level |->
     [ratio \in Ratio \cup {0} |-> Applied(level, ratio, GpuConfig(GpuSettings))]]

(* A load that cannot be read keeps the level of the RAM; the GPU counts as *)
(* unused when its memory cannot be queried.                                *)
MeasuredGpu(ratio) == IF ratio = Failed THEN 0 ELSE ratio

Sample(load, ratio) ==
  /\ sampled' = (load # Failed)
  /\ ram' = IF load = Failed THEN ram ELSE RamNext[ram][NoMore(load, 100)]
  /\ gpu' = GpuNext[gpu][MeasuredGpu(ratio)]
  /\ ramTurn' = Turned(ramTurn, ram, ram', NoMore(load, 100))
  /\ gpuTurn' = Turned(gpuTurn, gpu, gpu', MeasuredGpu(ratio))

(* The hard limit that policyFor() answers with the latest sample.          *)
HardCeiling ==
  [total \in {0, TotalPhys} |-> [level \in Level |-> [foreground \in BOOLEAN |->
     Hard(BudgetConfig(BudgetSettings), total, level, foreground)]]]

FaultCeiling(foreground) ==                       \* the worse of both levels
  HardCeiling[IF sampled THEN TotalPhys ELSE 0]
    [IF Rank(gpu) > Rank(ram) THEN gpu ELSE ram][foreground]

Ceiling(foreground) == HardCeiling[IF sampled THEN TotalPhys ELSE 0][ram][foreground]

-----------------------------------------------------------------------------
(* A level that went up comes down only once the measurement has fallen by  *)
(* the band since, and one that came down goes up again only once it has    *)
(* risen by the band (the hysteresis of applyRamHysteresis() and            *)
(* applyGpuHysteresis(), "that 8% band prevents flapping"; a GPU query that *)
(* fails counts as a measurement of 0).                                     *)
Reversal(old, new, band) ==
  /\ old.way = "up" /\ new.way = "down" => old.at - new.at >= band
  /\ old.way = "down" /\ new.way = "up" => new.at - old.at >= band

NoFlapping ==
  [][/\ Reversal(ramTurn, ramTurn', RamConfig(RamSettings).band)
     /\ Reversal(gpuTurn, gpuTurn', GpuConfig(GpuSettings).band)]_manager
=============================================================================
