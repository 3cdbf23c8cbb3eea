SPECIFICATION Spec
CONSTANTS
  a = a
  b = b
  c = c
  Tab <- MCTab
  IdleBusy = 1
  IdleRelaxed = 2
  Provisional = 1536
  RamSettings <- MCRam
  GpuSettings <- MCGpu
  BudgetSettings <- MCBudget
  TotalPhys = 16384
  Load <- MCLoad
  Ratio <- MCRatio
SYMMETRY TabSymmetry
INVARIANTS TypeOK LeftIsPutToSleep
PROPERTIES NoFlapping LongestLeftGoFirst PressureNeverLoosens
