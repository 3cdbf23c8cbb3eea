SPECIFICATION Spec
CONSTANTS
  a = a
  b = b
  c = c
  Tab <- MCTab
SYMMETRY TabSymmetry
CONSTRAINT UntilDerailed
INVARIANTS TypeOK Aligned ForegroundIsLive AutoRetriesBounded
PROPERTIES SelectionKept ImplementsTabList
