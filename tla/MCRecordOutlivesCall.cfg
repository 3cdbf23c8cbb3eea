SPECIFICATION Spec
CONSTANTS
  main = main
  child = child
  a1 = a1
  a2 = a2
  Frame <- MCFrame
  Main = main
  Addr <- MCAddr
  MaxDocs = 3
  MaxTimers = 1
  MaxEntries = 2
SYMMETRY AddrSymmetry
INVARIANTS RecordOutlivesCall
