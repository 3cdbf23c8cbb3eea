SPECIFICATION Spec
CONSTANTS
  a = a
  b = b
  c = c
  Tab <- MCTab
INVARIANTS CrashStaysInItsCell
