SPECIFICATION Spec
CONSTANTS
  d1 = d1
  d2 = d2
  Doc <- MCDoc
  Blank = Blank
  Short = 1
  Long = 2
  MaxActs = 3
  MaxRefreshes = 1
  MaxReports = 1
SYMMETRY DocSymmetry
INVARIANTS TypeOK PlaceKept PlaceIsTold
