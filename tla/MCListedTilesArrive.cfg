SPECIFICATION Spec
CONSTANTS
  white = white
  ink = ink
  H = 3
  T = 2
  Length = 4
  Fixed <- MCFixed
  Pixel <- MCPixel
  White = white
  Documents <- MCDocuments
  None = None
  MaxActs = 3
CHECK_DEADLOCK FALSE
INVARIANTS ListedTilesArrive
