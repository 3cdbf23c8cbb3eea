SPECIFICATION FairSpec
CONSTANTS
  a = a
  b = b
  c = c
  Url <- MCUrl
  Redirect <- MCRedirect
  Nothing = Nothing
  Blank = Blank
  ErrorPage = ErrorPage
  MaxActs = 3
CHECK_DEADLOCK FALSE
INVARIANTS TypeOK AddressIsDocument NothingForgotten
PROPERTIES AdoptedIsNavigated
