SPECIFICATION FairSpec
CONSTANTS
  a = a
  r = r
  Pages = {a}
  Rivals = {r}
  None = None
  Backlog = 1
  MaxHands = 2
  MaxMoves = 4
  MaxFailures = 1
PROPERTIES ShowsLatest KeptIfShown
