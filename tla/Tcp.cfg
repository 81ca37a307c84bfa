SPECIFICATION FairSpec
CONSTANTS
  a = a
  b = b
  Ids <- Two
  None = None
  MaxPlayers = 3
  BlindBet = 1
  Game = "FiveCardDraw"
  OverflowChecks = FALSE
  WordSize = 64
  JoinChips = {1}
  Amounts = {1}
  Verbs <- EachSends
  MaxChips = 2
  MaxArrivals = 2
  Breaks <- EachMakes
  Expires = TRUE
INVARIANT RingsSound
PROPERTY LeaverIsOut
CHECK_DEADLOCK FALSE
