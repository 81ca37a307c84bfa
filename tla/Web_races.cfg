SPECIFICATION FairSpec
CONSTANTS
  a = a
  b = b
  c = c
  r1 = r1
  r2 = r2
  Ids <- Two
  None = None
  MaxPlayers = 3
  BlindBet = 1
  Game = "FiveCardDraw"
  OverflowChecks = FALSE
  WordSize = 64
  Threads = {r1, r2}
  JoinChips = {1}
  Amounts = {}
  MaxChips = 2
  MaxArrivals = 3
PROPERTIES ImplementsTable TurnMoves HandStarts
