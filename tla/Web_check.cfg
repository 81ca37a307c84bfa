SPECIFICATION Spec
CONSTANTS
  a = a
  b = b
  c = c
  r1 = r1
  r2 = r2
  Ids <- Two
  None = None
  MaxPlayers = 3
  BlindBet = 1
  Game = "TexasHoldem"
  OverflowChecks = FALSE
  WordSize = 64
  Threads = {r1}
  JoinChips = {4}
  Amounts = {1, 3}
  MaxChips = 8
  MaxArrivals = 2
PROPERTY CheckMatchesBet
