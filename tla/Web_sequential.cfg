SPECIFICATION Spec
CONSTANTS
  a = a
  b = b
  c = c
  r1 = r1
  r2 = r2
  Ids <- Three
  None = None
  MaxPlayers = 3
  BlindBet = 1
  Game = "TexasHoldem"
  OverflowChecks = FALSE
  WordSize = 64
  Threads = {r1}
  JoinChips = {1, 3}
  Amounts = {1, 2}
  MaxChips = 5
  MaxArrivals = 3
SYMMETRY Symmetry
INVARIANTS BettorInHand RestIsClean ActsInTurn
PROPERTY ChipsConserved
