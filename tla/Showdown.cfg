SPECIFICATION ShowdownSpec
CONSTANTS
  Deals <- AllDeals
  a = a
  b = b
  c = c
  d = d
  None = None
  MaxBet = 3
  MaxDead = 1
INVARIANTS RankedRight UsedCardsMakeTheHand NoTies BetterHandWins MarksTellApart
PROPERTY PaysByTheChip
CHECK_DEADLOCK FALSE
