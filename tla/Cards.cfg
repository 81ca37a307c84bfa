SPECIFICATION DealingSpec
CONSTANTS
  a = a
  b = b
  c = c
  None = None
  Players <- Three
  DeckSize = 18
SYMMETRY Symmetry
CONSTRAINT NobodyConfirms
INVARIANTS NoCardTwice Secret HandsMatchRound
PROPERTIES DealsCards ShowdownIsComplete
