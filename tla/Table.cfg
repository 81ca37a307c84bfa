SPECIFICATION Spec
CONSTANTS
  a = a
  b = b
  c = c
  Ids <- Three
  None = None
  MaxPlayers = 3
  BlindBet = 1
  Game = "FiveCardDraw"
  OverflowChecks = FALSE
  WordSize = 64
  JoinChips = {1}
  Amounts = {1}
  MaxChips = 3
SYMMETRY Symmetry
CONSTRAINT OneLateCall
INVARIANTS TypeOK NeverWedged RingConsistent OneRing NoDanglingPointer
PROPERTIES ChipsNeverCreated SeatOrderKept OnlyContendersWin
