SPECIFICATION MCSpec
CONSTANTS
  a = a
  b = b
  c = c
  d = d
  e = e
  texasholdem = texasholdem
  None = None
  Ids = {a, b, c}
  FinalRound = 1
  MaxGames = 2
  MaxThreads = 3
SYMMETRY Symmetry
CONSTRAINT FewChips
INVARIANTS RowsFollowTables WalletComesBack GamesRecorded
PROPERTY RoundsKept
CHECK_DEADLOCK FALSE
